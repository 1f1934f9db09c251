------------------------ MODULE KeyActivationProofs -------------------------
(* What the steps of SubDays and KeyActivation keep, for any subscriptions,  *)
(* workers, keys, numbers of days and number of faults: rows and entries     *)
(* stay, the Cache is ahead of the rows by the days of the calls between the *)
(* two, and a key adds its days once.                                       *)
EXTENDS KeyActivation, TLAPS

(* What the steps of add_days do to a call.                                *)

AddDaysStep(r) == AddDaysMem(r) \/ AddDaysDb(r) \/ AddDaysDbFails(r)

\* A call is idle or works for a subscription.
LEMMA CallShape ==
  ASSUME NEW x \in {NoCall} \cup Calls
  PROVE  /\ x.at # "idle" => x \in Calls
         /\ x = NoCall <=> x.at = "idle"
BY DEF NoCall, Calls

\* AddDaysMem, AddDaysDb and AddDaysDbFails move their own call on and keep its
\* subscription.
LEMMA CallMoves ==
  ASSUME call \in [Callers -> {NoCall} \cup Calls], NEW r \in Callers,
         AddDaysStep(r)
  PROVE  /\ call' \in [Callers -> {NoCall} \cup Calls]
         /\ \A q \in Callers \ {r} : call'[q] = call[q]
         /\ call[r] \in Calls /\ call'[r] \in Calls
         /\ call[r].at \in {"mem", "db"}
         /\ call'[r].sub = call[r].sub
         /\ call'[r].at = "updated" <=> AddDaysDb(r)
<1>1. call[r] \in Calls /\ call[r].at \in {"mem", "db"}
  BY CallShape, Zenon DEF AddDaysStep, AddDaysMem, AddDaysDb, AddDaysDbFails
<1>2. PICK at \in {"missing", "db", "updated", "error"} :
        /\ call' = [call EXCEPT ![r].at = at]
        /\ at = "updated" <=> AddDaysDb(r)
  <2>1. CASE AddDaysMem(r)
    BY <2>1, Zenon DEF AddDaysMem, AddDaysDb
  <2>2. CASE AddDaysDb(r)
    BY <2>2, Zenon DEF AddDaysDb
  <2>3. CASE AddDaysDbFails(r)
    BY <2>3, Zenon DEF AddDaysDbFails, AddDaysDb
  <2>. QED
    BY <2>1, <2>2, <2>3, Zenon DEF AddDaysStep
<1>3. call'[r] = [call[r] EXCEPT !.at = at] /\ call'[r] \in Calls
  BY <1>1, <1>2, Zenon DEF Calls
<1>. QED
  BY <1>1, <1>2, <1>3, Zenon DEF Calls


-----------------------------------------------------------------------------
(* The rows and the entries of the Cache.                                   *)

\* What has an entry, or is about to, has a row; rows are never deleted; and a sync
\* that has read them has read the rows of all entries, for it holds the write lock.
SInv ==
  /\ now \in Nat \ {0}
  /\ row \in [Subs -> Int] /\ cache \in [Subs -> Int] /\ new \in [Subs -> Int]
  /\ sync \in {NoSync} \cup [at : {"read"}, rows : [Subs -> Int], over : SUBSET Subs]
  /\ \A s \in Subs : new[s] # Absent \/ cache[s] # Absent => row[s] # Absent
  /\ sync.at = "read" => \A s \in Subs : /\ cache[s] # Absent => sync.rows[s] # Absent
                                         /\ sync.rows[s] # Absent => row[s] # Absent

EntriesStay == \A s \in Subs : /\ cache[s] # Absent => cache'[s] # Absent
                               /\ row[s] # Absent => row'[s] # Absent

\* A step outside the store: no date changes, and no call gets to its write or past it.
Elsewhere ==
  /\ UNCHANGED <<now, row, cache, new, sync, history>>
  /\ \A k \in Callers : call'[k] = call[k] \/ (call[k].at # "db" /\ call'[k].at # "db")

\* The steps of SubDays, a crash aside.
StoreStep ==
  \/ Tick \/ SyncStep
  \/ \E s \in Subs, date \in Nat : AddSubDb(s, date)
  \/ \E s \in Subs : AddSubMem(s) \/ Update(s)
  \/ \E k \in Callers : AddDaysStep(k)
  \/ Elsewhere

\* add_sub, add_days, update_sub and get_state_from_db keep SInv, every entry and
\* every row.
LEMMA StoreKeeps ==
  ASSUME SInv, call \in [Callers -> {NoCall} \cup Calls], StoreStep
  PROVE  SInv' /\ EntriesStay
<1> USE DEF SInv, EntriesStay, Absent, MemFree
<1>1. CASE Tick
  BY <1>1 DEF Tick
<1>2. CASE SyncRead
  <2>1. /\ sync' = [at |-> "read", rows |-> row, over |-> {s \in Subs : InFlight(s)}]
        /\ now' = now /\ row' = row /\ cache' = cache /\ new' = new
    BY <1>2, Zenon DEF SyncRead
  <2>2. /\ sync' \in [at : {"read"}, rows : [Subs -> Int], over : SUBSET Subs]
        /\ sync'.rows = row
    BY <2>1, Zenon
  <2>. QED
    BY <2>1, <2>2, Zenon
<1>3. CASE SyncInstall
  <2>1. /\ sync.rows \in [Subs -> Int] /\ cache' = sync.rows
        /\ sync' = NoSync /\ sync'.at = "idle"
        /\ now' = now /\ row' = row /\ new' = new
    BY <1>3 DEF SyncInstall, NoSync
  <2>2. \A s \in Subs : /\ cache[s] # Absent => sync.rows[s] # Absent
                        /\ sync.rows[s] # Absent => row[s] # Absent
    BY <1>3, Zenon DEF SyncInstall
  <2>. QED
    BY <2>1, <2>2, Zenon
<1>4. CASE SyncFails
  BY <1>4, Zenon DEF SyncFails, NoSync
<1>5. ASSUME NEW s \in Subs, NEW date \in Nat, AddSubDb(s, date)
      PROVE  SInv' /\ EntriesStay
  BY <1>5 DEF AddSubDb
<1>6. ASSUME NEW s \in Subs, AddSubMem(s)
      PROVE  SInv' /\ EntriesStay
  BY <1>6 DEF AddSubMem
<1>7. ASSUME NEW s \in Subs, NEW days \in Shifts, UpdateSub(s, days)
      PROVE  SInv' /\ EntriesStay
  <2>1. days \in Int /\ cache[s] + days \in Nat
    BY <1>7, SubDaysAssumption DEF UpdateSub
  <2>. QED
    BY <1>7, <2>1 DEF UpdateSub
<1>8. ASSUME NEW s \in Subs, NEW days \in Shifts, UpdateSubFails(s, days)
      PROVE  SInv' /\ EntriesStay
  <2>1. days \in Int /\ cache[s] + days \in Nat /\ row[s] # Absent
    BY <1>8, SubDaysAssumption DEF UpdateSubFails, NoDate
  <2>. QED
    BY <1>8, <2>1 DEF UpdateSubFails
<1>9. ASSUME NEW k \in Callers, AddDaysStep(k)
      PROVE  SInv' /\ EntriesStay
  <2>1. call[k].sub \in Subs /\ call[k].days \in Nat
    BY <1>9, CallMoves, SubDaysAssumption, Zenon DEF Calls
  <2>2. Later(cache[call[k].sub]) + call[k].days \in Nat
    BY <2>1 DEF Later
  <2>3. Later(row[call[k].sub]) + call[k].days \in Nat
    BY <2>1 DEF Later
  <2>4. CASE AddDaysMem(k)
    BY <2>1, <2>2, <2>4 DEF AddDaysMem
  <2>5. CASE AddDaysDb(k)
    BY <2>1, <2>3, <2>5 DEF AddDaysDb
  <2>6. CASE AddDaysDbFails(k)
    BY <2>6, Zenon DEF AddDaysDbFails
  <2>. QED
    BY <1>9, <2>4, <2>5, <2>6, Zenon DEF AddDaysStep
<1>10. CASE Elsewhere
  BY <1>10, Zenon DEF Elsewhere
<1>. QED
  BY <1>1, <1>2, <1>3, <1>4, <1>5, <1>6, <1>7, <1>8, <1>9, <1>10, Zenon
  DEF StoreStep, SyncStep, Update

\* add_days begins or returns.
LEMMA CallElsewhere ==
  ASSUME NEW r \in Callers, \A q \in Callers \ {r} : call'[q] = call[q],
         call[r].at # "db", call'[r].at # "db",
         UNCHANGED <<now, row, cache, new, sync, history>>
  PROVE  Elsewhere
BY Zenon DEF Elsewhere

-----------------------------------------------------------------------------
(* The dates.  While add_days calls are between the Cache and the row, the  *)
(* Cache is ahead of the row by their days together.  A sum over the calls  *)
(* would have to be reasoned about by induction; instead the invariant says *)
(* that there is a function which gives every set of calls the sum of its   *)
(* days, and each step that begins or ends a call changes that function.    *)

\* f[K] is the sum of d[k] over k \in K.
IsTotal(d, f) ==
  /\ f \in [SUBSET Callers -> Nat]
  /\ \A K \in SUBSET Callers : \A k \in K : f[K] = f[K \ {k}] + d[k]
  /\ \A K \in SUBSET Callers : (\A k \in K : d[k] = 0) => f[K] = 0

\* The days each call has added to the Cache's date of s and not yet to the row's.
Pending(s) == [k \in Callers |-> IF call[k].at = "db" /\ call[k].sub = s
                                   THEN call[k].days ELSE 0]

\* A date after n more days, as add_days adds them.
Ahead(date, n) == IF n = 0 THEN date ELSE Later(date) + n

\* The Cache's date, unless astray, is the row's and the pending days.
Balanced(s) ==
  \E f \in [SUBSET Callers -> Nat] :
    /\ IsTotal(Pending(s), f)
    /\ cache[s] # Absent /\ s \notin astray => cache[s] = Ahead(row[s], f[Callers])

\* What a sync has read is the row, unless a call was at its write: it keeps the
\* write lock, so no call gets there.
ReadIsRow ==
  sync.at = "read" => \A s \in Subs \ sync.over :
                        ~InFlight(s) /\ sync.rows[s] \in {Absent, row[s]}

\* add_sub's row has its first date until the Cache has an entry, which a call needs
\* to get to its write.
FirstDate ==
  /\ \A s \in Subs : new[s] # Absent /\ cache[s] = Absent => row[s] = new[s]
  /\ \A s \in Subs : InFlight(s) => cache[s] # Absent

DInv ==
  /\ due \in [Subs -> Int]
  /\ ReadIsRow /\ FirstDate
  /\ \A s \in Subs : Balanced(s)
  /\ RowMatchesLedger

\* Without a call at its write nothing is pending.
LEMMA NothingPending ==
  ASSUME NEW s, NEW f, IsTotal(Pending(s), f), ~InFlight(s)
  PROVE  f[Callers] = 0
BY Zenon DEF IsTotal, Pending, InFlight

\* Where no call is at its write, the sum is zero.
LEMMA NoTotal ==
  ASSUME NEW d, \A k \in Callers : d[k] = 0
  PROVE  IsTotal(d, [K \in SUBSET Callers |-> 0])
BY DEF IsTotal

\* The two dates agree where no call is at its write and nothing went astray.
LEMMA DatesAgree ==
  ASSUME DInv, NEW s \in Subs, cache[s] # Absent, s \notin astray, ~InFlight(s)
  PROVE  cache[s] = row[s]
<1>1. PICK f \in [SUBSET Callers -> Nat] :
        IsTotal(Pending(s), f) /\ cache[s] = Ahead(row[s], f[Callers])
  BY Zenon DEF DInv, Balanced
<1>2. f[Callers] = 0
  BY <1>1, NothingPending, Zenon
<1>. QED
  BY <1>1, <1>2, Zenon DEF Ahead

\* The steps of SubDays keep DInv, whatever request takes them.
LEMMA DatesKept ==
  SInv /\ DInv /\ call \in [Callers -> {NoCall} \cup Calls] /\ (StoreStep \/ Restart)
    => DInv'
\* One of the numbers changes.
<1>TotalChanges. ASSUME NEW d \in [Callers -> Nat], NEW f, IsTotal(d, f),
             NEW r \in Callers, NEW n \in Nat
      PROVE  \E g \in [SUBSET Callers -> Nat] :
               /\ IsTotal([d EXCEPT ![r] = n], g)
               /\ g[Callers] = f[Callers] - d[r] + n
               /\ d[r] <= f[Callers]
  <2>. USE <1>TotalChanges
  <2> DEFINE e == [d EXCEPT ![r] = n]
             g == [K \in SUBSET Callers |-> IF r \in K THEN f[K] - d[r] + n ELSE f[K]]
  <2>1. e[r] = n /\ \A k \in Callers \ {r} : e[k] = d[k]
    BY Zenon
  <2>2. ASSUME NEW K \in SUBSET Callers
        PROVE  /\ f[K] \in Nat /\ g[K] \in Nat
               /\ r \in K => f[K] = f[K \ {r}] + d[r] /\ d[r] <= f[K] /\ g[K] = f[K] - d[r] + n
    <3>1. f[K] \in Nat /\ f[K \ {r}] \in Nat /\ d[r] \in Nat
      BY Zenon DEF IsTotal
    <3>2. r \in K => f[K] = f[K \ {r}] + d[r]
      BY Zenon DEF IsTotal
    <3>3. g[K] = IF r \in K THEN f[K] - d[r] + n ELSE f[K]
      BY Zenon
    <3>. HIDE DEF g
    <3>. QED
      BY <3>1, <3>2, <3>3
  <2>3. g \in [SUBSET Callers -> Nat]
    BY <2>2, Zenon
  <2>4. ASSUME NEW K \in SUBSET Callers, NEW k \in K
        PROVE  g[K] = g[K \ {k}] + e[k]
    <3>1. f[K] = f[K \ {k}] + d[k] /\ f[K] \in Nat /\ f[K \ {k}] \in Nat /\ K \ {k} \in SUBSET Callers
      BY Zenon DEF IsTotal
    <3>2. CASE k = r
      BY <2>1, <3>1, <3>2
    <3>3. CASE k # r
      BY <2>1, <3>1, <3>3
    <3>. QED
      BY <3>2, <3>3, Zenon
  <2>5. ASSUME NEW K \in SUBSET Callers, \A k \in K : e[k] = 0
        PROVE  g[K] = 0
    <3>1. CASE r \in K
      <4>1. n = 0 /\ \A k \in K \ {r} : d[k] = 0
        BY <2>1, <2>5, <3>1, Zenon
      <4>2. f[K \ {r}] = 0
        BY <4>1, Zenon DEF IsTotal
      <4>3. d[r] \in Nat
        BY Zenon
      <4>4. f[K] = f[K \ {r}] + d[r] /\ g[K] = f[K] - d[r] + n
        BY <2>2, <3>1, Zenon
      <4>. HIDE DEF g
      <4>. QED
        BY <4>1, <4>2, <4>3, <4>4
    <3>2. CASE r \notin K
      BY <2>1, <2>5, <3>2, Zenon DEF IsTotal
    <3>. QED
      BY <3>1, <3>2, Zenon
  <2>6. IsTotal(e, g)
    <3> HIDE DEF e, g
    <3>. QED
      BY <2>3, <2>4, <2>5, Zenon DEF IsTotal
  <2>7. g[Callers] = f[Callers] - d[r] + n /\ d[r] <= f[Callers]
    <3>1. Callers \in SUBSET Callers
      BY Zenon
    <3>. HIDE DEF g
    <3>. QED
      BY <2>2, <3>1, Zenon
  <2>. QED
    BY <2>3, <2>6, <2>7, Zenon

\* Pending days are numbers.
<1>PendingType. ASSUME call \in [Callers -> {NoCall} \cup Calls], NEW s
      PROVE  Pending(s) \in [Callers -> Nat]
  <2>. USE <1>PendingType
  <2>1. \A k \in Callers : call[k].at = "db" => call[k].days \in Nat
    BY CallShape, SubDaysAssumption, Zenon DEF Calls
  <2>. QED
    BY <2>1, Zenon DEF Pending

\* Calls that do not get to their write or past it.
<1>PendingStays. ASSUME \A k \in Callers : call'[k] = call[k] \/ (call[k].at # "db" /\ call'[k].at # "db"),
             NEW s
      PROVE  Pending(s)' = Pending(s) /\ InFlight(s)' = InFlight(s)
  <2>. USE <1>PendingStays
  <2>1. \A k \in Callers : (call'[k].at = "db" /\ call'[k].sub = s) <=> (call[k].at = "db" /\ call[k].sub = s)
    BY Zenon
  <2>2. InFlight(s)' = InFlight(s)
    BY <2>1, Zenon DEF InFlight
  <2>3. \A k \in Callers : call[k].at = "db" => call'[k].days = call[k].days
    BY Zenon
  <2>. QED
    BY <2>1, <2>2, <2>3, Zenon DEF Pending

\* A step that leaves the dates of s alone.
<1>BalancedKept. ASSUME NEW s, Balanced(s), Pending(s)' = Pending(s), now' = now,
             row'[s] = row[s], cache'[s] = cache[s], s \in astray => s \in astray'
      PROVE  Balanced(s)'
  <2>. USE <1>BalancedKept
  <2>1. PICK f \in [SUBSET Callers -> Nat] :
          /\ IsTotal(Pending(s), f)
          /\ cache[s] # Absent /\ s \notin astray => cache[s] = Ahead(row[s], f[Callers])
    BY Zenon DEF Balanced
  <2>2. IsTotal(Pending(s)', f)
    BY <2>1, Zenon
  <2>3. cache'[s] # Absent /\ s \notin astray' => cache'[s] = Ahead(row[s], f[Callers])'
    BY <2>1, Zenon DEF Ahead, Later
  <2>. QED
    BY <2>2, <2>3, Zenon DEF Balanced

\* A step after which s is astray, or its two dates equal with no call at its write.
<1>BalancedSettled. ASSUME NEW s, Balanced(s), Pending(s)' = Pending(s),
             cache'[s] # Absent /\ s \notin astray' => ~InFlight(s) /\ cache'[s] = row'[s]
      PROVE  Balanced(s)'
  <2>. USE <1>BalancedSettled
  <2>1. PICK f \in [SUBSET Callers -> Nat] : IsTotal(Pending(s), f)
    BY Zenon DEF Balanced
  <2>2. IsTotal(Pending(s)', f)
    BY <2>1, Zenon
  <2>3. ~InFlight(s) => f[Callers] = 0
    BY <2>1, NothingPending, Zenon
  <2>4. cache'[s] # Absent /\ s \notin astray' => cache'[s] = Ahead(row[s], f[Callers])'
    BY <2>3, Zenon DEF Ahead
  <2>. QED
    BY <2>2, <2>4, Zenon DEF Balanced

\* A step of call k, which works for s: n days of it are pending now.
<1>BalancedMoves. ASSUME call \in [Callers -> {NoCall} \cup Calls],
             NEW s, NEW k \in Callers, NEW n \in Nat, Balanced(s),
             Pending(s)' = [Pending(s) EXCEPT ![k] = n],
             \A T, U \in Nat :
               /\ Pending(s)[k] <= T /\ U = T - Pending(s)[k] + n
               /\ cache[s] # Absent /\ s \notin astray => cache[s] = Ahead(row[s], T)
               /\ cache'[s] # Absent /\ s \notin astray'
               => cache'[s] = Ahead(row[s], U)'
      PROVE  Balanced(s)'
  <2>. USE <1>BalancedMoves
  <2>0. Pending(s) \in [Callers -> Nat]
    BY <1>PendingType, Zenon
  <2>1. PICK f \in [SUBSET Callers -> Nat] :
          /\ IsTotal(Pending(s), f)
          /\ cache[s] # Absent /\ s \notin astray => cache[s] = Ahead(row[s], f[Callers])
    BY Zenon DEF Balanced
  <2>2. PICK g \in [SUBSET Callers -> Nat] :
          /\ IsTotal([Pending(s) EXCEPT ![k] = n], g)
          /\ g[Callers] = f[Callers] - Pending(s)[k] + n
          /\ Pending(s)[k] <= f[Callers]
    BY <2>0, <2>1, <1>TotalChanges, Zenon
  <2>3. IsTotal(Pending(s)', g)
    BY <2>2, Zenon
  <2>4. f[Callers] \in Nat /\ g[Callers] \in Nat
    BY Zenon
  <2>5. cache'[s] # Absent /\ s \notin astray' => cache'[s] = Ahead(row[s], g[Callers])'
    BY <2>1, <2>2, <2>4, Zenon
  <2>. QED
    BY <2>3, <2>5, Zenon DEF Balanced

\* Call k, which works for s, gets to its write or past it.
<1>PendingMoves. ASSUME NEW k \in Callers, NEW s, call[k].sub = s,
             \A q \in Callers \ {k} : call'[q] = call[q],
             call'[k].sub = s, call'[k].days = call[k].days
      PROVE  /\ \A u : u # s => Pending(u)' = Pending(u) /\ InFlight(u)' = InFlight(u)
             /\ Pending(s)' = [Pending(s) EXCEPT ![k] = IF call'[k].at = "db" THEN call[k].days ELSE 0]
             /\ Pending(s)[k] = IF call[k].at = "db" THEN call[k].days ELSE 0
             /\ InFlight(s)' => InFlight(s) \/ call'[k].at = "db"
  <2>. USE <1>PendingMoves
  <2>1. ASSUME NEW u, u # s
        PROVE  Pending(u)' = Pending(u) /\ InFlight(u)' = InFlight(u)
    <3>1. \A q \in Callers : (call'[q].at = "db" /\ call'[q].sub = u) <=> (call[q].at = "db" /\ call[q].sub = u)
      BY <2>1, Zenon
    <3>2. \A q \in Callers : call[q].sub = u => call'[q].days = call[q].days
      BY <2>1, Zenon
    <3>3. InFlight(u)' = InFlight(u)
      BY <3>1, Zenon DEF InFlight
    <3>. QED
      BY <3>1, <3>2, <3>3, Zenon DEF Pending
  <2>2. Pending(s)' = [Pending(s) EXCEPT ![k] = IF call'[k].at = "db" THEN call[k].days ELSE 0]
    BY Zenon DEF Pending
  <2>3. Pending(s)[k] = IF call[k].at = "db" THEN call[k].days ELSE 0
    BY Zenon DEF Pending
  <2>4. InFlight(s)' => InFlight(s) \/ call'[k].at = "db"
    BY Zenon DEF InFlight
  <2>. QED
    BY <2>1, <2>2, <2>3, <2>4, Zenon

\* add_days, the Cache.
<1>AddDaysMemDates. ASSUME SInv, DInv, call \in [Callers -> {NoCall} \cup Calls],
             NEW k \in Callers, AddDaysMem(k)
      PROVE  DInv'
  <2>. USE <1>AddDaysMemDates
  <2>1. PICK s \in Subs : s = call[k].sub
    BY CallMoves, Zenon DEF AddDaysStep, Calls
  <2>2. call[k] \in Calls /\ call[k].days \in Nat
    BY CallMoves, SubDaysAssumption, Zenon DEF AddDaysStep, Calls
  <2>3. /\ now' = now /\ row' = row /\ new' = new /\ sync' = sync
        /\ due' = due /\ astray' = astray /\ spoiled' = spoiled
        /\ call[k].at = "mem" /\ sync.at = "idle"
    BY Zenon DEF AddDaysMem, history, MemFree
  <2>4. ReadIsRow' /\ RowMatchesLedger' /\ due' \in [Subs -> Int]
    BY <2>3, Zenon DEF DInv, ReadIsRow, RowMatchesLedger
  <2>5. CASE cache[s] = Absent
    <3>1. cache' = cache /\ call' = [call EXCEPT ![k].at = "missing"]
      BY <2>1, <2>5, Zenon DEF AddDaysMem
    <3>2. \A q \in Callers : call'[q] = call[q] \/ (call[q].at # "db" /\ call'[q].at # "db")
      BY <2>2, <2>3, <3>1, Zenon DEF Calls
    <3>3. \A u \in Subs : Pending(u)' = Pending(u) /\ InFlight(u)' = InFlight(u)
      BY <3>2, <1>PendingStays, Zenon
    <3>4. \A u \in Subs : Balanced(u)'
      BY <2>3, <3>1, <3>3, <1>BalancedKept, Zenon DEF DInv
    <3>5. FirstDate'
      BY <2>3, <3>1, <3>3, Zenon DEF DInv, FirstDate
    <3>. QED
      BY <2>4, <3>4, <3>5, Zenon DEF DInv
  <2>6. CASE cache[s] # Absent
    <3>1. /\ call' = [call EXCEPT ![k].at = "db"]
          /\ cache' = [cache EXCEPT ![s] = IF Later(cache[s]) + call[k].days > now
                                             THEN Later(cache[s]) + call[k].days ELSE cache[s]]
      BY <2>1, <2>6, Zenon DEF AddDaysMem
    <3>2. /\ \A u \in Subs : u # s => Pending(u)' = Pending(u) /\ InFlight(u)' = InFlight(u)
          /\ Pending(s)' = [Pending(s) EXCEPT ![k] = call[k].days]
          /\ Pending(s)[k] = 0
      <4>1. /\ \A q \in Callers \ {k} : call'[q] = call[q]
            /\ call[k].sub = s /\ call'[k].sub = s /\ call'[k].days = call[k].days /\ call'[k].at = "db"
        BY <2>1, <2>2, <3>1, Zenon DEF Calls
      <4>2. /\ \A u : u # s => Pending(u)' = Pending(u) /\ InFlight(u)' = InFlight(u)
            /\ Pending(s)' = [Pending(s) EXCEPT ![k] = IF call'[k].at = "db" THEN call[k].days ELSE 0]
            /\ Pending(s)[k] = IF call[k].at = "db" THEN call[k].days ELSE 0
            /\ InFlight(s)' => InFlight(s) \/ call'[k].at = "db"
        BY <4>1, <1>PendingMoves
      <4>. QED
        BY <2>3, <4>1, <4>2, Zenon
    <3>3. /\ \A u \in Subs : u # s => cache'[u] = cache[u]
          /\ cache'[s] = IF Later(cache[s]) + call[k].days > now
                           THEN Later(cache[s]) + call[k].days ELSE cache[s]
          /\ row[s] \in Int /\ cache[s] \in Int /\ now \in Nat \ {0}
      BY <3>1, Zenon DEF SInv
    <3>4. Balanced(s)'
      <4>1. ASSUME NEW T \in Nat, NEW U \in Nat, U = T - Pending(s)[k] + call[k].days,
                   cache[s] # Absent /\ s \notin astray => cache[s] = Ahead(row[s], T),
                   s \notin astray'
            PROVE  cache'[s] = Ahead(row[s], U)'
        <5>1. cache[s] = Ahead(row[s], T) /\ U = T + call[k].days
          BY <2>2, <2>3, <2>6, <3>2, <4>1
        <5>. QED
          BY <2>2, <2>3, <3>3, <5>1 DEF Ahead, Later
      <4>2. \A T, U \in Nat :
              /\ Pending(s)[k] <= T /\ U = T - Pending(s)[k] + call[k].days
              /\ cache[s] # Absent /\ s \notin astray => cache[s] = Ahead(row[s], T)
              /\ cache'[s] # Absent /\ s \notin astray'
              => cache'[s] = Ahead(row[s], U)'
        BY <4>1, Zenon
      <4>3. Balanced(s) /\ call[k].days \in Nat
        BY <2>2, Zenon DEF DInv
      <4>. QED
        BY <3>2, <4>2, <4>3, <1>BalancedMoves, Zenon
    <3>5. \A u \in Subs : u # s => Balanced(u)'
      BY <2>3, <3>2, <3>3, <1>BalancedKept, Zenon DEF DInv
    <3>6. cache'[s] # Absent
      BY <2>2, <2>6, <3>3 DEF Absent, Later
    <3>7. FirstDate'
      BY <2>3, <3>2, <3>3, <3>6, Zenon DEF DInv, FirstDate
    <3>. QED
      BY <2>4, <3>4, <3>5, <3>7, Zenon DEF DInv
  <2>. QED
    BY <2>5, <2>6, Zenon

\* add_days, the row.
<1>AddDaysDbDates. ASSUME SInv, DInv, call \in [Callers -> {NoCall} \cup Calls],
             NEW k \in Callers, AddDaysDb(k)
      PROVE  DInv'
  <2>. USE <1>AddDaysDbDates
  <2>1. PICK s \in Subs : s = call[k].sub
    BY CallMoves, Zenon DEF AddDaysStep, Calls
  <2>2. call[k] \in Calls /\ call[k].days \in Nat
    BY CallMoves, SubDaysAssumption, Zenon DEF AddDaysStep, Calls
  <2>3. /\ now' = now /\ cache' = cache /\ new' = new /\ sync' = sync /\ spoiled' = spoiled
        /\ call[k].at = "db" /\ call' = [call EXCEPT ![k].at = "updated"]
        /\ row' = [row EXCEPT ![s] = Later(row[s]) + call[k].days]
        /\ due' = [due EXCEPT ![s] = IF s \in spoiled THEN Absent ELSE Later(due[s]) + call[k].days]
        /\ astray' = IF row[s] <= now /\ call[k].days = 0 THEN astray \cup {s} ELSE astray
    BY <2>1, Zenon DEF AddDaysDb, Enter
  <2>4. /\ \A u \in Subs : u # s => /\ Pending(u)' = Pending(u) /\ InFlight(u)' = InFlight(u)
                                    /\ row'[u] = row[u] /\ due'[u] = due[u]
        /\ Pending(s)' = [Pending(s) EXCEPT ![k] = 0]
        /\ Pending(s)[k] = call[k].days
        /\ InFlight(s)' => InFlight(s)
    <3>1. /\ \A q \in Callers \ {k} : call'[q] = call[q]
          /\ call[k].sub = s /\ call'[k].sub = s /\ call'[k].days = call[k].days /\ call'[k].at = "updated"
      BY <2>1, <2>2, <2>3, Zenon DEF Calls
    <3>2. /\ \A u : u # s => Pending(u)' = Pending(u) /\ InFlight(u)' = InFlight(u)
          /\ Pending(s)' = [Pending(s) EXCEPT ![k] = IF call'[k].at = "db" THEN call[k].days ELSE 0]
          /\ Pending(s)[k] = IF call[k].at = "db" THEN call[k].days ELSE 0
          /\ InFlight(s)' => InFlight(s) \/ call'[k].at = "db"
      BY <3>1, <1>PendingMoves, Zenon
    <3>3. \A u \in Subs : u # s => row'[u] = row[u] /\ due'[u] = due[u]
      BY <2>3, Zenon DEF SInv, DInv
    <3>. QED
      BY <2>3, <3>1, <3>2, <3>3, Zenon
  <2>5. InFlight(s) /\ cache[s] # Absent
    BY <2>1, <2>3, Zenon DEF InFlight, DInv, FirstDate
  <2>6. /\ row[s] \in Int /\ due[s] \in Int /\ cache[s] \in Int /\ now \in Nat \ {0}
        /\ row'[s] = Later(row[s]) + call[k].days
        /\ due'[s] = IF s \in spoiled THEN Absent ELSE Later(due[s]) + call[k].days
    BY <2>3, Zenon DEF SInv, DInv
  <2>7. due' \in [Subs -> Int]
    BY <2>2, <2>3, <2>6 DEF DInv, Absent, Later
  <2>8. ReadIsRow'
    BY <2>3, <2>4, <2>5, Zenon DEF DInv, ReadIsRow
  <2>9. FirstDate'
    BY <2>3, <2>4, <2>5, Zenon DEF DInv, FirstDate
  <2>10. RowMatchesLedger'
    BY <2>3, <2>4, <2>6, Zenon DEF DInv, RowMatchesLedger
  <2>11. Balanced(s)'
    <3>1. ASSUME NEW T \in Nat, NEW U \in Nat, Pending(s)[k] <= T, U = T - Pending(s)[k] + 0,
                 cache[s] # Absent /\ s \notin astray => cache[s] = Ahead(row[s], T),
                 s \notin astray'
          PROVE  cache'[s] = Ahead(row[s], U)'
      <4>1. s \notin astray /\ ~(row[s] <= now /\ call[k].days = 0)
        BY <2>3, <3>1, Zenon
      <4>2. cache[s] = Ahead(row[s], T) /\ call[k].days <= T /\ U = T - call[k].days
        BY <2>2, <2>4, <2>5, <3>1, <4>1
      <4>. QED
        BY <2>2, <2>3, <2>6, <4>1, <4>2 DEF Ahead, Later
    <3>2. \A T, U \in Nat :
            /\ Pending(s)[k] <= T /\ U = T - Pending(s)[k] + 0
            /\ cache[s] # Absent /\ s \notin astray => cache[s] = Ahead(row[s], T)
            /\ cache'[s] # Absent /\ s \notin astray'
            => cache'[s] = Ahead(row[s], U)'
      BY <3>1, Zenon
    <3>3. Balanced(s) /\ 0 \in Nat
      BY Zenon DEF DInv
    <3>. QED
      BY <2>4, <3>2, <3>3, <1>BalancedMoves, Zenon
  <2>12. \A u \in Subs : u # s => Balanced(u)'
    BY <2>3, <2>4, <1>BalancedKept, Zenon DEF DInv
  <2>. QED
    BY <2>7, <2>8, <2>9, <2>10, <2>11, <2>12, Zenon DEF DInv

\* add_days, a database error.
<1>AddDaysDbFailsDates. ASSUME SInv, DInv, call \in [Callers -> {NoCall} \cup Calls],
             NEW k \in Callers, AddDaysDbFails(k)
      PROVE  DInv'
  <2>. USE <1>AddDaysDbFailsDates
  <2>1. PICK s \in Subs : s = call[k].sub
    BY CallMoves, Zenon DEF AddDaysStep, Calls
  <2>2. call[k] \in Calls
    BY CallMoves, Zenon DEF AddDaysStep
  <2>3. /\ now' = now /\ row' = row /\ cache' = cache /\ new' = new /\ sync' = sync
        /\ due' = due /\ spoiled' = spoiled /\ astray' = astray \cup {s}
        /\ call' = [call EXCEPT ![k].at = "error"]
    BY <2>1, Zenon DEF AddDaysDbFails
  <2>4. /\ \A u \in Subs : u # s => Pending(u)' = Pending(u) /\ InFlight(u)' = InFlight(u)
        /\ Pending(s)' = [Pending(s) EXCEPT ![k] = 0]
        /\ InFlight(s)' => InFlight(s)
    <3>1. /\ \A q \in Callers \ {k} : call'[q] = call[q]
          /\ call[k].sub = s /\ call'[k].sub = s /\ call'[k].days = call[k].days /\ call'[k].at = "error"
      BY <2>1, <2>2, <2>3, Zenon DEF Calls
    <3>2. /\ \A u : u # s => Pending(u)' = Pending(u) /\ InFlight(u)' = InFlight(u)
          /\ Pending(s)' = [Pending(s) EXCEPT ![k] = 0]
          /\ InFlight(s)' => InFlight(s)
      BY <2>1, <2>3, <3>1, <1>PendingMoves
    <3>. QED
      BY <3>1, <3>2, Zenon
  <2>5. ReadIsRow' /\ FirstDate' /\ RowMatchesLedger' /\ due' \in [Subs -> Int]
    BY <2>3, <2>4, Zenon DEF DInv, ReadIsRow, FirstDate, RowMatchesLedger
  <2>6. Balanced(s)'
    <3>1. s \in astray'
      BY <2>3, Zenon
    <3>2. \A T, U \in Nat :
            /\ Pending(s)[k] <= T /\ U = T - Pending(s)[k] + 0
            /\ cache[s] # Absent /\ s \notin astray => cache[s] = Ahead(row[s], T)
            /\ cache'[s] # Absent /\ s \notin astray'
            => cache'[s] = Ahead(row[s], U)'
      BY <3>1, Zenon
    <3>3. Balanced(s) /\ 0 \in Nat
      BY Zenon DEF DInv
    <3>. QED
      BY <2>4, <3>2, <3>3, <1>BalancedMoves, Zenon
  <2>7. \A u \in Subs : u # s => Balanced(u)'
    BY <2>3, <2>4, <1>BalancedKept, Zenon DEF DInv
  <2>. QED
    BY <2>5, <2>6, <2>7, Zenon DEF DInv

\* A day goes by, or a step is taken outside the store: no date changes, and a day
\* goes by only while no call is at its write.
<1>IdleDates. ASSUME DInv, Tick \/ Elsewhere
      PROVE  DInv'
  <2>. USE <1>IdleDates
  <2>1. /\ row' = row /\ cache' = cache /\ new' = new /\ sync' = sync
        /\ due' = due /\ astray' = astray /\ spoiled' = spoiled
    BY Zenon DEF Tick, Elsewhere, history
  <2>2. \A k \in Callers : call'[k] = call[k] \/ (call[k].at # "db" /\ call'[k].at # "db")
    BY Zenon DEF Tick, Elsewhere
  <2>3. \A u \in Subs : Pending(u)' = Pending(u) /\ InFlight(u)' = InFlight(u)
    BY <2>2, <1>PendingStays, Zenon
  <2>4. ReadIsRow' /\ FirstDate' /\ RowMatchesLedger' /\ due' \in [Subs -> Int]
    BY <2>1, <2>3, Zenon DEF DInv, ReadIsRow, FirstDate, RowMatchesLedger
  <2>5. \A u \in Subs : Balanced(u)'
    <3>1. CASE Elsewhere
      <4>1. now' = now
        BY <3>1, Zenon DEF Elsewhere
      <4>. QED
        BY <2>1, <2>3, <4>1, <1>BalancedKept, Zenon DEF DInv
    <3>2. CASE Tick
      <4> SUFFICES ASSUME NEW u \in Subs PROVE Balanced(u)'
        BY Zenon
      <4>1. ~InFlight(u)
        BY <3>2, Zenon DEF Tick
      <4>2. PICK f \in [SUBSET Callers -> Nat] :
              /\ IsTotal(Pending(u), f)
              /\ cache[u] # Absent /\ u \notin astray => cache[u] = Ahead(row[u], f[Callers])
        BY Zenon DEF DInv, Balanced
      <4>3. f[Callers] = 0
        BY <4>1, <4>2, NothingPending, Zenon
      <4>4. cache[u] # Absent /\ u \notin astray => cache[u] = row[u]
        BY <4>2, <4>3, Zenon DEF Ahead
      <4>. QED
        BY <2>1, <2>3, <4>1, <4>4, <1>BalancedSettled, Zenon DEF DInv
    <3>. QED
      BY <3>1, <3>2, Zenon
  <2>. QED
    BY <2>4, <2>5, Zenon DEF DInv

\* get_state_from_db.
<1>SyncDates. ASSUME SInv, DInv, SyncStep
      PROVE  DInv'
  <2>. USE <1>SyncDates
  <2>1. /\ now' = now /\ row' = row /\ new' = new /\ call' = call
        /\ due' = due /\ spoiled' = spoiled
    BY Zenon DEF SyncStep, SyncRead, SyncInstall, SyncFails, history
  <2>2. \A u \in Subs : Pending(u)' = Pending(u) /\ InFlight(u)' = InFlight(u)
    BY <2>1, <1>PendingStays, Zenon
  <2>3. RowMatchesLedger' /\ due' \in [Subs -> Int]
    BY <2>1, Zenon DEF DInv, RowMatchesLedger
  <2>4. CASE SyncRead \/ SyncFails
    <3>1. cache' = cache /\ astray' = astray
      BY <2>4, Zenon DEF SyncRead, SyncFails, history
    <3>2. FirstDate'
      BY <2>1, <2>2, <3>1, Zenon DEF DInv, FirstDate
    <3>3. ReadIsRow'
      <4>1. CASE SyncFails
        BY <4>1, Zenon DEF SyncFails, NoSync, ReadIsRow
      <4>2. CASE SyncRead
        <5>1. sync'.rows = row /\ sync'.over = {u \in Subs : InFlight(u)}
          BY <4>2, Zenon DEF SyncRead
        <5>. QED
          BY <2>1, <2>2, <5>1, Zenon DEF ReadIsRow
      <4>. QED
        BY <2>4, <4>1, <4>2, Zenon
    <3>4. \A u \in Subs : Balanced(u)'
      BY <2>1, <2>2, <3>1, <1>BalancedKept, Zenon DEF DInv
    <3>. QED
      BY <2>3, <3>2, <3>3, <3>4, Zenon DEF DInv
  <2>5. CASE SyncInstall
    <3>1. cache' = sync.rows /\ astray' = sync.over /\ sync' = NoSync /\ sync.at = "read"
      BY <2>5, Zenon DEF SyncInstall
    <3>2. ReadIsRow'
      BY <3>1, Zenon DEF ReadIsRow, NoSync
    <3>3. \A u \in Subs : cache[u] # Absent => cache'[u] # Absent
      BY <3>1, Zenon DEF SInv
    <3>4. FirstDate'
      BY <2>1, <2>2, <3>3, Zenon DEF DInv, FirstDate
    <3>5. \A u \in Subs : u \notin astray' => ~InFlight(u) /\ cache'[u] \in {Absent, row[u]}
      BY <3>1, Zenon DEF DInv, ReadIsRow
    <3>6. \A u \in Subs : Balanced(u)'
      BY <2>1, <2>2, <3>5, <1>BalancedSettled, Zenon DEF DInv
    <3>. QED
      BY <2>3, <3>2, <3>4, <3>6, Zenon DEF DInv
  <2>. QED
    BY <2>4, <2>5, Zenon DEF SyncStep

\* add_sub, the INSERT: there was no row, hence no entry.
<1>AddSubDbDates. ASSUME SInv, DInv, NEW s \in Subs, NEW date \in Nat, AddSubDb(s, date)
      PROVE  DInv'
  <2>. USE <1>AddSubDbDates
  <2>1. /\ now' = now /\ cache' = cache /\ call' = call /\ sync' = sync
        /\ astray' = astray /\ spoiled' = spoiled
        /\ row[s] = Absent
        /\ row' = [row EXCEPT ![s] = date] /\ new' = [new EXCEPT ![s] = date]
        /\ due' = [due EXCEPT ![s] = date]
    BY Zenon DEF AddSubDb
  <2>2. \A u \in Subs : Pending(u)' = Pending(u) /\ InFlight(u)' = InFlight(u)
    BY <2>1, <1>PendingStays, Zenon
  <2>3. /\ row'[s] = date /\ new'[s] = date /\ due'[s] = date /\ due' \in [Subs -> Int]
        /\ \A u \in Subs : u # s => row'[u] = row[u] /\ new'[u] = new[u] /\ due'[u] = due[u]
    BY <2>1 DEF SInv, DInv
  <2>4. cache[s] = Absent
    BY <2>1, Zenon DEF SInv
  <2>5. ReadIsRow'
    <3>1. sync.at = "read" => sync.rows[s] = Absent
      BY <2>1, Zenon DEF SInv
    <3>. QED
      BY <2>1, <2>2, <2>3, <3>1, Zenon DEF DInv, ReadIsRow
  <2>6. FirstDate' /\ RowMatchesLedger'
    BY <2>1, <2>2, <2>3, Zenon DEF DInv, FirstDate, RowMatchesLedger
  <2>7. Balanced(s)'
    BY <2>1, <2>2, <2>4, <1>BalancedSettled, Zenon DEF DInv
  <2>8. \A u \in Subs : u # s => Balanced(u)'
    BY <2>1, <2>2, <2>3, <1>BalancedKept, Zenon DEF DInv
  <2>. QED
    BY <2>3, <2>5, <2>6, <2>7, <2>8, Zenon DEF DInv

\* add_sub, the Cache: its date is the row's if there was no entry; it replaces an
\* entry with the same date, or s is astray.
<1>AddSubMemDates. ASSUME SInv, DInv, NEW s \in Subs, AddSubMem(s)
      PROVE  DInv'
  <2>. USE <1>AddSubMemDates
  <2>1. /\ now' = now /\ row' = row /\ call' = call /\ sync' = sync
        /\ due' = due /\ spoiled' = spoiled
        /\ new[s] # Absent /\ sync.at = "idle"
        /\ cache' = [cache EXCEPT ![s] = new[s]] /\ new' = [new EXCEPT ![s] = Absent]
        /\ astray' = IF cache[s] \in {Absent, new[s]} THEN astray ELSE astray \cup {s}
    BY Zenon DEF AddSubMem, MemFree
  <2>2. \A u \in Subs : Pending(u)' = Pending(u) /\ InFlight(u)' = InFlight(u)
    BY <2>1, <1>PendingStays, Zenon
  <2>3. /\ cache'[s] = new[s] /\ new'[s] = Absent
        /\ \A u \in Subs : u # s => cache'[u] = cache[u] /\ new'[u] = new[u]
    BY <2>1, Zenon DEF SInv
  <2>4. ReadIsRow' /\ FirstDate' /\ RowMatchesLedger' /\ due' \in [Subs -> Int]
    BY <2>1, <2>2, <2>3 DEF DInv, ReadIsRow, FirstDate, RowMatchesLedger
  <2>5. Balanced(s)'
    <3>1. CASE cache[s] = Absent
      BY <2>1, <2>2, <2>3, <3>1, <1>BalancedSettled, Zenon DEF DInv, FirstDate
    <3>2. CASE cache[s] = new[s]
      BY <2>1, <2>2, <2>3, <3>2, <1>BalancedKept, Zenon DEF DInv
    <3>3. CASE cache[s] \notin {Absent, new[s]}
      BY <2>1, <2>2, <3>3, <1>BalancedSettled, Zenon DEF DInv
    <3>. QED
      BY <3>1, <3>2, <3>3, Zenon
  <2>6. \A u \in Subs : u # s => Balanced(u)'
    BY <2>1, <2>2, <2>3, <1>BalancedKept, Zenon DEF DInv
  <2>. QED
    BY <2>4, <2>5, <2>6, Zenon DEF DInv

\* update_sub writes one date to both: the ledger's, unless s is spoiled.
<1>UpdateSubDates. ASSUME SInv, DInv, NEW s \in Subs, NEW days \in Shifts, UpdateSub(s, days)
      PROVE  DInv'
  <2>. USE <1>UpdateSubDates
  <2>0. days \in Int /\ cache[s] \in Int /\ due[s] \in Int /\ row[s] \in Int
    BY SubDaysAssumption, Zenon DEF SInv, DInv
  <2>1. /\ now' = now /\ new' = new /\ call' = call /\ sync' = sync /\ sync.at = "idle"
        /\ cache[s] > 0
        /\ cache' = [cache EXCEPT ![s] = cache[s] + days]
        /\ row' = [row EXCEPT ![s] = cache[s] + days]
        /\ astray' = IF InFlight(s) THEN astray \cup {s} ELSE astray \ {s}
        /\ spoiled' = IF s \in astray \/ InFlight(s) THEN spoiled \cup {s} ELSE spoiled
        /\ due' = [due EXCEPT ![s] = IF s \in spoiled' THEN Absent ELSE due[s] + days]
        /\ cache[s] + days \in 1..MaxDate
    BY Zenon DEF UpdateSub, MemFree, NoDate, Enter
  <2>2. \A u \in Subs : Pending(u)' = Pending(u) /\ InFlight(u)' = InFlight(u)
    BY <2>1, <1>PendingStays, Zenon
  <2>3. /\ cache'[s] = cache[s] + days /\ row'[s] = cache[s] + days
        /\ due'[s] = IF s \in spoiled' THEN Absent ELSE due[s] + days
        /\ \A u \in Subs : u # s => row'[u] = row[u] /\ cache'[u] = cache[u] /\ due'[u] = due[u]
    BY <2>1, Zenon DEF SInv, DInv
  <2>4. due' \in [Subs -> Int]
    BY <2>0, <2>1 DEF DInv, Absent
  <2>5. cache[s] # Absent /\ cache'[s] # Absent
    BY <2>0, <2>1, <2>3 DEF Absent
  <2>6. ReadIsRow' /\ FirstDate'
    BY <2>1, <2>2, <2>3, <2>5 DEF DInv, ReadIsRow, FirstDate
  <2>7. RowMatchesLedger'
    <3>1. s \notin spoiled' => row'[s] = due'[s]
      <4>1. s \notin spoiled' => s \notin spoiled /\ s \notin astray /\ ~InFlight(s)
        BY <2>1, Zenon
      <4>2. s \notin spoiled' => cache[s] = row[s] /\ row[s] = due[s]
        BY <2>5, <4>1, DatesAgree, Zenon DEF DInv, RowMatchesLedger
      <4>. QED
        BY <2>3, <4>2, Zenon
    <3>2. \A u \in Subs : u # s => u \in spoiled' \/ row'[u] = due'[u]
      BY <2>1, <2>3, Zenon DEF DInv, RowMatchesLedger
    <3>. QED
      BY <3>1, <3>2, Zenon DEF RowMatchesLedger
  <2>8. Balanced(s)'
    BY <2>1, <2>2, <2>3, <1>BalancedSettled, Zenon DEF DInv
  <2>9. \A u \in Subs : u # s => Balanced(u)'
    BY <2>1, <2>2, <2>3, <1>BalancedKept, Zenon DEF DInv
  <2>. QED
    BY <2>4, <2>6, <2>7, <2>8, <2>9, Zenon DEF DInv

\* update_sub, a database error: s is astray.
<1>UpdateSubFailsDates. ASSUME SInv, DInv, NEW s \in Subs, NEW days \in Shifts, UpdateSubFails(s, days)
      PROVE  DInv'
  <2>. USE <1>UpdateSubFailsDates
  <2>0. days \in Int /\ cache[s] \in Int
    BY SubDaysAssumption, Zenon DEF SInv
  <2>1. /\ now' = now /\ row' = row /\ new' = new /\ call' = call /\ sync' = sync
        /\ due' = due /\ spoiled' = spoiled /\ sync.at = "idle"
        /\ cache' = [cache EXCEPT ![s] = cache[s] + days]
        /\ astray' = astray \cup {s} /\ cache[s] + days \in 1..MaxDate
    BY Zenon DEF UpdateSubFails, MemFree
  <2>2. \A u \in Subs : Pending(u)' = Pending(u) /\ InFlight(u)' = InFlight(u)
    BY <2>1, <1>PendingStays, Zenon
  <2>3. cache'[s] # Absent /\ \A u \in Subs : u # s => cache'[u] = cache[u]
    BY <2>0, <2>1 DEF SInv, Absent
  <2>4. ReadIsRow' /\ FirstDate' /\ RowMatchesLedger' /\ due' \in [Subs -> Int]
    BY <2>1, <2>2, <2>3, Zenon DEF DInv, ReadIsRow, FirstDate, RowMatchesLedger
  <2>5. Balanced(s)'
    BY <2>1, <2>2, <1>BalancedSettled, Zenon DEF DInv
  <2>6. \A u \in Subs : u # s => Balanced(u)'
    BY <2>1, <2>2, <2>3, <1>BalancedKept, Zenon DEF DInv
  <2>. QED
    BY <2>4, <2>5, <2>6, Zenon DEF DInv

\* A restart loads the Cache from the rows, and no call survives it.
<1>RestartDates. ASSUME SInv, DInv, Restart
      PROVE  DInv'
  <2>. USE <1>RestartDates
  <2>1. /\ row' = row /\ cache' = row /\ new' = [s \in Subs |-> Absent]
        /\ call' = [k \in Callers |-> NoCall] /\ sync' = NoSync
        /\ due' = due /\ spoiled' = spoiled
    BY Zenon DEF Restart
  <2>2. \A u \in Subs : ~InFlight(u)'
    BY <2>1, Zenon DEF InFlight, NoCall
  <2>3. ReadIsRow' /\ FirstDate' /\ RowMatchesLedger' /\ due' \in [Subs -> Int]
    BY <2>1, <2>2, Zenon DEF DInv, ReadIsRow, NoSync, FirstDate, RowMatchesLedger
  <2>4. ASSUME NEW u \in Subs
        PROVE  Balanced(u)'
    <3> DEFINE f == [K \in SUBSET Callers |-> 0]
    <3>1. \A k \in Callers : Pending(u)'[k] = 0
      BY <2>1, Zenon DEF Pending, NoCall
    <3>2. f \in [SUBSET Callers -> Nat] /\ f[Callers] = 0
      BY Zenon
    <3>3. IsTotal(Pending(u)', f)
      BY <3>1, NoTotal, Zenon
    <3>. HIDE DEF f
    <3>4. cache'[u] = Ahead(row[u], f[Callers])'
      BY <2>1, <3>2, Zenon DEF Ahead
    <3>. QED
      BY <3>2, <3>3, <3>4, Zenon DEF Balanced
  <2>. QED
    BY <2>3, <2>4, Zenon DEF DInv
<1>. QED
  <2> SUFFICES ASSUME SInv, DInv, call \in [Callers -> {NoCall} \cup Calls],
                      StoreStep \/ Restart
               PROVE  DInv'
    BY Zenon
  <2>1. CASE Restart
    BY <2>1, <1>RestartDates, Zenon
  <2>2. CASE Tick \/ SyncStep \/ Elsewhere
    BY <2>2, <1>IdleDates, <1>SyncDates, Zenon
  <2>3. ASSUME NEW s \in Subs, NEW date \in Nat, AddSubDb(s, date)
        PROVE  DInv'
    BY <2>3, <1>AddSubDbDates, Zenon
  <2>4. ASSUME NEW s \in Subs, AddSubMem(s) \/ Update(s)
        PROVE  DInv'
    BY <2>4, <1>AddSubMemDates, <1>UpdateSubDates, <1>UpdateSubFailsDates, Zenon DEF Update
  <2>5. ASSUME NEW k \in Callers, AddDaysStep(k)
        PROVE  DInv'
    BY <2>5, <1>AddDaysMemDates, <1>AddDaysDbDates, <1>AddDaysDbFailsDates, Zenon DEF AddDaysStep
  <2>. QED
    BY <2>1, <2>2, <2>3, <2>4, <2>5, Zenon DEF StoreStep

\* At first there are no rows and no calls.
LEMMA DatesInit ==
  Init => SInv /\ DInv
<1> SUFFICES ASSUME Init PROVE SInv /\ DInv
  BY Zenon
<1>1. /\ row = [s \in Subs |-> Absent] /\ cache = [s \in Subs |-> Absent]
      /\ new = [s \in Subs |-> Absent] /\ due = [s \in Subs |-> Absent]
      /\ call = [k \in Callers |-> NoCall] /\ sync = NoSync
  BY Zenon DEF Init
<1>2. \A u \in Subs : ~InFlight(u)
  BY <1>1, Zenon DEF InFlight, NoCall
<1>3. ReadIsRow /\ FirstDate /\ RowMatchesLedger /\ due \in [Subs -> Int]
  BY <1>1, <1>2 DEF ReadIsRow, NoSync, FirstDate, RowMatchesLedger, Absent
<1>4. ASSUME NEW u \in Subs
      PROVE  Balanced(u)
  <2> DEFINE f == [K \in SUBSET Callers |-> 0]
  <2>1. \A k \in Callers : Pending(u)[k] = 0
    BY <1>1, Zenon DEF Pending, NoCall
  <2>2. f \in [SUBSET Callers -> Nat]
    BY Zenon
  <2>3. IsTotal(Pending(u), f) /\ cache[u] = Absent
    BY <1>1, <2>1, NoTotal, Zenon
  <2>. HIDE DEF f
  <2>. QED
    BY <2>2, <2>3, Zenon DEF Balanced
<1>5. SInv
  BY DEF Init, SInv, NoSync, Absent
<1>. QED
  BY <1>3, <1>4, <1>5, Zenon DEF DInv

\* What it says of the two dates.
LEMMA DatesMatch ==
  DInv => RowMatchesLedger /\ CacheMatchesRow
BY DatesAgree, Zenon DEF DInv, CacheMatchesRow

-----------------------------------------------------------------------------
(* Keys.                                                                   *)

\* What the argument needs of the types: a worker works on a key only while its
\* add_days runs.
KeyTypes ==
  /\ usedBy \in [Keys -> Subs \cup {NoSub}]
  /\ act \in [Callers -> Keys \cup {NoKey}]
  /\ credits \in [Keys -> Nat]
  /\ paid \in [Keys -> SUBSET Subs]
  /\ call \in [Callers -> {NoCall} \cup Calls]
  /\ \A r \in Callers : act[r] # NoKey => call[r] # NoCall

Updated(r) == call[r].at = "updated"

\* Whoever is about to mark a key has paid for it, and so did whoever marked it.
MarkAfterPay ==
  /\ \A r \in Callers : act[r] # NoKey /\ Updated(r) => call[r].sub \in paid[act[r]]
  /\ UsedMeansPaid

\* Apart from races, one request works on a key, before it is used, and its days
\* are added once: by then the key is used, or the request about to mark it.
OneWorker ==
  \A c \in Keys \ raced :
    /\ \A r, q \in Callers : act[r] = c /\ act[q] = c => r = q
    /\ \A r \in Callers : act[r] = c => usedBy[c] = NoSub
    /\ \A r \in Callers : act[r] = c /\ ~Updated(r) => credits[c] = 0
    /\ credits[c] <= 1
    /\ credits[c] = 1 => usedBy[c] # NoSub \/ \E r \in Callers : act[r] = c /\ Updated(r)

KInv == KeyTypes /\ MarkAfterPay /\ OneWorker

\* No key and no request that works on one changes.
Bystander ==
  /\ UNCHANGED keyVars
  /\ call' \in [Callers -> {NoCall} \cup Calls]
  /\ \A r \in Callers : act[r] # NoKey => call'[r] = call[r]

\* A step of KeyActivation, or one that leaves the keys alone.
KeyStep ==
  \/ Bystander
  \/ \E c \in Keys : PostKey(c)
  \/ \E r \in Callers, c \in Keys, s \in Subs : ActivateGet(r, c, s)
  \/ \E r \in Callers : act[r] # NoKey /\ Activation(r)
  \/ KeyRestart

\* Such steps keep KInv.
LEMMA KeysKept ==
  KInv /\ KeyStep => KInv'
\* The keys stay as they were for their workers.
<1>BystanderKeeps. ASSUME KInv, Bystander
      PROVE  KInv'
  <2>. USE <1>BystanderKeeps
  <2>1. /\ usedBy' = usedBy /\ act' = act /\ credits' = credits
        /\ paid' = paid /\ raced' = raced
    BY Zenon DEF Bystander, keyVars
  <2>2. \A r \in Callers : act[r] # NoKey => call'[r] = call[r]
    BY Zenon DEF Bystander
  <2>3. KeyTypes'
    BY <2>1, <2>2, Zenon DEF KInv, KeyTypes, Bystander
  <2>4. MarkAfterPay'
    BY <2>1, <2>2, Zenon DEF KInv, MarkAfterPay, UsedMeansPaid, Updated
  <2>5. OneWorker'
    <3>1. \A c \in Keys, r \in Callers : act[r] = c => Updated(r)' = Updated(r)
      BY <2>2, KeyAssumption, Zenon DEF Updated
    <3>. QED
      BY <2>1, <3>1 DEF KInv, OneWorker
  <2>. QED
    BY <2>3, <2>4, <2>5, Zenon DEF KInv

\* A new key is not yet anybody's.
<1>PostKeyKeeps. ASSUME KInv, NEW c \in Keys, PostKey(c)
      PROVE  KInv'
  <2>. USE <1>PostKeyKeeps
  <2>1. Bystander \/ (UNCHANGED <<usedBy, act, credits, paid, raced, call>>)
    BY Zenon DEF PostKey, vars
  <2>. QED
    BY <2>1, <1>BystanderKeeps DEF PostKey, KInv, KeyTypes, MarkAfterPay, OneWorker,
       UsedMeansPaid, Updated

\* The request that reads a key is its only worker, or the key is recorded as raced;
\* nobody has added its days, for then it would be used or somebody at work on it.
<1>ActivateGetKeeps. ASSUME KInv, NEW r \in Callers, NEW c \in Keys, NEW s \in Subs,
             ActivateGet(r, c, s)
      PROVE  KInv'
  <2>. USE <1>ActivateGetKeeps
  <2>0. /\ act' = [act EXCEPT ![r] = c]
        /\ call' = [call EXCEPT ![r] = [at |-> "mem", sub |-> s, days |-> DaysOf[c]]]
        /\ UNCHANGED <<usedBy, credits, paid>>
        /\ act[r] = NoKey /\ usedBy[c] = NoSub
        /\ raced' = IF \E q \in Callers : act[q] = c THEN raced \cup {c} ELSE raced
    BY Zenon DEF ActivateGet, AddDaysCall
  <2>1. [at |-> "mem", sub |-> s, days |-> DaysOf[c]] \in Calls
    BY KeyAssumption, Zenon DEF Calls
  <2>2. /\ act'[r] = c /\ \A q \in Callers \ {r} : act'[q] = act[q]
        /\ call'[r].at = "mem" /\ call'[r] # NoCall
        /\ \A q \in Callers \ {r} : call'[q] = call[q]
    BY <2>0, Zenon DEF KInv, KeyTypes, NoCall
  <2>3. KeyTypes'
    <3>1. act' \in [Callers -> Keys \cup {NoKey}] /\ call' \in [Callers -> {NoCall} \cup Calls]
      BY <2>0, <2>1, Zenon DEF KInv, KeyTypes
    <3>. QED
      BY <2>0, <2>2, <3>1, Zenon DEF KInv, KeyTypes
  <2>4. MarkAfterPay'
    BY <2>0, <2>2, Zenon DEF KInv, MarkAfterPay, UsedMeansPaid, Updated
  <2>5. OneWorker'
    <3> SUFFICES ASSUME NEW d \in Keys, d \notin raced'
                 PROVE  OneWorker!(d)'
      BY Zenon DEF OneWorker
    <3>1. d \notin raced /\ (d = c => \A q \in Callers : act[q] # c)
      BY <2>0, Zenon
    <3>2. CASE d = c
      <4>1. credits[c] = 0
        BY <2>0, <3>1, <3>2 DEF KInv, OneWorker, KeyTypes
      <4>2. \A q \in Callers : act'[q] = d => q = r
        BY <2>2, <3>1, <3>2, Zenon
      <4>3. usedBy'[d] = NoSub /\ credits'[d] = 0
        BY <2>0, <3>2, <4>1, Zenon
      <4>. QED
        BY <4>2, <4>3
    <3>3. CASE d # c
      <4>1. \A q \in Callers : act'[q] = d => act[q] = d /\ q # r /\ Updated(q)' = Updated(q)
        BY <2>2, <3>3, Zenon DEF Updated
      <4>2. \A q \in Callers : act[q] = d => act'[q] = d /\ Updated(q)' = Updated(q)
        BY <2>0, <2>2, KeyAssumption, Zenon DEF Updated
      <4>. QED
        BY <2>0, <3>1, <4>1, <4>2 DEF KInv, OneWorker
    <3>. QED
      BY <3>2, <3>3, Zenon
  <2>. QED
    BY <2>3, <2>4, <2>5, Zenon DEF KInv

\* add_days without its write leaves the key as it was; its write is the one credit
\* of a key with one worker, who is now about to mark it.
<1>ActivateAddDaysKeeps. ASSUME KInv, NEW r \in Callers, act[r] # NoKey, ActivateAddDays(r)
      PROVE  KInv'
  <2>. USE <1>ActivateAddDaysKeeps
  <2>0. /\ KeyTypes /\ MarkAfterPay /\ OneWorker
        /\ UNCHANGED <<usedBy, act, raced>>
        /\ AddDaysStep(r)
    BY Zenon DEF KInv, ActivateAddDays, AddDaysStep, keyVars
  <2>1. /\ call' \in [Callers -> {NoCall} \cup Calls]
        /\ \A q \in Callers \ {r} : call'[q] = call[q]
        /\ call[r] \in Calls /\ call'[r] \in Calls
        /\ call[r].at \in {"mem", "db"} /\ call'[r].sub = call[r].sub
        /\ call'[r].at = "updated" <=> AddDaysDb(r)
    BY <2>0, CallMoves, Zenon DEF KeyTypes
  <2>2. \A q \in Callers : act'[q] # NoKey => call'[q] # NoCall
    <3>1. call'[r] # NoCall
      BY <2>1, CallShape, Zenon DEF Calls
    <3>. QED
      BY <2>0, <2>1, <3>1, Zenon DEF KeyTypes
  <2>3. \A q \in Callers \ {r} : Updated(q)' = Updated(q)
    BY <2>1, Zenon DEF Updated
  <2>4. ~Updated(r) /\ act[r] \in Keys /\ call[r].sub \in Subs
    BY <2>0, <2>1, Zenon DEF Updated, KeyTypes, Calls
  <2>5. CASE (AddDaysMem(r) \/ AddDaysDbFails(r)) /\ UNCHANGED keyVars
    <3>1. ~AddDaysDb(r)
      <4>1. CASE AddDaysMem(r)
        BY <4>1, Zenon DEF AddDaysMem, AddDaysDb
      <4>2. CASE AddDaysDbFails(r)
        <5>1. call'[r].at = "error"
          BY <2>0, <2>1, <4>2, Zenon DEF AddDaysDbFails, KeyTypes, Calls
        <5>. QED
          BY <2>1, <5>1, Zenon
      <4>. QED
        BY <2>5, <4>1, <4>2, Zenon
    <3>2. ~Updated(r)' /\ UNCHANGED <<credits, paid>>
      BY <2>1, <2>5, <3>1, Zenon DEF Updated, keyVars
    <3>3. KeyTypes'
      BY <2>0, <2>1, <2>2, <3>2, Zenon DEF KeyTypes
    <3>4. MarkAfterPay'
      BY <2>0, <2>1, <2>3, <3>2, Zenon DEF MarkAfterPay, UsedMeansPaid
    <3>5. OneWorker'
      BY <2>0, <2>3, <2>4, <3>2 DEF OneWorker
    <3>. QED
      BY <3>3, <3>4, <3>5, Zenon DEF KInv
  <2>6. CASE AddDaysDb(r) /\ ~UNCHANGED keyVars
    <3>1. /\ credits' = [credits EXCEPT ![act[r]] = @ + 1]
          /\ paid' = [paid EXCEPT ![act[r]] = @ \cup {call[r].sub}]
      BY <2>6, Zenon DEF ActivateAddDays
    <3>2. Updated(r)'
      BY <2>1, <2>6, Zenon DEF Updated
    <3>3. KeyTypes'
      BY <2>0, <2>1, <2>2, <2>4, <3>1 DEF KeyTypes
    <3>4. MarkAfterPay'
      <4>1. \A c \in Keys : paid[c] \subseteq paid'[c]
        BY <2>0, <3>1, Zenon DEF KeyTypes
      <4>2. call'[r].sub \in paid'[act[r]]
        BY <2>0, <2>1, <2>4, <3>1, Zenon DEF KeyTypes
      <4>3. \A q \in Callers \ {r} :
               act[q] # NoKey /\ Updated(q) => call'[q].sub \in paid'[act[q]]
        BY <2>0, <2>1, <4>1, Zenon DEF MarkAfterPay, KeyTypes
      <4>. QED
        BY <2>0, <2>3, <4>1, <4>2, <4>3, Zenon DEF MarkAfterPay, UsedMeansPaid
    <3>5. OneWorker'
      <4> SUFFICES ASSUME NEW d \in Keys, d \notin raced
                   PROVE  OneWorker!(d)'
        BY <2>0, Zenon DEF OneWorker
      <4>1. CASE d = act[r]
        <5>1. credits[d] = 0 /\ usedBy[d] = NoSub /\ \A q \in Callers : act[q] = d => q = r
          BY <2>0, <2>4, <4>1, Zenon DEF OneWorker
        <5>2. credits'[d] = 1
          BY <2>0, <3>1, <4>1, <5>1 DEF KeyTypes
        <5>. QED
          BY <2>0, <3>2, <4>1, <5>1, <5>2
      <4>2. CASE d # act[r]
        <5>1. credits'[d] = credits[d]
          BY <2>0, <3>1, <4>2, Zenon DEF KeyTypes
        <5>. QED
          BY <2>0, <2>3, <4>2, <5>1 DEF OneWorker
      <4>. QED
        BY <4>1, <4>2, Zenon
    <3>. QED
      BY <3>3, <3>4, <3>5, Zenon DEF KInv
  <2>. QED
    <3>1. CASE AddDaysDb(r) /\ UNCHANGED keyVars
      <4>1. credits[act[r]] \in Nat /\ credits'[act[r]] = credits[act[r]]
        BY <2>0, <2>4, <3>1, Zenon DEF KeyTypes, keyVars
      <4>2. \/ AddDaysMem(r) \/ AddDaysDbFails(r)
            \/ credits' = [credits EXCEPT ![act[r]] = @ + 1]
        BY Zenon DEF ActivateAddDays
      <4>3. credits' # [credits EXCEPT ![act[r]] = @ + 1]
        BY <2>0, <2>4, <4>1 DEF KeyTypes
      <4>. QED
        BY <2>5, <3>1, <4>2, <4>3, Zenon
    <3>. QED
      BY <2>5, <2>6, <3>1, Zenon DEF ActivateAddDays

\* The end of a request, in either way: an unmarked key's only worker has not added
\* its days, or leaves the key recorded as raced.
<1>ActivateEndKeeps. ASSUME KInv, NEW r \in Callers, act[r] # NoKey,
             ActivateMark(r) \/ ActivateMarkFails(r) \/ ActivateRefused(r)
      PROVE  KInv'
  <2>. USE <1>ActivateEndKeeps
  <2>0. /\ KeyTypes /\ MarkAfterPay /\ OneWorker
        /\ act' = [act EXCEPT ![r] = NoKey]
        /\ call' = [call EXCEPT ![r] = NoCall]
        /\ UNCHANGED <<credits, paid>>
    BY Zenon DEF KInv, ActivateMark, ActivateMarkFails, ActivateRefused, AddDaysReturn
  <2>1. act[r] \in Keys /\ (Updated(r) => call[r].sub \in Subs)
    BY <2>0, CallShape, Zenon DEF KeyTypes, Updated, Calls
  <2>2. /\ act'[r] = NoKey /\ \A q \in Callers \ {r} : act'[q] = act[q]
        /\ \A q \in Callers \ {r} : call'[q] = call[q] /\ Updated(q)' = Updated(q)
    BY <2>0, Zenon DEF KeyTypes, Updated
  <2>3. \/ Updated(r) /\ usedBy' = [usedBy EXCEPT ![act[r]] = call[r].sub] /\ raced' = raced
        \/ Updated(r) /\ usedBy' = usedBy /\ raced' = raced \cup {act[r]}
        \/ ~Updated(r) /\ usedBy' = usedBy /\ raced' = raced
    BY Zenon DEF ActivateMark, ActivateMarkFails, ActivateRefused, Updated
  <2>4. KeyTypes'
    <3>1. usedBy' \in [Keys -> Subs \cup {NoSub}]
      BY <2>0, <2>1, <2>3, Zenon DEF KeyTypes
    <3>2. act' \in [Callers -> Keys \cup {NoKey}] /\ call' \in [Callers -> {NoCall} \cup Calls]
      BY <2>0, Zenon DEF KeyTypes
    <3>. QED
      BY <2>0, <2>2, <3>1, <3>2, Zenon DEF KeyTypes
  <2>5. MarkAfterPay'
    <3>1. Updated(r) => call[r].sub \in paid[act[r]]
      BY <2>0, Zenon DEF MarkAfterPay
    <3>2. UsedMeansPaid'
      BY <2>0, <2>1, <2>3, <3>1, Zenon DEF MarkAfterPay, UsedMeansPaid, KeyTypes
    <3>. QED
      BY <2>0, <2>2, <3>2, Zenon DEF MarkAfterPay
  <2>6. OneWorker'
    <3> SUFFICES ASSUME NEW d \in Keys, d \notin raced'
                 PROVE  OneWorker!(d)'
      BY Zenon DEF OneWorker
    <3>0. d \notin raced
      BY <2>3, Zenon
    <3>1. CASE d = act[r]
      <4>0. \A q \in Callers : act[q] = d => q = r
        BY <2>0, <3>0, <3>1, Zenon DEF OneWorker
      <4>1. \A q \in Callers : act'[q] # d
        <5>1. d # NoKey
          BY KeyAssumption, Zenon
        <5>. QED
          BY <2>2, <4>0, <5>1, Zenon
      <4>2. CASE Updated(r)
        <5>1. usedBy'[d] = call[r].sub
          BY <2>0, <2>3, <3>1, <4>2, Zenon DEF KeyTypes
        <5>2. usedBy'[d] # NoSub
          BY <2>1, <4>2, <5>1, KeyAssumption, Zenon
        <5>. QED
          BY <2>0, <3>0, <4>1, <5>2, Zenon DEF OneWorker
      <4>3. CASE ~Updated(r)
        BY <2>0, <3>0, <3>1, <4>1, <4>3, Zenon DEF OneWorker
      <4>. QED
        BY <4>2, <4>3, Zenon
    <3>2. CASE d # act[r]
      <4>1. usedBy'[d] = usedBy[d]
        BY <2>0, <2>3, <3>2, Zenon DEF KeyTypes
      <4>2. \A q \in Callers : act'[q] = d <=> act[q] = d
        BY <2>2, <3>2, KeyAssumption, Zenon
      <4>3. \A q \in Callers : act[q] = d => Updated(q)' = Updated(q)
        BY <2>2, <3>2, Zenon
      <4>. QED
        BY <2>0, <3>0, <4>1, <4>2, <4>3 DEF OneWorker
    <3>. QED
      BY <3>1, <3>2, Zenon
  <2>. QED
    BY <2>4, <2>5, <2>6, Zenon DEF KInv

\* A crash ends every request; the key of one that had added the days and not
\* marked it is recorded as raced.
<1>CrashKeeps. ASSUME KInv, KeyRestart
      PROVE  KInv'
  <2>. USE <1>CrashKeeps
  <2>0. /\ KeyTypes /\ MarkAfterPay /\ OneWorker
        /\ act' = [r \in Callers |-> NoKey]
        /\ call' = [r \in Callers |-> NoCall]
        /\ UNCHANGED <<usedBy, credits, paid>>
        /\ raced \subseteq raced'
        /\ \A r \in Callers : act[r] # NoKey /\ Updated(r) => act[r] \in raced'
    BY Zenon DEF KInv, KeyRestart, Restart, Updated
  <2>1. KeyTypes'
    <3>1. act' \in [Callers -> Keys \cup {NoKey}] /\ call' \in [Callers -> {NoCall} \cup Calls]
      BY <2>0, Zenon
    <3>2. \A r \in Callers : act'[r] = NoKey
      BY <2>0, Zenon
    <3>. QED
      BY <2>0, <3>1, <3>2, Zenon DEF KeyTypes
  <2>2. MarkAfterPay'
    BY <2>0, Zenon DEF MarkAfterPay, UsedMeansPaid
  <2>3. OneWorker'
    BY <2>0, KeyAssumption, Zenon DEF OneWorker
  <2>. QED
    BY <2>1, <2>2, <2>3, Zenon DEF KInv

<1>. QED
  <2> SUFFICES ASSUME KInv, KeyStep
               PROVE  KInv'
    BY Zenon
  <2>1. ASSUME NEW c \in Keys, PostKey(c)
        PROVE  KInv'
    BY <2>1, <1>PostKeyKeeps, Zenon
  <2>2. ASSUME NEW r \in Callers, NEW c \in Keys, NEW s \in Subs, ActivateGet(r, c, s)
        PROVE  KInv'
    BY <2>2, <1>ActivateGetKeeps, Zenon
  <2>3. ASSUME NEW r \in Callers, act[r] # NoKey, Activation(r)
        PROVE  KInv'
    BY <2>3, <1>ActivateAddDaysKeeps, <1>ActivateEndKeeps, Zenon DEF Activation
  <2>. QED
    BY <2>1, <2>2, <2>3, <1>BystanderKeeps, <1>CrashKeeps, Zenon DEF KeyStep

\* Nobody works on a key at first, and none is used.
LEMMA KInvInit ==
  Init /\ KeyInit => KInv
<1> SUFFICES ASSUME Init, KeyInit PROVE KInv
  BY Zenon
<1>1. /\ usedBy = [c \in Keys |-> NoSub] /\ act = [r \in Callers |-> NoKey]
      /\ credits = [c \in Keys |-> 0] /\ paid = [c \in Keys |-> {}]
      /\ call = [k \in Callers |-> NoCall]
  BY Zenon DEF Init, KeyInit
<1>2. KeyTypes
  BY <1>1, Zenon DEF KeyTypes
<1>3. MarkAfterPay
  BY <1>1, Zenon DEF MarkAfterPay, UsedMeansPaid
<1>4. OneWorker
  BY <1>1, KeyAssumption DEF OneWorker
<1>. QED
  BY <1>2, <1>3, <1>4, Zenon DEF KInv

\* What it says of the keys.
LEMMA KeysMatch ==
  KInv => KeyOnce /\ UsedMeansPaid
BY Zenon DEF KInv, OneWorker, MarkAfterPay, KeyOnce
=============================================================================
