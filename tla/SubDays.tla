------------------------------ MODULE SubDays -------------------------------
(***************************************************************************)
(* The expiry date of a subscription, which the API keeps twice: in the     *)
(* Cache and in the row.  add_days computes it once for each, in two steps; *)
(* update_sub computes it from the Cache and writes it to both; a database  *)
(* sync copies the row over the Cache (src/bin/api/sync/tasks.rs).          *)
(*                                                                         *)
(* due is the ledger: what the dates should be if every operation that      *)
(* reported success had been applied once, in the order of their rows.      *)
(* Dates are day numbers.                                                  *)
(***************************************************************************)
EXTENDS Integers, FiniteSets

CONSTANTS
  Subs,     \* subscription ids
  Callers,  \* concurrent add_days calls
  Grants,   \* numbers of days that add_days adds
  Shifts,   \* numbers of days that update_sub adds; may be negative
  MaxNow,   \* bound on the clock
  MaxDate,  \* bound on expiry dates
  MaxFaults \* bound on database errors and crashes

ASSUME SubDaysAssumption ==
  /\ Grants \subseteq Nat
  /\ Shifts \subseteq Int
  /\ MaxNow \in Nat \ {0} /\ MaxDate \in Nat /\ MaxFaults \in Nat

NoDate == 0     \* expires_at = None: never active
Absent == -1    \* no row, no entry

VARIABLES
  now,      \* Utc::now(), at least 1
  row,      \* row[s]: expires_at in the subscriptions table
  cache,    \* cache[s]: expires_at in Cache.subscriptions
  new,      \* new[s]: the date add_sub has written to the row and not yet to the Cache
  call,     \* call[k]: add_days in progress
  sync,     \* get_state_from_db in progress, which holds the write lock
  due,      \* due[s]: the ledger (history)
  astray,   \* subscriptions whose Cache and row dates parted (history)
  spoiled,  \* ... and were written back to the row by update_sub (history)
  faults    \* faults so far

history == <<due, astray, spoiled>>
vars == <<now, row, cache, new, call, sync, history, faults>>

NoCall == [at |-> "idle"]
Calls == [at : {"mem", "db", "updated", "missing", "error"}, sub : Subs, days : Grants]
NoSync == [at |-> "idle"]

\* Mutant: a sync reads the tables before it takes the write lock.
MemFreeAlways == TRUE

\* A database sync holds the write lock from its reads to its install.
MemFree == sync.at = "idle"
Fault == faults < MaxFaults /\ faults' = faults + 1
Later(date) == IF date > now THEN date ELSE now

\* An add_days has changed the Cache and is about to change the row.
InFlight(s) == \E k \in Callers : call[k].at = "db" /\ call[k].sub = s

\* An entry in the ledger of s, which is closed when s is spoiled.
Enter(s, date) == due' = [due EXCEPT ![s] = IF s \in spoiled' THEN Absent ELSE date]

Init ==
  /\ now = 1
  /\ row = [s \in Subs |-> Absent]
  /\ cache = [s \in Subs |-> Absent]
  /\ new = [s \in Subs |-> Absent]
  /\ call = [k \in Callers |-> NoCall]
  /\ sync = NoSync
  /\ due = [s \in Subs |-> Absent]
  /\ astray = {} /\ spoiled = {}
  /\ faults = 0

-----------------------------------------------------------------------------
\* A day passes: days are long compared with the two steps of add_days.
Tick ==
  /\ now < MaxNow
  /\ \A s \in Subs : ~InFlight(s)
  /\ now' = now + 1
  /\ UNCHANGED <<row, cache, new, call, sync, history, faults>>

\* add_sub, the INSERT, for a number of days or without a date.
AddSubDb(s, date) ==
  /\ row[s] = Absent
  /\ row' = [row EXCEPT ![s] = date]
  /\ new' = [new EXCEPT ![s] = date]
  /\ due' = [due EXCEPT ![s] = date]
  /\ UNCHANGED <<now, cache, call, sync, astray, spoiled, faults>>

\* add_sub, the Cache: Subscriptions::add replaces an entry that a sync loaded
\* meanwhile and add_days may have changed.
AddSubMem(s) ==
  /\ new[s] # Absent /\ MemFree
  /\ cache' = [cache EXCEPT ![s] = new[s]]
  /\ new' = [new EXCEPT ![s] = Absent]
  /\ astray' = IF cache[s] \in {Absent, new[s]} THEN astray ELSE astray \cup {s}
  /\ UNCHANGED <<now, row, call, sync, due, spoiled, faults>>

-----------------------------------------------------------------------------
(* update_sub, under one write lock.  extend leaves a missing date alone,   *)
(* and update_sub then gives up (InconsistentState).                       *)

\* Mutant: the date is computed from the row, as add_days does.
UpdateSubFromRow(s, days) ==
  /\ MemFree
  /\ cache[s] > NoDate /\ cache[s] + days \in 1..MaxDate
  /\ cache' = [cache EXCEPT ![s] = @ + days]
  /\ row' = [row EXCEPT ![s] = Later(@) + days]
  /\ astray' = IF InFlight(s) THEN astray \cup {s} ELSE astray \ {s}
  /\ spoiled' = IF s \in astray \/ InFlight(s) THEN spoiled \cup {s} ELSE spoiled
  /\ Enter(s, due[s] + days)
  /\ UNCHANGED <<now, new, call, sync, faults>>

UpdateSub(s, days) ==
  /\ MemFree
  /\ cache[s] > NoDate /\ cache[s] + days \in 1..MaxDate
  /\ cache' = [cache EXCEPT ![s] = @ + days]
  /\ row' = [row EXCEPT ![s] = cache[s] + days]
  /\ astray' = IF InFlight(s) THEN astray \cup {s} ELSE astray \ {s}
  /\ spoiled' = IF s \in astray \/ InFlight(s) THEN spoiled \cup {s} ELSE spoiled
  /\ Enter(s, due[s] + days)
  /\ UNCHANGED <<now, new, call, sync, faults>>

\* A database error leaves the Cache changed.
UpdateSubFails(s, days) ==
  /\ MemFree
  /\ cache[s] > NoDate /\ cache[s] + days \in 1..MaxDate
  /\ Fault
  /\ cache' = [cache EXCEPT ![s] = @ + days]
  /\ astray' = astray \cup {s}
  /\ UNCHANGED <<now, row, new, call, sync, due, spoiled>>

-----------------------------------------------------------------------------
(* add_days.                                                               *)

AddDaysCall(k, s, days) ==
  /\ call[k] = NoCall
  /\ call' = [call EXCEPT ![k] = [at |-> "mem", sub |-> s, days |-> days]]
  /\ UNCHANGED <<now, row, cache, new, sync, history, faults>>

\* Mutant: the days are added to the old date even if that has passed, as
\* extend does.
AddDaysMemExtends(k) ==
  LET s == call[k].sub IN
  /\ call[k].at = "mem" /\ MemFree
  /\ IF cache[s] = Absent
       THEN /\ call' = [call EXCEPT ![k].at = "missing"]
            /\ UNCHANGED cache
       ELSE /\ call' = [call EXCEPT ![k].at = "db"]
            /\ cache[s] + call[k].days <= MaxDate
            /\ cache' = [cache EXCEPT ![s] = @ + call[k].days]
  /\ UNCHANGED <<now, row, new, sync, history, faults>>

\* The Cache.  set_expires_at refuses a date that is not in the future, and
\* the refusal is ignored.
AddDaysMem(k) ==
  LET s == call[k].sub
      date == Later(cache[s]) + call[k].days IN
  /\ call[k].at = "mem" /\ MemFree
  /\ IF cache[s] = Absent
       THEN /\ call' = [call EXCEPT ![k].at = "missing"]
            /\ UNCHANGED cache
       ELSE /\ call' = [call EXCEPT ![k].at = "db"]
            /\ date <= MaxDate
            /\ cache' = [cache EXCEPT ![s] = IF date > now THEN date ELSE @]
  /\ UNCHANGED <<now, row, new, sync, history, faults>>

\* The row, from its own date: no days on an expired subscription write today's
\* date to the row only.
AddDaysDb(k) ==
  LET s == call[k].sub IN
  /\ call[k].at = "db"
  /\ Later(row[s]) + call[k].days <= MaxDate
  /\ row' = [row EXCEPT ![s] = Later(@) + call[k].days]
  /\ call' = [call EXCEPT ![k].at = "updated"]
  /\ astray' = IF row[s] <= now /\ call[k].days = 0 THEN astray \cup {s} ELSE astray
  /\ UNCHANGED <<now, cache, new, sync, spoiled, faults>>
  /\ Enter(s, Later(due[s]) + call[k].days)

\* A database error: the Cache keeps the days.
AddDaysDbFails(k) ==
  /\ call[k].at = "db"
  /\ Fault
  /\ call' = [call EXCEPT ![k].at = "error"]
  /\ astray' = astray \cup {call[k].sub}
  /\ UNCHANGED <<now, row, cache, new, sync, due, spoiled>>

AddDaysReturn(k) ==
  /\ call[k].at \in {"updated", "missing", "error"}
  /\ call' = [call EXCEPT ![k] = NoCall]
  /\ UNCHANGED <<now, row, cache, new, sync, history, faults>>

-----------------------------------------------------------------------------
(* get_state_from_db.                                                      *)

\* Rows read while an add_days is between Cache and row lack its days.
SyncRead ==
  /\ sync = NoSync
  /\ sync' = [at |-> "read", rows |-> row, over |-> {s \in Subs : InFlight(s)}]
  /\ UNCHANGED <<now, row, cache, new, call, history, faults>>

SyncInstall ==
  /\ sync.at = "read"
  /\ cache' = sync.rows
  /\ sync' = NoSync
  /\ astray' = sync.over
  /\ UNCHANGED <<now, row, new, call, due, spoiled, faults>>

SyncFails ==
  /\ sync.at = "read"
  /\ Fault
  /\ sync' = NoSync
  /\ UNCHANGED <<now, row, cache, new, call, history>>

\* The process dies; main loads the Cache before anything else runs.
Restart ==
  /\ Fault
  /\ cache' = row
  /\ new' = [s \in Subs |-> Absent]
  /\ call' = [k \in Callers |-> NoCall]
  /\ sync' = NoSync
  /\ astray' = {}
  /\ UNCHANGED <<now, row, due, spoiled>>

-----------------------------------------------------------------------------
AddSub(s) ==
  \/ \E date \in {NoDate} \cup {now + days : days \in Grants} :
       date <= MaxDate /\ AddSubDb(s, date)
  \/ AddSubMem(s)

Update(s) == \E days \in Shifts : UpdateSub(s, days) \/ UpdateSubFails(s, days)

SyncStep == SyncRead \/ SyncInstall \/ SyncFails

-----------------------------------------------------------------------------
(* Properties.                                                             *)

\* The row's date is what the operations that reported success add up to: no
\* interleaving of add_days, update_sub, syncs, errors and crashes loses or
\* repeats days, except an update_sub that wrote back a Cache date which had
\* parted from the row.
RowMatchesLedger == \A s \in Subs : s \in spoiled \/ row[s] = due[s]

\* The Cache's date parts from the row only as astray records it: by a sync
\* or an update_sub in the middle of an add_days, by a database error, by zero
\* days on an expired subscription, or by add_sub's late insert.
CacheMatchesRow ==
  \A s \in Subs :
    cache[s] # Absent => \/ cache[s] = row[s]
                         \/ InFlight(s)
                         \/ s \in astray

=============================================================================
