------------------------ MODULE SubscriptionsProofs -------------------------
(* Proofs about everything that changes subscriptions together: activations *)
(* of keys, referrals, plain requests and database syncs, for any keys,     *)
(* subscriptions, codes, workers and number of faults.                      *)
EXTENDS Subscriptions, KeyActivationProofs, FiniteSetTheorems, TLAPS

\* A worker that activates a key serves no other request.
Apart ==
  /\ req = [r \in Callers |-> req[r]]
  /\ \A r \in Callers : act[r] # NoKey => ~Busy(r)

AInv == KInv /\ Apart

\* Steps that are no request's with a key or a code.
Quiet ==
  \/ PlainRequests
  \/ (Tick \/ SyncStep) /\ UNCHANGED <<keyVars, refVars>>
  \/ UNCHANGED allVars

\* Plain creations, changes, days gone by and database syncs touch no such request.
LEMMA QuietLeavesRequests ==
  Quiet => call' = call /\ UNCHANGED keyVars /\ UNCHANGED refVars
<1>1. ASSUME NEW s \in Subs, AddSub(s) \/ Update(s)
      PROVE  call' = call
  BY <1>1, Zenon DEF AddSub, AddSubDb, AddSubMem, Update, UpdateSub, UpdateSubFails
<1>2. Tick \/ SyncStep => call' = call
  BY Zenon DEF Tick, SyncStep, SyncRead, SyncInstall, SyncFails
<1>3. PlainRequests => call' = call /\ UNCHANGED keyVars /\ UNCHANGED refVars
  BY <1>1, Zenon DEF PlainRequests
<1>4. UNCHANGED allVars => call' = call /\ UNCHANGED keyVars /\ UNCHANGED refVars
  BY Zenon DEF allVars, vars
<1>. QED
  BY <1>2, <1>3, <1>4, Zenon DEF Quiet

\* Nor does the creation of a subscription touch a call of add_days.
LEMMA CreationLeavesCalls ==
  ASSUME NEW r, InsertReferred(r) \/ InsertFails(r) \/ FinishReferred(r)
  PROVE  call' = call
<1>1. ASSUME NEW s, NEW date, AddSubDb(s, date) PROVE call' = call
  BY <1>1, Zenon DEF AddSubDb
<1>2. ASSUME NEW s, AddSubMem(s) PROVE call' = call
  BY <1>2, Zenon DEF AddSubMem
<1>. QED
  BY <1>1, <1>2, Zenon DEF InsertReferred, InsertFails, FinishReferred

-----------------------------------------------------------------------------
(* The keys.                                                               *)

\* One step of SubsNext, or a stuttering step.
LEMMA AInvInductive ==
  AInv /\ [SubsNext]_allVars => AInv'
\* A step of one worker's referral request touches no key and no worker on one.
<1>Referral. ASSUME AInv, ReferralRequests
      PROVE  Bystander /\ Apart'
  <2>0. KeyTypes /\ Apart /\ UNCHANGED keyVars
    BY <1>Referral, Zenon DEF AInv, KInv, ReferralRequests
  <2>1. ASSUME call' \in [Callers -> {NoCall} \cup Calls],
               NEW r \in Callers, act[r] = NoKey,
               \A q \in Callers \ {r} : call'[q] = call[q],
               req' = req \/ \E x : req' = [req EXCEPT ![r] = x]
        PROVE  Bystander /\ Apart'
    <3>1. /\ req' = [q \in Callers |-> req'[q]]
          /\ \A q \in Callers \ {r} : req'[q] = req[q]
      BY <2>0, <2>1, Zenon DEF Apart
    <3>2. act' = act
      BY <2>0, Zenon DEF keyVars
    <3>. QED
      BY <2>0, <2>1, <3>1, <3>2, Zenon DEF Bystander, Apart, Busy
  <2>2. ASSUME NEW r \in Callers, NEW trial \in BOOLEAN, NEW x \in Codes,
               NEW o \in Subs, NEW s \in Subs, Idle(r), PostReferred(r, trial, x, o, s)
        PROVE  Bystander /\ Apart'
    <3>1. OwnerDays(trial, x) \in Grants
      BY ReferralAssumption, Zenon DEF OwnerDays
    <3>2. /\ call' = [call EXCEPT ![r] = [at |-> "mem", sub |-> o, days |-> OwnerDays(trial, x)]]
          /\ \E y : req' = [req EXCEPT ![r] = y]
          /\ act[r] = NoKey
      BY <2>2, Zenon DEF PostReferred, AddDaysCall, Idle
    <3>3. /\ call' \in [Callers -> {NoCall} \cup Calls]
          /\ \A q \in Callers \ {r} : call'[q] = call[q]
      BY <2>0, <3>1, <3>2, Zenon DEF KeyTypes, Calls
    <3>. QED
      BY <2>1, <3>2, <3>3, Zenon
  <2>3. ASSUME NEW r \in Callers, Busy(r), RequestStep(r)
        PROVE  Bystander /\ Apart'
    <3>0. act[r] = NoKey /\ call \in [Callers -> {NoCall} \cup Calls]
      BY <2>0, <2>3, Zenon DEF KeyTypes, Apart
    <3>1. CASE PayBonus(r)
      <4>1. AddDaysStep(r) /\ req' = req
        BY <3>1, Zenon DEF PayBonus, AddDaysStep, refVars
      <4>2. /\ call' \in [Callers -> {NoCall} \cup Calls]
            /\ \A q \in Callers \ {r} : call'[q] = call[q]
        BY <3>0, <4>1, CallMoves, Zenon
      <4>. QED
        BY <2>1, <3>0, <4>1, <4>2, Zenon
    <3>2. CASE BonusReturns(r)
      <4>1. /\ call' = [call EXCEPT ![r] = NoCall]
            /\ \E x : req' = [req EXCEPT ![r] = x]
        BY <3>2, Zenon DEF BonusReturns, AddDaysReturn
      <4>. QED
        BY <2>1, <3>0, <4>1, Zenon
    <3>3. CASE InsertReferred(r) \/ InsertFails(r) \/ FinishReferred(r)
      <4>1. call' = call /\ \E x : req' = [req EXCEPT ![r] = x]
        BY <3>3, CreationLeavesCalls, Zenon DEF InsertReferred, InsertFails, FinishReferred
      <4>. QED
        BY <2>1, <3>0, <4>1, Zenon
    <3>. QED
      BY <2>3, <3>1, <3>2, <3>3, Zenon DEF RequestStep
  <2>. QED
    BY <1>Referral, <2>2, <2>3, Zenon DEF ReferralRequests

\* Neither does a quiet step.
<1>Others. ASSUME AInv, Quiet
      PROVE  Bystander /\ Apart'
  <2>1. call' = call /\ UNCHANGED keyVars /\ act' = act /\ req' = req
    BY <1>Others, QuietLeavesRequests, Zenon DEF keyVars, refVars
  <2>. QED
    BY <1>Others, <2>1, Zenon DEF Bystander, AInv, KInv, KeyTypes, Apart, Busy

\* An activation is for a worker that serves no request.
<1>Activation. ASSUME AInv, KeyRequests
      PROVE  KeyStep /\ Apart'
  <2>1. req' = req /\ Apart /\ KeyTypes
    BY <1>Activation, Zenon DEF KeyRequests, refVars, AInv, KInv
  <2>2. KeyStep
    BY <1>Activation, Zenon DEF KeyRequests, KeyStep
  <2>3. ASSUME NEW r \in Callers, NEW c \in Keys, NEW s \in Subs, Idle(r), ActivateGet(r, c, s)
        PROVE  \A q \in Callers : act'[q] # NoKey => act[q] # NoKey \/ ~Busy(q)
    BY <2>1, <2>3, Zenon DEF ActivateGet, Idle, KeyTypes
  <2>4. ASSUME NEW r \in Callers, Activation(r)
        PROVE  \A q \in Callers : act'[q] # NoKey => act[q] # NoKey
    <3>1. act' = act \/ act' = [act EXCEPT ![r] = NoKey]
      BY <2>4, Zenon DEF Activation, ActivateAddDays, ActivateMark, ActivateMarkFails,
                         ActivateRefused, keyVars
    <3>. QED
      BY <2>1, <3>1, Zenon DEF KeyTypes
  <2>5. ASSUME NEW c \in Keys, PostKey(c)
        PROVE  act' = act
    BY <2>5, Zenon DEF PostKey
  <2>6. \A q \in Callers : act'[q] # NoKey => act[q] # NoKey \/ ~Busy(q)
    BY <1>Activation, <2>3, <2>4, <2>5, Zenon DEF KeyRequests
  <2>. QED
    BY <2>1, <2>2, <2>6, Zenon DEF Apart, Busy

<1>. QED
  <2> SUFFICES ASSUME AInv, [SubsNext]_allVars
               PROVE  AInv'
    BY Zenon
  <2>1. CASE Crash
    <3>1. KeyStep
      BY <2>1, Zenon DEF Crash, KeyStep
    <3>2. Apart'
      BY <2>1, Zenon DEF Crash, KeyRestart, RefRestart, Apart
    <3>. QED
      BY <3>1, <3>2, KeysKept, Zenon DEF AInv
  <2>2. CASE ~Crash
    <3>1. KeyStep /\ Apart'
      BY <2>2, <1>Referral, <1>Others, <1>Activation, Zenon DEF SubsNext, Quiet, KeyStep
    <3>. QED
      BY <3>1, KeysKept, Zenon DEF AInv
  <2>. QED
    BY <2>1, <2>2, Zenon

\* AInv holds throughout.
LEMMA AInvAlways == SubsSpec => []AInv
<1>1. SubsInit => AInv
  <2>1. SubsInit => Apart
    BY Zenon DEF SubsInit, RefInit, KeyInit, Apart
  <2>. QED
    BY <2>1, KInvInit, Zenon DEF SubsInit, AInv
<1>. QED
  BY <1>1, AInvInductive, PTL DEF SubsSpec

\* post_activate_key_handler adds the days of a key to a row at most once, whatever
\* else changes subscriptions meanwhile, unless two requests read the key's row
\* before either marked it, or a failed UPDATE or a crash came between the days and
\* the mark.
THEOREM KeyDaysOnce == SubsSpec => []KeyOnce
BY KeysMatch, AInvAlways, PTL DEF AInv

\* post_activate_key_handler marks a key for a subscription only after it added the
\* key's days to that subscription's row, races, errors and crashes included.
THEOREM KeyPaidFor == SubsSpec => []UsedMeansPaid
BY KeysMatch, AInvAlways, PTL DEF AInv

-----------------------------------------------------------------------------
(* The owner of a refer code stays: no step but a crash takes an entry out of *)
(* the Cache.                                                              *)

\* A request works for a subscription; while its add_days looks for the owner of
\* the code, the Cache has it.
RInv ==
  /\ req \in [Callers -> {NoReq} \cup Reqs]
  /\ \A r \in Callers : Busy(r) => /\ req[r].sub \in Subs
                                   /\ call[r].at # "missing"
                                   /\ call[r].at = "mem" => cache[call[r].sub] # Absent

\* The date of a new subscription is one.
LEMMA NewDatesShape ==
  ASSUME now \in Nat, NEW r
  PROVE  NewDates(r) \subseteq Nat
<1>1. \A days \in Grants : days \in Nat /\ now + days \in Nat /\ now + days + Bonus \in Nat
  BY SubDaysAssumption, ReferralAssumption
<1>. QED
  BY <1>1 DEF NewDates, NoDate

\* Every step but a crash is one of StoreStep.
LEMMA NextIsStoreStep ==
  ASSUME SInv, RInv, call \in [Callers -> {NoCall} \cup Calls],
         SubsNext \/ UNCHANGED allVars
  PROVE  StoreStep \/ Crash
<1>1. CASE KeyRequests
  <2>1. ASSUME NEW c \in Keys, PostKey(c)
        PROVE  Elsewhere
    BY <2>1, Zenon DEF PostKey, vars, Elsewhere
  <2>2. ASSUME NEW r \in Callers, NEW c \in Keys, NEW s \in Subs, ActivateGet(r, c, s)
        PROVE  Elsewhere
    <3>1. call[r] = NoCall /\ UNCHANGED <<now, row, cache, new, sync, history>>
      BY <2>2, Zenon DEF ActivateGet, AddDaysCall
    <3>2. call' = [call EXCEPT ![r] = [at |-> "mem", sub |-> s, days |-> DaysOf[c]]]
      BY <2>2, Zenon DEF ActivateGet, AddDaysCall
    <3>3. /\ \A q \in Callers \ {r} : call'[q] = call[q]
          /\ call[r].at # "db" /\ call'[r].at # "db"
      BY <3>1, <3>2 DEF NoCall
    <3>. QED
      BY <3>1, <3>3, CallElsewhere, Zenon
  <2>3. ASSUME NEW r \in Callers, Activation(r)
        PROVE  Elsewhere \/ AddDaysStep(r)
    <3>1. CASE ActivateAddDays(r)
      BY <3>1, Zenon DEF ActivateAddDays, AddDaysStep
    <3>2. CASE ActivateMark(r) \/ ActivateMarkFails(r) \/ ActivateRefused(r)
      <4>1. /\ call[r].at # "db" /\ call' = [call EXCEPT ![r] = NoCall]
            /\ UNCHANGED <<now, row, cache, new, sync, history>>
        BY <3>2, Zenon DEF ActivateMark, ActivateMarkFails, ActivateRefused, AddDaysReturn
      <4>2. call'[r].at # "db" /\ \A q \in Callers \ {r} : call'[q] = call[q]
        BY <4>1, Zenon DEF NoCall
      <4>. QED
        BY <4>1, <4>2, CallElsewhere, Zenon
    <3>. QED
      BY <2>3, <3>1, <3>2, Zenon DEF Activation
  <2>. QED
    BY <1>1, <2>1, <2>2, <2>3, Zenon DEF KeyRequests, StoreStep
<1>2. CASE ReferralRequests
  <2>1. ASSUME NEW r \in Callers, NEW trial \in BOOLEAN, NEW x \in Codes,
               NEW o \in Subs, NEW s \in Subs, PostReferred(r, trial, x, o, s)
        PROVE  Elsewhere
    <3>1. call[r] = NoCall /\ UNCHANGED <<now, row, cache, new, sync, history>>
      BY <2>1, Zenon DEF PostReferred, AddDaysCall
    <3>2. call' = [call EXCEPT ![r] = [at |-> "mem", sub |-> o, days |-> OwnerDays(trial, x)]]
      BY <2>1, Zenon DEF PostReferred, AddDaysCall
    <3>3. /\ \A q \in Callers \ {r} : call'[q] = call[q]
          /\ call[r].at # "db" /\ call'[r].at # "db"
      BY <3>1, <3>2 DEF NoCall
    <3>. QED
      BY <3>1, <3>3, CallElsewhere, Zenon
  <2>2. ASSUME NEW r \in Callers, RequestStep(r)
        PROVE  StoreStep
    <3>1. CASE PayBonus(r)
      BY <2>2, <3>1, Zenon DEF PayBonus, AddDaysStep, StoreStep
    <3>2. CASE BonusReturns(r)
      <4>1. /\ call[r].at # "db" /\ call' = [call EXCEPT ![r] = NoCall]
            /\ UNCHANGED <<now, row, cache, new, sync, history>>
        BY <3>2, Zenon DEF BonusReturns, AddDaysReturn
      <4>2. call'[r].at # "db" /\ \A q \in Callers \ {r} : call'[q] = call[q]
        BY <4>1, Zenon DEF NoCall
      <4>. QED
        BY <4>1, <4>2, CallElsewhere, Zenon DEF StoreStep
    <3>3. CASE InsertReferred(r)
      <4>1. NewDates(r) \subseteq Nat
        BY NewDatesShape, Zenon DEF SInv
      <4>2. req[r].sub \in Subs
        BY <2>2, <3>3, Zenon DEF RInv, InsertReferred, Busy
      <4>. QED
        BY <3>3, <4>1, <4>2, Zenon DEF InsertReferred, StoreStep
    <3>4. CASE FinishReferred(r)
      <4>1. req[r].sub \in Subs
        BY <2>2, <3>4, Zenon DEF RInv, FinishReferred, Busy
      <4>. QED
        BY <3>4, <4>1, Zenon DEF FinishReferred, StoreStep
    <3>5. CASE InsertFails(r)
      BY <3>5, Zenon DEF InsertFails, StoreStep, Elsewhere
    <3>. QED
      BY <2>2, <3>1, <3>2, <3>3, <3>4, <3>5, Zenon DEF RequestStep
  <2>. QED
    BY <1>2, <2>1, <2>2, Zenon DEF ReferralRequests, StoreStep
<1>3. CASE PlainRequests
  <2>1. ASSUME NEW s \in Subs, AddSub(s)
        PROVE  StoreStep
    <3>1. {NoDate} \cup {now + days : days \in Grants} \subseteq Nat
      BY SubDaysAssumption DEF SInv, NoDate
    <3>. QED
      BY <2>1, <3>1, Zenon DEF AddSub, StoreStep
  <2>. QED
    BY <1>3, <2>1, Zenon DEF PlainRequests, StoreStep
<1>4. CASE Tick \/ SyncStep
  BY <1>4, Zenon DEF StoreStep
<1>5. CASE UNCHANGED allVars
  BY <1>5, Zenon DEF allVars, vars, StoreStep, Elsewhere
<1>. QED
  BY <1>1, <1>2, <1>3, <1>4, <1>5, Zenon DEF SubsNext

\* A step of an activation is no step of a request with a refer code.
LEMMA ActivationApart ==
  ASSUME AInv, KeyRequests
  PROVE  \A p \in Callers : Busy(p) => call'[p] = call[p]
<1>0. KeyTypes /\ Apart
  BY Zenon DEF AInv, KInv
<1>1. ASSUME NEW c \in Keys, PostKey(c)
      PROVE  \A p \in Callers : Busy(p) => call'[p] = call[p]
  BY <1>1, Zenon DEF PostKey, vars
<1>2. ASSUME NEW r \in Callers, NEW c \in Keys, NEW s \in Subs,
             Idle(r), ActivateGet(r, c, s)
      PROVE  \A p \in Callers : Busy(p) => call'[p] = call[p]
  BY <1>0, <1>2, Zenon DEF Idle, ActivateGet, AddDaysCall, KeyTypes, Apart
<1>3. ASSUME NEW r \in Callers, act[r] # NoKey, Activation(r)
      PROVE  \A p \in Callers : Busy(p) => call'[p] = call[p]
  <2>1. ~Busy(r)
    BY <1>0, <1>3, Zenon DEF KeyTypes, Apart
  <2>2. CASE AddDaysStep(r)
    BY <1>0, <2>1, <2>2, CallMoves, Zenon DEF KeyTypes, Apart
  <2>3. CASE call' = [call EXCEPT ![r] = NoCall]
    BY <1>0, <2>1, <2>3, Zenon DEF KeyTypes, Apart
  <2>. QED
    BY <1>3, <2>2, <2>3, Zenon DEF Activation, ActivateAddDays, ActivateMark, ActivateMarkFails,
       ActivateRefused, AddDaysReturn, AddDaysStep
<1>. QED
  BY <1>1, <1>2, <1>3, Zenon DEF KeyRequests

\* One step of SubsNext, or a stuttering step.
LEMMA OwnerInductive ==
  AInv /\ SInv /\ RInv /\ [SubsNext]_allVars => SInv' /\ RInv'
\* A step that leaves requests and their calls alone, and every entry in the Cache.
<1>RInvLeftAlone. ASSUME RInv, EntriesStay, req' = req, call \in [Callers -> {NoCall} \cup Calls],
             \A r \in Callers : Busy(r) => call'[r] = call[r]
      PROVE  RInv'
  <2>. USE <1>RInvLeftAlone
  <2>1. \A r \in Callers : call[r].at = "mem" => call[r].sub \in Subs
    BY CallShape, Zenon DEF Calls
  <2>. QED
    BY <2>1, Zenon DEF RInv, EntriesStay, Busy

\* A step of the request that r serves: it leaves r done, or its call all right.
<1>RInvOneServed. ASSUME RInv, EntriesStay, call \in [Callers -> {NoCall} \cup Calls],
             NEW r \in Callers, NEW q \in {NoReq} \cup Reqs,
             req' = [req EXCEPT ![r] = q],
             \A p \in Callers \ {r} : call'[p] = call[p],
             call'[r].at # "missing",
             call'[r].at = "mem" => cache'[call'[r].sub] # Absent
      PROVE  RInv'
  <2>. USE <1>RInvOneServed
  <2>1. \A p \in Callers : call[p].at = "mem" => call[p].sub \in Subs
    BY CallShape, Zenon DEF Calls
  <2>2. req' \in [Callers -> {NoReq} \cup Reqs] /\ req'[r] = q
    BY Zenon DEF RInv
  <2>3. Busy(r)' => req'[r].sub \in Subs
    BY <2>2 DEF Busy, NoReq, Reqs
  <2>4. \A p \in Callers \ {r} : req'[p] = req[p]
    BY Zenon DEF RInv
  <2>. QED
    BY <2>1, <2>2, <2>3, <2>4 DEF RInv, EntriesStay, Busy

\* A step of a referral request: the code's owner was looked up in the Cache, and
\* add_days finds them there.
<1>RInvReferral. ASSUME AInv, RInv, EntriesStay, ReferralRequests
      PROVE  RInv'
  <2>. USE <1>RInvReferral
  <2>0. call \in [Callers -> {NoCall} \cup Calls]
    BY Zenon DEF AInv, KInv, KeyTypes
  <2>1. ASSUME NEW r \in Callers, NEW trial \in BOOLEAN, NEW x \in Codes,
               NEW o \in Subs, NEW s \in Subs, PostReferred(r, trial, x, o, s)
        PROVE  RInv'
    <3>1. [at |-> "bonus", trial |-> trial, code |-> x, sub |-> s] \in Reqs
      BY Zenon DEF Reqs
    <3>2. /\ req' = [req EXCEPT ![r] = [at |-> "bonus", trial |-> trial, code |-> x, sub |-> s]]
          /\ call' = [call EXCEPT ![r] = [at |-> "mem", sub |-> o, days |-> OwnerDays(trial, x)]]
          /\ cache[o] # Absent
      BY <2>1, Zenon DEF PostReferred, FindByReferCode, AddDaysCall
    <3>3. call'[r].at = "mem" /\ call'[r].sub = o /\ cache'[o] # Absent
      BY <2>0, <3>2, Zenon DEF EntriesStay
    <3>. QED
      BY <2>0, <3>1, <3>2, <3>3, <1>RInvOneServed, Zenon
  <2>2. ASSUME NEW r \in Callers, Busy(r), RequestStep(r)
        PROVE  RInv'
    <3>0. /\ req[r] \in Reqs
          /\ call[r].at # "missing"
          /\ call[r].at = "mem" => cache[call[r].sub] # Absent
      BY <2>2 DEF RInv, Busy, NoReq
    <3>1. CASE PayBonus(r)
      <4>1. AddDaysStep(r) /\ req' = req
        BY <3>1, Zenon DEF PayBonus, AddDaysStep, refVars
      <4>2. /\ \A p \in Callers \ {r} : call'[p] = call[p]
            /\ call[r] \in Calls /\ call[r].at \in {"mem", "db"}
        BY <2>0, <4>1, CallMoves, Zenon
      <4>3. call'[r].at \in {"db", "updated", "error"}
        BY <2>0, <3>0, <4>1, <4>2 DEF AddDaysStep, AddDaysMem, AddDaysDb, AddDaysDbFails, Calls
      <4>4. PICK q \in {NoReq} \cup Reqs : req' = [req EXCEPT ![r] = q]
        BY <3>0, <4>1, Zenon DEF RInv
      <4>5. call'[r].at # "missing" /\ call'[r].at # "mem"
        BY <4>3, Zenon
      <4>. QED
        BY <2>0, <4>2, <4>4, <4>5, <1>RInvOneServed, Zenon
    <3>2. CASE BonusReturns(r)
      <4>1. call' = [call EXCEPT ![r] = NoCall]
        BY <3>2, Zenon DEF BonusReturns, AddDaysReturn
      <4>2. PICK q \in {NoReq} \cup Reqs : req' = [req EXCEPT ![r] = q]
        <5>1. [req[r] EXCEPT !.at = "insert"] \in Reqs
          BY <3>0, Zenon DEF Reqs
        <5>. QED
          BY <3>2, <5>1, Zenon DEF BonusReturns
      <4>3. call'[r].at = "idle" /\ \A p \in Callers \ {r} : call'[p] = call[p]
        BY <2>0, <4>1, Zenon DEF NoCall
      <4>. QED
        BY <2>0, <4>2, <4>3, <1>RInvOneServed, Zenon
    <3>3. CASE InsertReferred(r) \/ InsertFails(r) \/ FinishReferred(r)
      <4>1. call' = call
        BY <3>3, CreationLeavesCalls, Zenon
      <4>2. PICK q \in {NoReq} \cup Reqs : req' = [req EXCEPT ![r] = q]
        <5>1. [req[r] EXCEPT !.at = "cache"] \in Reqs
          BY <3>0, Zenon DEF Reqs
        <5>. QED
          BY <3>3, <5>1, Zenon DEF InsertReferred, InsertFails, FinishReferred
      <4>3. call[r].at = "mem" => cache'[call[r].sub] # Absent
        BY <2>0, <3>0, CallShape, Zenon DEF EntriesStay, Calls
      <4>. QED
        BY <2>0, <3>0, <4>1, <4>2, <4>3, <1>RInvOneServed, Zenon
    <3>. QED
      BY <2>2, <3>1, <3>2, <3>3, Zenon DEF RequestStep
  <2>. QED
    BY <2>1, <2>2, Zenon DEF ReferralRequests

\* It keeps RInv.
<1>RInvActivation. ASSUME AInv, RInv, EntriesStay, KeyRequests
      PROVE  RInv'
  <2>. USE <1>RInvActivation
  <2>1. KeyTypes /\ req' = req
    BY Zenon DEF AInv, KInv, KeyRequests, refVars
  <2>. QED
    BY <2>1, ActivationApart, <1>RInvLeftAlone, Zenon DEF KeyTypes

<1>. QED
  <2> SUFFICES ASSUME AInv, SInv, RInv, [SubsNext]_allVars
               PROVE  SInv' /\ RInv'
    BY Zenon
  <2>0. call \in [Callers -> {NoCall} \cup Calls]
    BY Zenon DEF AInv, KInv, KeyTypes
  <2>1. CASE Crash
    <3>1. /\ now' = now /\ row' = row /\ cache' = row /\ sync' = NoSync
          /\ new' = [s \in Subs |-> Absent] /\ req' = [r \in Callers |-> NoReq]
      BY <2>1, Zenon DEF Crash, KeyRestart, RefRestart, Restart
    <3>2. SInv'
      BY <3>1 DEF SInv, NoSync, Absent
    <3>3. RInv'
      BY <3>1, Zenon DEF RInv, Busy, NoReq
    <3>. QED
      BY <3>2, <3>3, Zenon
  <2>2. CASE ~Crash
    <3>1. SInv' /\ EntriesStay
      BY <2>0, <2>2, NextIsStoreStep, StoreKeeps, Zenon
    <3>2. CASE KeyRequests
      BY <3>1, <3>2, <1>RInvActivation, Zenon
    <3>3. CASE ReferralRequests
      BY <3>1, <3>3, <1>RInvReferral, Zenon
    <3>4. CASE Quiet
      <4>1. call' = call /\ req' = req
        BY <3>4, QuietLeavesRequests, Zenon DEF refVars
      <4>. QED
        BY <2>0, <3>1, <4>1, <1>RInvLeftAlone, Zenon
    <3>. QED
      BY <2>2, <3>1, <3>2, <3>3, <3>4, Zenon DEF SubsNext, Quiet
  <2>. QED
    BY <2>1, <2>2, Zenon

\* At first there are no entries, no sync and no requests.
LEMMA OwnerInit ==
  SubsInit => SInv /\ RInv
<1> SUFFICES ASSUME SubsInit PROVE SInv /\ RInv
  BY Zenon
<1>1. SInv
  BY DEF SubsInit, Init, SInv, NoSync, Absent
<1>2. req = [r \in Callers |-> NoReq]
  BY Zenon DEF SubsInit, RefInit
<1>3. RInv
  BY <1>2, Zenon DEF RInv, NoReq, Busy
<1>. QED
  BY <1>1, <1>3, Zenon

\* SInv and RInv hold throughout.
LEMMA OwnerAlways == SubsSpec => [](SInv /\ RInv)
<1>1. AInv /\ SInv /\ RInv /\ [SubsNext]_allVars => (SInv /\ RInv)'
  BY OwnerInductive, Zenon
<1>. QED
  BY <1>1, OwnerInit, AInvAlways, PTL DEF SubsSpec

\* find_by_refer_code looks the owner up under a read lock that is released before
\* add_days takes the write lock; post_subscription_handler and post_trial_handler
\* ignore NotFound.  They may: the owner is still there, since a database sync reads
\* the tables and installs them under one write lock and no row is ever deleted.
THEOREM OwnerFound == SubsSpec => []OwnerStays
<1>1. RInv => OwnerStays
  BY Zenon DEF RInv, OwnerStays
<1>. QED
  BY <1>1, OwnerAlways, PTL

-----------------------------------------------------------------------------
(* The dates.                                                              *)

\* DInv holds throughout.
LEMMA DInvAlways == SubsSpec => []DInv
<1>1. AInv /\ SInv /\ RInv /\ DInv /\ [SubsNext]_allVars => DInv'
  <2> SUFFICES ASSUME AInv, SInv, RInv, DInv, [SubsNext]_allVars
               PROVE  DInv'
    BY Zenon
  <2>1. call \in [Callers -> {NoCall} \cup Calls]
    BY Zenon DEF AInv, KInv, KeyTypes
  <2>2. StoreStep \/ Restart
    BY <2>1, NextIsStoreStep, Zenon DEF Crash, KeyRestart
  <2>. QED
    BY <2>1, <2>2, DatesKept, Zenon
<1>2. SubsInit => DInv
  BY DatesInit, Zenon DEF SubsInit
<1>. QED
  BY <1>1, <1>2, AInvAlways, OwnerAlways, PTL DEF SubsSpec

\* The row of a subscription has the date that the add_sub, add_days and update_sub
\* calls which reported success add up to, however their steps interleave with each
\* other, with database syncs, errors and crashes, unless update_sub wrote back a
\* Cache date that had parted from the row.
THEOREM RowsAddUp == SubsSpec => []RowMatchesLedger
BY DatesMatch, DInvAlways, PTL

\* The Cache has the row's date while no add_days is between the two, except where
\* astray records that they parted: any number of add_days calls may be under way
\* for one subscription and write their rows in any order.
THEOREM CacheFollowsRow == SubsSpec => []CacheMatchesRow
BY DatesMatch, DInvAlways, PTL

-----------------------------------------------------------------------------
(* The bonuses.                                                            *)

Invited(x) == {s \in Subs : referred[s] = x}

\* Only rows are referred; a request whose bonus has been answered waits for no call;
\* and every bonus is accounted for.
BInv ==
  /\ referred \in [Subs -> Codes \cup {NoCode}]
  /\ bonuses \in [Codes -> Nat] /\ wasted \in [Codes -> Nat]
  /\ \A s \in Subs : row[s] = Absent => referred[s] = NoCode
  /\ \A r \in Callers : req[r].at \in {"insert", "cache"} => call[r] = NoCall
  /\ BonusLedger

\* One element more.
LEMMA OneMore ==
  ASSUME NEW S, IsFiniteSet(S), NEW e, e \notin S, NEW T, T = S \cup {e}
  PROVE  Cardinality(T) = Cardinality(S) + 1 /\ Cardinality(S) \in Nat
BY FS_AddElement, FS_CardinalityType, Zenon

\* One element less.
LEMMA OneLess ==
  ASSUME NEW S, IsFiniteSet(S), NEW e, e \in S, NEW T, T = S \ {e}
  PROVE  Cardinality(S) = Cardinality(T) + 1 /\ Cardinality(T) \in Nat
<1>1. /\ IsFiniteSet(T) /\ Cardinality(T) = Cardinality(S) - 1
      /\ Cardinality(S) \in Nat
  BY FS_RemoveElement, FS_CardinalityType, Zenon
<1>2. Cardinality(T) \in Nat
  BY <1>1, FS_CardinalityType, Zenon
<1>. QED
  BY <1>1, <1>2

\* Part of a finite set.
LEMMA PartCounted ==
  ASSUME NEW S, IsFiniteSet(S), NEW T, T \subseteq S
  PROVE  IsFiniteSet(T) /\ Cardinality(T) \in Nat
<1>1. IsFiniteSet(T)
  BY FS_Subset, Zenon
<1>. QED
  BY <1>1, FS_CardinalityType, Zenon

\* Nothing.
LEMMA NoneCounted == Cardinality({}) = 0
BY FS_EmptySet, Zenon

\* A step of worker r's request leaves the other workers and the ledgers of the codes
\* other than c alone.
OneLedger(r, c) ==
  /\ \A q \in Callers \ {r} : call'[q] = call[q] /\ req'[q] = req[q]
  /\ \A x \in Codes \ {c} : /\ bonuses'[x] = bonuses[x] /\ wasted'[x] = wasted[x]
                            /\ RowsReferredBy(x)' = RowsReferredBy(x)
                            /\ r \notin Owing(x) /\ r \notin Owing(x)'
  /\ bonuses' \in [Codes -> Nat] /\ wasted' \in [Codes -> Nat]

\* The ledger of c moves with what r owes.
Moved(r, c) ==
  \/ /\ bonuses'[c] = RowsReferredBy(c)' + wasted'[c] + Cardinality(Owing(c))
     /\ r \in Owing(c)' <=> r \in Owing(c)
  \/ /\ bonuses'[c] = RowsReferredBy(c)' + wasted'[c] + Cardinality(Owing(c)) + 1
     /\ r \in Owing(c)' /\ r \notin Owing(c)
  \/ /\ bonuses'[c] + 1 = RowsReferredBy(c)' + wasted'[c] + Cardinality(Owing(c))
     /\ r \notin Owing(c)' /\ r \in Owing(c)

\* There are finitely many workers and subscriptions.
LEMMA Counted ==
  ASSUME NEW x
  PROVE  /\ IsFiniteSet(Owing(x)) /\ Cardinality(Owing(x)) \in Nat
         /\ IsFiniteSet(Invited(x)) /\ RowsReferredBy(x) = Cardinality(Invited(x))
         /\ RowsReferredBy(x) \in Nat
<1>1. Owing(x) \subseteq Callers /\ Invited(x) \subseteq Subs
  BY Zenon DEF Owing, Invited
<1>2. IsFiniteSet(Owing(x)) /\ IsFiniteSet(Invited(x))
  BY <1>1, ReferralAssumption, PartCounted, Zenon
<1>3. RowsReferredBy(x) = Cardinality(Invited(x))
  BY Zenon DEF RowsReferredBy, Invited
<1>. QED
  BY <1>1, <1>3, ReferralAssumption, PartCounted, Zenon

\* One step of SubsNext, or a stuttering step.
LEMMA BInvInductive ==
  AInv /\ SInv /\ RInv /\ BInv /\ [SubsNext]_allVars => BInv'
\* A step of worker r only, after which it owes as before, more or less.
<1>OwingMoves. ASSUME NEW r \in Callers, NEW x,
             \A q \in Callers \ {r} : call'[q] = call[q] /\ req'[q] = req[q]
      PROVE  /\ (r \in Owing(x)' <=> r \in Owing(x)) => Owing(x)' = Owing(x)
             /\ r \in Owing(x)' /\ r \notin Owing(x)
                  => Cardinality(Owing(x)') = Cardinality(Owing(x)) + 1
             /\ r \notin Owing(x)' /\ r \in Owing(x)
                  => Cardinality(Owing(x)) = Cardinality(Owing(x)') + 1
  <2>. USE <1>OwingMoves
  <2>1. \A q \in Callers \ {r} : q \in Owing(x)' <=> q \in Owing(x)
    BY Zenon DEF Owing, Busy
  <2>2. Owing(x) \subseteq Callers /\ Owing(x)' \subseteq Callers
    BY Zenon DEF Owing
  <2>3. (r \in Owing(x)' <=> r \in Owing(x)) => Owing(x)' = Owing(x)
    BY <2>1, <2>2
  <2>4. r \in Owing(x)' /\ r \notin Owing(x) => Owing(x)' = Owing(x) \cup {r}
    BY <2>1, <2>2, Zenon
  <2>5. r \notin Owing(x)' /\ r \in Owing(x) => Owing(x)' = Owing(x) \ {r}
    BY <2>1, <2>2, Zenon
  <2>. QED
    BY <2>3, <2>4, <2>5, Counted, OneMore, OneLess

\* A step that touches no request's call.
<1>BonusLeftAlone. ASSUME BInv, UNCHANGED refVars, EntriesStay,
             req \in [Callers -> {NoReq} \cup Reqs],
             \A r \in Callers : Busy(r) => call'[r] = call[r]
      PROVE  BInv'
  <2>. USE <1>BonusLeftAlone
  <2>1. req' = req /\ referred' = referred /\ bonuses' = bonuses /\ wasted' = wasted
    BY Zenon DEF refVars
  <2>2. \A x : Owing(x)' = Owing(x)
    <3>1. ASSUME NEW x, NEW r \in Callers
          PROVE  r \in Owing(x)' <=> r \in Owing(x)
      BY <2>1, Zenon DEF Owing, Busy
    <3>. QED
      BY <3>1, Zenon DEF Owing
  <2>3. \A x : RowsReferredBy(x)' = RowsReferredBy(x)
    BY <2>1, Zenon DEF RowsReferredBy
  <2>4. BonusLedger'
    BY <2>1, <2>2, <2>3, Zenon DEF BInv, BonusLedger
  <2>5. \A r \in Callers : req'[r].at \in {"insert", "cache"} => call'[r] = NoCall
    BY <2>1, Zenon DEF BInv, Busy
  <2>6. \A s \in Subs : row'[s] = Absent => referred'[s] = NoCode
    BY <2>1, Zenon DEF BInv, EntriesStay
  <2>. QED
    BY <2>1, <2>4, <2>5, <2>6, Zenon DEF BInv

\* The same after a step.
<1>CountedNext. ASSUME NEW x
      PROVE  RowsReferredBy(x)' \in Nat /\ Cardinality(Owing(x)') \in Nat
  <2>. USE <1>CountedNext
  <2>1. Owing(x)' \subseteq Callers /\ Invited(x)' \subseteq Subs
    BY Zenon DEF Owing, Invited
  <2>2. IsFiniteSet(Owing(x)') /\ IsFiniteSet(Invited(x)')
    BY <2>1, ReferralAssumption, PartCounted, Zenon
  <2>3. RowsReferredBy(x)' = Cardinality(Invited(x)')
    BY Zenon DEF RowsReferredBy, Invited
  <2>. QED
    BY <2>1, <2>3, ReferralAssumption, PartCounted, Zenon

\* A step of the request that worker r serves, for code c: the ledger of c moves with
\* what r owes, and no other code's does.
<1>LedgerMoves. ASSUME BInv, NEW r \in Callers, NEW c \in Codes, OneLedger(r, c), Moved(r, c)
      PROVE  BonusLedger'
  <2>0. /\ \A q \in Callers \ {r} : call'[q] = call[q] /\ req'[q] = req[q]
        /\ bonuses' \in [Codes -> Nat] /\ wasted' \in [Codes -> Nat]
    BY <1>LedgerMoves, Zenon DEF OneLedger
  <2>1. ASSUME NEW x \in Codes \ {c}
        PROVE  bonuses'[x] = RowsReferredBy(x)' + wasted'[x] + Cardinality(Owing(x)')
    <3>1. Owing(x)' = Owing(x)
      BY <1>LedgerMoves, <2>0, <2>1, <1>OwingMoves, Zenon DEF OneLedger
    <3>. QED
      BY <1>LedgerMoves, <2>1, <3>1, Zenon DEF OneLedger, BInv, BonusLedger
  <2>2. bonuses'[c] = RowsReferredBy(c)' + wasted'[c] + Cardinality(Owing(c)')
    <3>1. /\ RowsReferredBy(c)' \in Nat /\ Cardinality(Owing(c)') \in Nat
          /\ Cardinality(Owing(c)) \in Nat /\ bonuses'[c] \in Nat /\ wasted'[c] \in Nat
      BY <2>0, Counted, <1>CountedNext, Zenon
    <3>2. /\ (r \in Owing(c)' <=> r \in Owing(c)) => Owing(c)' = Owing(c)
          /\ r \in Owing(c)' /\ r \notin Owing(c)
               => Cardinality(Owing(c)') = Cardinality(Owing(c)) + 1
          /\ r \notin Owing(c)' /\ r \in Owing(c)
               => Cardinality(Owing(c)) = Cardinality(Owing(c)') + 1
      BY <2>0, <1>OwingMoves, Zenon
    <3>. QED
      BY <1>LedgerMoves, <3>1, <3>2 DEF Moved
  <2>. QED
    BY <2>1, <2>2, Zenon DEF BonusLedger

\* What is known of a request under way.
<1>Underway. ASSUME AInv, RInv, NEW r \in Callers, Busy(r)
      PROVE  /\ call \in [Callers -> {NoCall} \cup Calls]
             /\ req \in [Callers -> {NoReq} \cup Reqs]
             /\ req[r] \in Reqs /\ req[r].code \in Codes /\ req[r].sub \in Subs
             /\ call[r].at # "missing"
  <2>1. call \in [Callers -> {NoCall} \cup Calls] /\ req \in [Callers -> {NoReq} \cup Reqs]
    BY <1>Underway, Zenon DEF AInv, KInv, KeyTypes, RInv
  <2>2. req[r] \in Reqs
    BY <1>Underway, <2>1 DEF Busy, NoReq
  <2>3. call[r].at # "missing"
    BY <1>Underway, Zenon DEF RInv
  <2>. QED
    BY <2>1, <2>2, <2>3, Zenon DEF Reqs

\* post_subscription_handler and post_trial_handler, up to add_days.
<1>PostReferredBonus. ASSUME AInv, RInv, BInv, NEW r \in Callers, NEW trial \in BOOLEAN, NEW c \in Codes,
             NEW o \in Subs, NEW s \in Subs, PostReferred(r, trial, c, o, s)
      PROVE  BInv'
  <2>. USE <1>PostReferredBonus
  <2>0. call \in [Callers -> {NoCall} \cup Calls] /\ req \in [Callers -> {NoReq} \cup Reqs]
    BY Zenon DEF AInv, KInv, KeyTypes, RInv
  <2>1. /\ req' = [req EXCEPT ![r] = [at |-> "bonus", trial |-> trial, code |-> c, sub |-> s]]
        /\ call' = [call EXCEPT ![r] = [at |-> "mem", sub |-> o, days |-> OwnerDays(trial, c)]]
        /\ referred' = referred /\ bonuses' = bonuses /\ wasted' = wasted /\ row' = row
        /\ ~Busy(r)
    BY Zenon DEF PostReferred, AddDaysCall
  <2>2. /\ \A q \in Callers \ {r} : call'[q] = call[q] /\ req'[q] = req[q]
        /\ req'[r].at = "bonus" /\ call'[r].at = "mem"
    BY <2>0, <2>1, Zenon
  <2>3. \A x : r \notin Owing(x) /\ r \notin Owing(x)'
    BY <2>1, <2>2, Zenon DEF Owing
  <2>4. \A x : RowsReferredBy(x)' = RowsReferredBy(x)
    BY <2>1, Zenon DEF RowsReferredBy
  <2>5. bonuses'[c] = RowsReferredBy(c)' + wasted'[c] + Cardinality(Owing(c))
    BY <2>1, <2>4, Zenon DEF BInv, BonusLedger
  <2>6. BonusLedger'
    <3>1. OneLedger(r, c)
      BY <2>1, <2>2, <2>3, <2>4, <2>5, Zenon DEF OneLedger, BInv
    <3>2. Moved(r, c)
      BY <2>3, <2>5, Zenon DEF Moved
    <3>. QED
      BY <3>1, <3>2, <1>LedgerMoves, Zenon
  <2>. QED
    BY <2>1, <2>2, <2>6, Zenon DEF BInv

\* add_days on the owner: its write is a bonus that r owes a subscription for.
<1>PayBonusBonus. ASSUME AInv, RInv, BInv, EntriesStay, NEW r \in Callers, Busy(r), PayBonus(r)
      PROVE  BInv'
  <2>. USE <1>PayBonusBonus
  <2>0. /\ call \in [Callers -> {NoCall} \cup Calls] /\ req \in [Callers -> {NoReq} \cup Reqs]
        /\ req[r] \in Reqs
    BY <1>Underway, Zenon
  <2>1. PICK c \in Codes : c = req[r].code
    BY <1>Underway, Zenon
  <2>2. AddDaysStep(r) /\ req' = req /\ referred' = referred /\ wasted' = wasted
    BY Zenon DEF PayBonus, AddDaysStep, refVars
  <2>3. /\ \A q \in Callers \ {r} : call'[q] = call[q] /\ req'[q] = req[q]
        /\ call[r] \in Calls /\ call[r].at \in {"mem", "db"}
        /\ call'[r].at = "updated" <=> AddDaysDb(r)
    BY <2>0, <2>2, CallMoves, Zenon
  <2>4. req[r].at \notin {"insert", "cache"}
    BY <2>3, CallShape, Zenon DEF BInv, NoCall
  <2>5. \A x : RowsReferredBy(x)' = RowsReferredBy(x)
    BY <2>2, Zenon DEF RowsReferredBy
  <2>6. \A x : r \notin Owing(x)
    BY <2>3, <2>4, Zenon DEF Owing
  <2>7. \A x : r \in Owing(x)' <=> x = c /\ call'[r].at = "updated"
    BY <2>1, <2>2, <2>4, Zenon DEF Owing, Busy
  <2>8. /\ \A s \in Subs : row'[s] = Absent => referred'[s] = NoCode
        /\ \A q \in Callers : req'[q].at \in {"insert", "cache"} => call'[q] = NoCall
    BY <2>2, <2>3, <2>4, Zenon DEF BInv, EntriesStay
  <2>9. CASE call'[r].at = "updated"
    <3>1. bonuses' = [bonuses EXCEPT ![c] = @ + 1]
      <4>1. AddDaysDb(r) /\ call[r].at = "db"
        BY <2>3, <2>9, Zenon DEF AddDaysDb
      <4>2. ~AddDaysMem(r)
        BY <4>1, Zenon DEF AddDaysMem
      <4>3. ~AddDaysDbFails(r)
        <5>1. AddDaysDbFails(r) => call'[r].at = "error"
          BY <2>0, <2>3, Zenon DEF AddDaysDbFails, Calls
        <5>. QED
          BY <2>9, <5>1, Zenon
      <4>. QED
        BY <2>1, <4>2, <4>3, Zenon DEF PayBonus
    <3>2. /\ bonuses' \in [Codes -> Nat] /\ bonuses'[c] = bonuses[c] + 1
          /\ \A x \in Codes \ {c} : bonuses'[x] = bonuses[x]
      BY <3>1 DEF BInv
    <3>3. bonuses'[c] = RowsReferredBy(c)' + wasted'[c] + Cardinality(Owing(c)) + 1
      BY <2>2, <2>5, <3>2, Zenon DEF BInv, BonusLedger
    <3>4. r \in Owing(c)' /\ r \notin Owing(c)
      BY <2>6, <2>7, <2>9, Zenon
    <3>5. BonusLedger'
      <4>1. OneLedger(r, c)
        BY <2>2, <2>3, <2>5, <2>6, <2>7, <3>2, <3>3, <3>4, Zenon DEF OneLedger, BInv
      <4>2. Moved(r, c)
        BY <3>3, <3>4, Zenon DEF Moved
      <4>. QED
        BY <4>1, <4>2, <1>LedgerMoves, Zenon
    <3>. QED
      BY <2>2, <2>8, <3>2, <3>5, Zenon DEF BInv
  <2>10. CASE call'[r].at # "updated"
    <3>1. bonuses' = bonuses
      BY <2>3, <2>10, Zenon DEF PayBonus, refVars
    <3>2. bonuses'[c] = RowsReferredBy(c)' + wasted'[c] + Cardinality(Owing(c))
      BY <2>2, <2>5, <3>1, Zenon DEF BInv, BonusLedger
    <3>3. BonusLedger'
      <4>1. OneLedger(r, c)
        BY <2>2, <2>3, <2>5, <2>6, <2>7, <2>10, <3>1, <3>2, Zenon DEF OneLedger, BInv
      <4>2. Moved(r, c)
        BY <2>6, <2>7, <2>10, <3>2, Zenon DEF Moved
      <4>. QED
        BY <4>1, <4>2, <1>LedgerMoves, Zenon
    <3>. QED
      BY <2>2, <2>8, <3>1, <3>3, Zenon DEF BInv
  <2>. QED
    BY <2>9, <2>10, Zenon

\* add_days answers: r owes a subscription iff the answer is Updated, for the owner
\* is never missing.
<1>BonusReturnsBonus. ASSUME AInv, RInv, BInv, EntriesStay, NEW r \in Callers, Busy(r), BonusReturns(r)
      PROVE  BInv'
  <2>. USE <1>BonusReturnsBonus
  <2>0. /\ call \in [Callers -> {NoCall} \cup Calls] /\ req \in [Callers -> {NoReq} \cup Reqs]
        /\ req[r] \in Reqs /\ call[r].at # "missing"
    BY <1>Underway, Zenon
  <2>1. PICK c \in Codes : c = req[r].code
    BY <1>Underway, Zenon
  <2>2. /\ req[r].at = "bonus" /\ call[r].at \in {"updated", "error"}
        /\ call' = [call EXCEPT ![r] = NoCall]
        /\ req' = IF call[r].at = "error" THEN [req EXCEPT ![r] = NoReq]
                                          ELSE [req EXCEPT ![r].at = "insert"]
        /\ referred' = referred /\ bonuses' = bonuses /\ wasted' = wasted
    BY <2>0, Zenon DEF BonusReturns, AddDaysReturn
  <2>3. /\ \A q \in Callers \ {r} : call'[q] = call[q] /\ req'[q] = req[q]
        /\ call'[r] = NoCall
        /\ call[r].at = "error" => req'[r].at = "idle"
        /\ call[r].at = "updated" => req'[r].at = "insert" /\ req'[r].code = c
    BY <2>0, <2>1, <2>2, Zenon DEF NoReq, Reqs
  <2>4. \A x : RowsReferredBy(x)' = RowsReferredBy(x)
    BY <2>2, Zenon DEF RowsReferredBy
  <2>5. \A x : r \in Owing(x) <=> x = c /\ call[r].at = "updated"
    BY <2>1, <2>2, Zenon DEF Owing, Busy
  <2>6. \A x : r \in Owing(x)' <=> x = c /\ call[r].at = "updated"
    BY <2>2, <2>3, Zenon DEF Owing, Busy, NoCall
  <2>7. bonuses'[c] = RowsReferredBy(c)' + wasted'[c] + Cardinality(Owing(c))
    BY <2>2, <2>4, Zenon DEF BInv, BonusLedger
  <2>8. BonusLedger'
    <3>1. OneLedger(r, c)
      BY <2>2, <2>3, <2>4, <2>5, <2>6, Zenon DEF OneLedger, BInv
    <3>2. Moved(r, c)
      BY <2>5, <2>6, <2>7, Zenon DEF Moved
    <3>. QED
      BY <3>1, <3>2, <1>LedgerMoves, Zenon
  <2>. QED
    BY <2>2, <2>3, <2>8, Zenon DEF BInv, EntriesStay

\* The INSERT writes a date.
<1>RowsGrow. ASSUME SInv, NEW r \in Callers, NEW s \in Subs, s = req[r].sub, InsertReferred(r)
      PROVE  row'[s] # Absent
  <2>. USE <1>RowsGrow
  <2>1. NewDates(r) \subseteq Nat
    BY NewDatesShape, Zenon DEF SInv
  <2>2. PICK date \in Nat : AddSubDb(s, date)
    BY <2>1, Zenon DEF InsertReferred
  <2>3. row' = [row EXCEPT ![s] = date]
    BY <2>2, Zenon DEF AddSubDb
  <2>. QED
    BY <2>3 DEF SInv, Absent

\* The INSERT: what r owed is created; or it fails, and the bonus is wasted.
<1>InsertBonus. ASSUME AInv, SInv, RInv, BInv, EntriesStay, NEW r \in Callers, Busy(r),
             InsertReferred(r) \/ InsertFails(r)
      PROVE  BInv'
  <2>. USE <1>InsertBonus
  <2>0. /\ call \in [Callers -> {NoCall} \cup Calls] /\ req \in [Callers -> {NoReq} \cup Reqs]
        /\ req[r] \in Reqs
    BY <1>Underway, Zenon
  <2>1. PICK c \in Codes : c = req[r].code
    BY <1>Underway, Zenon
  <2>2. PICK s \in Subs : s = req[r].sub
    BY <1>Underway, Zenon
  <2>3. /\ req[r].at = "insert" /\ call' = call /\ bonuses' = bonuses
        /\ \/ InsertReferred(r) /\ req' = [req EXCEPT ![r].at = "cache"]
           \/ InsertFails(r) /\ req' = [req EXCEPT ![r] = NoReq]
    BY CreationLeavesCalls, Zenon DEF InsertReferred, InsertFails
  <2>4. /\ \A q \in Callers \ {r} : call'[q] = call[q] /\ req'[q] = req[q]
        /\ req'[r].at \in {"cache", "idle"}
        /\ call[r] = NoCall
    BY <2>0, <2>3 DEF NoReq, Reqs, BInv
  <2>5. \A x : r \in Owing(x) <=> x = c
    BY <2>1, <2>3, Zenon DEF Owing, Busy
  <2>6. \A x : r \notin Owing(x)'
    BY <2>3, <2>4 DEF Owing, NoCall
  <2>7. \A q \in Callers : req'[q].at \in {"insert", "cache"} => call'[q] = NoCall
    BY <2>3, <2>4, Zenon DEF BInv
  <2>8. CASE InsertReferred(r)
    <3>0. \E date : AddSubDb(s, date)
      BY <2>2, <2>8, Zenon DEF InsertReferred
    <3>1. /\ referred' = [referred EXCEPT ![s] = c] /\ wasted' = wasted
          /\ row[s] = Absent
      BY <2>1, <2>2, <2>8, <3>0, Zenon DEF InsertReferred, AddSubDb
    <3>2. referred[s] = NoCode /\ NoCode \notin Codes
      BY <3>1, ReferralAssumption, Zenon DEF BInv
    <3>3. /\ referred'[s] = c /\ \A u \in Subs \ {s} : referred'[u] = referred[u]
          /\ referred' \in [Subs -> Codes \cup {NoCode}]
      BY <3>1, Zenon DEF BInv
    <3>4. Invited(c)' = Invited(c) \cup {s} /\ s \notin Invited(c)
      BY <3>2, <3>3, Zenon DEF Invited
    <3>5. \A x \in Codes \ {c} : Invited(x)' = Invited(x)
      BY <3>2, <3>3, Zenon DEF Invited
    <3>6. \A x : RowsReferredBy(x)' = Cardinality(Invited(x)')
      BY Zenon DEF RowsReferredBy, Invited
    <3>7. RowsReferredBy(c)' = RowsReferredBy(c) + 1 /\ RowsReferredBy(c) \in Nat
      BY <3>4, <3>6, Counted, OneMore, Zenon
    <3>8. \A x \in Codes \ {c} : RowsReferredBy(x)' = RowsReferredBy(x)
      BY <3>5, <3>6, Counted, Zenon
    <3>9. bonuses'[c] + 1 = RowsReferredBy(c)' + wasted'[c] + Cardinality(Owing(c))
      <4>1. /\ bonuses[c] = RowsReferredBy(c) + wasted[c] + Cardinality(Owing(c))
            /\ wasted[c] \in Nat /\ Cardinality(Owing(c)) \in Nat
        BY Counted, Zenon DEF BInv, BonusLedger
      <4>. QED
        BY <2>3, <3>1, <3>7, <4>1
    <3>10. BonusLedger'
      <4>1. OneLedger(r, c)
        BY <2>3, <2>4, <2>5, <2>6, <3>1, <3>8, <3>9, Zenon DEF OneLedger, BInv
      <4>2. Moved(r, c)
        BY <2>5, <2>6, <3>9, Zenon DEF Moved
      <4>. QED
        BY <4>1, <4>2, <1>LedgerMoves, Zenon
    <3>11. \A u \in Subs : row'[u] = Absent => referred'[u] = NoCode
      <4>1. \A u \in Subs \ {s} : row'[u] = Absent => referred'[u] = NoCode
        BY <3>3, Zenon DEF BInv, EntriesStay
      <4>2. row'[s] # Absent
        BY <2>2, <2>8, <1>RowsGrow, Zenon
      <4>. QED
        BY <4>1, <4>2, Zenon
    <3>. QED
      BY <2>3, <2>7, <3>1, <3>3, <3>10, <3>11, Zenon DEF BInv
  <2>9. CASE InsertFails(r)
    <3>1. /\ referred' = referred /\ wasted' = [wasted EXCEPT ![c] = @ + 1] /\ row' = row
      BY <2>1, <2>9, Zenon DEF InsertFails
    <3>2. /\ wasted' \in [Codes -> Nat] /\ wasted'[c] = wasted[c] + 1
          /\ \A x \in Codes \ {c} : wasted'[x] = wasted[x]
      BY <3>1 DEF BInv
    <3>3. \A x : RowsReferredBy(x)' = RowsReferredBy(x)
      BY <3>1, Zenon DEF RowsReferredBy
    <3>4. bonuses'[c] + 1 = RowsReferredBy(c)' + wasted'[c] + Cardinality(Owing(c))
      <4>1. /\ bonuses[c] = RowsReferredBy(c) + wasted[c] + Cardinality(Owing(c))
            /\ wasted[c] \in Nat /\ RowsReferredBy(c) \in Nat /\ Cardinality(Owing(c)) \in Nat
        BY Counted, Zenon DEF BInv, BonusLedger
      <4>2. RowsReferredBy(c)' = RowsReferredBy(c)
        BY <3>3, Zenon
      <4>. QED
        BY <2>3, <3>2, <4>1, <4>2
    <3>5. BonusLedger'
      <4>1. OneLedger(r, c)
        BY <2>3, <2>4, <2>5, <2>6, <3>2, <3>3, <3>4, Zenon DEF OneLedger, BInv
      <4>2. Moved(r, c)
        BY <2>5, <2>6, <3>4, Zenon DEF Moved
      <4>. QED
        BY <4>1, <4>2, <1>LedgerMoves, Zenon
    <3>. QED
      BY <2>3, <2>7, <3>1, <3>2, <3>5, Zenon DEF BInv
  <2>. QED
    BY <2>8, <2>9, Zenon

\* The request's end.
<1>FinishBonus. ASSUME AInv, RInv, BInv, EntriesStay, NEW r \in Callers, Busy(r), FinishReferred(r)
      PROVE  BInv'
  <2>. USE <1>FinishBonus
  <2>0. /\ call \in [Callers -> {NoCall} \cup Calls] /\ req \in [Callers -> {NoReq} \cup Reqs]
        /\ req[r] \in Reqs
    BY <1>Underway, Zenon
  <2>1. PICK c \in Codes : c = req[r].code
    BY <1>Underway, Zenon
  <2>2. /\ req[r].at = "cache" /\ call' = call /\ req' = [req EXCEPT ![r] = NoReq]
        /\ referred' = referred /\ bonuses' = bonuses /\ wasted' = wasted /\ row' = row
    BY Zenon DEF FinishReferred, AddSubMem
  <2>3. /\ \A q \in Callers \ {r} : call'[q] = call[q] /\ req'[q] = req[q]
        /\ req'[r].at = "idle" /\ call[r] = NoCall
    BY <2>0, <2>2, Zenon DEF NoReq, BInv
  <2>4. \A x : r \notin Owing(x) /\ r \notin Owing(x)'
    BY <2>2, <2>3 DEF Owing, NoCall
  <2>5. \A x : RowsReferredBy(x)' = RowsReferredBy(x)
    BY <2>2, Zenon DEF RowsReferredBy
  <2>6. bonuses'[c] = RowsReferredBy(c)' + wasted'[c] + Cardinality(Owing(c))
    BY <2>2, <2>5, Zenon DEF BInv, BonusLedger
  <2>7. BonusLedger'
    <3>1. OneLedger(r, c)
      BY <2>2, <2>3, <2>4, <2>5, <2>6, Zenon DEF OneLedger, BInv
    <3>2. Moved(r, c)
      BY <2>4, <2>6, Zenon DEF Moved
    <3>. QED
      BY <3>1, <3>2, <1>LedgerMoves, Zenon
  <2>. QED
    BY <2>2, <2>3, <2>7, Zenon DEF BInv

\* A crash ends every request and wastes what they owed.
<1>CrashBonus. ASSUME BInv, Crash
      PROVE  BInv'
  <2>. USE <1>CrashBonus
  <2>1. /\ call' = [r \in Callers |-> NoCall] /\ req' = [r \in Callers |-> NoReq]
        /\ wasted' = [x \in Codes |-> wasted[x] + Cardinality(Owing(x))]
        /\ referred' = referred /\ bonuses' = bonuses /\ row' = row
    BY Zenon DEF Crash, KeyRestart, RefRestart, Restart
  <2>2. \A x : Owing(x)' = {}
    BY <2>1, Zenon DEF Owing, Busy, NoReq
  <2>3. \A x : RowsReferredBy(x)' = RowsReferredBy(x)
    BY <2>1, Zenon DEF RowsReferredBy
  <2>4. wasted' \in [Codes -> Nat]
    BY <2>1, Counted DEF BInv
  <2>5. ASSUME NEW x \in Codes
        PROVE  bonuses'[x] = RowsReferredBy(x)' + wasted'[x] + Cardinality(Owing(x)')
    <3>1. Cardinality(Owing(x)') = 0
      BY <2>2, NoneCounted, Zenon
    <3>2. /\ bonuses[x] = RowsReferredBy(x) + wasted[x] + Cardinality(Owing(x))
          /\ wasted[x] \in Nat /\ RowsReferredBy(x) \in Nat /\ Cardinality(Owing(x)) \in Nat
      BY Counted, Zenon DEF BInv, BonusLedger
    <3>3. /\ bonuses'[x] = bonuses[x] /\ RowsReferredBy(x)' = RowsReferredBy(x)
          /\ wasted'[x] = wasted[x] + Cardinality(Owing(x))
      BY <2>1, <2>3, Zenon
    <3>. QED
      BY <3>1, <3>2, <3>3
  <2>6. BonusLedger'
    BY <2>5, Zenon DEF BonusLedger
  <2>. QED
    BY <2>1, <2>4, <2>6, Zenon DEF BInv

<1>. QED
  <2> SUFFICES ASSUME AInv, SInv, RInv, BInv, [SubsNext]_allVars
               PROVE  BInv'
    BY Zenon
  <2>0. /\ call \in [Callers -> {NoCall} \cup Calls] /\ req \in [Callers -> {NoReq} \cup Reqs]
    BY Zenon DEF AInv, KInv, KeyTypes, RInv
  <2>1. CASE Crash
    BY <2>1, <1>CrashBonus, Zenon
  <2>2. CASE ~Crash
    <3>1. EntriesStay
      BY <2>0, <2>2, NextIsStoreStep, StoreKeeps, Zenon
    <3>2. CASE KeyRequests
      BY <2>0, <3>1, <3>2, ActivationApart, <1>BonusLeftAlone, Zenon DEF KeyRequests
    <3>3. CASE ReferralRequests
      <4>1. ASSUME NEW r \in Callers, Busy(r), RequestStep(r)
            PROVE  BInv'
        BY <3>1, <4>1, <1>PayBonusBonus, <1>BonusReturnsBonus, <1>InsertBonus, <1>FinishBonus, Zenon
        DEF RequestStep
      <4>2. ASSUME NEW r \in Callers, NEW trial \in BOOLEAN, NEW x \in Codes,
                   NEW o \in Subs, NEW s \in Subs, PostReferred(r, trial, x, o, s)
            PROVE  BInv'
        BY <4>2, <1>PostReferredBonus, Zenon
      <4>. QED
        BY <3>3, <4>1, <4>2, Zenon DEF ReferralRequests
    <3>4. CASE Quiet
      BY <2>0, <3>1, <3>4, QuietLeavesRequests, <1>BonusLeftAlone, Zenon
    <3>. QED
      BY <2>2, <3>2, <3>3, <3>4, Zenon DEF SubsNext, Quiet
  <2>. QED
    BY <2>1, <2>2, Zenon

\* At first nobody is referred and nothing is owed.
LEMMA BInvInit ==
  SubsInit => BInv
<1> SUFFICES ASSUME SubsInit PROVE BInv
  BY Zenon
<1>1. /\ req = [r \in Callers |-> NoReq] /\ referred = [s \in Subs |-> NoCode]
      /\ bonuses = [x \in Codes |-> 0] /\ wasted = [x \in Codes |-> 0]
  BY Zenon DEF SubsInit, RefInit
<1>2. ASSUME NEW x \in Codes
      PROVE  bonuses[x] = RowsReferredBy(x) + wasted[x] + Cardinality(Owing(x))
  <2>1. Owing(x) = {}
    BY <1>1, Zenon DEF Owing, Busy, NoReq
  <2>2. Invited(x) = {}
    BY <1>1, ReferralAssumption, Zenon DEF Invited
  <2>3. Cardinality(Owing(x)) = 0 /\ RowsReferredBy(x) = 0
    BY <2>1, <2>2, Counted, NoneCounted, Zenon
  <2>. QED
    BY <1>1, <2>3
<1>3. BonusLedger
  BY <1>2, Zenon DEF BonusLedger
<1>. QED
  BY <1>1, <1>3, Zenon DEF BInv, NoReq

\* Every referred subscription was paid for with a bonus to the owner of its code, and
\* every bonus is for a referred subscription, for a request that is about to create
\* one, or for one that a failed INSERT or a crash ended: the handlers stop when
\* add_days fails, and its NotFound, which they ignore, does not happen.
THEOREM BonusesAccounted == SubsSpec => []BonusLedger
<1>1. AInv /\ SInv /\ RInv /\ BInv /\ [SubsNext]_allVars => BInv'
  BY BInvInductive, Zenon
<1>2. BInv => BonusLedger
  BY Zenon DEF BInv
<1>. QED
  BY <1>1, <1>2, BInvInit, AInvAlways, OwnerAlways, PTL DEF SubsSpec

=============================================================================
