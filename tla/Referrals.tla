----------------------------- MODULE Referrals ------------------------------
(***************************************************************************)
(* Subscriptions created with a refer code: POST /subscription and          *)
(* POST /trial look up the owner of the code under a read lock, add bonus   *)
(* days to the owner, and only then create the new subscription             *)
(* (src/bin/api/http/handlers/subscription.rs and trial.rs).  The bonus is  *)
(* SubDays' add_days, the creation SubDays' add_sub, and database syncs,    *)
(* errors and crashes come between any two steps.                           *)
(***************************************************************************)
EXTENDS SubDays

CONSTANTS
  Codes,    \* refer codes
  System,   \* system_refer_codes, a subset of Codes
  CodeOf,   \* CodeOf[s]: refer_code of s; two subscriptions may share one
  Bonus,    \* bonus_days of the configuration
  NoCode

ASSUME ReferralAssumption ==
  /\ System \subseteq Codes /\ NoCode \notin Codes
  /\ CodeOf \in [Subs -> Codes]
  /\ Bonus \in Nat /\ {0, Bonus} \subseteq Grants
  /\ IsFiniteSet(Subs) /\ IsFiniteSet(Callers)

VARIABLES
  req,      \* req[r]: request r
  referred, \* referred[s]: referred_by in the row of s
  bonuses,  \* bonuses[x]: how often code x had bonus days added to a row (history)
  wasted    \* wasted[x]: ... for a request that then created nothing (history)

refVars == <<req, referred, bonuses, wasted>>

NoReq == [at |-> "idle"]
Reqs == [at : {"bonus", "insert", "cache"}, trial : BOOLEAN, code : Codes, sub : Subs]

Busy(r) == req[r].at # "idle"
IsUserReferral(x) == x \notin System

\* Requests for code x that have paid the bonus and not created anything yet.
Owing(x) == {r \in Callers : /\ Busy(r) /\ req[r].code = x
                             /\ req[r].at = "insert" \/ call[r].at = "updated"}

\* The subscriptions created with code x, in the database.
RowsReferredBy(x) == Cardinality({s \in Subs : referred[s] = x})

RefInit ==
  /\ req = [r \in Callers |-> NoReq]
  /\ referred = [s \in Subs |-> NoCode]
  /\ bonuses = [x \in Codes |-> 0]
  /\ wasted = [x \in Codes |-> 0]

\* find_by_refer_code: some entry of the Cache with that code.
FindByReferCode(x, o) == cache[o] # Absent /\ CodeOf[o] = x

\* post_subscription_handler adds the bonus to the owner of a system code too,
\* post_trial_handler adds no days then.
OwnerDays(trial, x) == IF trial /\ x \in System THEN 0 ELSE Bonus

\* The handlers up to add_days; s is the fresh id.
PostReferred(r, trial, x, o, s) ==
  /\ ~Busy(r) /\ MemFree
  /\ FindByReferCode(x, o)
  /\ row[s] = Absent /\ \A q \in Callers : Busy(q) => req[q].sub # s
  /\ req' = [req EXCEPT ![r] = [at |-> "bonus", trial |-> trial, code |-> x, sub |-> s]]
  /\ AddDaysCall(r, o, OwnerDays(trial, x))
  /\ UNCHANGED <<referred, bonuses, wasted>>

\* add_days on the owner.
PayBonus(r) ==
  \/ (AddDaysMem(r) \/ AddDaysDbFails(r)) /\ UNCHANGED refVars
  \/ /\ AddDaysDb(r)
     /\ bonuses' = [bonuses EXCEPT ![req[r].code] = @ + 1]
     /\ UNCHANGED <<req, referred, wasted>>

\* Mutant: an error of add_days does not stop the request.
BonusReturnsIgnoring(r) ==
  /\ req[r].at = "bonus"
  /\ AddDaysReturn(r)
  /\ req' = [req EXCEPT ![r].at = "insert"]
  /\ UNCHANGED <<referred, bonuses, wasted>>

\* add_days returns: an error ends the request, NotFound does not.
BonusReturns(r) ==
  /\ req[r].at = "bonus"
  /\ AddDaysReturn(r)
  /\ req' = IF call[r].at = "error" THEN [req EXCEPT ![r] = NoReq]
                                    ELSE [req EXCEPT ![r].at = "insert"]
  /\ UNCHANGED <<referred, bonuses, wasted>>

\* Expiry of the new subscription: a trial has its own days and no bonus; a
\* subscription has the requested days and the bonus of a user's code, or no date.
NewDates(r) ==
  IF req[r].trial THEN {now + days : days \in Grants}
  ELSE {NoDate} \cup {now + days + (IF IsUserReferral(req[r].code) THEN Bonus ELSE 0)
                      : days \in Grants}

\* add_sub, the INSERT.
InsertReferred(r) ==
  /\ req[r].at = "insert"
  /\ \E date \in NewDates(r) : date <= MaxDate /\ AddSubDb(req[r].sub, date)
  /\ req' = [req EXCEPT ![r].at = "cache"]
  /\ referred' = [referred EXCEPT ![req[r].sub] = req[r].code]
  /\ UNCHANGED <<bonuses, wasted>>

\* The INSERT fails, and the bonus stays.
InsertFails(r) ==
  /\ req[r].at = "insert"
  /\ Fault
  /\ req' = [req EXCEPT ![r] = NoReq]
  /\ wasted' = [wasted EXCEPT ![req[r].code] = @ + 1]
  /\ UNCHANGED <<now, row, cache, new, call, sync, history, referred, bonuses>>

\* add_sub, the Cache.
FinishReferred(r) ==
  /\ req[r].at = "cache"
  /\ AddSubMem(req[r].sub)
  /\ req' = [req EXCEPT ![r] = NoReq]
  /\ UNCHANGED <<referred, bonuses, wasted>>

\* A crash ends every request; what it had paid is wasted.
RefRestart ==
  /\ Restart
  /\ req' = [r \in Callers |-> NoReq]
  /\ wasted' = [x \in Codes |-> wasted[x] + Cardinality(Owing(x))]
  /\ UNCHANGED <<referred, bonuses>>

RequestStep(r) == \/ PayBonus(r) \/ BonusReturns(r)
                  \/ InsertReferred(r) \/ InsertFails(r) \/ FinishReferred(r)

-----------------------------------------------------------------------------
(* Properties.                                                             *)

\* The owner found under the read lock is still there when add_days looks for
\* it under the write lock, so the handlers may ignore NotFound: a database
\* sync holds the write lock from its reads to its install.
OwnerStays == \A r \in Callers : Busy(r) => call[r].at # "missing"

\* Every referred subscription has paid for itself, and every bonus is for a
\* referred subscription, for a request about to create one, or for one that
\* the INSERT or a crash ended.
BonusLedger ==
  \A x \in Codes :
    bonuses[x] = RowsReferredBy(x) + wasted[x] + Cardinality(Owing(x))
=============================================================================
