--------------------------- MODULE Subscriptions ----------------------------
(***************************************************************************)
(* What changes subscriptions, together: the activations of access keys     *)
(* (KeyActivation), the creations with a refer code (Referrals), and those  *)
(* without one, PUT /subscription, the database sync and crashes (SubDays). *)
(* They meet in the dates that SubDays keeps: each worker serves one        *)
(* request at a time, and the days of one request are added between any     *)
(* two steps of another.                                                   *)
(***************************************************************************)
EXTENDS KeyActivation, Referrals

allVars == <<vars, keyVars, refVars>>

SubsInit == Init /\ KeyInit /\ RefInit

Idle(r) == act[r] = NoKey /\ ~Busy(r)

KeyRequests ==
  /\ \/ \E c \in Keys : PostKey(c)
     \/ \E r \in Callers, c \in Keys, s \in Subs : Idle(r) /\ ActivateGet(r, c, s)
     \/ \E r \in Callers : act[r] # NoKey /\ Activation(r)
  /\ UNCHANGED refVars

ReferralRequests ==
  /\ \/ \E r \in Callers, trial \in BOOLEAN, x \in Codes, o, s \in Subs :
          Idle(r) /\ PostReferred(r, trial, x, o, s)
     \/ \E r \in Callers : Busy(r) /\ RequestStep(r)
  /\ UNCHANGED keyVars

\* A subscription without a refer code has an id of its own.
PlainRequests ==
  /\ \E s \in Subs : \/ AddSub(s) /\ \A r \in Callers : Busy(r) => req[r].sub # s
                     \/ Update(s)
  /\ UNCHANGED <<keyVars, refVars>>

Crash == KeyRestart /\ RefRestart

SubsNext ==
  \/ KeyRequests
  \/ ReferralRequests
  \/ PlainRequests
  \/ (Tick \/ SyncStep) /\ UNCHANGED <<keyVars, refVars>>
  \/ Crash

SubsSpec == SubsInit /\ [][SubsNext]_allVars
=============================================================================
