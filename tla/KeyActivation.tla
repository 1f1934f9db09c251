--------------------------- MODULE KeyActivation ----------------------------
(***************************************************************************)
(* Access keys: POST /key issues one, POST /key/activate turns it into days *)
(* of a subscription (src/bin/api/http/handlers/key.rs).  An activation     *)
(* reads the key's row, runs add_days, and then marks the row; the three    *)
(* are separate, and add_days is SubDays' own two steps.  The module        *)
(* Subscriptions composes them with whatever else changes subscriptions.   *)
(***************************************************************************)
EXTENDS SubDays

CONSTANTS
  Keys,    \* key codes
  DaysOf,  \* DaysOf[c]: the days of key c
  NoKey,
  NoSub

ASSUME KeyAssumption == /\ DaysOf \in [Keys -> Grants]
                        /\ NoKey \notin Keys
                        /\ NoSub \notin Subs

VARIABLES
  issued,   \* keys that have a row
  usedBy,   \* usedBy[c]: subscription_id of an activated key, else NoSub
  act,      \* act[r]: the key that activation request r works on
  credits,  \* credits[c]: how often the days of c were added to a row (history)
  paid,     \* paid[c]: the subscriptions they were added to (history)
  raced     \* keys read by two requests at once, or whose row could not be
            \* marked after their days were added (history)

keyVars == <<issued, usedBy, act, credits, paid, raced>>

KeyInit ==
  /\ issued = {}
  /\ usedBy = [c \in Keys |-> NoSub]
  /\ act = [r \in Callers |-> NoKey]
  /\ credits = [c \in Keys |-> 0]
  /\ paid = [c \in Keys |-> {}]
  /\ raced = {}

\* post_key_handler: Key::new and the INSERT.
PostKey(c) ==
  /\ c \notin issued
  /\ issued' = issued \cup {c}
  /\ UNCHANGED <<vars, usedBy, act, credits, paid, raced>>

\* Mutant: an activated key is not refused.
ActivateGetUsed(r, c, s) ==
  /\ act[r] = NoKey
  /\ c \in issued
  /\ act' = [act EXCEPT ![r] = c]
  /\ raced' = IF \E q \in Callers : act[q] = c THEN raced \cup {c} ELSE raced
  /\ AddDaysCall(r, s, DaysOf[c])
  /\ UNCHANGED <<issued, usedBy, credits, paid>>

\* post_activate_key_handler, up to add_days: the key has a row and is not
\* activated.
ActivateGet(r, c, s) ==
  /\ act[r] = NoKey
  /\ c \in issued /\ usedBy[c] = NoSub
  /\ act' = [act EXCEPT ![r] = c]
  /\ raced' = IF \E q \in Callers : act[q] = c THEN raced \cup {c} ELSE raced
  /\ AddDaysCall(r, s, DaysOf[c])
  /\ UNCHANGED <<issued, usedBy, credits, paid>>

\* add_days, counted when it writes the row.
ActivateAddDays(r) ==
  LET c == act[r] IN
  \/ (AddDaysMem(r) \/ AddDaysDbFails(r)) /\ UNCHANGED keyVars
  \/ /\ AddDaysDb(r)
     /\ credits' = [credits EXCEPT ![c] = @ + 1]
     /\ paid' = [paid EXCEPT ![c] = @ \cup {call[r].sub}]
     /\ UNCHANGED <<issued, usedBy, act, raced>>

\* Mutant: the key is marked whatever add_days answered.
ActivateMarkAlways(r) ==
  /\ usedBy' = [usedBy EXCEPT ![act[r]] = call[r].sub]
  /\ act' = [act EXCEPT ![r] = NoKey]
  /\ AddDaysReturn(r)
  /\ UNCHANGED <<issued, credits, paid, raced>>

\* Key::activate and PgKey::activate, once add_days answered Updated.
ActivateMark(r) ==
  /\ call[r].at = "updated"
  /\ usedBy' = [usedBy EXCEPT ![act[r]] = call[r].sub]
  /\ act' = [act EXCEPT ![r] = NoKey]
  /\ AddDaysReturn(r)
  /\ UNCHANGED <<issued, credits, paid, raced>>

\* The UPDATE fails, and the days stay.
ActivateMarkFails(r) ==
  /\ call[r].at = "updated"
  /\ Fault
  /\ act' = [act EXCEPT ![r] = NoKey]
  /\ call' = [call EXCEPT ![r] = NoCall]
  /\ raced' = raced \cup {act[r]}
  /\ UNCHANGED <<now, row, cache, new, sync, history, issued, usedBy, credits, paid>>

\* add_days found no subscription, or failed.
ActivateRefused(r) ==
  /\ call[r].at \in {"missing", "error"}
  /\ act' = [act EXCEPT ![r] = NoKey]
  /\ AddDaysReturn(r)
  /\ UNCHANGED <<issued, usedBy, credits, paid, raced>>

\* A crash may come between the days and the mark.
KeyRestart ==
  /\ Restart
  /\ raced' = raced \cup {act[r] : r \in {q \in Callers : act[q] # NoKey /\ call[q].at = "updated"}}
  /\ act' = [r \in Callers |-> NoKey]
  /\ UNCHANGED <<issued, usedBy, credits, paid>>

Activation(r) == \/ ActivateAddDays(r)
                 \/ ActivateMark(r) \/ ActivateMarkFails(r) \/ ActivateRefused(r)

-----------------------------------------------------------------------------
(* Properties.                                                             *)

\* A key adds its days at most once, unless two requests read its row before
\* either marked it, or the row could not be marked: post_activate_key_handler
\* reads, adds and marks in three steps, and the UPDATE has no condition.
KeyOnce == \A c \in Keys : credits[c] <= 1 \/ c \in raced

\* A key is never used up for nothing: the subscription that an activated key
\* names had the key's days added to its row.
UsedMeansPaid == \A c \in Keys : usedBy[c] # NoSub => usedBy[c] \in paid[c]
=============================================================================
