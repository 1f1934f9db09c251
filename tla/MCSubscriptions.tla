-------------------------- MODULE MCSubscriptions ---------------------------
(* Small instances of Subscriptions: s1 owns a user's code, the others a    *)
(* system code.                                                            *)
EXTENDS Subscriptions, TLC

CONSTANTS r1, r2, s1, s2, c1, user, web

MCCodeOf == [s \in Subs |-> IF s = s1 THEN user ELSE web]
MCDaysOf == [c \in Keys |-> 1]
MCShifts == {1}
MCSymmetry == Permutations({r1, r2})

\* At most two events in all: days added, a day gone by, a fault.
MCBudget == credits[c1] + bonuses[user] + bonuses[web] + (now - 1) + faults <= 2
=============================================================================
