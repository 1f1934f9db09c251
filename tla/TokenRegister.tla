--------------------------- MODULE TokenRegister ----------------------------
(***************************************************************************)
(* What the auth service promises: every token is a register of its own.    *)
(* What the API announces about a token reaches it in order and without     *)
(* regard to other tokens, until the service stops; a stopped service       *)
(* forgets everything but what it saved.                                   *)
(***************************************************************************)
EXTENDS Naturals, Sequences

CONSTANT Conns    \* connections, each with its token

VARIABLES
  accepted,  \* connections whose token is known
  pending,   \* pending[c]: announcements about c the service has not heard yet
  saved      \* what a start recalls

vars == <<accepted, pending, saved>>

Acts == {"add", "del"}

Init ==
  /\ accepted = {}
  /\ pending = [c \in Conns |-> <<>>]
  /\ saved = {}

\* The API announces the same about the connections in cs.
Announce(cs, act) ==
  /\ pending' = [c \in Conns |-> IF c \in cs THEN Append(pending[c], act) ELSE pending[c]]
  /\ UNCHANGED <<accepted, saved>>

\* The service hears the next announcement about each connection in cs.
Hear(cs, act) ==
  /\ \A c \in cs : pending[c] # <<>> /\ Head(pending[c]) = act
  /\ pending' = [c \in Conns |-> IF c \in cs THEN Tail(pending[c]) ELSE pending[c]]
  /\ accepted' = IF act = "add" THEN accepted \cup cs ELSE accepted \ cs
  /\ UNCHANGED saved

Save == saved' = accepted /\ UNCHANGED <<accepted, pending>>

Stop ==
  /\ accepted' = {}
  /\ pending' = [c \in Conns |-> <<>>]
  /\ UNCHANGED saved

\* A start, with what was saved or, when that cannot be read, with nothing.
Recall ==
  /\ accepted = {}
  /\ accepted' = saved
  /\ UNCHANGED <<pending, saved>>

Next ==
  \/ \E cs \in SUBSET Conns, act \in Acts : Announce(cs, act) \/ Hear(cs, act)
  \/ Save \/ Stop \/ Recall

Spec == Init /\ [][Next]_vars
=============================================================================
