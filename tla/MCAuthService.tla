--------------------------- MODULE MCAuthService ----------------------------
(* A small instance of AuthService.                                        *)
EXTENDS AuthService

CONSTANTS c1, c2, w1, w2

AtWork == {u \in Workers \X Conns : job[u[1]][u[2]] # "idle"}

\* A token that is alone is deleted and restored by both workers at once, with room
\* for one message then.  The second one stays out of the operations on the first,
\* and shares its batches and the snapshot.
MCFew ==
  IF new[c2] = "row"
    THEN Cardinality(AtWork) + Len(queue) <= 3
    ELSE /\ AtWork \subseteq {<<w1, c1>>} /\ MemFree
         /\ Cardinality(AtWork \cup {c \in Conns : Creating(c)}) + Len(queue) <= 2

\* No fair step is held back for ever: a message need not reach the queue.
MCSpec == Init /\ [][Next /\ MCFew']_vars /\ Fairness
=============================================================================
