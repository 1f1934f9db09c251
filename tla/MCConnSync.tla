----------------------------- MODULE MCConnSync -----------------------------
(* Small instances of ConnSync: c1 and c2 belong to subscription s1.       *)
EXTENDS ConnSync, FiniteSets

CONSTANTS c1, c2, s1

MCSubOf == [c \in Conns |-> s1]

\* What a behaviour has beside c1 and the background tasks: at most one at a time
\* of an expiry of its own, an HTTP deletion, a call of add_days and a second
\* connection; faults only with the first, database syncs with the first two.
Beside ==
  {x \in {"expiry", "http", "days", "pair"} :
     CASE x = "expiry" -> \E c \in Conns : connExpired[c]
       [] x = "http" -> revoked # {} \/ \E w \in HttpDeleters, c \in Conns : del[w][c] # "idle"
       [] x = "days" -> \E e \in Extenders : ext[e].at # "idle"
       [] x = "pair" -> \E c \in Conns \ {c1} : newConn[c] # "new"}

MCOneBeside ==
  /\ Cardinality(Beside) <= 1
  /\ Beside \cap {"http", "days", "pair"} # {} => faults = 0
  /\ Beside \cap {"days", "pair"} # {} => sync.at = "idle"
  /\ "pair" \in Beside => newConn[c1] = "done"

\* Liveness: a call of add_days comes when the connection is there, and meets no
\* fault and no database sync.  Neither calls nor faults are owed to anybody, and a
\* sync can begin again after each call, so the restriction takes no fairness away.
MCDaysApart ==
  \A e \in Extenders : ext'[e].at # "idle" =>
    faults' = 0 /\ sync'.at = "idle" /\ \A c \in Conns : newConn'[c] = "done"

MCLiveSpec == Init /\ [][Next /\ MCDaysApart]_vars /\ Fairness
=============================================================================
