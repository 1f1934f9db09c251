--------------------------- MODULE MCMetricFlow -----------------------------
(* A small instance of MetricFlow.                                         *)
EXTENDS MetricFlow

MCSystem == <<"sys.heartbeat">>

\* An agent has one client, and only what that measures changes.
MCInit == FlowInit /\ Cardinality(clients) = 1

MCFew ==
  LET idle == IF "wg" \in clients THEN Inbounds \cup Users ELSE Peers IN
  /\ idle \cap (Users \cup Peers) \subseteq conns /\ \A k \in idle : counter[k] = 0
  /\ \A r \in resets : r[1] \notin idle
  /\ Cardinality({r \in resets : r[2] < MaxWritten}) <= 1
  /\ Len(wire) <= 1

\* Once the last point is written, no traffic is counted and no collection goes on.
MCMeasured ==
  clock = MaxWritten => /\ \A k \in Sources : counter'[k] <= counter[k]
                        /\ task' \in {task, NoTask}

\* The fair steps are not held back for ever: Receive makes room on the wire.
MCSpec == MCInit /\ [][FlowNext /\ MCMeasured /\ MCFew']_flowVars /\ FlowFairness
=============================================================================
