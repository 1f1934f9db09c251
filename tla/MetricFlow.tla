----------------------------- MODULE MetricFlow -----------------------------
(***************************************************************************)
(* Measurements on their way from a node agent to the API: collect_metrics  *)
(* writes points into a MetricBuffer, another task takes the whole batch    *)
(* and publishes it, and MetricWorker inserts what it receives              *)
(* (src/metrics/storage.rs, src/metrics/impls.rs, src/bin/node/metrics.rs,  *)
(* stats.rs, src/bin/api/metrics.rs).  ZeroMQ drops what is sent while the  *)
(* API is away.  The storage behind it is MetricStore.                      *)
(*                                                                         *)
(* A point is its source, the time it was written and, for traffic, the    *)
(* counter that Xray or WireGuard showed.                                  *)
(***************************************************************************)
EXTENDS Naturals, Sequences, FiniteSets

CONSTANTS
  System,      \* the sources of impls.rs, in the order they are written
  Inbounds,    \* Xray inbounds: no answer, no point
  Users,       \* Xray users: no answer is reported as 0
  Peers,       \* WireGuard peers: no answer, no point
  MaxTraffic,  \* bound on a counter
  MaxWritten,  \* bound on the points written
  MaxMishaps   \* bound on resets, errors, disconnections and crashes

VARIABLES
  clients,  \* the clients the agent was configured with
  counter,  \* counter[k]: the traffic of k so far
  conns,    \* the users and peers in the agent's memory
  task,     \* collect_metrics: what is still to be measured
  batch,    \* MetricBuffer::batch
  taken,    \* the batch flush_to_zmq took and has not sent yet
  wire,     \* messages on their way
  got,      \* points inserted by MetricWorker, in order
  lost,     \* times of the points dropped on the way (history)
  resets,   \* <<k, time>>: when counters went back to zero or were removed (history)
  up,       \* the API is connected
  clock,    \* the time of the next point
  mishaps

flow == <<batch, taken, wire, got, lost, up>>
agent == <<clients, conns, task>>
flowVars == <<clients, counter, conns, task, batch, taken, wire, got, lost, resets, up,
              clock, mishaps>>

Sources == Inbounds \cup Users \cup Peers

\* The names of the system's series are not those of a traffic counter.
ASSUME FlowAssumption ==
  /\ {MaxTraffic, MaxWritten, MaxMishaps} \subseteq Nat
  /\ System \in Seq({System[i] : i \in 1..Len(System)} \ Sources)

NoTask == [stage |-> "idle", system |-> <<>>, left |-> {}]

FlowInit ==
  /\ clients \in SUBSET {"xray", "wg"}
  /\ counter = [k \in Sources |-> 0]
  /\ conns = Users \cup Peers
  /\ task = NoTask
  /\ batch = <<>> /\ taken = <<>> /\ wire = <<>> /\ got = <<>>
  /\ lost = {} /\ resets = {}
  /\ up = TRUE
  /\ clock = 0 /\ mishaps = 0

Mishap == mishaps < MaxMishaps /\ mishaps' = mishaps + 1
Times(q) == {q[i].time : i \in 1..Len(q)}
OnWire == UNION {Times(wire[i]) : i \in 1..Len(wire)}

-----------------------------------------------------------------------------
(* What is measured.                                                       *)

\* A removed connection carries no traffic.
Traffic(k) ==
  /\ k \in Inbounds \cup conns
  /\ counter[k] < MaxTraffic
  /\ counter' = [counter EXCEPT ![k] = @ + 1]
  /\ UNCHANGED <<agent, flow, resets, clock, mishaps>>

\* A ResetStat message, or a restart of Xray or of the host.
Reset(k) ==
  /\ Mishap
  /\ counter' = [counter EXCEPT ![k] = 0]
  /\ resets' = resets \cup {<<k, clock>>}
  /\ UNCHANGED <<agent, flow, clock>>

\* Delete and Create of an Xray user, whose counters Xray keeps.  A collection that
\* has listed a removed connection still asks for it.
RemoveUser(k) ==
  /\ k \in conns
  /\ conns' = conns \ {k}
  /\ UNCHANGED <<clients, counter, task, flow, resets, clock, mishaps>>

AddUser(k) ==
  /\ k \notin conns
  /\ conns' = conns \cup {k}
  /\ UNCHANGED <<clients, counter, task, flow, resets, clock, mishaps>>

\* Delete of a WireGuard peer, which takes the kernel's counters with it: a Create
\* makes a new peer.
RemovePeer(k) ==
  /\ k \in conns
  /\ conns' = conns \ {k}
  /\ counter' = [counter EXCEPT ![k] = 0]
  /\ resets' = resets \cup {<<k, clock>>}
  /\ UNCHANGED <<clients, task, flow, clock, mishaps>>

AddPeer(k) ==
  /\ k \notin conns
  /\ conns' = conns \cup {k}
  /\ UNCHANGED <<clients, counter, task, flow, resets, clock, mishaps>>

-----------------------------------------------------------------------------
(* collect_metrics.                                                        *)

\* MetricBuffer::write and push, under the lock of the batch.
Write(src, val) ==
  /\ clock < MaxWritten
  /\ batch' = Append(batch, [src |-> src, time |-> clock, val |-> val])
  /\ clock' = clock + 1
  /\ UNCHANGED <<taken, wire, got, lost, up>>

\* The interval has passed.
Collect ==
  /\ task = NoTask
  /\ task' = [stage |-> "system", system |-> System, left |-> {}]
  /\ UNCHANGED <<clients, counter, conns, flow, resets, clock, mishaps>>

\* heartbeat, bandwidth, cpu_usage, loadavg, memory and disk_usage.
WriteSystem ==
  /\ task.system # <<>>
  /\ Write(Head(task.system), 0)
  /\ task' = [task EXCEPT !.system = Tail(@)]
  /\ UNCHANGED <<clients, counter, conns, resets, mishaps>>

\* Only a client that is configured is asked.
Ask(stage, client, of) ==
  [task EXCEPT !.stage = stage, !.left = IF client \in clients THEN of ELSE {}]

\* Then inbounds, users and peers.  The connections are listed under the memory's
\* lock, which is released before the first is asked for.  (The list of users holds
\* the peers too: Xray does not know them, and a series of zeros results.)
NextStage ==
  /\ task.stage # "idle" /\ task.system = <<>> /\ task.left = {}
  /\ task' = CASE task.stage = "system"   -> Ask("inbounds", "xray", Inbounds)
               [] task.stage = "inbounds" -> Ask("users", "xray", conns \cap Users)
               [] task.stage = "users"    -> Ask("wg", "wg", conns \cap Peers)
               [] task.stage = "wg"       -> NoTask
  /\ UNCHANGED <<clients, counter, conns, flow, resets, clock, mishaps>>

\* Mutant: an inbound that does not answer counts as zero, as a user does.
WriteInboundZero(k) ==
  /\ task.stage = "inbounds" /\ k \in task.left
  /\ \/ Write(k, counter[k]) /\ UNCHANGED mishaps
     \/ Mishap /\ Write(k, 0)
  /\ task' = [task EXCEPT !.left = @ \ {k}]
  /\ UNCHANGED <<clients, counter, conns, resets>>

\* inbound answers, or nothing is written.
WriteInbound(k) ==
  /\ task.stage = "inbounds" /\ k \in task.left
  /\ \/ Write(k, counter[k]) /\ UNCHANGED mishaps
     \/ Mishap /\ UNCHANGED <<flow, clock>>
  /\ task' = [task EXCEPT !.left = @ \ {k}]
  /\ UNCHANGED <<clients, counter, conns, resets>>

\* conn turns a failed request into 0; Xray may no longer know a removed user.
WriteUser(k) ==
  /\ task.stage = "users" /\ k \in task.left
  /\ \/ Write(k, counter[k]) /\ UNCHANGED mishaps
     \/ k \in conns /\ Mishap /\ Write(k, 0)
     \/ k \notin conns /\ Write(k, 0) /\ UNCHANGED mishaps
  /\ task' = [task EXCEPT !.left = @ \ {k}]
  /\ UNCHANGED <<clients, counter, conns, resets>>

\* peer_stats answers, or nothing is written.
WritePeer(k) ==
  /\ task.stage = "wg" /\ k \in task.left
  /\ \/ k \in conns /\ Write(k, counter[k]) /\ UNCHANGED mishaps
     \/ k \in conns /\ Mishap /\ UNCHANGED <<flow, clock>>
     \/ k \notin conns /\ UNCHANGED <<flow, clock, mishaps>>
  /\ task' = [task EXCEPT !.left = @ \ {k}]
  /\ UNCHANGED <<clients, counter, conns, resets>>

-----------------------------------------------------------------------------
(* flush_to_zmq, and MetricWorker.                                         *)

\* Mutant: the batch is cloned.
FlushClones ==
  /\ batch # <<>> /\ taken = <<>>
  /\ taken' = batch
  /\ UNCHANGED <<clients, counter, conns, task, batch, wire, got, lost, resets, up, clock, mishaps>>

\* Mutant: a short batch is left for later.
FlushFull ==
  /\ Len(batch) >= 2 /\ taken = <<>>
  /\ taken' = batch /\ batch' = <<>>
  /\ UNCHANGED <<clients, counter, conns, task, wire, got, lost, resets, up, clock, mishaps>>

\* mem::take under the lock; there is one flush task.
Flush ==
  /\ batch # <<>> /\ taken = <<>>
  /\ taken' = batch /\ batch' = <<>>
  /\ UNCHANGED <<clients, counter, conns, task, wire, got, lost, resets, up, clock, mishaps>>

\* send_binary: an error is logged and the batch dropped; without the API the
\* socket drops it.
Send ==
  /\ taken # <<>>
  /\ \/ up /\ wire' = Append(wire, taken) /\ UNCHANGED <<lost, mishaps>>
     \/ ~up /\ lost' = lost \cup Times(taken) /\ UNCHANGED <<wire, mishaps>>
     \/ Mishap /\ lost' = lost \cup Times(taken) /\ UNCHANGED wire
  /\ taken' = <<>>
  /\ UNCHANGED <<clients, counter, conns, task, batch, got, resets, up, clock>>

\* MetricWorker: insert_envelope for each point of a message.
Receive ==
  /\ wire # <<>>
  /\ got' = got \o Head(wire)
  /\ wire' = Tail(wire)
  /\ UNCHANGED <<clients, counter, conns, task, batch, taken, lost, resets, up, clock, mishaps>>

ApiDown ==
  /\ up /\ Mishap
  /\ up' = FALSE
  /\ lost' = lost \cup OnWire
  /\ wire' = <<>>
  /\ UNCHANGED <<clients, counter, conns, task, batch, taken, got, resets, clock>>

ApiUp ==
  /\ ~up
  /\ up' = TRUE
  /\ UNCHANGED <<clients, counter, conns, task, batch, taken, wire, got, lost, resets, clock, mishaps>>

\* The agent dies with what it had not sent.
AgentRestart ==
  /\ Mishap
  /\ lost' = lost \cup Times(batch) \cup Times(taken)
  /\ batch' = <<>> /\ taken' = <<>>
  /\ task' = NoTask
  /\ UNCHANGED <<clients, counter, conns, wire, got, resets, up, clock>>

-----------------------------------------------------------------------------
Measure == \/ WriteSystem \/ NextStage
           \/ \E k \in Inbounds : WriteInbound(k)
           \/ \E k \in Users : WriteUser(k)
           \/ \E k \in Peers : WritePeer(k)

FlowNext ==
  \/ \E k \in Sources : Traffic(k) \/ Reset(k)
  \/ \E k \in Users : AddUser(k) \/ RemoveUser(k)
  \/ \E k \in Peers : AddPeer(k) \/ RemovePeer(k)
  \/ Collect \/ Measure
  \/ Flush \/ Send \/ Receive
  \/ ApiDown \/ ApiUp \/ AgentRestart

FlowSpec == FlowInit /\ [][FlowNext]_flowVars

\* The flush task comes round every interval + 3 seconds, and MetricWorker loops.
FlowFairness == WF_flowVars(Flush) /\ WF_flowVars(Send) /\ WF_flowVars(Receive)

FairFlowSpec == FlowSpec /\ FlowFairness

-----------------------------------------------------------------------------
(* Properties.                                                             *)

\* Where points are between the buffer and the storage, the oldest first.
Stages == <<got>> \o wire \o <<taken, batch>>
OnTheWay == UNION {Times(Stages[a]) : a \in 1..Len(Stages)}

\* Every point is in one place, or was dropped with its batch, and none is sent or
\* inserted twice.  They reach the storage in the order of their times, which
\* insert_envelope and perform_gc rely on when they drop old points from the
\* front only.
OnceInOrder ==
  /\ \A a, b \in 1..Len(Stages) : \A i \in 1..Len(Stages[a]), j \in 1..Len(Stages[b]) :
       a < b \/ (a = b /\ i < j) => Stages[a][i].time < Stages[b][j].time
  /\ OnTheWay \cap lost = {} /\ OnTheWay \cup lost = 0..(clock - 1)

\* A traffic counter in the storage goes down only when it was reset between the two
\* measurements, or its WireGuard peer was removed and made anew, or, for an Xray
\* user, to a 0 that stands for a failed request.
FallsExplained ==
  \A i, j \in 1..Len(got) :
    i < j /\ got[i].src = got[j].src /\ got[j].val < got[i].val =>
      \/ \E t \in got[i].time..got[j].time : <<got[i].src, t>> \in resets
      \/ got[j].src \in Users /\ got[j].val = 0

\* No point stays in the buffer: once the last is written, each one arrives or is
\* dropped.
EventuallyOut ==
  clock = MaxWritten ~> Times(got) \cup lost = 0..(MaxWritten - 1)
=============================================================================
