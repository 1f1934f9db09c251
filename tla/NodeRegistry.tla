---------------------------- MODULE NodeRegistry ----------------------------
(***************************************************************************)
(* The registry of nodes: an agent posts its configuration when it starts,  *)
(* every ten seconds until the API answers (src/bin/node/node.rs, http.rs); *)
(* add_node upserts the rows of the node and of its inbounds, then the      *)
(* Cache, which keeps the nodes by environment (src/bin/api/sync/tasks.rs,  *)
(* postgres/node.rs, src/memory/storage/node.rs); a database sync rebuilds  *)
(* the Cache from the rows.  A request that the agent has given up, because *)
(* it restarted or lost the connection, may stop between any two steps or   *)
(* run on.                                                                 *)
(***************************************************************************)
EXTENDS Naturals, FiniteSets

CONSTANTS
  Nodes,      \* node uuids
  Envs,       \* environments
  InboundTags,  \* inbound tags
  MaxStarts,  \* bound on agent starts
  MaxFaults   \* bound on database errors, broken requests and crashes

ASSUME RegistryAssumption == MaxStarts \in Nat /\ MaxFaults \in Nat

None == [env |-> "none"]
Configs == [env : Envs, type : {"common", "premium"}, inbounds : SUBSET InboundTags,
            status : {"online"}]

VARIABLES
  cfg,     \* cfg[n]: the configuration agent n runs with; None when it is down
  at,      \* at[n]: "down", "waiting" (to post), "posted" or "registered"
  reqs,    \* POST /node requests in the API
  rows,    \* rows[n]: the node's row and its inbounds' rows
  mem,     \* mem[e][n]: the entry of n in the Cache's vector of environment e
  sync,    \* get_state_from_db, which holds the write lock
  late,    \* nodes whose row was written by a request given up (history)
  starts, faults

registryVars == <<cfg, at, reqs, rows, mem, sync, late, starts, faults>>

NoNodes == [e \in Envs |-> [n \in Nodes |-> None]]
NoSync == [busy |-> FALSE, rows |-> [n \in Nodes |-> None]]

RegistryInit ==
  /\ cfg = [n \in Nodes |-> None]
  /\ at = [n \in Nodes |-> "down"]
  /\ reqs = {}
  /\ rows = [n \in Nodes |-> None]
  /\ mem = NoNodes
  /\ sync = NoSync
  /\ late = {}
  /\ starts = 0 /\ faults = 0

MemFree == ~sync.busy
Fault == faults < MaxFaults /\ faults' = faults + 1

Requests == [node : Nodes, cfg : Configs, at : {"db", "mem"}, live : BOOLEAN]

\* The requests once agent n no longer waits for its own.
GivenUp(n) ==
  {IF r.node = n THEN [r EXCEPT !.live = FALSE] ELSE r : r \in reqs}

\* at[r.node] when the request r ends: only an agent that waits for it hears.
AnswerTo(r, answer) == IF r.live THEN [at EXCEPT ![r.node] = answer] ELSE at

-----------------------------------------------------------------------------
(* The agent.                                                              *)

\* Node::new, with the inbounds of whatever is configured, then as_node, which
\* makes the status Online.
AgentStart(n, c) ==
  /\ at[n] = "down" /\ starts < MaxStarts
  /\ cfg' = [cfg EXCEPT ![n] = c]
  /\ at' = [at EXCEPT ![n] = "waiting"]
  /\ starts' = starts + 1
  /\ UNCHANGED <<reqs, rows, mem, sync, late, faults>>

AgentStop(n) ==
  /\ at[n] # "down"
  /\ cfg' = [cfg EXCEPT ![n] = None]
  /\ at' = [at EXCEPT ![n] = "down"]
  /\ reqs' = GivenUp(n)
  /\ UNCHANGED <<rows, mem, sync, late, starts, faults>>

\* register_node.
Post(n) ==
  /\ at[n] = "waiting"
  /\ reqs' = reqs \cup {[node |-> n, cfg |-> cfg[n], at |-> "db", live |-> TRUE]}
  /\ at' = [at EXCEPT ![n] = "posted"]
  /\ UNCHANGED <<cfg, rows, mem, sync, late, starts, faults>>

\* The agent hears nothing, and the request runs on.
PostLost(n) ==
  /\ at[n] = "posted"
  /\ Fault
  /\ at' = [at EXCEPT ![n] = "waiting"]
  /\ reqs' = GivenUp(n)
  /\ UNCHANGED <<cfg, rows, mem, sync, late, starts>>

-----------------------------------------------------------------------------
(* add_node.                                                               *)

\* Mutant: the conflict clause leaves the environment alone.
UpsertKeepsEnv(r) ==
  LET old == rows[r.node] IN
  /\ r \in reqs /\ r.at = "db"
  /\ rows' = [rows EXCEPT ![r.node] =
                [env |-> IF old = None THEN r.cfg.env ELSE old.env,
                 inbounds |-> IF old = None THEN r.cfg.inbounds
                                            ELSE old.inbounds \cup r.cfg.inbounds,
                 status |-> r.cfg.status]]
  /\ reqs' = (reqs \ {r}) \cup {[r EXCEPT !.at = "mem"]}
  /\ late' = IF r.live THEN late \ {r.node} ELSE late \cup {r.node}
  /\ UNCHANGED <<cfg, at, mem, sync, starts, faults>>

\* Mutant: the rows of the other inbounds are deleted.
UpsertReplaces(r) ==
  /\ r \in reqs /\ r.at = "db"
  /\ rows' = [rows EXCEPT ![r.node] = [env |-> r.cfg.env, inbounds |-> r.cfg.inbounds,
                                       status |-> r.cfg.status]]
  /\ reqs' = (reqs \ {r}) \cup {[r EXCEPT !.at = "mem"]}
  /\ late' = IF r.live THEN late \ {r.node} ELSE late \cup {r.node}
  /\ UNCHANGED <<cfg, at, mem, sync, starts, faults>>

\* PgNode::upsert, one transaction: it has no column for the type, and the rows
\* of inbounds that the node no longer has stay.
Upsert(r) ==
  LET old == rows[r.node] IN
  /\ r \in reqs /\ r.at = "db"
  /\ rows' = [rows EXCEPT ![r.node] =
                [env |-> r.cfg.env,
                 inbounds |-> IF old = None THEN r.cfg.inbounds
                                            ELSE old.inbounds \cup r.cfg.inbounds,
                 status |-> r.cfg.status]]
  /\ reqs' = (reqs \ {r}) \cup {[r EXCEPT !.at = "mem"]}
  /\ late' = IF r.live THEN late \ {r.node} ELSE late \cup {r.node}
  /\ UNCHANGED <<cfg, at, mem, sync, starts, faults>>

\* Mutant: the agent takes no notice of an error.
FailsSilently(r) ==
  /\ r \in reqs
  /\ Fault
  /\ reqs' = reqs \ {r}
  /\ UNCHANGED <<cfg, at, rows, mem, sync, late, starts>>

\* An error answer, or a request dropped with its connection: the agent retries.
Fails(r) ==
  /\ r \in reqs
  /\ Fault
  /\ reqs' = reqs \ {r}
  /\ at' = AnswerTo(r, "waiting")
  /\ UNCHANGED <<cfg, rows, mem, sync, late, starts>>

\* Nodes::add, only in the vector of the node's environment; then
\* update_node_status, which finds the status Online as add left it.
AddNode(r) ==
  /\ r \in reqs /\ r.at = "mem" /\ MemFree
  /\ mem' = [mem EXCEPT ![r.cfg.env][r.node] = r.cfg]
  /\ reqs' = reqs \ {r}
  /\ at' = AnswerTo(r, "registered")
  /\ UNCHANGED <<cfg, rows, sync, late, starts, faults>>

-----------------------------------------------------------------------------
(* get_state_from_db.                                                      *)

\* PgNode::all: the type of every row is the column's default.
Loaded(rs) ==
  [e \in Envs |-> [n \in Nodes |->
     IF rs[n] # None /\ rs[n].env = e
       THEN [env |-> e, type |-> "common", inbounds |-> rs[n].inbounds,
             status |-> rs[n].status]
       ELSE None]]

SyncRead ==
  /\ MemFree
  /\ sync' = [busy |-> TRUE, rows |-> rows]
  /\ UNCHANGED <<cfg, at, reqs, rows, mem, late, starts, faults>>

\* Mutant: the sync adds to the Cache instead of replacing it.
SyncInstallAdds ==
  /\ sync.busy
  /\ mem' = [e \in Envs |-> [n \in Nodes |->
               IF Loaded(sync.rows)[e][n] = None THEN mem[e][n] ELSE Loaded(sync.rows)[e][n]]]
  /\ sync' = NoSync
  /\ UNCHANGED <<cfg, at, reqs, rows, late, starts, faults>>

SyncInstall ==
  /\ sync.busy
  /\ mem' = Loaded(sync.rows)
  /\ sync' = NoSync
  /\ UNCHANGED <<cfg, at, reqs, rows, late, starts, faults>>

SyncFails ==
  /\ sync.busy
  /\ Fault
  /\ sync' = NoSync
  /\ UNCHANGED <<cfg, at, reqs, rows, mem, late, starts>>

\* The API dies; main loads the Cache before anything else runs.
Restart ==
  /\ Fault
  /\ reqs' = {}
  /\ at' = [n \in Nodes |-> IF at[n] = "posted" THEN "waiting" ELSE at[n]]
  /\ mem' = Loaded(rows)
  /\ sync' = NoSync
  /\ UNCHANGED <<cfg, rows, late, starts>>

-----------------------------------------------------------------------------
SyncStep == SyncRead \/ SyncInstall \/ SyncFails

RegistryNext ==
  \/ \E n \in Nodes : \/ \E c \in Configs : AgentStart(n, c)
                      \/ AgentStop(n) \/ Post(n) \/ PostLost(n)
  \/ \E r \in reqs : Upsert(r) \/ Fails(r) \/ AddNode(r)
  \/ SyncStep
  \/ Restart

RegistrySpec == RegistryInit /\ [][RegistryNext]_registryVars

\* Requests are served, agents retry, and database syncs keep coming: AddNode
\* waits for a lock that each sync holds and releases.
FairRegistrySpec ==
  /\ RegistrySpec
  /\ WF_registryVars(SyncRead \/ SyncInstall)
  /\ \A n \in Nodes : WF_registryVars(Post(n))
  /\ WF_registryVars(\E r \in reqs : Upsert(r))
  /\ SF_registryVars(\E r \in reqs : AddNode(r))

-----------------------------------------------------------------------------
(* Properties.                                                             *)

\* The state is well formed; a posted request of the agent is in the API.
RegistryTypeOK ==
  /\ cfg \in [Nodes -> Configs \cup {None}]
  /\ at \in [Nodes -> {"down", "waiting", "posted", "registered"}]
  /\ \A n \in Nodes : cfg[n] = None <=> at[n] = "down"
  /\ \A n \in Nodes :
       at[n] = "posted" => \E r \in reqs : r.node = n /\ r.live /\ r.cfg = cfg[n]
  /\ reqs \subseteq Requests
  /\ rows \in [Nodes -> [env : Envs, inbounds : SUBSET InboundTags,
                         status : {"online"}] \cup {None}]
  /\ mem \in [Envs -> [Nodes -> Configs \cup {None}]]
  /\ late \subseteq Nodes

\* The Cache advertises only what has rows: the upsert comes first, and rows of
\* inbounds are never removed.
CacheWithinRows ==
  \A e \in Envs, n \in Nodes :
    mem[e][n] # None => rows[n] # None /\ mem[e][n].inbounds \subseteq rows[n].inbounds

\* A registered node's row names the environment the agent runs in and has all its
\* inbounds, unless a request that the agent had given up wrote the row last.
RegisteredRow ==
  \A n \in Nodes :
    at[n] = "registered" => \/ n \in late
                            \/ /\ rows[n] # None /\ rows[n].env = cfg[n].env
                               /\ cfg[n].inbounds \subseteq rows[n].inbounds

\* An agent that keeps running gets registered, whatever was lost before.
EventuallyRegistered ==
  \A n \in Nodes : at[n] = "waiting" ~> at[n] \in {"registered", "down"}

\* Once agents stay as they are, the Cache becomes what the rows say and stays
\* so: entries left in an old environment by a move disappear.
CacheSettles == <>[](mem = Loaded(rows))

=============================================================================
