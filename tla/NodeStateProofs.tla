--------------------------- MODULE NodeStateProofs ---------------------------
(* Proofs about what the API keeps of its nodes: their registrations, for   *)
(* any nodes, environments, inbound tags and any number of starts and       *)
(* faults, and their metrics, for any senders, series, tags and number of   *)
(* overlapping collections.                                                *)
EXTENDS NodeRegistry, MetricStore, TLAPS

\* The rows of nodes.
Rows == [env : Envs, inbounds : SUBSET InboundTags, status : {"online"}]

\* The row of n is there and has the inbounds of c, and perhaps more.
Covers(n, c) == rows[n] # None /\ c.inbounds \subseteq rows[n].inbounds

\* The type of what a start of the API has read.
SyncType == sync \in [busy : BOOLEAN, rows : [Nodes -> Rows \cup {None}]]

\* An agent that waits for an answer has one request, with its configuration.
Awaited ==
  /\ \A r \in reqs : r.live => at[r.node] = "posted" /\ r.cfg = cfg[r.node]
  /\ \A r, q \in reqs : r.live /\ q.live /\ r.node = q.node => r = q

\* What a request has written is in the rows: everything if it is still waited for
\* and none that is not wrote after it.
Written ==
  \A r \in reqs : r.at = "mem" =>
    /\ Covers(r.node, r.cfg)
    /\ r.live => r.node \in late \/ rows[r.node].env = r.cfg.env

\* What a sync has read is still in the rows.
ReadRows ==
  sync.busy => \A n \in Nodes : sync.rows[n] # None => Covers(n, sync.rows[n])

\* The inductive invariant of registrations.
RInv ==
  /\ RegistryTypeOK /\ SyncType /\ Awaited /\ Written /\ ReadRows
  /\ CacheWithinRows /\ RegisteredRow

-----------------------------------------------------------------------------
\* None is no configuration and no row.
LEMMA NotNone ==
  /\ \A c \in Configs : c # None
  /\ \A w \in Rows : w # None
<1>1. \A c \in Configs : "type" \in DOMAIN c
  BY Zenon DEF Configs
<1>2. \A w \in Rows : "status" \in DOMAIN w
  BY Zenon DEF Rows
<1>3. "type" \notin DOMAIN None /\ "status" \notin DOMAIN None
  BY Zenon DEF None
<1>. QED
  BY <1>1, <1>2, <1>3, Zenon

\* Giving up the requests of n changes only whether they are waited for.
LEMMA GivenUpShape ==
  ASSUME reqs \subseteq Requests, NEW n, NEW r \in GivenUp(n)
  PROVE  /\ r \in Requests
         /\ \E q \in reqs : /\ q.node = r.node /\ q.cfg = r.cfg /\ q.at = r.at
                            /\ r.live => q = r /\ r.node # n
<1>1. PICK q \in reqs : r = IF q.node = n THEN [q EXCEPT !.live = FALSE] ELSE q
  BY Zenon DEF GivenUp
<1>2. q \in Requests
  BY Zenon
<1>3. CASE q.node = n
  <2>1. r = [q EXCEPT !.live = FALSE]
    BY <1>1, <1>3, Zenon
  <2>2. r.live = FALSE /\ r.node = q.node /\ r.cfg = q.cfg /\ r.at = q.at /\ r \in Requests
    BY <1>2, <2>1, Zenon DEF Requests
  <2>. QED
    BY <2>2, Zenon
<1>4. CASE q.node # n
  BY <1>1, <1>2, <1>4, Zenon
<1>. QED
  BY <1>3, <1>4, Zenon

\* Loading rows gives what has rows, with their inbounds.
LEMMA LoadedShape ==
  ASSUME NEW rs \in [Nodes -> Rows \cup {None}]
  PROVE  /\ Loaded(rs) \in [Envs -> [Nodes -> Configs \cup {None}]]
         /\ \A e \in Envs, n \in Nodes :
              Loaded(rs)[e][n] # None
                => rs[n] # None /\ Loaded(rs)[e][n].inbounds = rs[n].inbounds
<1>1. ASSUME NEW e \in Envs, NEW n \in Nodes, rs[n] # None
      PROVE  [env |-> e, type |-> "common", inbounds |-> rs[n].inbounds,
              status |-> rs[n].status] \in Configs
  BY <1>1, Zenon DEF Configs, Rows
<1>. QED
  BY <1>1, Zenon DEF Loaded

-----------------------------------------------------------------------------
(* The steps.                                                              *)

\* An agent that is down has no live request, so a start or stop breaks no promise.
LEMMA AgentStartKeeps ==
  ASSUME RInv, NEW n \in Nodes, NEW c \in Configs, AgentStart(n, c)
  PROVE  RInv'
<1>0. /\ at[n] = "down" /\ cfg' = [cfg EXCEPT ![n] = c] /\ at' = [at EXCEPT ![n] = "waiting"]
      /\ UNCHANGED <<reqs, rows, mem, sync, late>>
  BY Zenon DEF AgentStart
<1>1. \A r \in reqs : r.live => r.node # n
  BY <1>0, Zenon DEF RInv, Awaited
<1>2. reqs \subseteq Requests /\ \A r \in reqs : r.node \in Nodes
  BY Zenon DEF RInv, RegistryTypeOK, Requests
<1>3. RegistryTypeOK'
  BY <1>0, <1>1, <1>2, NotNone DEF RInv, RegistryTypeOK
<1>4. Awaited'
  BY <1>0, <1>1, <1>2, Zenon DEF RInv, Awaited, RegistryTypeOK
<1>5. RegisteredRow'
  BY <1>0 DEF RInv, RegisteredRow, RegistryTypeOK
<1>. QED
  BY <1>0, <1>3, <1>4, <1>5, Zenon
  DEF RInv, SyncType, Written, ReadRows, CacheWithinRows, Covers

\* The requests of an agent that gives up go on, and are no longer live.
LEMMA GivingUpKeeps ==
  ASSUME RInv, NEW n \in Nodes, NEW c \in Configs \cup {None},
         NEW a \in {"down", "waiting"}, c = None <=> a = "down",
         cfg' = [cfg EXCEPT ![n] = c], at' = [at EXCEPT ![n] = a],
         reqs' = GivenUp(n), UNCHANGED <<rows, mem, sync, late>>
  PROVE  RInv'
<1>0. reqs \subseteq Requests /\ \A r \in reqs : r.node \in Nodes
  BY Zenon DEF RInv, RegistryTypeOK, Requests
<1>1. \A r \in reqs' : /\ r \in Requests
                       /\ \E q \in reqs : /\ q.node = r.node /\ q.cfg = r.cfg /\ q.at = r.at
                                          /\ r.live => q = r /\ r.node # n
  BY <1>0, GivenUpShape, Zenon
<1>2. \A q \in reqs : q.node # n => q \in reqs'
  BY Zenon DEF GivenUp
<1>3. RegistryTypeOK'
  <2>1. cfg' \in [Nodes -> Configs \cup {None}]
    BY Zenon DEF RInv, RegistryTypeOK
  <2>2. at' \in [Nodes -> {"down", "waiting", "posted", "registered"}]
    BY Zenon DEF RInv, RegistryTypeOK
  <2>3. \A m \in Nodes : cfg'[m] = None <=> at'[m] = "down"
    BY Zenon DEF RInv, RegistryTypeOK
  <2>4. ASSUME NEW m \in Nodes, at'[m] = "posted"
        PROVE  \E r \in reqs' : r.node = m /\ r.live /\ r.cfg = cfg'[m]
    <3>1. m # n /\ at[m] = "posted" /\ cfg'[m] = cfg[m]
      BY <2>4, Zenon DEF RInv, RegistryTypeOK
    <3>. QED
      BY <1>2, <3>1 DEF RInv, RegistryTypeOK
  <2>. QED
    BY <1>1, <2>1, <2>2, <2>3, <2>4, Zenon DEF RInv, RegistryTypeOK
<1>4. Awaited'
  <2>1. ASSUME NEW r \in reqs', r.live
        PROVE  r \in reqs /\ r.node # n /\ r.node \in Nodes
    <3>1. PICK q \in reqs : q = r /\ r.node # n
      BY <1>1, <2>1, Zenon
    <3>. QED
      BY <1>0, <3>1, Zenon
  <2>. QED
    BY <2>1, Zenon DEF RInv, Awaited, RegistryTypeOK
<1>5. Written'
  <2> SUFFICES ASSUME NEW r \in reqs', r.at = "mem"
               PROVE  /\ Covers(r.node, r.cfg)
                      /\ r.live => r.node \in late \/ rows[r.node].env = r.cfg.env
    BY Zenon DEF Written, Covers
  <2>1. PICK q \in reqs : /\ q.node = r.node /\ q.cfg = r.cfg /\ q.at = r.at
                          /\ r.live => q = r
    BY <1>1, Zenon
  <2>. QED
    BY <2>1, Zenon DEF RInv, Written, Covers
<1>6. RegisteredRow'
  BY DEF RInv, RegisteredRow, RegistryTypeOK
<1>. QED
  BY <1>3, <1>4, <1>5, <1>6, Zenon DEF RInv, SyncType, ReadRows, CacheWithinRows, Covers

\* An agent that stops gives up its requests.
LEMMA AgentStopKeeps ==
  ASSUME RInv, NEW n \in Nodes, AgentStop(n)
  PROVE  RInv'
BY GivingUpKeeps, Zenon DEF AgentStop

\* So does one that hears nothing and will post again.
LEMMA PostLostKeeps ==
  ASSUME RInv, NEW n \in Nodes, PostLost(n)
  PROVE  RInv'
<1>1. cfg[n] \in Configs /\ cfg' = [cfg EXCEPT ![n] = cfg[n]]
  BY Zenon DEF PostLost, RInv, RegistryTypeOK
<1>. QED
  BY <1>1, GivingUpKeeps, NotNone, Zenon DEF PostLost

\* An agent that waits has no other live request.
LEMMA PostKeeps ==
  ASSUME RInv, NEW n \in Nodes, Post(n)
  PROVE  RInv'
<1> DEFINE new == [node |-> n, cfg |-> cfg[n], at |-> "db", live |-> TRUE]
<1>0. /\ at[n] = "waiting" /\ at' = [at EXCEPT ![n] = "posted"] /\ reqs' = reqs \cup {new}
      /\ UNCHANGED <<cfg, rows, mem, sync, late>>
  BY Zenon DEF Post
<1>1. cfg[n] \in Configs
  BY <1>0, Zenon DEF RInv, RegistryTypeOK
<1>2. new \in Requests /\ new.node = n /\ new.cfg = cfg[n] /\ new.live /\ new.at = "db"
  BY <1>1, Zenon DEF Requests
<1>3. \A r \in reqs : r.live => r.node # n
  BY <1>0, Zenon DEF RInv, Awaited
<1>. HIDE DEF new
<1>4. RegistryTypeOK'
  <2>1. reqs' \subseteq Requests
    BY <1>0, <1>2, Zenon DEF RInv, RegistryTypeOK
  <2>2. at' \in [Nodes -> {"down", "waiting", "posted", "registered"}]
    BY <1>0, Zenon DEF RInv, RegistryTypeOK
  <2>3. \A m \in Nodes : cfg[m] = None <=> at'[m] = "down"
    BY <1>0, Zenon DEF RInv, RegistryTypeOK
  <2>4. \A m \in Nodes : at'[m] = "posted"
           => \E r \in reqs' : r.node = m /\ r.live /\ r.cfg = cfg[m]
    BY <1>0, <1>2 DEF RInv, RegistryTypeOK
  <2>. QED
    BY <1>0, <2>1, <2>2, <2>3, <2>4 DEF RInv, RegistryTypeOK
<1>5. Awaited'
  <2>1. \A r \in reqs : r.node \in Nodes
    BY Zenon DEF RInv, RegistryTypeOK, Requests
  <2>. QED
    BY <1>0, <1>2, <1>3, <2>1 DEF RInv, Awaited, RegistryTypeOK
<1>6. Written'
  BY <1>0, <1>2, Zenon DEF RInv, Written, Covers
<1>7. RegisteredRow'
  BY <1>0 DEF RInv, RegisteredRow, RegistryTypeOK
<1>. QED
  BY <1>0, <1>4, <1>5, <1>6, <1>7, Zenon DEF RInv, SyncType, ReadRows, CacheWithinRows, Covers

\* Rows only gain inbounds, so what they covered they cover; a live request leaves
\* the row as its agent runs, and another one marks it as late.
LEMMA UpsertKeeps ==
  ASSUME RInv, NEW r \in reqs, Upsert(r)
  PROVE  RInv'
<1> DEFINE n == r.node
           next == [r EXCEPT !.at = "mem"]
           w == [env |-> r.cfg.env,
                 inbounds |-> IF rows[n] = None THEN r.cfg.inbounds
                                                ELSE rows[n].inbounds \cup r.cfg.inbounds,
                 status |-> r.cfg.status]
<1>0. /\ r.at = "db" /\ rows' = [rows EXCEPT ![n] = w] /\ reqs' = (reqs \ {r}) \cup {next}
      /\ late' = IF r.live THEN late \ {n} ELSE late \cup {n}
      /\ UNCHANGED <<cfg, at, mem, sync>>
  BY Zenon DEF Upsert
<1>1. r \in Requests /\ n \in Nodes /\ r.cfg \in Configs
  BY Zenon DEF RInv, RegistryTypeOK, Requests
<1>2. /\ next \in Requests /\ next.node = n /\ next.cfg = r.cfg /\ next.live = r.live
      /\ next.at = "mem"
  BY <1>1, Zenon DEF Requests
<1>3. w \in Rows /\ w.env = r.cfg.env /\ r.cfg.inbounds \subseteq w.inbounds
  BY <1>1, Zenon DEF RInv, RegistryTypeOK, Rows, Configs
<1>4. rows[n] # None => rows[n].inbounds \subseteq w.inbounds
  BY Zenon
<1>5. rows \in [Nodes -> Rows \cup {None}]
  BY Zenon DEF RInv, RegistryTypeOK, Rows
<1>. HIDE DEF w, next
<1>6. rows' \in [Nodes -> Rows \cup {None}] /\ rows'[n] = w /\ w # None
      /\ \A m \in Nodes \ {n} : rows'[m] = rows[m]
  BY <1>0, <1>1, <1>3, <1>5, NotNone, Zenon
<1>7. \A m \in Nodes : \A c : Covers(m, c) => Covers(m, c)'
  BY <1>4, <1>6, Zenon DEF Covers
<1>8. RegistryTypeOK'
  <2>1. \A m \in Nodes : at[m] = "posted"
           => \E q \in reqs' : q.node = m /\ q.live /\ q.cfg = cfg[m]
    BY <1>0, <1>2 DEF RInv, RegistryTypeOK
  <2>2. reqs' \subseteq Requests /\ late' \subseteq Nodes
    BY <1>0, <1>1, <1>2, Zenon DEF RInv, RegistryTypeOK
  <2>. QED
    BY <1>0, <1>6, <2>1, <2>2 DEF RInv, RegistryTypeOK, Rows
<1>9. Awaited'
  BY <1>0, <1>2 DEF RInv, Awaited
<1>10. Written'
  <2> SUFFICES ASSUME NEW q \in reqs', q.at = "mem"
               PROVE  /\ Covers(q.node, q.cfg)'
                      /\ q.live => q.node \in late' \/ rows'[q.node].env = q.cfg.env
    BY Zenon DEF Written, Covers
  <2>1. CASE q = next
    BY <1>2, <1>3, <1>6, <2>1, Zenon DEF Covers
  <2>2. CASE q # next
    <3>1. q \in reqs /\ q # r /\ q.node \in Nodes
      BY <1>0, <2>2 DEF RInv, RegistryTypeOK, Requests
    <3>2. Covers(q.node, q.cfg)'
      BY <1>7, <3>1, Zenon DEF RInv, Written
    <3>3. CASE q.node = n
      BY <1>0, <3>1, <3>2, <3>3, Zenon DEF RInv, Awaited
    <3>4. CASE q.node # n
      BY <1>0, <1>6, <3>1, <3>2, <3>4, Zenon DEF RInv, Written
    <3>. QED
      BY <3>3, <3>4, Zenon
  <2>. QED
    BY <2>1, <2>2, Zenon
<1>11. ReadRows'
  BY <1>0, <1>7, Zenon DEF RInv, ReadRows
<1>12. CacheWithinRows'
  BY <1>0, <1>7, Zenon DEF RInv, CacheWithinRows, Covers
<1>13. RegisteredRow'
  <2> SUFFICES ASSUME NEW m \in Nodes, at[m] = "registered", m \notin late'
               PROVE  rows'[m] # None /\ rows'[m].env = cfg[m].env
                      /\ cfg[m].inbounds \subseteq rows'[m].inbounds
    BY <1>0, Zenon DEF RegisteredRow
  <2>1. m # n
    BY <1>0, Zenon DEF RInv, Awaited
  <2>. QED
    BY <1>0, <1>6, <2>1, Zenon DEF RInv, RegisteredRow
<1>. QED
  BY <1>0, <1>8, <1>9, <1>10, <1>11, <1>12, <1>13, Zenon DEF RInv, SyncType

\* A request that ends: an agent that waits for it waits for no other.
LEMMA AnswerKeeps ==
  ASSUME RInv, NEW r \in reqs, NEW a \in {"waiting", "registered"},
         a = "registered" => r.at = "mem",
         reqs' = reqs \ {r}, at' = AnswerTo(r, a), UNCHANGED <<cfg, rows, late>>
  PROVE  /\ RegistryTypeOK!1' /\ RegistryTypeOK!2' /\ RegistryTypeOK!3' /\ RegistryTypeOK!4' /\ RegistryTypeOK!5'
         /\ Awaited' /\ Written' /\ RegisteredRow'
<1>0. r \in Requests /\ r.node \in Nodes
  BY Zenon DEF RInv, RegistryTypeOK, Requests
<1>1. CASE ~r.live
  <2>1. at' = at
    BY <1>1, Zenon DEF AnswerTo
  <2>2. \A n \in Nodes : at[n] = "posted" => \E q \in reqs' : q.node = n /\ q.live /\ q.cfg = cfg[n]
    BY <1>1, Zenon DEF RInv, RegistryTypeOK
  <2>3. Awaited' /\ Written' /\ RegisteredRow'
    BY <2>1, Zenon DEF RInv, Awaited, Written, RegisteredRow, Covers
  <2>. QED
    BY <2>1, <2>2, <2>3 DEF RInv, RegistryTypeOK
<1>2. CASE r.live
  <2>1. at' = [at EXCEPT ![r.node] = a]
    BY <1>2, Zenon DEF AnswerTo
  <2>2. at' \in [Nodes -> {"down", "waiting", "posted", "registered"}]
    <3>1. at \in [Nodes -> {"down", "waiting", "posted", "registered"}]
      BY Zenon DEF RInv, RegistryTypeOK
    <3>2. a \in {"down", "waiting", "posted", "registered"}
      BY Zenon
    <3>. QED
      BY <2>1, <3>1, <3>2, Zenon
  <2>3. \A n \in Nodes : n # r.node => at'[n] = at[n]
    BY <2>1, Zenon DEF RInv, RegistryTypeOK
  <2>4. at[r.node] = "posted" /\ at'[r.node] = a /\ r.cfg = cfg[r.node]
    BY <1>0, <1>2, <2>1, Zenon DEF RInv, RegistryTypeOK, Awaited
  <2>5. \A n \in Nodes : cfg[n] = None <=> at'[n] = "down"
    BY <2>3, <2>4 DEF RInv, RegistryTypeOK
  <2>6. \A n \in Nodes : at'[n] = "posted" => \E q \in reqs' : q.node = n /\ q.live /\ q.cfg = cfg[n]
    BY <2>3, <2>4 DEF RInv, RegistryTypeOK
  <2>7. Awaited'
    <3>1. \A q \in reqs' : q.live => q.node # r.node /\ q.node \in Nodes
      BY <1>2, Zenon DEF RInv, Awaited, RegistryTypeOK, Requests
    <3>. QED
      BY <2>3, <3>1, Zenon DEF RInv, Awaited
  <2>8. Written'
    BY Zenon DEF RInv, Written, Covers
  <2>9. RegisteredRow'
    <3>1. a = "registered" => \/ r.node \in late
                              \/ /\ rows[r.node] # None /\ rows[r.node].env = cfg[r.node].env
                                 /\ cfg[r.node].inbounds \subseteq rows[r.node].inbounds
      BY <1>2, <2>4, Zenon DEF RInv, Written, Covers
    <3>. QED
      BY <2>3, <2>4, <3>1, Zenon DEF RInv, RegisteredRow
  <2>. QED
    BY <2>2, <2>5, <2>6, <2>7, <2>8, <2>9 DEF RInv, RegistryTypeOK
<1>. QED
  BY <1>1, <1>2, Zenon

\* A request that fails has changed nothing but what Upsert changed.
LEMMA FailsKeeps ==
  ASSUME RInv, NEW r \in reqs, Fails(r)
  PROVE  RInv'
<1>1. /\ reqs' = reqs \ {r} /\ at' = AnswerTo(r, "waiting")
      /\ UNCHANGED <<cfg, rows, mem, sync, late>>
  BY Zenon DEF Fails
<1>2. /\ RegistryTypeOK!1' /\ RegistryTypeOK!2' /\ RegistryTypeOK!3' /\ RegistryTypeOK!4' /\ RegistryTypeOK!5'
      /\ Awaited' /\ Written' /\ RegisteredRow'
  BY <1>1, AnswerKeeps, Zenon
<1>. QED
  BY <1>1, <1>2 DEF RInv, RegistryTypeOK, SyncType, ReadRows, CacheWithinRows, Covers

\* The Cache is changed after the row.
LEMMA AddNodeKeeps ==
  ASSUME RInv, NEW r \in reqs, AddNode(r)
  PROVE  RInv'
<1>1. /\ reqs' = reqs \ {r} /\ at' = AnswerTo(r, "registered") /\ r.at = "mem"
      /\ mem' = [mem EXCEPT ![r.cfg.env][r.node] = r.cfg]
      /\ UNCHANGED <<cfg, rows, sync, late>>
  BY Zenon DEF AddNode
<1>2. /\ RegistryTypeOK!1' /\ RegistryTypeOK!2' /\ RegistryTypeOK!3' /\ RegistryTypeOK!4' /\ RegistryTypeOK!5'
      /\ Awaited' /\ Written' /\ RegisteredRow'
  BY <1>1, AnswerKeeps, Zenon
<1>3. r.node \in Nodes /\ r.cfg \in Configs /\ r.cfg.env \in Envs
  BY Zenon DEF RInv, RegistryTypeOK, Requests, Configs
<1>4. mem' \in [Envs -> [Nodes -> Configs \cup {None}]]
  BY <1>1, <1>3, Zenon DEF RInv, RegistryTypeOK
<1>5. CacheWithinRows'
  <2>1. Covers(r.node, r.cfg)
    BY <1>1, Zenon DEF RInv, Written
  <2>2. ASSUME NEW e \in Envs, NEW n \in Nodes
        PROVE  mem'[e][n] = mem[e][n] \/ (n = r.node /\ mem'[e][n] = r.cfg)
    BY <1>1, <1>3 DEF RInv, RegistryTypeOK
  <2>. QED
    BY <1>1, <2>1, <2>2, Zenon DEF RInv, CacheWithinRows, Covers
<1>. QED
  BY <1>1, <1>2, <1>4, <1>5, Zenon DEF RInv, RegistryTypeOK, SyncType, ReadRows, Covers

\* A database sync, which installs what it read: less than the rows hold by then.
LEMMA SyncKeeps ==
  ASSUME RInv, SyncStep
  PROVE  RInv'
<1>0. UNCHANGED <<cfg, at, reqs, rows, late>>
  BY Zenon DEF SyncStep, SyncRead, SyncInstall, SyncFails
<1>1. Awaited' /\ Written' /\ RegisteredRow'
  BY <1>0, Zenon DEF RInv, Awaited, Written, RegisteredRow, Covers
<1>2. rows \in [Nodes -> Rows \cup {None}]
  BY Zenon DEF RInv, RegistryTypeOK, Rows
<1>3. NoSync \in [busy : BOOLEAN, rows : [Nodes -> Rows \cup {None}]] /\ ~NoSync.busy
  BY Zenon DEF NoSync
<1>4. CASE SyncRead
  <2>1. sync' = [busy |-> TRUE, rows |-> rows] /\ mem' = mem
    BY <1>4, Zenon DEF SyncRead
  <2>. QED
    BY <1>0, <1>1, <1>2, <2>1 DEF RInv, RegistryTypeOK, SyncType, ReadRows, CacheWithinRows, Covers
<1>5. CASE SyncInstall
  <2>1. sync.busy /\ sync' = NoSync /\ mem' = Loaded(sync.rows)
    BY <1>5, Zenon DEF SyncInstall
  <2>2. sync.rows \in [Nodes -> Rows \cup {None}]
    BY Zenon DEF RInv, SyncType
  <2>3. /\ mem' \in [Envs -> [Nodes -> Configs \cup {None}]]
        /\ \A e \in Envs, n \in Nodes :
             mem'[e][n] # None
               => sync.rows[n] # None /\ mem'[e][n].inbounds = sync.rows[n].inbounds
    BY <2>1, <2>2, LoadedShape, Zenon
  <2>4. CacheWithinRows'
    BY <1>0, <2>1, <2>3, Zenon DEF RInv, CacheWithinRows, ReadRows, Covers
  <2>. QED
    BY <1>0, <1>1, <1>3, <2>1, <2>3, <2>4, Zenon DEF RInv, RegistryTypeOK, SyncType, ReadRows
<1>6. CASE SyncFails
  <2>1. sync' = NoSync /\ mem' = mem
    BY <1>6, Zenon DEF SyncFails
  <2>. QED
    BY <1>0, <1>1, <1>3, <2>1 DEF RInv, RegistryTypeOK, SyncType, ReadRows, CacheWithinRows, Covers
<1>. QED
  BY <1>4, <1>5, <1>6, Zenon DEF SyncStep

\* The API dies and loads the rows.
LEMMA RestartKeeps ==
  ASSUME RInv, Restart
  PROVE  RInv'
<1>0. /\ reqs' = {} /\ mem' = Loaded(rows) /\ sync' = NoSync
      /\ at' = [n \in Nodes |-> IF at[n] = "posted" THEN "waiting" ELSE at[n]]
      /\ UNCHANGED <<cfg, rows, late>>
  BY Zenon DEF Restart
<1>1. rows \in [Nodes -> Rows \cup {None}]
  BY Zenon DEF RInv, RegistryTypeOK, Rows
<1>2. /\ mem' \in [Envs -> [Nodes -> Configs \cup {None}]]
      /\ \A e \in Envs, n \in Nodes :
           mem'[e][n] # None => rows[n] # None /\ mem'[e][n].inbounds = rows[n].inbounds
  BY <1>0, <1>1, LoadedShape, Zenon
<1>3. NoSync \in [busy : BOOLEAN, rows : [Nodes -> Rows \cup {None}]] /\ ~NoSync.busy
  BY Zenon DEF NoSync
<1>4. at' \in [Nodes -> {"down", "waiting", "posted", "registered"}]
  BY <1>0, Zenon DEF RInv, RegistryTypeOK
<1>5. \A n \in Nodes : /\ at'[n] # "posted"
                       /\ at'[n] = "registered" => at[n] = "registered"
                       /\ at'[n] = "down" <=> at[n] = "down"
  BY <1>0, Zenon DEF RInv, RegistryTypeOK
<1>6. RegistryTypeOK'
  BY <1>0, <1>2, <1>4, <1>5, Zenon DEF RInv, RegistryTypeOK
<1>7. CacheWithinRows'
  BY <1>0, <1>2, Zenon DEF CacheWithinRows
<1>8. RegisteredRow'
  BY <1>0, <1>5, Zenon DEF RInv, RegisteredRow
<1>. QED
  BY <1>0, <1>3, <1>6, <1>7, <1>8, Zenon DEF RInv, SyncType, ReadRows, Awaited, Written

-----------------------------------------------------------------------------
(* The invariant, and what follows from it.                                *)

\* One step of RegistryNext, or a stuttering step.
LEMMA RInvInductive ==
  ASSUME RInv, [RegistryNext]_registryVars
  PROVE  RInv'
<1>1. CASE UNCHANGED registryVars
  BY <1>1 DEF registryVars, RInv, RegistryTypeOK, SyncType, Awaited, Written, ReadRows, Covers,
     CacheWithinRows, RegisteredRow
<1>2. ASSUME NEW n \in Nodes, NEW c \in Configs, AgentStart(n, c)
      PROVE  RInv'
  BY <1>2, AgentStartKeeps, Zenon
<1>3. ASSUME NEW n \in Nodes, AgentStop(n) \/ Post(n) \/ PostLost(n)
      PROVE  RInv'
  BY <1>3, AgentStopKeeps, PostKeeps, PostLostKeeps, Zenon
<1>4. ASSUME NEW r \in reqs, Upsert(r) \/ Fails(r) \/ AddNode(r)
      PROVE  RInv'
  BY <1>4, UpsertKeeps, FailsKeeps, AddNodeKeeps, Zenon
<1>. QED
  BY <1>1, <1>2, <1>3, <1>4, SyncKeeps, RestartKeeps, Zenon DEF RegistryNext

\* At first nothing runs and nothing is stored.
LEMMA RInvInit == RegistryInit => RInv
<1> SUFFICES ASSUME RegistryInit PROVE RInv
  BY Zenon
<1>1. RegistryTypeOK
  BY Zenon DEF RegistryInit, RegistryTypeOK, NoNodes
<1>2. SyncType /\ ReadRows
  BY Zenon DEF RegistryInit, SyncType, ReadRows, NoSync
<1>3. CacheWithinRows
  BY Zenon DEF RegistryInit, CacheWithinRows, NoNodes
<1>. QED
  BY <1>1, <1>2, <1>3, Zenon DEF RegistryInit, RInv, Awaited, Written, RegisteredRow

\* RInv holds throughout.
LEMMA RInvAlways == RegistrySpec => []RInv
BY RInvInit, RInvInductive, PTL DEF RegistrySpec

\* The state is well formed, and what an agent waits for in register_node is in the
\* API.
THEOREM RegistryTypeCorrect == RegistrySpec => []RegistryTypeOK
BY RInvAlways, PTL DEF RInv

\* add_node writes the rows before the Cache, PgNode::upsert removes no inbound, and
\* a sync installs rows that are older than the table, never newer: the Cache
\* advertises only what has rows.
THEOREM Advertised == RegistrySpec => []CacheWithinRows
BY RInvAlways, PTL DEF RInv

\* A node that register_node reported as registered has a row with the environment
\* and the inbounds its agent runs with, unless a request that the agent had given
\* up wrote the row last.
THEOREM Registered == RegistrySpec => []RegisteredRow
BY RInvAlways, PTL DEF RInv

-----------------------------------------------------------------------------
(* MetricStore.                                                            *)

\* An insertion and a collection at the same time are an overlap.
OverlapNoted ==
  \A s \in Series : Collecting /\ Inserting(s) => s \in overlapped

\* Apart from overlaps, metadata means indexed; an insertion that is past a
\* step finds that step's result in place.
MetadataIndexed ==
  \A s \in Series \ overlapped :
    /\ s \in metadata => Listed(s)
    /\ Inserting(s) /\ ins.at = "point" => Listed(s)
    /\ Inserting(s) /\ ins.at = "index" =>
         \A t \in TagsOf[s] \ ins.tags : s \in tagIndex[t]

\* Apart from overlaps, a collection knows the series that have points.
Knows(g, s) ==
  /\ gc[g].at = "scan" =>
       \A n \in Senders \ gc[g].todo : inner[n][s] # <<>> => s \in gc[g].alive
  /\ gc[g].at \in {"metadata", "index"} => (HasPoints(s) => s \in gc[g].alive)
\* Every collector knows what it may take of every series without an overlap.
AliveKnown == \A g \in Collectors, s \in Series \ overlapped : Knows(g, s)

\* Apart from overlaps, what the index pass removes has no metadata any more.
DeadRemoved ==
  \A g \in Collectors, s \in Series \ overlapped :
    s \notin gc[g].alive /\ s \in metadata =>
      /\ gc[g].at = "metadata" => s \in gc[g].todo
      /\ gc[g].at # "index"

\* The inductive invariant of PointsFindable.
IInv == /\ PointsFindable
        /\ OverlapNoted
        /\ MetadataIndexed
        /\ AliveKnown
        /\ DeadRemoved

USE DEF InsState, GcState

-----------------------------------------------------------------------------
(* PointsFindable.                                                         *)

\* The passing of time leaves empty deques empty and touches nothing else.
LEMMA TickInv == TypeOK /\ IInv /\ Tick => IInv'
<1> SUFFICES ASSUME TypeOK, IInv, Tick
    PROVE  IInv'
  BY Zenon
<1>1. \A n \in Senders, s \in Series : inner'[n][s] # <<>> => inner[n][s] # <<>>
  BY DEF Tick, TypeOK
<1>. QED
  BY <1>1, Zenon DEF IInv, Tick, PointsFindable, OverlapNoted, MetadataIndexed, AliveKnown, Knows,
                     DeadRemoved, HasPoints, Inserting, Listed, Collecting

\* insert_envelope: a step of it next to a collection is noted as an overlap,
\* and without one it leaves the series listed before it adds a point.
LEMMA InsertBeginInv ==
  ASSUME TypeOK, IInv, NEW n \in Senders, NEW s \in Series, InsertBegin(n, s)
  PROVE  IInv'
<1>1. PointsFindable' /\ OverlapNoted'
  BY Zenon DEF IInv, InsertBegin, Overlap, PointsFindable, OverlapNoted, HasPoints,
         Inserting, Listed, Collecting
<1>2. MetadataIndexed'
  BY Zenon DEF IInv, InsertBegin, Overlap, MetadataIndexed, Inserting, Listed, Collecting
<1>3. AliveKnown' /\ DeadRemoved'
  BY Zenon DEF IInv, InsertBegin, Overlap, AliveKnown, Knows, DeadRemoved, HasPoints, Collecting
<1>. QED
  BY <1>1, <1>2, <1>3, Zenon DEF IInv

\* or_insert_with lists the new series under one of its tags.
LEMMA InsertTagInv ==
  ASSUME TypeOK, IInv, NEW t \in Tags, InsertTag(t)
  PROVE  IInv'
<1>0. /\ ins \in InsState
      /\ tagIndex \in [Tags -> SUBSET Series]
      /\ TagsOf \in [Series -> SUBSET Tags]
  BY StoreAssumption DEF TypeOK, InsertTag, NoInsert
<1>1. PointsFindable' /\ OverlapNoted'
  BY <1>0, Zenon DEF IInv, InsertTag, Overlap, PointsFindable, OverlapNoted, HasPoints,
                     Inserting, Listed, Collecting
<1>2. MetadataIndexed'
  BY <1>0, Zenon DEF IInv, InsertTag, Overlap, MetadataIndexed, Inserting, Listed, Collecting
<1>3. AliveKnown' /\ DeadRemoved'
  BY <1>0, Zenon DEF IInv, InsertTag, Overlap, AliveKnown, Knows, DeadRemoved, HasPoints, Collecting
<1>. QED
  BY <1>1, <1>2, <1>3, Zenon DEF IInv

\* The closure is done: the series has metadata, and all its tags list it.
LEMMA InsertMetadataInv ==
  ASSUME TypeOK, IInv, InsertMetadata
  PROVE  IInv'
<1>0. /\ ins \in InsState
      /\ gc \in [Collectors -> GcState]
  BY DEF TypeOK, InsertMetadata, NoInsert
<1>1. PointsFindable' /\ OverlapNoted'
  BY <1>0, Zenon DEF IInv, InsertMetadata, Overlap, PointsFindable, OverlapNoted, HasPoints,
                     Inserting, Listed, Collecting
<1>2. MetadataIndexed'
  BY <1>0, Zenon DEF IInv, InsertMetadata, Overlap, MetadataIndexed, Inserting, Listed, Collecting
<1>3. AliveKnown' /\ DeadRemoved'
  BY <1>0, Zenon DEF IInv, InsertMetadata, Overlap, AliveKnown, Knows, DeadRemoved, HasPoints, Collecting
<1>. QED
  BY <1>1, <1>2, <1>3, Zenon DEF IInv

\* The point goes to a series that the insert listed, or found listed.
LEMMA InsertPointInv ==
  ASSUME TypeOK, IInv, NEW age \in 0..MaxLag, InsertPoint(age)
  PROVE  IInv'
<1>0. /\ ins \in InsState
      /\ gc \in [Collectors -> GcState]
      /\ inner \in [Senders -> [Series -> Seq(Age)]]
  BY DEF TypeOK, InsertPoint, NoInsert
<1>1. \A n \in Senders, s \in Series :
        inner'[n][s] # <<>> => inner[n][s] # <<>> \/ s = ins.series
  BY <1>0, Zenon DEF InsertPoint
<1>2. ins' = NoInsert /\ UNCHANGED <<metadata, tagIndex, gc>> /\ Overlap(ins.series)
  BY Zenon DEF InsertPoint
<1>3. PointsFindable'
  BY <1>0, <1>1, <1>2, Zenon DEF IInv, InsertPoint, Overlap, PointsFindable, MetadataIndexed,
                                 HasPoints, Inserting, Listed
<1>4. OverlapNoted' /\ MetadataIndexed'
  BY <1>0, <1>2, Zenon DEF IInv, Overlap, OverlapNoted, MetadataIndexed, Inserting, Listed,
                           NoInsert
<1>5. AliveKnown' /\ DeadRemoved'
  BY <1>0, <1>1, <1>2 DEF IInv, Overlap, AliveKnown, Knows, DeadRemoved, HasPoints, Collecting
<1>. QED
  BY <1>3, <1>4, <1>5, Zenon DEF IInv

\* perform_gc: without an overlap the series with points are alive to it, so
\* that it unlists only series without points, metadata first.
LEMMA GcBeginInv ==
  ASSUME TypeOK, IInv, NEW g \in Collectors, GcBegin(g)
  PROVE  IInv'
<1>0. /\ gc \in [Collectors -> GcState]
      /\ overlapped \subseteq Series
  BY Zenon DEF TypeOK
<1>1. /\ gc'[g].at = "trim"
      /\ \A h \in Collectors \ {g} : gc'[h] = gc[h]
  BY <1>0, Zenon DEF GcBegin, Goto
<1>2. \A s \in Series \ overlapped' : s \notin overlapped \/ (Listed(s) /\ ~Collecting)
  BY <1>0, Zenon DEF GcBegin
<1>3. PointsFindable' /\ OverlapNoted'
  BY <1>0, <1>2, Zenon DEF IInv, GcBegin, PointsFindable, OverlapNoted, HasPoints, Inserting, Listed
<1>4. MetadataIndexed'
  BY <1>0, <1>2, Zenon DEF IInv, GcBegin, MetadataIndexed, Inserting, Listed
<1>5. AliveKnown' /\ DeadRemoved'
  BY <1>0, <1>1, <1>2, Zenon DEF IInv, GcBegin, AliveKnown, Knows, DeadRemoved, HasPoints, Collecting
<1>. QED
  BY <1>3, <1>4, <1>5, Zenon DEF IInv

\* inner.retain only takes points, from one node's series.
LEMMA GcTrimInv ==
  ASSUME TypeOK, IInv, NEW g \in Collectors, NEW n \in Senders, GcTrim(g, n)
  PROVE  IInv'
<1>0. gc \in [Collectors -> GcState]
  BY Zenon DEF TypeOK
<1>1. \A m \in Senders, s \in Series : inner'[m][s] # <<>> => inner[m][s] # <<>>
  <2>1. SUFFICES ASSUME NEW m \in Senders, NEW s \in Series, inner[m][s] = <<>>
        PROVE  inner'[m][s] = <<>>
    BY Zenon
  <2>2. DropOld(inner[m][s], Retention) = <<>>
    BY <2>1 DEF DropOld
  <2>. QED
    BY <2>1, <2>2, Zenon DEF GcTrim, TypeOK
<1>2. /\ \A h \in Collectors : gc'[h].at = gc[h].at /\ gc'[h].alive = gc[h].alive
      /\ \A h \in Collectors : gc[h].at # "trim" => gc'[h].todo = gc[h].todo
      /\ UNCHANGED <<metadata, tagIndex, ins, overlapped>>
  BY <1>0, Zenon DEF GcTrim
<1>3. PointsFindable' /\ OverlapNoted' /\ MetadataIndexed'
  BY <1>1, <1>2, Zenon DEF IInv, PointsFindable, OverlapNoted, MetadataIndexed, HasPoints,
                           Inserting, Listed, Collecting
<1>4. AliveKnown' /\ DeadRemoved'
  BY <1>0, <1>1, <1>2 DEF IInv, AliveKnown, Knows, DeadRemoved, HasPoints
<1>. QED
  BY <1>3, <1>4, Zenon DEF IInv

\* What the other collections know they still know while the points stay.
LEMMA OneKnows ==
  ASSUME AliveKnown, NEW g \in Collectors, UNCHANGED <<inner, overlapped>>,
         \A h \in Collectors \ {g} : gc'[h] = gc[h],
         \A s \in Series \ overlapped : Knows(g, s)'
  PROVE  AliveKnown'
<1>. SUFFICES ASSUME NEW h \in Collectors, NEW s \in Series \ overlapped
              PROVE  Knows(h, s)'
  BY Zenon DEF AliveKnown
<1>1. CASE h = g
  BY <1>1, Zenon
<1>2. CASE h # g
  BY <1>2, Zenon DEF AliveKnown, Knows, HasPoints
<1>. QED
  BY <1>1, <1>2, Zenon

\* Where a collector goes, and what it takes with it.
LEMMA Goes ==
  ASSUME gc \in [Collectors -> GcState], NEW g \in Collectors,
         NEW pass, NEW todo, NEW alive, Goto(g, pass, todo, alive)
  PROVE  gc'[g].at = pass /\ gc'[g].todo = todo /\ gc'[g].alive = alive
<1>1. gc'[g] = [at |-> pass, todo |-> todo, alive |-> alive]
  BY Zenon DEF Goto
<1>. QED
  BY <1>1

\* alive_series collects the series with points, node by node.
LEMMA GcScanInv ==
  ASSUME TypeOK, IInv, NEW g \in Collectors,
         GcTrimmed(g) \/ (\E n \in Senders : GcScan(g, n)) \/ GcScanned(g)
  PROVE  IInv'
<1>0. gc \in [Collectors -> GcState]
  BY Zenon DEF TypeOK
<1>1. /\ \A h \in Collectors \ {g} : gc'[h] = gc[h]
      /\ gc[g].at # "idle"
      /\ UNCHANGED <<inner, metadata, tagIndex, ins, overlapped>>
  BY <1>0, Zenon DEF GcTrimmed, GcScan, GcScanned, Goto
<1>2. PointsFindable' /\ OverlapNoted' /\ MetadataIndexed'
  BY <1>0, <1>1, Zenon DEF IInv, PointsFindable, OverlapNoted, MetadataIndexed, HasPoints,
                           Inserting, Listed, Collecting
<1>3. CASE GcTrimmed(g)
  <2>2. gc'[g].at = "scan" /\ gc'[g].todo = Senders
    BY <1>0, <1>3, Goes, Zenon DEF GcTrimmed
  <2>3. AliveKnown'
    BY <1>1, <2>2, OneKnows, Zenon DEF IInv, Knows
  <2>4. DeadRemoved'
    BY <1>1, <2>2, Zenon DEF IInv, DeadRemoved
  <2>. QED
    BY <1>2, <2>3, <2>4, Zenon DEF IInv
<1>4. ASSUME NEW n \in Senders, GcScan(g, n)
      PROVE  IInv'
  <2>1. /\ gc[g].at = "scan"
        /\ gc'[g].at = "scan" /\ gc'[g].todo = gc[g].todo \ {n}
        /\ gc'[g].alive = gc[g].alive \cup {s \in Series : inner[n][s] # <<>>}
    <3>1. /\ gc[g].at = "scan"
          /\ Goto(g, "scan", gc[g].todo \ {n},
                  gc[g].alive \cup {s \in Series : inner[n][s] # <<>>})
      BY <1>4, Zenon DEF GcScan
    <3>. QED
      BY <1>0, <3>1, Goes
  <2>2. /\ gc'[g].at = "scan" /\ gc'[g].todo = gc[g].todo \ {n}
        /\ \A s \in Series : s \in gc'[g].alive <=> s \in gc[g].alive \/ inner[n][s] # <<>>
    BY <2>1, Zenon
  <2>3. ASSUME NEW s \in Series \ overlapped
        PROVE  Knows(g, s)'
    <3>1. \A m \in Senders \ gc[g].todo : inner[m][s] # <<>> => s \in gc[g].alive
      BY <2>1, Zenon DEF IInv, AliveKnown, Knows
    <3>. QED
      BY <1>1, <2>2, <3>1, Zenon DEF Knows
  <2>4. AliveKnown'
    BY <1>1, <2>3, OneKnows, Zenon DEF IInv
  <2>5. DeadRemoved'
    BY <1>1, <2>2, Zenon DEF IInv, DeadRemoved
  <2>. QED
    BY <1>2, <2>4, <2>5, Zenon DEF IInv
<1>5. CASE GcScanned(g)
  <2>1. /\ gc[g].at = "scan" /\ gc[g].todo = {}
        /\ gc'[g] = [at |-> "metadata", todo |-> Series, alive |-> gc[g].alive]
    BY <1>0, <1>5, Zenon DEF GcScanned, Goto
  <2>2. gc'[g].at = "metadata" /\ gc'[g].todo = Series /\ gc'[g].alive = gc[g].alive
    BY <2>1
  <2>3. ASSUME NEW s \in Series \ overlapped
        PROVE  Knows(g, s)'
    <3>1. \A m \in Senders : inner[m][s] # <<>> => s \in gc[g].alive
      BY <2>1, Zenon DEF IInv, AliveKnown, Knows
    <3>. QED
      BY <1>1, <2>2, <3>1, Zenon DEF Knows, HasPoints
  <2>4. AliveKnown'
    BY <1>1, <2>3, OneKnows, Zenon DEF IInv
  <2>5. DeadRemoved'
    BY <1>1, <2>2, Zenon DEF IInv, DeadRemoved
  <2>. QED
    BY <1>2, <2>4, <2>5, Zenon DEF IInv
<1>. QED
  BY <1>3, <1>4, <1>5, Zenon

\* metadata.retain drops a series that is not in alive_series.
LEMMA GcMetadataInv ==
  ASSUME TypeOK, IInv, NEW g \in Collectors, NEW s \in Series, GcMetadata(g, s)
  PROVE  IInv'
<1>0. gc \in [Collectors -> GcState]
  BY Zenon DEF TypeOK
<1>1. /\ gc[g].at = "metadata"
      /\ \A h \in Collectors : gc'[h].at = gc[h].at /\ gc'[h].alive = gc[h].alive
      /\ \A h \in Collectors \ {g} : gc'[h].todo = gc[h].todo
      /\ gc'[g].todo = gc[g].todo \ {s}
      /\ metadata' = IF s \in gc[g].alive THEN metadata ELSE metadata \ {s}
      /\ UNCHANGED <<inner, tagIndex, ins, overlapped>>
  BY <1>0, Zenon DEF GcMetadata
<1>2. s \notin gc[g].alive => s \in overlapped \/ (~HasPoints(s) /\ ~Inserting(s))
  BY <1>1, Zenon DEF IInv, AliveKnown, Knows, OverlapNoted, Collecting
<1>3. PointsFindable' /\ OverlapNoted'
  BY <1>1, <1>2, Zenon DEF IInv, PointsFindable, OverlapNoted, HasPoints, Inserting, Listed,
                           Collecting
<1>4. MetadataIndexed'
  BY <1>1, <1>2, Zenon DEF IInv, MetadataIndexed, Inserting, Listed
<1>5. AliveKnown' /\ DeadRemoved'
  BY <1>0, <1>1 DEF IInv, AliveKnown, Knows, DeadRemoved, HasPoints
<1>. QED
  BY <1>3, <1>4, <1>5, Zenon DEF IInv

\* tag_index.retain takes from one tag the series that are not in alive_series.
LEMMA GcIndexInv ==
  ASSUME TypeOK, IInv, NEW g \in Collectors, NEW t \in Tags, GcIndex(g, t)
  PROVE  IInv'
<1>0. /\ gc \in [Collectors -> GcState]
      /\ tagIndex \in [Tags -> SUBSET Series]
  BY Zenon DEF TypeOK
<1>1. /\ gc[g].at = "index"
      /\ \A h \in Collectors : gc'[h].at = gc[h].at /\ gc'[h].alive = gc[h].alive
      /\ \A h \in Collectors \ {g} : gc'[h].todo = gc[h].todo
      /\ tagIndex' = [tagIndex EXCEPT ![t] = @ \cap gc[g].alive]
      /\ UNCHANGED <<inner, metadata, ins, overlapped>>
  BY <1>0, Zenon DEF GcIndex
<1>2. \A s \in Series \ overlapped : ~Inserting(s)
  BY <1>1, Zenon DEF IInv, OverlapNoted, Collecting
<1>3. \A s \in Series \ overlapped : Listed(s) => Listed(s)'
  BY <1>0, <1>1, StoreAssumption, Zenon DEF IInv, DeadRemoved, Listed
<1>4. PointsFindable' /\ OverlapNoted' /\ MetadataIndexed'
  BY <1>1, <1>2, <1>3, Zenon DEF IInv, PointsFindable, OverlapNoted, MetadataIndexed,
                                 HasPoints, Inserting, Collecting
<1>5. AliveKnown' /\ DeadRemoved'
  BY <1>0, <1>1, Zenon DEF IInv, AliveKnown, Knows, DeadRemoved, HasPoints
<1>. QED
  BY <1>4, <1>5, Zenon DEF IInv

\* The collector goes on to the index, or is done.
LEMMA GcEndInv ==
  ASSUME TypeOK, IInv, NEW g \in Collectors, GcMetadataDone(g) \/ GcEnd(g)
  PROVE  IInv'
<1>0. gc \in [Collectors -> GcState]
  BY Zenon DEF TypeOK
<1>1. /\ \A h \in Collectors \ {g} : gc'[h] = gc[h]
      /\ UNCHANGED <<inner, metadata, tagIndex, ins, overlapped>>
  BY <1>0, Zenon DEF GcMetadataDone, GcEnd, Goto
<1>2. \/ /\ gc[g].at = "metadata" /\ gc[g].todo = {}
         /\ gc'[g].at = "index" /\ gc'[g].alive = gc[g].alive
      \/ gc[g].at = "index" /\ gc'[g].at = "idle"
  <2>1. CASE GcMetadataDone(g)
    <3>1. /\ gc[g].at = "metadata" /\ gc[g].todo = {}
          /\ Goto(g, "index", Tags, gc[g].alive)
      BY <2>1, Zenon DEF GcMetadataDone
    <3>2. gc'[g].at = "index" /\ gc'[g].alive = gc[g].alive
      BY <1>0, <3>1, Goes, Zenon
    <3>. QED
      BY <3>1, <3>2, Zenon
  <2>2. CASE GcEnd(g)
    <3>1. gc'[g] = NoGc
      BY <1>0, <2>2, Zenon DEF GcEnd
    <3>2. gc[g].at = "index"
      BY <2>2, Zenon DEF GcEnd
    <3>. QED
      BY <3>1, <3>2 DEF NoGc
  <2>. QED
    BY <2>1, <2>2, Zenon
<1>3. PointsFindable' /\ OverlapNoted' /\ MetadataIndexed'
  BY <1>1, <1>2, Zenon DEF IInv, PointsFindable, OverlapNoted, MetadataIndexed, HasPoints,
                           Inserting, Listed, Collecting
<1>4. AliveKnown'
  <2>1. ASSUME NEW s \in Series \ overlapped
        PROVE  Knows(g, s)'
    <3>1. Knows(g, s)
      BY Zenon DEF IInv, AliveKnown
    <3>. QED
      BY <1>1, <1>2, <3>1, Zenon DEF Knows, HasPoints
  <2>. QED
    BY <1>1, <2>1, OneKnows, Zenon DEF IInv
<1>5. DeadRemoved'
  BY <1>1, <1>2, Zenon DEF IInv, DeadRemoved
<1>. QED
  BY <1>3, <1>4, <1>5, Zenon DEF IInv

-----------------------------------------------------------------------------
(* Type correctness: the trimming of a deque.                              *)

LOCAL INSTANCE WellFoundedInduction

\* Dropping old points keeps a sequence of ages, and makes it no longer.
LEMMA DropOldType ==
  ASSUME NEW q \in Seq(Age), NEW limit \in Nat
  PROVE  /\ DropOld(q, limit) \in Seq(Age)
         /\ Len(DropOld(q, limit)) <= Len(q)
<1> DEFINE kept == {i \in 1..Len(q) : q[i] <= limit}
           first == CHOOSE i \in kept : \A j \in kept : i <= j
<1>1. Len(q) \in Nat
  OBVIOUS
<1>2. CASE kept = {}
  BY <1>1, <1>2 DEF DropOld
<1>3. CASE kept # {}
  <2>1. \E i \in kept : \A j \in kept : i <= j
    <3>1. kept \subseteq Nat
      BY <1>1
    <3>. HIDE DEF kept
    <3>. DEFINE R == OpToRel(<, Nat)
    <3>2. \A x, y \in Nat : <<y, x>> \notin R => x <= y
      BY DEF OpToRel
    <3>3. IsWellFoundedOn(R, Nat)
      BY NatLessThanWellFounded, Zenon
    <3>. HIDE DEF R
    <3>4. \E x \in kept : \A y \in kept : ~ (<<y, x>> \in R)
      BY <1>3, <3>1, <3>3, WFMin, Zenon
    <3>. QED
      BY <3>1, <3>2, <3>4, Zenon
  <2>2. first \in 1..Len(q)
    BY <2>1, Zenon
  <2>3. DropOld(q, limit) = SubSeq(q, first, Len(q))
    BY <1>3, Zenon DEF DropOld
  <2>4. q # <<>>
    BY <2>2, <1>1
  <2>. HIDE DEF first, kept
  <2>5. /\ SubSeq(q, first, Len(q)) \in Seq(Age)
        /\ Len(SubSeq(q, first, Len(q))) <= Len(q)
    BY <1>1, <2>2
  <2>. QED
    BY <2>3, <2>4, <2>5, Zenon
<1>. QED
  BY <1>2, <1>3, Zenon

\* Dropping the excess leaves a sequence of at most max_points ages.
LEMMA DropExcessType ==
  ASSUME NEW q \in Seq(Age)
  PROVE  /\ DropExcess(q) \in Seq(Age)
         /\ Len(DropExcess(q)) <= MaxPoints
<1>1. Len(q) \in Nat /\ MaxPoints \in Nat \ {0}
  BY StoreAssumption
<1>2. CASE Len(q) > MaxPoints
  <2>1. /\ Len(q) - MaxPoints + 1 \in 1..(Len(q) + 1)
        /\ Len(q) - MaxPoints + 1 <= Len(q)
    BY <1>1, <1>2
  <2>2. /\ SubSeq(q, Len(q) - MaxPoints + 1, Len(q)) \in Seq(Age)
        /\ Len(SubSeq(q, Len(q) - MaxPoints + 1, Len(q))) = MaxPoints
    BY <1>1, <2>1
  <2>. QED
    BY <1>1, <1>2, <2>2 DEF DropExcess
<1>3. CASE ~(Len(q) > MaxPoints)
  BY <1>1, <1>3 DEF DropExcess
<1>. QED
  BY <1>2, <1>3, Zenon

-----------------------------------------------------------------------------
(* Type correctness: the steps.                                            *)

\* The deques are well formed after every step that changes them.
LEMMA InnerType ==
  ASSUME TypeOK, Next
  PROVE  /\ inner' \in [Senders -> [Series -> Seq(Age)]]
         /\ \A n \in Senders, s \in Series : Len(inner'[n][s]) <= MaxPoints
<1> USE StoreAssumption
<1>0. /\ inner \in [Senders -> [Series -> Seq(Age)]]
      /\ \A n \in Senders, s \in Series : Len(inner[n][s]) <= MaxPoints
  BY Zenon DEF TypeOK
<1>1. CASE Tick
  <2>1. \A a \in Age : Older(a) \in Age
    BY DEF Older, Age, MaxAge
  <2>. SUFFICES ASSUME NEW n \in Senders, NEW s \in Series
       PROVE  /\ inner'[n][s] \in Seq(Age)
              /\ Len(inner'[n][s]) <= MaxPoints
    BY <1>1, Zenon DEF Tick
  <2>. DEFINE q == inner[n][s]
              r == [i \in 1..Len(q) |-> Older(q[i])]
  <2>2. inner'[n][s] = r
    BY <1>1, Zenon DEF Tick
  <2>3. q \in Seq(Age) /\ Len(q) \in Nat /\ q \in [1..Len(q) -> Age]
    BY <1>0
  <2>4. r \in [1..Len(q) -> Age]
    BY <2>1, <2>3, Zenon
  <2>. HIDE DEF r
  <2>5. r \in Seq(Age) /\ Len(r) = Len(q)
    BY <2>3, <2>4
  <2>. QED
    BY <1>0, <2>2, <2>5, Zenon
<1>2. ASSUME NEW age \in 0..MaxLag, InsertPoint(age)
      PROVE  /\ inner' \in [Senders -> [Series -> Seq(Age)]]
             /\ \A n \in Senders, s \in Series : Len(inner'[n][s]) <= MaxPoints
  <2>1. ins.node \in Senders /\ ins.series \in Series
    BY <1>2 DEF TypeOK, InsertPoint, NoInsert
  <2>. DEFINE q == inner[ins.node][ins.series]
              r == DropExcess(Append(q, age))
              d == DropOld(r, age + Retention)
  <2>2. q \in Seq(Age)
    BY <1>0, <2>1, Zenon
  <2>3. age \in Age /\ age + Retention \in Nat
    BY DEF Age, MaxAge
  <2>4. Append(q, age) \in Seq(Age)
    BY <2>2, <2>3
  <2>5. r \in Seq(Age) /\ Len(r) <= MaxPoints
    BY <2>4, DropExcessType, Zenon
  <2>6. d \in Seq(Age) /\ Len(d) <= Len(r)
    BY <2>3, <2>5, DropOldType, Zenon
  <2>7. d \in Seq(Age) /\ Len(d) <= MaxPoints
    BY <2>5, <2>6
  <2>8. inner' = [inner EXCEPT ![ins.node][ins.series] = d]
    BY <1>2, Zenon DEF InsertPoint
  <2>. HIDE DEF d
  <2>. QED
    BY <1>0, <2>1, <2>7, <2>8, Zenon
<1>3. ASSUME NEW g \in Collectors, NEW n \in Senders, GcTrim(g, n)
      PROVE  /\ inner' \in [Senders -> [Series -> Seq(Age)]]
             /\ \A m \in Senders, s \in Series : Len(inner'[m][s]) <= MaxPoints
  <2>. DEFINE d == [s \in Series |-> DropOld(inner[n][s], Retention)]
  <2>1. ASSUME NEW s \in Series
        PROVE  d[s] \in Seq(Age) /\ Len(d[s]) <= MaxPoints
    <3>1. inner[n][s] \in Seq(Age)
      BY <1>0, Zenon
    <3>2. /\ DropOld(inner[n][s], Retention) \in Seq(Age)
          /\ Len(DropOld(inner[n][s], Retention)) <= Len(inner[n][s])
      BY <3>1, DropOldType, Zenon
    <3>3. /\ Len(inner[n][s]) \in Nat
          /\ Len(DropOld(inner[n][s], Retention)) \in Nat
      BY <3>1, <3>2
    <3>. QED
      BY <1>0, <3>2, <3>3
  <2>2. inner' = [inner EXCEPT ![n] = d]
    BY <1>0, <1>3, Zenon DEF GcTrim
  <2>3. d \in [Series -> Seq(Age)]
    BY <2>1, Zenon
  <2>. HIDE DEF d
  <2>. QED
    BY <1>0, <2>1, <2>2, <2>3, Zenon
<1>4. CASE UNCHANGED inner
  BY <1>0, <1>4, Zenon
<1>. QED
  BY <1>1, <1>2, <1>3, <1>4, Zenon
     DEF Next, Insert, PerformGc, InsertBegin, InsertTag, InsertMetadata, GcBegin,
         GcTrimmed, GcScan, GcScanned, GcMetadata, GcMetadataDone, GcIndex, GcEnd

\* Every step keeps the state well formed.
LEMMA TypeStep == TypeOK /\ [Next]_vars => TypeOK'
<1> SUFFICES ASSUME TypeOK, [Next]_vars
    PROVE  TypeOK'
  BY Zenon
<1> USE StoreAssumption
<1> DEFINE Rest == /\ metadata \subseteq Series
                   /\ tagIndex \in [Tags -> SUBSET Series]
                   /\ ins \in {NoInsert} \cup InsState
                   /\ gc \in [Collectors -> GcState]
                   /\ overlapped \subseteq Series
<1>0. Rest
  BY Zenon DEF TypeOK
<1>1. CASE UNCHANGED vars
  BY <1>1, Zenon DEF TypeOK, vars
<1>2. CASE Next
  <2>1. ASSUME Tick
        PROVE  Rest'
    BY <1>0, <2>1, Zenon DEF Tick
  <2>2. ASSUME NEW n \in Senders, NEW s \in Series, InsertBegin(n, s)
        PROVE  Rest'
    BY <1>0, <2>2, Zenon DEF InsertBegin, Overlap
  <2>3. ASSUME ins.at # "idle", Insert
        PROVE  Rest'
    <3>1. ins \in InsState
      BY <1>0, <2>3 DEF NoInsert
    <3>2. ASSUME NEW t \in Tags, InsertTag(t)
          PROVE  Rest'
      BY <1>0, <3>1, <3>2, Zenon DEF InsertTag, Overlap
    <3>3. CASE InsertMetadata
      BY <1>0, <3>1, <3>3, Zenon DEF InsertMetadata, Overlap
    <3>4. ASSUME NEW age \in 0..MaxLag, InsertPoint(age)
          PROVE  Rest'
      BY <1>0, <3>1, <3>4, Zenon DEF InsertPoint, Overlap
    <3>. QED
      BY <2>3, <3>2, <3>3, <3>4, Zenon DEF Insert
  <2>4. Insert => ins.at # "idle"
    BY Zenon DEF Insert, InsertTag, InsertMetadata, InsertPoint
  <2>5. ASSUME NEW g \in Collectors, PerformGc(g)
        PROVE  Rest'
    <3>1. CASE GcBegin(g)
      BY <1>0, <3>1, Zenon DEF GcBegin, Goto
    <3>2. CASE GcTrimmed(g) \/ GcScanned(g) \/ GcMetadataDone(g) \/ GcEnd(g)
      <4>1. CASE GcTrimmed(g)
        BY <1>0, <4>1, Zenon DEF GcTrimmed, Goto
      <4>2. CASE GcScanned(g)
        BY <1>0, <4>2, Zenon DEF GcScanned, Goto
      <4>3. CASE GcMetadataDone(g)
        BY <1>0, <4>3, Zenon DEF GcMetadataDone, Goto
      <4>4. CASE GcEnd(g)
        BY <1>0, <4>4, Zenon DEF GcEnd, NoGc
      <4>. QED
        BY <3>2, <4>1, <4>2, <4>3, <4>4, Zenon
    <3>3. ASSUME NEW n \in Senders, GcTrim(g, n) \/ GcScan(g, n)
          PROVE  Rest'
      BY <1>0, <3>3 DEF GcTrim, GcScan, Goto
    <3>4. ASSUME NEW s \in Series, GcMetadata(g, s)
          PROVE  Rest'
      BY <1>0, <3>4 DEF GcMetadata
    <3>5. ASSUME NEW t \in Tags, GcIndex(g, t)
          PROVE  Rest'
      BY <1>0, <3>5 DEF GcIndex
    <3>. QED
      BY <2>5, <3>1, <3>2, <3>3, <3>4, <3>5, Zenon DEF PerformGc
  <2>6. Rest'
    BY <1>2, <2>1, <2>2, <2>3, <2>4, <2>5, Zenon DEF Next
  <2>. QED
    BY <1>2, <2>6, InnerType, Zenon DEF TypeOK
<1>. QED
  BY <1>1, <1>2, Zenon

\* No series of a node ever holds more than max_points points, and the state is
\* well formed (insert_envelope, perform_gc).
THEOREM TypeCorrect == Spec => []TypeOK
<1>1. Init => TypeOK
  <2>1. NoGc \in GcState
    BY Zenon DEF NoGc
  <2>2. <<>> \in Seq(Age) /\ Len(<<>>) = 0 /\ 0 <= MaxPoints
    BY StoreAssumption
  <2>3. ASSUME Init
        PROVE  /\ inner \in [Senders -> [Series -> Seq(Age)]]
               /\ \A n \in Senders, s \in Series : inner[n][s] = <<>>
    BY <2>2, <2>3, Zenon DEF Init
  <2>4. ASSUME Init
        PROVE  /\ metadata \subseteq Series /\ tagIndex \in [Tags -> SUBSET Series]
               /\ ins \in {NoInsert} \cup InsState /\ gc \in [Collectors -> GcState]
               /\ overlapped \subseteq Series
    <3>. HIDE DEF InsState, GcState
    <3>. QED
      BY <2>1, <2>4, Zenon DEF Init
  <2>. QED
    BY <2>2, <2>3, <2>4, Zenon DEF TypeOK
<1>. QED
  BY <1>1, TypeStep, PTL DEF Spec

\* A series with points is found by its name and each of its tags, unless an
\* insertion into it overlapped a collection (insert_envelope, perform_gc,
\* find_series_by_tag).
THEOREM Findable == Spec => []PointsFindable
<1>1. Init => IInv
  <2>1. ASSUME Init
        PROVE  /\ \A g \in Collectors : gc[g].at = "idle"
               /\ \A n \in Senders, s \in Series : inner[n][s] = <<>>
               /\ metadata = {} /\ ins.at = "idle"
    BY <2>1, Zenon DEF Init, NoInsert, NoGc
  <2>. QED
    BY <2>1, Zenon DEF IInv, PointsFindable, OverlapNoted, MetadataIndexed, AliveKnown, Knows,
                       DeadRemoved, HasPoints, Inserting, Collecting
<1>2. TypeOK /\ IInv /\ [Next]_vars => IInv'
  <2>. SUFFICES ASSUME TypeOK, IInv, [Next]_vars
       PROVE  IInv'
    BY Zenon
  <2>1. CASE UNCHANGED vars
    BY <2>1, Zenon DEF vars, IInv, PointsFindable, OverlapNoted, MetadataIndexed, AliveKnown, Knows,
                DeadRemoved, HasPoints, Inserting, Listed, Collecting
  <2>2. CASE Tick
    BY <2>2, TickInv, Zenon
  <2>3. CASE \E n \in Senders, s \in Series : InsertBegin(n, s)
    BY <2>3, InsertBeginInv, Zenon
  <2>4. CASE Insert
    BY <2>4, InsertTagInv, InsertMetadataInv, InsertPointInv, Zenon DEF Insert
  <2>5. CASE \E g \in Collectors : PerformGc(g)
    BY <2>5, GcBeginInv, GcTrimInv, GcScanInv, GcMetadataInv, GcIndexInv, GcEndInv, Zenon
       DEF PerformGc
  <2>. QED
    BY <2>1, <2>2, <2>3, <2>4, <2>5, Zenon DEF Next
<1>3. IInv => PointsFindable
  BY Zenon DEF IInv
<1>. QED
  BY <1>1, <1>2, <1>3, TypeCorrect, PTL DEF Spec
=============================================================================
