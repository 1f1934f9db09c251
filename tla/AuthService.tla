---------------------------- MODULE AuthService -----------------------------
(***************************************************************************)
(* The auth service (src/bin/auth), which answers whether a Hysteria2 token *)
(* is valid, composed with the steps of the API that it can tell apart.     *)
(* Creations, deletes and restores of one connection overlap, and each      *)
(* writes the row, the Cache, which a resync reads, and its message one     *)
(* after the other (sync/tasks.rs); ConnSync models who starts them.        *)
(*                                                                         *)
(* Create and Update messages are handled alike and are both "add".  A      *)
(* connection stands for its token, which never changes.                   *)
(***************************************************************************)
EXTENDS Naturals, Sequences, FiniteSets

CONSTANTS
  Conns,     \* Hysteria2 connections
  Workers,   \* deletes and restores of one connection at a time
  MaxQueue   \* the high water mark of the SUB socket, in batches

ASSUME AuthAssumption == MaxQueue \in Nat

VARIABLES
  live,       \* connections whose row is live
  known,      \* connections in the API's Cache
  cache,      \* ... that it holds as live
  new,        \* new[c]: the next step of create_connection_handler
  job,        \* job[w][c]: the next step of a delete or restore of c
  sync,       \* what get_state_from_db has read, under the write lock
  since,      \* modified_at against the timestamp of the saved snapshot
  bootSince,  \* ... and of the one loaded, while get_connections asks with it
  queue,      \* batches in the SUB socket
  mem,        \* Service.memory
  snap,       \* connections in the snapshot file
  phase       \* "down", "listen" (get_connections not answered yet), "ready"

store == <<live, known, cache>>
ages == <<since, bootSince>>
service == <<mem, snap, phase>>
api == <<store, new, job, sync, ages>>
vars == <<api, queue, service>>

NewStage == {"row", "cache", "send", "done"}
JobStage == {"idle", "delRow", "delSend", "delCache", "resSend", "resRow", "resCache"}
Age == {"old", "modified", "created"}
Batch == [act : {"add", "del"}, conns : SUBSET Conns]

NoJobs == [w \in Workers |-> [c \in Conns |-> "idle"]]
NoAges == [c \in Conns |-> "created"]
NoSync == [busy |-> FALSE, known |-> {}, live |-> {}]

\* Connections with a row.
Rows == {c \in Conns : new[c] # "row"}

\* No database sync holds the lock.
MemFree == ~sync.busy

\* The messages about c, from position i of the socket on, are all adds.
OnlyAdds(i, c) == \A j \in i..Len(queue) : c \in queue[j].conns => queue[j].act = "add"

\* c will be accepted once the service has caught up with the socket.
WillAccept(c) ==
  \/ c \in mem /\ OnlyAdds(1, c)
  \/ \E i \in 1..Len(queue) : c \in queue[i].conns /\ OnlyAdds(i, c)

\* The resync that is still to be answered will announce c.
ResyncDue(c) == phase = "listen" /\ c \in cache /\ bootSince[c] # "old"

Init ==
  /\ live = {} /\ known = {} /\ cache = {}
  /\ new = [c \in Conns |-> "row"]
  /\ job = NoJobs
  /\ sync = NoSync
  /\ since = NoAges /\ bootSince = NoAges
  /\ queue = <<>>
  /\ mem = {} /\ snap = {}
  /\ phase = "down"

-----------------------------------------------------------------------------
(* The API.                                                                *)

\* PUB drops what is sent while the service is not connected; while it runs,
\* it may be reconnecting, or its queue be full.
Publish(act, cs) ==
  \/ UNCHANGED queue
  \/ /\ phase # "down" /\ Len(queue) < MaxQueue
     /\ queue' = Append(queue, [act |-> act, conns |-> cs])

\* set_modified_at.
Touch(c) ==
  /\ since' = [since EXCEPT ![c] = IF @ = "created" THEN @ ELSE "modified"]
  /\ bootSince' = [bootSince EXCEPT ![c] = IF @ = "created" THEN @ ELSE "modified"]

\* The rows replace the Cache.  Delete and restore never update their
\* modified_at, which falls back to the time of creation.
Load(ks, ls) ==
  LET Back(of) == [c \in Conns |-> IF of[c] = "modified" THEN "old" ELSE of[c]] IN
  /\ known' = ks /\ cache' = ls
  /\ since' = Back(since)
  /\ bootSince' = Back(bootSince)

\* add_conn: the row ...
CreateRow(c) ==
  /\ new[c] = "row"
  /\ new' = [new EXCEPT ![c] = "cache"]
  /\ live' = live \cup {c}
  /\ UNCHANGED <<known, cache, job, sync, ages, queue, service>>

\* ... and the Cache, where an entry a database sync loaded meanwhile is kept;
CreateCache(c) ==
  /\ new[c] = "cache" /\ MemFree
  /\ new' = [new EXCEPT ![c] = "send"]
  /\ known' = known \cup {c}
  /\ cache' = IF c \in known THEN cache ELSE cache \cup {c}
  /\ UNCHANGED <<live, job, sync, ages, queue, service>>

\* then the Create message.  A send error is ignored, and has the effect of a drop.
CreateSend(c) ==
  /\ new[c] = "send"
  /\ new' = [new EXCEPT ![c] = "done"]
  /\ Publish("add", {c})
  /\ UNCHANGED <<store, job, sync, ages, service>>

JobGoes(w, c, from, to) == job[w][c] = from /\ job' = [job EXCEPT ![w][c] = to]

\* delete_connection: the check under the read lock,
DeleteCheck(w, c) ==
  /\ MemFree /\ c \in cache
  /\ JobGoes(w, c, "idle", "delRow")
  /\ UNCHANGED <<store, new, sync, ages, queue, service>>

\* the row,
DeleteRow(w, c) ==
  /\ JobGoes(w, c, "delRow", "delSend")
  /\ live' = live \ {c}
  /\ UNCHANGED <<known, cache, new, sync, ages, queue, service>>

\* the Delete message,
DeleteSend(w, c) ==
  /\ JobGoes(w, c, "delSend", "delCache")
  /\ Publish("del", {c})
  /\ UNCHANGED <<store, new, sync, ages, service>>

\* the Cache.
DeleteCache(w, c) ==
  /\ MemFree
  /\ JobGoes(w, c, "delCache", "idle")
  /\ cache' = cache \ {c}
  /\ Touch(c)
  /\ UNCHANGED <<live, known, new, sync, queue, service>>

\* The UPDATE or the send fails: the Cache keeps the connection, until somebody
\* deletes it again or a database sync corrects it.
DeleteFails(w, c) ==
  /\ \E from \in {"delRow", "delSend"} : JobGoes(w, c, from, "idle")
  /\ UNCHANGED <<store, new, sync, ages, queue, service>>

\* restore_connections_by_subscription selects what the Cache holds as deleted,
RestoreSelect(w, c) ==
  /\ MemFree /\ c \in known \ cache
  /\ JobGoes(w, c, "idle", "resSend")
  /\ UNCHANGED <<store, new, sync, ages, queue, service>>

\* and sends its Update message;
RestoreSend(w, c) ==
  /\ JobGoes(w, c, "resSend", "resRow")
  /\ Publish("add", {c})
  /\ UNCHANGED <<store, new, sync, ages, service>>

\* restore_connection, which finds it in the Cache still, writes the row,
RestoreRow(w, c) ==
  /\ JobGoes(w, c, "resRow", "resCache")
  /\ live' = live \cup {c}
  /\ UNCHANGED <<known, cache, new, sync, ages, queue, service>>

\* and the Cache.
RestoreCache(w, c) ==
  /\ MemFree
  /\ JobGoes(w, c, "resCache", "idle")
  /\ cache' = cache \cup {c}
  /\ Touch(c)
  /\ UNCHANGED <<live, known, new, sync, queue, service>>

\* The send or the UPDATE fails.
RestoreFails(w, c) ==
  /\ \E from \in {"resSend", "resRow"} : JobGoes(w, c, from, "idle")
  /\ UNCHANGED <<store, new, sync, ages, queue, service>>

\* get_state_from_db takes the write lock and reads the rows ...
SyncRead ==
  /\ MemFree
  /\ sync' = [busy |-> TRUE, known |-> Rows, live |-> live]
  /\ UNCHANGED <<store, new, job, ages, queue, service>>

\* ... and replaces the Cache, or gives up.
SyncInstall ==
  /\ ~MemFree
  /\ sync' = NoSync
  /\ Load(sync.known, sync.live)
  /\ UNCHANGED <<live, new, job, queue, service>>

SyncFails ==
  /\ ~MemFree
  /\ sync' = NoSync
  /\ UNCHANGED <<store, new, job, ages, queue, service>>

\* The API dies, in the middle of whatever it was doing, and starts again.
Restart ==
  /\ new' = [c \in Conns |-> IF new[c] = "row" THEN "row" ELSE "done"]
  /\ job' = NoJobs
  /\ sync' = NoSync
  /\ Load(Rows, live)
  /\ UNCHANGED <<live, queue, service>>

-----------------------------------------------------------------------------
(* The service.                                                            *)

\* Mutant: the timestamp sent is that of the start.
StartAtNow ==
  /\ phase = "down"
  /\ mem' = snap
  /\ bootSince' = [c \in Conns |-> "old"]
  /\ phase' = "listen"
  /\ UNCHANGED <<store, new, job, sync, since, queue, snap>>

\* run: load the snapshot, start the subscriber.
Start ==
  /\ phase = "down"
  /\ mem' = snap
  /\ bootSince' = since
  /\ phase' = "listen"
  /\ UNCHANGED <<store, new, job, sync, since, queue, snap>>

\* The snapshot cannot be read: no connections, no timestamp.
StartFresh ==
  /\ phase = "down"
  /\ bootSince' = NoAges
  /\ phase' = "listen"
  /\ UNCHANGED <<store, new, job, sync, since, queue, mem, snap>>

\* get_connections_handler: the live connections of the Cache that changed since.
ResyncBatch == {c \in cache : bootSince[c] # "old"}

PublishResync ==
  MemFree /\ IF ResyncBatch = {} THEN UNCHANGED queue ELSE Publish("add", ResyncBatch)

\* Mutant: 304 Not Modified counts as a failure.
ResyncNonEmpty ==
  /\ phase = "listen"
  /\ ResyncBatch # {} /\ PublishResync
  /\ phase' = "ready"
  /\ bootSince' = NoAges
  /\ UNCHANGED <<store, new, job, sync, since, mem, snap>>

\* get_connections answers, and the HTTP server starts.
Resync ==
  /\ phase = "listen"
  /\ PublishResync
  /\ phase' = "ready"
  /\ bootSince' = NoAges
  /\ UNCHANGED <<store, new, job, sync, since, mem, snap>>

\* get_connections fails, before or after the API published: try again.
ResyncFails ==
  /\ phase = "listen"
  /\ PublishResync
  /\ UNCHANGED <<api, service>>

\* Mutant: an add batch replaces the memory, as a snapshot does.
ReceiveReplaces ==
  /\ phase # "down" /\ queue # <<>>
  /\ LET b == Head(queue) IN
       mem' = IF b.act = "add" THEN b.conns ELSE mem \ b.conns
  /\ queue' = Tail(queue)
  /\ UNCHANGED <<api, snap, phase>>

\* Mutant: Delete is skipped like a message without a token.
ReceiveNoDelete ==
  /\ phase # "down" /\ queue # <<>>
  /\ mem' = mem \cup Head(queue).conns
  /\ queue' = Tail(queue)
  /\ UNCHANGED <<api, snap, phase>>

\* run_subscriber and handle_messages_batch: a batch under one write lock.
Receive ==
  /\ phase # "down" /\ queue # <<>>
  /\ LET b == Head(queue) IN
       mem' = IF b.act = "add" THEN mem \cup b.conns ELSE mem \ b.conns
  /\ queue' = Tail(queue)
  /\ UNCHANGED <<api, snap, phase>>

\* create_snapshot: memory and timestamp under one read lock, then a write to
\* a temporary file and a rename; the first one at once.
TakeSnapshot ==
  /\ phase # "down"
  /\ snap' = mem
  /\ since' = [c \in Conns |-> IF c \in Rows THEN "old" ELSE "created"]
  /\ UNCHANGED <<store, new, job, sync, bootSince, queue, mem, phase>>

\* ctrl_c, a panicked task, or a crash.
Crash ==
  /\ phase # "down"
  /\ phase' = "down"
  /\ queue' = <<>> /\ mem' = {} /\ bootSince' = NoAges
  /\ UNCHANGED <<store, new, job, sync, since, snap>>

-----------------------------------------------------------------------------
Create(c) == CreateRow(c) \/ CreateCache(c) \/ CreateSend(c)

Delete(w, c) == \/ DeleteCheck(w, c) \/ DeleteRow(w, c) \/ DeleteSend(w, c)
                \/ DeleteCache(w, c) \/ DeleteFails(w, c)

Restore(w, c) == \/ RestoreSelect(w, c) \/ RestoreSend(w, c) \/ RestoreRow(w, c)
                 \/ RestoreCache(w, c) \/ RestoreFails(w, c)

Next ==
  \/ \E c \in Conns : Create(c)
  \/ \E w \in Workers, c \in Conns : Delete(w, c) \/ Restore(w, c)
  \/ SyncRead \/ SyncInstall \/ SyncFails
  \/ Restart
  \/ Start \/ StartFresh
  \/ Resync \/ ResyncFails
  \/ Receive
  \/ TakeSnapshot
  \/ Crash

Spec == Init /\ [][Next]_vars

\* A creation goes on, a database sync ends, the subscriber goes on, and the
\* retries of get_connections meet an API that answers.
Fairness ==
  /\ \A c \in Conns : SF_vars(CreateCache(c)) /\ WF_vars(CreateSend(c))
  /\ WF_vars(SyncInstall)
  /\ SF_vars(Resync)
  /\ WF_vars(Receive)

FairSpec == Spec /\ Fairness

-----------------------------------------------------------------------------
(* Properties.                                                             *)

\* auth_handler and validate_token, on the service that listens.
Accepts(c) == phase = "ready" /\ c \in mem

\* The state is well formed; a stopped service holds nothing.
TypeOK ==
  /\ live \subseteq Conns /\ known \subseteq Conns /\ cache \subseteq Conns
  /\ new \in [Conns -> NewStage]
  /\ job \in [Workers -> [Conns -> JobStage]]
  /\ sync \in [busy : BOOLEAN, known : SUBSET Conns, live : SUBSET Conns]
  /\ since \in [Conns -> Age] /\ bootSince \in [Conns -> Age]
  /\ queue \in Seq(Batch)
  /\ Len(queue) <= MaxQueue
  /\ mem \subseteq Conns /\ snap \subseteq Conns
  /\ phase \in {"down", "listen", "ready"}
  /\ phase = "down" => queue = <<>> /\ mem = {}

\* The row of c is live, or about to be again; the Create is still to be sent.
Wanted(c) == c \in live \/ \E w \in Workers : job[w][c] = "resRow"
Creating(c) == new[c] \in {"cache", "send"}

\* Nothing that is under way makes the running service accept the live c.
Missed(c) ==
  /\ phase # "down" /\ Wanted(c)
  /\ ~WillAccept(c) /\ ~ResyncDue(c) /\ ~Creating(c)

\* The steps that may leave c missed: a start from a snapshot dated after c's last
\* change, or before c is in the Cache; a message that is not sent or is dropped; a
\* Delete, or its write to the Cache, that a restore overtook; and a reload of the
\* Cache that takes modified_at back, or comes in the middle of a creation.
LeavesMissed(c) ==
  \/ Start /\ (since[c] = "old" \/ c \notin cache)
  \/ StartFresh /\ c \notin cache
  \/ queue' = queue /\ (CreateSend(c) \/ Resync \/ \E w \in Workers : RestoreSend(w, c))
  \/ \E w \in Workers : DeleteSend(w, c) \/ DeleteCache(w, c)
  \/ SyncInstall /\ (c \notin sync.live \/ bootSince[c] = "modified")
  \/ Restart /\ (Creating(c) \/ bootSince[c] = "modified")

\* There is no other gap between snapshot, subscription and resync: a live
\* connection that the running service would come to accept stays so but for the
\* steps of LeavesMissed.
MissedOrigin ==
  [][\A c \in Conns : Missed(c)' /\ ~Missed(c) => LeavesMissed(c)]_vars

\* A Delete for c is due, or a restore will make its row live.
MessageDue(c) == \E w \in Workers : job[w][c] \in {"delSend", "resRow"}

\* A deleted connection will (go on to) be accepted, and nothing puts that right.
Lingers(c) == c \notin live /\ ~MessageDue(c) /\ WillAccept(c)

\* Only these steps make the service accept a deleted connection for good: the
\* start from a snapshot that missed the Delete, a Delete that could not be sent or
\* was dropped, a failed restore, the death of the API between row and message, a
\* Create sent after the Delete, and a resync (answered or not) that reads the Cache
\* while it still holds a deleted row as live.
LingersOrigin ==
  [][\A c \in Conns : Lingers(c)' /\ ~Lingers(c) =>
       \/ Start \/ Restart \/ CreateSend(c)
       \/ \E w \in Workers : \/ DeleteFails(w, c) \/ RestoreFails(w, c)
                             \/ DeleteSend(w, c) /\ queue' = queue
       \/ c \in cache \ live /\ (Resync \/ ResyncFails)]_vars

\* The positions of the messages about c; the k-th of positions P; what the messages
\* at P announce, in the order of the socket.
About(c) == {i \in 1..Len(queue) : c \in queue[i].conns}
Kth(P, k) == CHOOSE i \in P : Cardinality({j \in P : j <= i}) = k
ActsAt(q, P) == [k \in 1..Cardinality(P) |-> q[Kth(P, k)].act]

\* Every token is an ordered register of its own, whatever shares its batches.
Register == INSTANCE TokenRegister WITH
  accepted <- mem,
  saved <- snap,
  pending <- [c \in Conns |-> ActsAt(queue, About(c))]

\* The service implements the registers of TokenRegister.
ImplementsRegister == Register!Spec

\* A service that stays up comes to accept the token of a connection that stays
\* live and is not missed, however often get_connections has to retry.
EventuallyAccepted ==
  \A c \in Conns :
    <>[](phase # "down" /\ c \in live) => <>[](Accepts(c) \/ Missed(c))
=============================================================================
