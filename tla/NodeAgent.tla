----------------------------- MODULE NodeAgent ------------------------------
(***************************************************************************)
(* A node agent (src/bin/node): it receives batches of messages from the    *)
(* API over a ZeroMQ SUB socket, applies them to WireGuard or Xray and to   *)
(* its memory, saves its memory in a snapshot, and after a start loads the  *)
(* snapshot and asks the API for what changed since.                       *)
(*                                                                         *)
(* The API is reduced to the connections it considers live and to their     *)
(* modified_at as a resync reads it; every change is published when it is   *)
(* made.  Create and Update are handled alike and are both "add".          *)
(***************************************************************************)
EXTENDS Naturals, Sequences

CONSTANTS
  WgConns,    \* WireGuard connections
  XrayConns,  \* Xray and Shadowsocks connections
  MaxQueue,   \* bound on batches waiting in the SUB socket
  MaxFaults   \* bound on backend, file and HTTP errors

ASSUME NodeAssumption == /\ WgConns \cap XrayConns = {}
                         /\ MaxQueue \in Nat
                         /\ MaxFaults \in Nat

Conns == WgConns \cup XrayConns
Tags == {"wg", "xray"}
ConnsOf(tag) == IF tag = "wg" THEN WgConns ELSE XrayConns

VARIABLES
  created,    \* connections the API has created
  live,       \* those of them that are not deleted
  since,      \* their modified_at against the timestamp of the saved snapshot
  bootSince,  \* ... and of the snapshot loaded at the last start
  queue,      \* batches in the SUB socket: [act |-> "add" or "del", conns |-> set]
  batch,      \* batch[c]: what is still to be done about c in the current batch
  mem,        \* the agent's memory
  served,     \* WireGuard peers and Xray users
  snap,       \* connections in the snapshot file
  restoring,  \* tasks spawned to put snapshot connections into the backends
  phase,      \* "down", "listen" (subscriber runs, resync not finished), "ready"
  toSync,     \* inbound tags whose resync is still to be requested
  owed,       \* connections whose add failed, was cancelled, or will not be
              \* sent in this run of the agent (history)
  faults      \* faults so far

api == <<created, live, since, bootSince>>
agent == <<batch, mem, served, restoring>>
boot == <<snap, phase, toSync>>
vars == <<api, queue, agent, boot, owed, faults>>

Stage == {"none", "add", "addMem", "del", "delMem"}
NoBatch == [c \in Conns |-> "none"]
Fault == faults < MaxFaults /\ faults' = faults + 1

\* The connections in cs will not be added: they are owed, except those that
\* memory and backend have anyway.
Owe(cs) == owed' = (owed \cup cs) \ (mem' \cap served')

\* The resync that is still to come will send c.
ResyncDue(c) == bootSince[c] # "old" /\ \E tag \in toSync : c \in ConnsOf(tag)

\* Connections whose add is in the socket or in the current batch.
Adds == (UNION {b.conns : b \in {d \in {queue[i] : i \in 1..Len(queue)} : d.act = "add"}})
          \cup {c \in Conns : batch[c] \in {"add", "addMem"}}

Init ==
  /\ created = {} /\ live = {}
  /\ since = [c \in Conns |-> "created"]
  /\ bootSince = [c \in Conns |-> "created"]
  /\ queue = <<>>
  /\ batch = NoBatch
  /\ mem = {} /\ served = {} /\ snap = {} /\ restoring = {}
  /\ phase = "down" /\ toSync = {}
  /\ owed = {}
  /\ faults = 0

-----------------------------------------------------------------------------
(* The API, as far as the agent sees it.                                   *)

\* PUB drops what is sent while the agent is not connected.
Publish(act, cs) ==
  IF phase = "down"
    THEN UNCHANGED queue
    ELSE /\ Len(queue) < MaxQueue
         /\ queue' = Append(queue, [act |-> act, conns |-> cs])

\* modified_at = now, for a connection just created or just restored.
Touch(c, age) ==
  /\ since' = [since EXCEPT ![c] = IF @ = "created" THEN @ ELSE age]
  /\ bootSince' = [bootSince EXCEPT ![c] = IF @ = "created" THEN @ ELSE age]

ApiCreate(c) ==
  /\ c \notin created
  /\ created' = created \cup {c} /\ live' = live \cup {c}
  /\ Touch(c, "created")
  /\ Publish("add", {c})
  /\ UNCHANGED <<agent, boot, owed, faults>>

ApiDelete(c) ==
  /\ c \in live
  /\ live' = live \ {c}
  /\ Publish("del", {c})
  /\ UNCHANGED <<created, since, bootSince, agent, boot, owed, faults>>

ApiRestore(c) ==
  /\ c \in created \ live
  /\ live' = live \cup {c}
  /\ Touch(c, "modified")
  /\ Publish("add", {c})
  /\ UNCHANGED <<created, agent, boot, owed, faults>>

\* A database sync reloads modified_at from the rows, which delete and restore
\* never update: it falls back to the time of creation.
ApiDbSync ==
  LET Back(ages) == [c \in Conns |-> IF ages[c] = "modified" THEN "old" ELSE ages[c]]
      changed == {c \in Conns : "modified" \in {since[c], bootSince[c]}} IN
  /\ changed # {}
  /\ since' = Back(since)
  /\ bootSince' = Back(bootSince)
  /\ UNCHANGED <<created, live, queue, agent, boot, faults>>
  /\ Owe({c \in changed : ResyncDue(c)})

-----------------------------------------------------------------------------
(* Start, resync, snapshot, crash.                                         *)

\* The snapshot is dated after c's last change and does not hold c: taken
\* before c's add was handled, or c's modified_at was taken back.
Gap(c) == c \notin snap /\ since[c] = "old"

\* Mutant: the snapshot fills memory only.
StartMemoryOnly ==
  /\ phase = "down"
  /\ mem' = snap
  /\ bootSince' = since
  /\ phase' = "listen" /\ toSync' = Tags
  /\ UNCHANGED <<created, live, since, queue, batch, served, restoring, snap, faults>>
  /\ Owe({c \in live : Gap(c)})

\* run: subscribe, load the snapshot, spawn the tasks that put it into the
\* backends, start the subscriber.
Start ==
  /\ phase = "down"
  /\ mem' = snap
  /\ restoring' = snap
  /\ bootSince' = since
  /\ phase' = "listen" /\ toSync' = Tags
  /\ UNCHANGED <<created, live, since, queue, batch, served, snap, faults>>
  /\ Owe({c \in live : Gap(c)})

\* A snapshot that cannot be read: the agent starts fresh, without a timestamp.
StartFresh ==
  /\ phase = "down"
  /\ Fault
  /\ bootSince' = [c \in Conns |-> "created"]
  /\ phase' = "listen" /\ toSync' = Tags
  /\ UNCHANGED <<created, live, since, queue, agent, snap, owed>>

\* sync_connections for one inbound, answered by get_connections_handler: one
\* batch with the live connections modified since the loaded snapshot.
Resync(tag) ==
  LET cs == {c \in live \cap ConnsOf(tag) : bootSince[c] # "old"} IN
  /\ phase = "listen" /\ tag \in toSync
  /\ toSync' = toSync \ {tag}
  /\ phase' = IF toSync' = {} THEN "ready" ELSE "listen"
  /\ IF cs = {} THEN UNCHANGED queue ELSE Publish("add", cs)
  /\ UNCHANGED <<api, agent, snap, owed, faults>>

\* Everything the process holds is gone; what is owed is counted anew at the
\* next start.
Stop ==
  /\ phase' = "down" /\ toSync' = {}
  /\ queue' = <<>> /\ batch' = NoBatch
  /\ mem' = {} /\ restoring' = {}
  /\ owed' = {}

\* sync_connections(...).await? : an HTTP error ends the process.
ResyncFails ==
  /\ phase = "listen"
  /\ Fault
  /\ Stop
  /\ UNCHANGED <<api, served, snap>>

\* The agent is stopped (ctrl_c) or dies; the backends go on serving.
Crash ==
  /\ phase # "down"
  /\ Stop
  /\ UNCHANGED <<api, served, snap, faults>>

\* The host dies, and the backends start empty.
Reboot ==
  /\ Stop
  /\ served' = {}
  /\ UNCHANGED <<api, snap, faults>>

\* create_snapshot: memory and timestamp under one read lock, then a write to
\* a temporary file and a rename.  The task starts with the subscriber.
TakeSnapshot ==
  /\ phase # "down"
  /\ snap' = mem
  /\ since' = [c \in Conns |-> "old"]
  /\ UNCHANGED <<created, live, bootSince, queue, agent, phase, toSync, owed, faults>>

\* A spawned restore task: creating a peer or user that exists changes nothing.
SpawnedRestore(c) ==
  /\ c \in restoring
  /\ restoring' = restoring \ {c}
  /\ served' = served \cup {c}
  /\ UNCHANGED <<api, queue, batch, mem, boot, faults>>
  /\ Owe({})

SpawnedRestoreFails(c) ==
  /\ c \in restoring
  /\ Fault
  /\ restoring' = restoring \ {c}
  /\ UNCHANGED <<api, queue, batch, mem, served, boot>>
  /\ Owe({c})

-----------------------------------------------------------------------------
(* run_subscriber and handle_messages_batch: the messages of a batch are    *)
(* handled concurrently; try_join_all drops the others at the first error.  *)

Receive ==
  /\ phase # "down"
  /\ batch = NoBatch /\ queue # <<>>
  /\ batch' = [c \in Conns |-> IF c \in Head(queue).conns
                                 THEN Head(queue).act ELSE "none"]
  /\ queue' = Tail(queue)
  /\ UNCHANGED <<api, mem, served, restoring, boot, owed, faults>>

\* An error ends the batch: what is left of it is cancelled.
DropBatch ==
  /\ batch' = NoBatch
  /\ Owe({c \in Conns : batch[c] \in {"add", "addMem"}})

\* Mutant: waits for the peer to go away.
WgAddWaits(c) ==
  /\ c \in WgConns \ served /\ batch[c] = "add"
  /\ mem' = mem \cup {c}
  /\ served' = served \cup {c}
  /\ batch' = [batch EXCEPT ![c] = "none"]
  /\ Owe({})
  /\ UNCHANGED <<api, queue, restoring, boot, faults>>

\* Wireguard: memory first, then the peer; a peer that exists is an error.
\* From the write lock on nothing is awaited.
WgAdd(c) ==
  /\ c \in WgConns /\ batch[c] = "add"
  /\ mem' = mem \cup {c}
  /\ served' = served \cup {c}
  /\ IF c \in served THEN DropBatch
       ELSE batch' = [batch EXCEPT ![c] = "none"] /\ Owe({})
  /\ UNCHANGED <<api, queue, restoring, boot, faults>>

\* The peer cannot be created.
WgAddFails(c) ==
  /\ c \in WgConns \ served /\ batch[c] = "add"
  /\ Fault
  /\ mem' = mem \cup {c}
  /\ UNCHANGED <<api, queue, served, restoring, boot>>
  /\ DropBatch

\* Xray: the user first; Xray refuses one that exists.
XrayAdd(c) ==
  /\ c \in XrayConns /\ batch[c] = "add"
  /\ served' = served \cup {c}
  /\ UNCHANGED <<api, queue, mem, restoring, boot, faults>>
  /\ IF c \in served THEN DropBatch
       ELSE batch' = [batch EXCEPT ![c] = "addMem"] /\ UNCHANGED owed

XrayAddFails(c) ==
  /\ c \in XrayConns /\ batch[c] = "add"
  /\ Fault
  /\ UNCHANGED <<api, queue, mem, served, restoring, boot>>
  /\ DropBatch

XrayAddMem(c) ==
  /\ batch[c] = "addMem"
  /\ mem' = mem \cup {c}
  /\ batch' = [batch EXCEPT ![c] = "none"]
  /\ UNCHANGED <<api, queue, served, restoring, boot, faults>>
  /\ Owe({})

\* Mutant: the backend is told only of connections that memory has.
RemoveKnown(c) ==
  /\ batch[c] = "del"
  /\ served' = IF c \in mem THEN served \ {c} ELSE served
  /\ batch' = [batch EXCEPT ![c] = "delMem"]
  /\ UNCHANGED <<api, queue, mem, restoring, boot, owed, faults>>

\* Delete: the backend first, then memory.
Remove(c) ==
  /\ batch[c] = "del"
  /\ served' = served \ {c}
  /\ batch' = [batch EXCEPT ![c] = "delMem"]
  /\ UNCHANGED <<api, queue, mem, restoring, boot, owed, faults>>

\* A WireGuard error ends the batch.
WgRemoveFails(c) ==
  /\ c \in WgConns /\ batch[c] = "del"
  /\ Fault
  /\ UNCHANGED <<api, queue, mem, served, restoring, boot>>
  /\ DropBatch

\* An Xray error is ignored (let _ =) and memory forgets the connection.
XrayRemoveFails(c) ==
  /\ c \in XrayConns /\ batch[c] = "del"
  /\ Fault
  /\ batch' = [batch EXCEPT ![c] = "delMem"]
  /\ UNCHANGED <<api, queue, mem, served, restoring, boot, owed>>

RemoveMem(c) ==
  /\ batch[c] = "delMem"
  /\ mem' = mem \ {c}
  /\ batch' = [batch EXCEPT ![c] = "none"]
  /\ UNCHANGED <<api, queue, served, restoring, boot, owed, faults>>

-----------------------------------------------------------------------------
Handle(c) == \/ WgAdd(c) \/ WgAddFails(c)
             \/ XrayAdd(c) \/ XrayAddFails(c) \/ XrayAddMem(c)
             \/ Remove(c) \/ WgRemoveFails(c) \/ XrayRemoveFails(c)
             \/ RemoveMem(c)

Api == \/ \E c \in Conns : ApiCreate(c) \/ ApiDelete(c) \/ ApiRestore(c)
       \/ ApiDbSync

Subscriber == Receive \/ \E c \in Conns : Handle(c)

Restores == \E c \in Conns : SpawnedRestore(c) \/ SpawnedRestoreFails(c)

Next == \/ Api
        \/ Start \/ StartFresh
        \/ \E tag \in Tags : Resync(tag)
        \/ ResyncFails
        \/ Crash \/ Reboot
        \/ TakeSnapshot
        \/ Restores
        \/ Subscriber

Spec == Init /\ [][Next]_vars

\* A running agent requests its resync, receives and handles batches, and runs
\* the tasks it spawned.
Fairness == /\ WF_vars(\E tag \in Tags : Resync(tag))
            /\ WF_vars(Restores)
            /\ WF_vars(Subscriber)

FairSpec == Spec /\ Fairness

-----------------------------------------------------------------------------
(* Properties.                                                             *)

\* A running agent serves and remembers every live connection, or is about to,
\* or it is owed: snapshot, restore tasks and resync together miss only the
\* adds that failed, were cancelled with their batch (handle_messages_batch),
\* or fell into the gap of the snapshot, whatever creates, deletes, restores,
\* crashes and snapshots they run between.
ServedOrOwed ==
  phase # "down" =>
    \A c \in live \ (mem \cap served) :
      c \in Adds \cup restoring \cup owed \/ ResyncDue(c)

\* c is served although it is deleted, and nothing about c is on its way.
Stale(c) ==
  /\ c \in served \ live
  /\ batch[c] \notin {"add", "addMem", "del"}
  /\ \A i \in 1..Len(queue) : c \notin queue[i].conns

\* Only a Delete that is lost or fails, or a restore task that overtakes one,
\* leaves a deleted connection served: creates, resync batches and deletes of
\* one connection take effect in the order they were published, also where an
\* earlier add was cut short.
StaleOrigin ==
  [][\A c \in Conns : Stale(c)' /\ ~Stale(c) =>
       \/ phase = "down" /\ ApiDelete(c)
       \/ ResyncFails \/ Crash
       \/ WgRemoveFails(c) \/ XrayRemoveFails(c)
       \/ SpawnedRestore(c)]_vars

\* An agent that stays up comes to serve what stays live and is not owed: no
\* batch, however it ends, keeps run_subscriber from the next one.
EventuallyServed ==
  \A c \in Conns :
    <>[](phase = "ready" /\ c \in live) => <>[](c \in (mem \cap served) \cup owed)
=============================================================================
