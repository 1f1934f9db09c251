------------------------------ MODULE ConnSync ------------------------------
(***************************************************************************)
(* The API service's connection lifecycle.  A connection exists in three   *)
(* places: a PostgreSQL row, the in-memory Cache that answers every        *)
(* request, and the nodes, which know only what the ZeroMQ publisher told  *)
(* them.  MemSync (src/bin/api/sync/tasks.rs) writes the three one after   *)
(* the other, releasing its lock in between; HTTP handlers and the         *)
(* background tasks (src/bin/api/tasks.rs) run it concurrently.            *)
(*                                                                         *)
(* One action is one section of code between two awaits that let another   *)
(* task run.  Data is reduced to what the control flow reads: a row is     *)
(* live or deleted, a subscription is active (expires_at > now) or         *)
(* expired, and what the nodes were last told is "serve" (Create, Update)  *)
(* or "drop" (Delete).                                                     *)
(***************************************************************************)
EXTENDS Naturals

CONSTANTS
  Conns,        \* connection ids, each created at most once (Uuid::new_v4)
  Subs,         \* subscription ids
  NoSub,        \* subscription_id = None
  SubOf,        \* SubOf[c]: the subscription connection c is created under
  Expiring,     \* connections created with an expires_at of their own
  HttpDeleters, \* concurrent DELETE /connection requests
  ConnCleaner,  \* the cleanup_expired_connections task
  SubCleaner,   \* the cleanup_expired_subscriptions task
  RestoreTask,  \* the restore_subscriptions task
  Extenders,    \* concurrent add_days calls (key activation, referral, trial)
  MaxFaults     \* bound on database errors, send errors and crashes

Deleters == HttpDeleters \cup {ConnCleaner, SubCleaner}
Restorers == Extenders \cup {RestoreTask}

ASSUME ConstantsAssumption ==
  /\ NoSub \notin Subs
  /\ SubOf \in [Conns -> Subs \cup {NoSub}]
  /\ Expiring \subseteq Conns
  /\ ConnCleaner # SubCleaner
  /\ ConnCleaner \notin HttpDeleters
  /\ SubCleaner \notin HttpDeleters
  /\ RestoreTask \notin Extenders
  /\ MaxFaults \in Nat

VARIABLES
  dbConn,       \* rows of the connections table
  memConn,      \* Cache.connections
  dbSub,        \* rows of the subscriptions table
  memSub,       \* Cache.subscriptions
  connExpired,  \* the connection's own expires_at has passed
  told,         \* the last message published about the connection
  revoked,      \* connections whose DELETE request was answered "deleted"
  sync,         \* get_state_from_db, which holds the write lock
  newSub,       \* progress of add_sub
  newConn,      \* progress of create_connection_handler
  del,          \* del[w][c]: progress of deleter w on connection c
  subQueue,     \* subscriptions SubCleaner and RestoreTask have still to visit
  ext,          \* progress of add_days
  res,          \* res[r][c]: progress of restorer r on connection c
  faults        \* faults so far

storeVars == <<dbConn, memConn, dbSub, memSub>>
vars == <<storeVars, connExpired, told, revoked, sync, newSub, newConn, del,
          subQueue, ext, res, faults>>

ConnStatus == {"absent", "live", "deleted"}
SubStatus == {"absent", "active", "expired"}
DelStage == {"idle", "todo", "db", "send", "mem"}
ResStage == {"idle", "send", "check", "db", "mem"}
NewConnStage == {"new", "db", "mem", "send", "done"}
\* While the memory insert of add_sub is due, its stage is the status it writes.
NewSubStage == {"new", "active", "expired", "done"}
ExtStage == {"idle", "mem", "db", "restore", "wait"}

NoConns == [c \in Conns |-> "absent"]
NoSubs == [s \in Subs |-> "absent"]
AllIdle == [c \in Conns |-> "idle"]
NoSync == [at |-> "idle", conns |-> NoConns, subs |-> NoSubs]
NoExt == [at |-> "idle", sub |-> NoSub, wasInactive |-> FALSE, pos |-> FALSE]

ConnsOf(s) == {c \in Conns : SubOf[c] = s}
Busy(w) == \E c \in Conns : del[w][c] \in {"db", "send", "mem"}
Working(w) == \E c \in Conns : del[w][c] # "idle"
Restoring(r) == \E c \in Conns : res[r][c] # "idle"

\* UPDATE connections ... WHERE id, and get_mut in the Cache: nothing happens
\* to a connection that is not there.
SetDeleted(status) == IF status = "absent" THEN status ELSE "deleted"
SetLive(status) == IF status = "absent" THEN status ELSE "live"

\* get_state_from_db keeps the write lock over its queries: no other task
\* reads or writes the Cache meanwhile.
MemFree == sync.at = "idle"

\* One more database error, send error or crash.
Fault == faults < MaxFaults /\ faults' = faults + 1

Init ==
  /\ dbConn = NoConns
  /\ memConn = NoConns
  /\ dbSub = NoSubs
  /\ memSub = NoSubs
  /\ connExpired = [c \in Conns |-> FALSE]
  /\ told = [c \in Conns |-> "nothing"]
  /\ revoked = {}
  /\ sync = NoSync
  /\ newSub = [s \in Subs |-> "new"]
  /\ newConn = [c \in Conns |-> "new"]
  /\ del = [w \in Deleters |-> AllIdle]
  /\ subQueue = [t \in {SubCleaner, RestoreTask} |-> {}]
  /\ ext = [e \in Extenders |-> NoExt]
  /\ res = [r \in Restorers |-> AllIdle]
  /\ faults = 0

-----------------------------------------------------------------------------
(* Time.                                                                   *)

\* expires_at <= now for connection c.
ConnExpires(c) ==
  /\ c \in Expiring
  /\ newConn[c] # "new"
  /\ ~connExpired[c]
  /\ connExpired' = [connExpired EXCEPT ![c] = TRUE]
  /\ UNCHANGED <<storeVars, told, revoked, sync, newSub, newConn, del,
                 subQueue, ext, res, faults>>

\* The expiry the Cache holds for s passes, or the one in the row, or both:
\* add_days and update_sub can leave the two different.  The copy a sync or
\* an add_sub carries passes after it is installed.
SubExpires(s) ==
  /\ \/ memSub[s] = "active" /\ memSub' = [memSub EXCEPT ![s] = "expired"]
        /\ UNCHANGED dbSub
     \/ dbSub[s] = "active" /\ dbSub' = [dbSub EXCEPT ![s] = "expired"]
        /\ UNCHANGED memSub
     \/ memSub[s] = "active" /\ memSub' = [memSub EXCEPT ![s] = "expired"]
        /\ dbSub[s] = "active" /\ dbSub' = [dbSub EXCEPT ![s] = "expired"]
  /\ UNCHANGED <<dbConn, memConn, connExpired, told, revoked, sync, newSub,
                 newConn, del, subQueue, ext, res, faults>>

-----------------------------------------------------------------------------
(* Subscriptions: add_sub, update_sub.                                     *)

\* add_sub, the INSERT; a subscription without days starts expired.
AddSubDb(s, status) ==
  /\ newSub[s] = "new"
  /\ dbSub' = [dbSub EXCEPT ![s] = status]
  /\ newSub' = [newSub EXCEPT ![s] = status]
  /\ UNCHANGED <<dbConn, memConn, memSub, connExpired, told, revoked, sync,
                 newConn, del, subQueue, ext, res, faults>>

\* add_sub, the Cache: subscriptions.add overwrites an entry that differs.
AddSubMem(s) ==
  /\ newSub[s] \in {"active", "expired"}
  /\ MemFree
  /\ memSub' = [memSub EXCEPT ![s] = newSub[s]]
  /\ newSub' = [newSub EXCEPT ![s] = "done"]
  /\ UNCHANGED <<dbConn, memConn, dbSub, connExpired, told, revoked, sync,
                 newConn, del, subQueue, ext, res, faults>>

\* update_sub changes the Cache and then the row under one write lock.  A
\* database error leaves the Cache changed.  Days may be negative.
UpdateSub(s, status) ==
  /\ MemFree
  /\ memSub[s] # "absent"
  /\ memSub' = [memSub EXCEPT ![s] = status]
  /\ \/ dbSub' = [dbSub EXCEPT ![s] = status] /\ UNCHANGED faults
     \/ Fault /\ UNCHANGED dbSub
  /\ UNCHANGED <<dbConn, memConn, connExpired, told, revoked, sync, newSub,
                 newConn, del, subQueue, ext, res>>

-----------------------------------------------------------------------------
(* create_connection_handler: admission, add_conn, publish.                *)

\* Mutant of CreateAdmit: the subscription is looked up in the database.
CreateAdmitByRow(c) ==
  /\ newConn[c] = "new"
  /\ SubOf[c] # NoSub => dbSub[SubOf[c]] = "active"
  /\ newConn' = [newConn EXCEPT ![c] = "db"]
  /\ UNCHANGED <<storeVars, connExpired, told, revoked, sync, newSub, del,
                 subQueue, ext, res, faults>>

\* Under the read lock: the subscription, if any, must be known and active.
CreateAdmit(c) ==
  /\ newConn[c] = "new"
  /\ MemFree
  /\ SubOf[c] # NoSub => memSub[SubOf[c]] = "active"
  /\ newConn' = [newConn EXCEPT ![c] = "db"]
  /\ UNCHANGED <<storeVars, connExpired, told, revoked, sync, newSub, del,
                 subQueue, ext, res, faults>>

\* add_conn, the INSERT.
AddConnDb(c) ==
  /\ newConn[c] = "db"
  /\ dbConn' = [dbConn EXCEPT ![c] = "live"]
  /\ newConn' = [newConn EXCEPT ![c] = "mem"]
  /\ UNCHANGED <<memConn, dbSub, memSub, connExpired, told, revoked, sync,
                 newSub, del, subQueue, ext, res, faults>>

\* Mutant of AddConnDbFails: the error is logged and the handler goes on.
AddConnDbIgnoresError(c) ==
  /\ newConn[c] = "db"
  /\ Fault
  /\ newConn' = [newConn EXCEPT ![c] = "mem"]
  /\ UNCHANGED <<storeVars, connExpired, told, revoked, sync, newSub, del,
                 subQueue, ext, res>>

\* On a database error the handler answers 500.
AddConnDbFails(c) ==
  /\ newConn[c] = "db"
  /\ Fault
  /\ newConn' = [newConn EXCEPT ![c] = "done"]
  /\ UNCHANGED <<storeVars, connExpired, told, revoked, sync, newSub, del,
                 subQueue, ext, res>>

\* add_conn, the Cache: an entry a database sync loaded meanwhile is kept.
AddConnMem(c) ==
  /\ newConn[c] = "mem"
  /\ MemFree
  /\ memConn' = [memConn EXCEPT ![c] = IF @ = "absent" THEN "live" ELSE @]
  /\ newConn' = [newConn EXCEPT ![c] = "send"]
  /\ UNCHANGED <<dbConn, dbSub, memSub, connExpired, told, revoked, sync,
                 newSub, del, subQueue, ext, res, faults>>

\* The Create message is sent last.
CreateSend(c) ==
  /\ newConn[c] = "send"
  /\ told' = [told EXCEPT ![c] = "serve"]
  /\ newConn' = [newConn EXCEPT ![c] = "done"]
  /\ UNCHANGED <<storeVars, connExpired, revoked, sync, newSub, del,
                 subQueue, ext, res, faults>>

\* A send error is ignored (let _ =), and for Mtproto there is no topic.
CreateUnsent(c) ==
  /\ newConn[c] = "send"
  /\ newConn' = [newConn EXCEPT ![c] = "done"]
  /\ UNCHANGED <<storeVars, connExpired, told, revoked, sync, newSub, del,
                 subQueue, ext, res, faults>>

\* POST /connections/sync: a node that starts asks for the live connections
\* and gets one Create for each that it selects by protocol and timestamp.
NodeResync(cs) ==
  /\ MemFree
  /\ cs # {} /\ \A c \in cs : memConn[c] = "live"
  /\ told' = [c \in Conns |-> IF c \in cs THEN "serve" ELSE told[c]]
  /\ UNCHANGED <<storeVars, connExpired, revoked, sync, newSub, newConn, del,
                 subQueue, ext, res, faults>>

-----------------------------------------------------------------------------
(* The callers of delete_connection.  Each clones, under the read lock, the *)
(* connections it wants deleted, and deletes them one after the other.     *)

\* delete_connection_handler: 404 unless the connection is known and live.
HttpDelete(w, c) ==
  /\ ~Working(w)
  /\ MemFree
  /\ memConn[c] = "live"
  /\ del' = [del EXCEPT ![w][c] = "todo"]
  /\ UNCHANGED <<storeVars, connExpired, told, revoked, sync, newSub,
                 newConn, subQueue, ext, res, faults>>

\* cleanup_expired_connections: one tick's selection.
ConnCleanerScan ==
  /\ ~Working(ConnCleaner)
  /\ MemFree
  /\ del' = [del EXCEPT ![ConnCleaner] =
               [c \in Conns |-> IF connExpired[c] /\ memConn[c] = "live"
                                  THEN "todo" ELSE "idle"]]
  /\ UNCHANGED <<storeVars, connExpired, told, revoked, sync, newSub,
                 newConn, subQueue, ext, res, faults>>

\* cleanup_expired_subscriptions: one tick's selection of subscriptions.
SubCleanerScan ==
  /\ subQueue[SubCleaner] = {} /\ ~Working(SubCleaner)
  /\ MemFree
  /\ subQueue' = [subQueue EXCEPT ![SubCleaner] =
                    {s \in Subs : memSub[s] = "expired"}]
  /\ UNCHANGED <<storeVars, connExpired, told, revoked, sync, newSub,
                 newConn, del, ext, res, faults>>

\* ... and the live connections of the next one, expired or not by now.
SubCleanerVisit(s) ==
  /\ s \in subQueue[SubCleaner] /\ ~Working(SubCleaner)
  /\ MemFree
  /\ subQueue' = [subQueue EXCEPT ![SubCleaner] = @ \ {s}]
  /\ del' = [del EXCEPT ![SubCleaner] =
               [c \in Conns |-> IF c \in ConnsOf(s) /\ memConn[c] = "live"
                                  THEN "todo" ELSE "idle"]]
  /\ UNCHANGED <<storeVars, connExpired, told, revoked, sync, newSub,
                 newConn, ext, res, faults>>

-----------------------------------------------------------------------------
(* delete_connection: check, row, Delete message, Cache.                   *)

DeleteCheck(w, c) ==
  /\ del[w][c] = "todo" /\ ~Busy(w)
  /\ MemFree
  /\ del' = [del EXCEPT ![w][c] = IF memConn[c] = "live" THEN "db" ELSE "idle"]
  /\ UNCHANGED <<storeVars, connExpired, told, revoked, sync, newSub,
                 newConn, subQueue, ext, res, faults>>

\* Mutant of DeleteDb: after the row, the Cache is next and no Delete is sent.
DeleteDbNoMessage(w, c) ==
  /\ del[w][c] = "db"
  /\ dbConn' = [dbConn EXCEPT ![c] = SetDeleted(@)]
  /\ del' = [del EXCEPT ![w][c] = "mem"]
  /\ UNCHANGED <<memConn, dbSub, memSub, connExpired, told, revoked, sync,
                 newSub, newConn, subQueue, ext, res, faults>>

DeleteDb(w, c) ==
  /\ del[w][c] = "db"
  /\ dbConn' = [dbConn EXCEPT ![c] = SetDeleted(@)]
  /\ del' = [del EXCEPT ![w][c] = "send"]
  /\ UNCHANGED <<memConn, dbSub, memSub, connExpired, told, revoked, sync,
                 newSub, newConn, subQueue, ext, res, faults>>

DeleteDbFails(w, c) ==
  /\ del[w][c] = "db"
  /\ Fault
  /\ del' = [del EXCEPT ![w][c] = "idle"]
  /\ UNCHANGED <<storeVars, connExpired, told, revoked, sync, newSub,
                 newConn, subQueue, ext, res>>

DeleteSend(w, c) ==
  /\ del[w][c] = "send"
  /\ told' = [told EXCEPT ![c] = "drop"]
  /\ del' = [del EXCEPT ![w][c] = "mem"]
  /\ UNCHANGED <<storeVars, connExpired, revoked, sync, newSub, newConn,
                 subQueue, ext, res, faults>>

\* A send error returns before the Cache is touched; the row stays deleted.
DeleteSendFails(w, c) ==
  /\ del[w][c] = "send"
  /\ Fault
  /\ del' = [del EXCEPT ![w][c] = "idle"]
  /\ UNCHANGED <<storeVars, connExpired, told, revoked, sync, newSub,
                 newConn, subQueue, ext, res>>

DeleteMem(w, c) ==
  /\ del[w][c] = "mem"
  /\ MemFree
  /\ memConn' = [memConn EXCEPT ![c] = SetDeleted(@)]
  /\ del' = [del EXCEPT ![w][c] = "idle"]
  /\ revoked' = IF w \in HttpDeleters THEN revoked \cup {c} ELSE revoked
  /\ UNCHANGED <<dbConn, dbSub, memSub, connExpired, told, sync, newSub,
                 newConn, subQueue, ext, res, faults>>

-----------------------------------------------------------------------------
(* add_days, and the callers of restore_connections_by_subscription.       *)

\* The deleted connections of s, cloned under the read lock.
Selected(s) ==
  [c \in Conns |-> IF c \in ConnsOf(s) /\ memConn[c] = "deleted"
                     THEN "send" ELSE "idle"]

\* Was the subscription inactive?  pos: more than zero days are added (a
\* referral through a system code adds zero).
AddDaysRead(e, s, pos) ==
  /\ ext[e].at = "idle"
  /\ MemFree
  /\ ext' = [ext EXCEPT ![e] = [at |-> "mem", sub |-> s, pos |-> pos,
                                wasInactive |-> memSub[s] = "expired"]]
  /\ UNCHANGED <<storeVars, connExpired, told, revoked, sync, newSub,
                 newConn, del, subQueue, res, faults>>

\* The Cache: set_expires_at refuses a time that is not in the future.
AddDaysMem(e) ==
  LET s == ext[e].sub IN
  /\ ext[e].at = "mem"
  /\ MemFree
  /\ IF memSub[s] = "absent"
       THEN /\ ext' = [ext EXCEPT ![e] = NoExt]
            /\ UNCHANGED memSub
       ELSE /\ memSub' = [memSub EXCEPT ![s] =
                            IF ext[e].pos THEN "active" ELSE @]
            /\ ext' = [ext EXCEPT ![e].at = "db"]
  /\ UNCHANGED <<dbConn, memConn, dbSub, connExpired, told, revoked, sync,
                 newSub, newConn, del, subQueue, res, faults>>

\* The row.
AddDaysDb(e) ==
  LET s == ext[e].sub IN
  /\ ext[e].at = "db"
  /\ dbSub' = [dbSub EXCEPT ![s] = IF ext[e].pos THEN "active" ELSE @]
  /\ ext' = [ext EXCEPT ![e] = IF ext[e].wasInactive
                                 THEN [@ EXCEPT !.at = "restore"] ELSE NoExt]
  /\ UNCHANGED <<dbConn, memConn, memSub, connExpired, told, revoked, sync,
                 newSub, newConn, del, subQueue, res, faults>>

\* On a database error the Cache keeps the days and nothing is restored.
AddDaysDbFails(e) ==
  /\ ext[e].at = "db"
  /\ Fault
  /\ ext' = [ext EXCEPT ![e] = NoExt]
  /\ UNCHANGED <<storeVars, connExpired, told, revoked, sync, newSub,
                 newConn, del, subQueue, res>>

AddDaysRestore(e) ==
  /\ ext[e].at = "restore"
  /\ MemFree
  /\ res' = [res EXCEPT ![e] = Selected(ext[e].sub)]
  /\ ext' = [ext EXCEPT ![e].at = "wait"]
  /\ UNCHANGED <<storeVars, connExpired, told, revoked, sync, newSub,
                 newConn, del, subQueue, faults>>

AddDaysReturn(e) ==
  /\ ext[e].at = "wait" /\ ~Restoring(e)
  /\ ext' = [ext EXCEPT ![e] = NoExt]
  /\ UNCHANGED <<storeVars, connExpired, told, revoked, sync, newSub,
                 newConn, del, subQueue, res, faults>>

\* Mutant of RestoreScan: the is_active filter is forgotten.
RestoreScanAll ==
  /\ subQueue[RestoreTask] = {} /\ ~Restoring(RestoreTask)
  /\ MemFree
  /\ subQueue' = [subQueue EXCEPT ![RestoreTask] =
                    {s \in Subs : memSub[s] # "absent"}]
  /\ UNCHANGED <<storeVars, connExpired, told, revoked, sync, newSub,
                 newConn, del, ext, res, faults>>

\* restore_subscriptions: one tick's selection of active subscriptions.
RestoreScan ==
  /\ subQueue[RestoreTask] = {} /\ ~Restoring(RestoreTask)
  /\ MemFree
  /\ subQueue' = [subQueue EXCEPT ![RestoreTask] =
                    {s \in Subs : memSub[s] = "active"}]
  /\ UNCHANGED <<storeVars, connExpired, told, revoked, sync, newSub,
                 newConn, del, ext, res, faults>>

RestoreVisit(s) ==
  /\ s \in subQueue[RestoreTask] /\ ~Restoring(RestoreTask)
  /\ MemFree
  /\ subQueue' = [subQueue EXCEPT ![RestoreTask] = @ \ {s}]
  /\ res' = [res EXCEPT ![RestoreTask] = Selected(s)]
  /\ UNCHANGED <<storeVars, connExpired, told, revoked, sync, newSub,
                 newConn, del, ext, faults>>

-----------------------------------------------------------------------------
(* restore_connections_by_subscription: the connections run concurrently,  *)
(* each sends its Update message first and then calls restore_connection.  *)

RestoreSend(r, c) ==
  /\ res[r][c] = "send"
  /\ told' = [told EXCEPT ![c] = "serve"]
  /\ res' = [res EXCEPT ![r][c] = "check"]
  /\ UNCHANGED <<storeVars, connExpired, revoked, sync, newSub, newConn, del,
                 subQueue, ext, faults>>

RestoreSendFails(r, c) ==
  /\ res[r][c] = "send"
  /\ Fault
  /\ res' = [res EXCEPT ![r][c] = "idle"]
  /\ UNCHANGED <<storeVars, connExpired, told, revoked, sync, newSub,
                 newConn, del, subQueue, ext>>

\* restore_connection, the read lock: NotFound if the Cache lost it.
RestoreCheck(r, c) ==
  /\ res[r][c] = "check"
  /\ MemFree
  /\ res' = [res EXCEPT ![r][c] = IF memConn[c] = "absent" THEN "idle" ELSE "db"]
  /\ UNCHANGED <<storeVars, connExpired, told, revoked, sync, newSub,
                 newConn, del, subQueue, ext, faults>>

\* Mutant of RestoreDb: the UPDATE matches no row.
RestoreDbNoRow(r, c) ==
  /\ res[r][c] = "db"
  /\ res' = [res EXCEPT ![r][c] = "mem"]
  /\ UNCHANGED <<storeVars, connExpired, told, revoked, sync, newSub, newConn,
                 del, subQueue, ext, faults>>

RestoreDb(r, c) ==
  /\ res[r][c] = "db"
  /\ dbConn' = [dbConn EXCEPT ![c] = SetLive(@)]
  /\ res' = [res EXCEPT ![r][c] = "mem"]
  /\ UNCHANGED <<memConn, dbSub, memSub, connExpired, told, revoked, sync,
                 newSub, newConn, del, subQueue, ext, faults>>

\* A database error leaves the Update message sent and both stores deleted.
RestoreDbFails(r, c) ==
  /\ res[r][c] = "db"
  /\ Fault
  /\ res' = [res EXCEPT ![r][c] = "idle"]
  /\ UNCHANGED <<storeVars, connExpired, told, revoked, sync, newSub,
                 newConn, del, subQueue, ext>>

RestoreMem(r, c) ==
  /\ res[r][c] = "mem"
  /\ MemFree
  /\ memConn' = [memConn EXCEPT ![c] = SetLive(@)]
  /\ res' = [res EXCEPT ![r][c] = "idle"]
  /\ UNCHANGED <<dbConn, dbSub, memSub, connExpired, told, revoked, sync,
                 newSub, newConn, del, subQueue, ext, faults>>

-----------------------------------------------------------------------------
(* periodic_db_sync: get_state_from_db takes the write lock, queries the   *)
(* connections and then the subscriptions, and replaces the Cache.         *)

SyncReadConns ==
  /\ sync.at = "idle"
  /\ sync' = [at |-> "conns", conns |-> dbConn, subs |-> NoSubs]
  /\ UNCHANGED <<storeVars, connExpired, told, revoked, newSub, newConn, del,
                 subQueue, ext, res, faults>>

SyncReadSubs ==
  /\ sync.at = "conns"
  /\ sync' = [sync EXCEPT !.at = "subs", !.subs = dbSub]
  /\ UNCHANGED <<storeVars, connExpired, told, revoked, newSub, newConn, del,
                 subQueue, ext, res, faults>>

SyncInstall ==
  /\ sync.at = "subs"
  /\ memConn' = sync.conns
  /\ memSub' = sync.subs
  /\ sync' = NoSync
  /\ UNCHANGED <<dbConn, dbSub, connExpired, told, revoked, newSub, newConn,
                 del, subQueue, ext, res, faults>>

\* A failed query drops the lock and keeps the old Cache.
SyncFails ==
  /\ sync.at # "idle"
  /\ Fault
  /\ sync' = NoSync
  /\ UNCHANGED <<storeVars, connExpired, told, revoked, newSub, newConn, del,
                 subQueue, ext, res>>

\* The API process dies and starts again: every operation in progress is
\* forgotten, and main loads the Cache before it starts the tasks and the
\* HTTP server.
Restart ==
  /\ Fault
  /\ memConn' = dbConn
  /\ memSub' = dbSub
  /\ sync' = NoSync
  /\ newSub' = [s \in Subs |-> IF newSub[s] = "new" THEN "new" ELSE "done"]
  /\ newConn' = [c \in Conns |-> IF newConn[c] = "new" THEN "new" ELSE "done"]
  /\ del' = [w \in Deleters |-> AllIdle]
  /\ subQueue' = [t \in {SubCleaner, RestoreTask} |-> {}]
  /\ ext' = [e \in Extenders |-> NoExt]
  /\ res' = [r \in Restorers |-> AllIdle]
  /\ UNCHANGED <<dbConn, dbSub, connExpired, told, revoked>>
-----------------------------------------------------------------------------
(* The specification.                                                      *)

Clock == \/ \E c \in Conns : ConnExpires(c)
         \/ \E s \in Subs : SubExpires(s)

AddSub(s) == \/ \E status \in {"active", "expired"} : AddSubDb(s, status)
             \/ AddSubMem(s)

Create(c) == \/ CreateAdmit(c) \/ AddConnDb(c) \/ AddConnDbFails(c)
             \/ AddConnMem(c) \/ CreateSend(c) \/ CreateUnsent(c)

DeleteConnection(w) ==
  \E c \in Conns : \/ DeleteCheck(w, c)
                    \/ DeleteDb(w, c) \/ DeleteDbFails(w, c)
                    \/ DeleteSend(w, c) \/ DeleteSendFails(w, c)
                    \/ DeleteMem(w, c)

ConnCleanerStep == ConnCleanerScan \/ DeleteConnection(ConnCleaner)

SubCleanerStep == \/ SubCleanerScan
                  \/ \E s \in Subs : SubCleanerVisit(s)
                  \/ DeleteConnection(SubCleaner)

RestoreConnections(r) ==
  \E c \in Conns : \/ RestoreSend(r, c) \/ RestoreSendFails(r, c)
                    \/ RestoreCheck(r, c) \/ RestoreDb(r, c)
                    \/ RestoreDbFails(r, c) \/ RestoreMem(r, c)

AddDaysCall(e) == \E s \in Subs, pos \in BOOLEAN : AddDaysRead(e, s, pos)

AddDaysStep(e) == \/ AddDaysMem(e) \/ AddDaysDb(e) \/ AddDaysDbFails(e)
                  \/ AddDaysRestore(e) \/ AddDaysReturn(e)
                  \/ RestoreConnections(e)

RestoreTaskStep == \/ RestoreScan
                   \/ \E s \in Subs : RestoreVisit(s)
                   \/ RestoreConnections(RestoreTask)

SyncStep == SyncReadConns \/ SyncReadSubs \/ SyncInstall \/ SyncFails

Next ==
  \/ Clock
  \/ \E s \in Subs : AddSub(s)
  \/ \E s \in Subs, status \in {"active", "expired"} : UpdateSub(s, status)
  \/ \E c \in Conns : Create(c)
  \/ \E cs \in SUBSET Conns : NodeResync(cs)
  \/ \E w \in HttpDeleters, c \in Conns : HttpDelete(w, c)
  \/ \E w \in HttpDeleters : DeleteConnection(w)
  \/ ConnCleanerStep
  \/ SubCleanerStep
  \/ \E e \in Extenders : AddDaysCall(e) \/ AddDaysStep(e)
  \/ RestoreTaskStep
  \/ SyncStep
  \/ Restart

Spec == Init /\ [][Next]_vars

\* What tokio's scheduler owes: a task that has begun an operation goes on
\* with it, and the interval loops keep ticking.  Steps that need the lock are
\* strongly fair because tokio's RwLock is first come, first served.  Nothing
\* makes requests arrive, time pass or faults happen.
Fairness ==
  /\ WF_vars(SyncStep)
  /\ \A s \in Subs : SF_vars(AddSubMem(s))
  /\ \A c \in Conns : SF_vars(Create(c) /\ newConn[c] # "new")
  /\ \A w \in HttpDeleters : SF_vars(DeleteConnection(w))
  /\ SF_vars(ConnCleanerStep)
  /\ SF_vars(SubCleanerStep)
  /\ \A e \in Extenders : SF_vars(AddDaysStep(e))
  /\ SF_vars(RestoreTaskStep)

FairSpec == Spec /\ Fairness

-----------------------------------------------------------------------------
(* Properties.                                                             *)

\* The state is well formed; in particular a deleter works on one connection
\* at a time (the for loops of the cleanup tasks are sequential).
TypeOK ==
  /\ dbConn \in [Conns -> ConnStatus]
  /\ memConn \in [Conns -> ConnStatus]
  /\ dbSub \in [Subs -> SubStatus]
  /\ memSub \in [Subs -> SubStatus]
  /\ connExpired \in [Conns -> BOOLEAN]
  /\ told \in [Conns -> {"nothing", "serve", "drop"}]
  /\ revoked \subseteq Conns
  /\ sync \in [at : {"idle", "conns", "subs"}, conns : [Conns -> ConnStatus],
               subs : [Subs -> SubStatus]]
  /\ newSub \in [Subs -> NewSubStage]
  /\ newConn \in [Conns -> NewConnStage]
  /\ del \in [Deleters -> [Conns -> DelStage]]
  /\ subQueue \in [{SubCleaner, RestoreTask} -> SUBSET Subs]
  /\ ext \in [Extenders -> [at : ExtStage, sub : Subs \cup {NoSub},
                            wasInactive : BOOLEAN, pos : BOOLEAN]]
  /\ res \in [Restorers -> [Conns -> ResStage]]
  /\ faults \in 0..MaxFaults
  /\ \A w \in Deleters : \A c, d \in Conns :
       del[w][c] \in {"db", "send", "mem"} /\ del[w][d] \in {"db", "send", "mem"}
         => c = d

\* Whatever the Cache answers for, and whatever the nodes were told about,
\* has a row: "Insert into database first" (add_conn, add_sub) survives
\* concurrent database syncs and restarts.
NothingWithoutRow ==
  /\ \A c \in Conns : memConn[c] # "absent" \/ told[c] # "nothing"
                       => dbConn[c] # "absent"
  /\ \A s \in Subs : memSub[s] # "absent" => dbSub[s] # "absent"

\* A connection in the Cache has its subscription there too, although
\* get_state_from_db reads the two tables in separate queries while add_sub
\* and add_conn are between their row and their Cache insert: otherwise
\* neither cleanup nor restore would ever visit it.
NoOrphanInCache ==
  \A c \in Conns : memConn[c] # "absent" /\ SubOf[c] # NoSub
                     => memSub[SubOf[c]] # "absent"

\* An operation on c has written one of the row and the message, and is
\* about to write the other.
MessageDue(c) ==
  \/ \E w \in Deleters : del[w][c] = "send"
  \/ \E r \in Restorers : res[r][c] \in {"check", "db"}

\* The nodes serve a connection whose row is deleted, and no operation in
\* progress will put that right.
Zombie(c) == told[c] = "serve" /\ dbConn[c] = "deleted" /\ ~MessageDue(c)

\* The steps that can leave a deleted connection served: a Delete that could
\* not be sent, a restore whose UPDATE failed after its message went out, a
\* crash in the middle of either, and the two late Creates (of a new
\* connection and of a resync).
LeavesZombie(c) ==
  \/ \E w \in Deleters : DeleteSendFails(w, c)
  \/ \E r \in Restorers : RestoreDbFails(r, c)
  \/ Restart
  \/ CreateSend(c)
  \/ \E cs \in SUBSET Conns : c \in cs /\ NodeResync(cs)

\* No other step does: deletes and restores of delete_connection and
\* restore_connections_by_subscription that overlap in any way, database syncs
\* included, never end with the nodes serving a connection whose row is deleted.
ZombieOrigin ==
  [][\A c \in Conns : Zombie(c)' /\ ~Zombie(c) => LeavesZombie(c)]_vars

\* Once a subscription stays expired and nobody adds days to it any more,
\* cleanup_expired_subscriptions gets all its connections deleted for good, in the
\* row and in the Cache, whatever creations, restores, syncs and (finitely many)
\* faults were under way.  An add_days of no days restores them for a moment.
ExpiredSubCutOff ==
  \A s \in Subs :
    <>[](/\ memSub[s] # "active" /\ dbSub[s] # "active"
         /\ \A e \in Extenders : ext[e].sub # s)
      => <>[](\A c \in ConnsOf(s) : dbConn[c] # "live" /\ memConn[c] # "live")

\* Once a subscription stays active and nobody deletes its connection c any
\* more, restore_subscriptions brings c back for good.
ActiveSubServed ==
  \A c \in {d \in Conns : SubOf[d] # NoSub} :
    <>[](/\ memSub[SubOf[c]] = "active" /\ dbSub[SubOf[c]] = "active"
         /\ \A w \in Deleters : del[w][c] = "idle")
      => <>[](dbConn[c] # "deleted" /\ memConn[c] # "deleted")

\* "Handler deletes connection": what DELETE /connection reported as deleted
\* is not served again.
RevokedStaysDeleted == \A c \in revoked : memConn[c] # "live"
=============================================================================
