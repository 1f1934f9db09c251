--------------------------- MODULE ConnSyncProofs ---------------------------
(* Proofs about ConnSync, for any connections, subscriptions, concurrent    *)
(* requests and number of faults.                                          *)
EXTENDS ConnSync, TLAPS

\* What an operation carries between two awaits is backed by a row: the next
\* write of add_sub, add_conn or a database sync is about something stored.
CarriedRows ==
  /\ \A s \in Subs : newSub[s] \in {"active", "expired"} => dbSub[s] # "absent"
  /\ \A c \in Conns : newConn[c] \in {"mem", "send"} => dbConn[c] # "absent"
  /\ \A c \in Conns : sync.conns[c] # "absent" => dbConn[c] # "absent"
  /\ \A s \in Subs : sync.subs[s] # "absent" => dbSub[s] # "absent"

\* While a database sync holds the lock, its snapshot covers the Cache it is
\* going to replace.
SnapshotCovers ==
  /\ sync.at # "idle" =>
       \A c \in Conns : memConn[c] # "absent" => sync.conns[c] # "absent"
  /\ sync.at = "subs" =>
       \A s \in Subs : memSub[s] # "absent" => sync.subs[s] # "absent"

\* A connection past admission has its subscription in the Cache.
Admitted ==
  \A c \in Conns :
    /\ dbConn[c] # "absent" \/ newConn[c] = "db"
    /\ SubOf[c] # NoSub
    => memSub[SubOf[c]] # "absent"

\* What a deletion or a restoration works on stays in the Cache.
WorkKnown ==
  /\ \A w \in Deleters, c \in Conns : del[w][c] # "idle" => memConn[c] # "absent"
  /\ \A r \in Restorers, c \in Conns : res[r][c] # "idle" => memConn[c] # "absent"

\* add_days restores connections only in its last part.
RestoreLast ==
  \A e \in Extenders : ext[e].at # "wait" => \A c \in Conns : res[e][c] = "idle"

IInv == /\ NothingWithoutRow
        /\ CarriedRows
        /\ SnapshotCovers
        /\ Admitted
        /\ WorkKnown
        /\ RestoreLast

-----------------------------------------------------------------------------
(* Type correctness.                                                       *)

\* Every step of the API keeps the state well formed.
LEMMA TypeStep == TypeOK /\ [Next]_vars => TypeOK'
<1>. SUFFICES ASSUME TypeOK, [Next]_vars PROVE TypeOK'
  BY Zenon
<1>. USE ConstantsAssumption
     DEF storeVars, ConnStatus, SubStatus, DelStage, ResStage, NewConnStage,
         NewSubStage, ExtStage, ConnsOf
<1>1. ASSUME NEW c \in Conns, ConnExpires(c) PROVE TypeOK'
  BY <1>1, Zenon DEF TypeOK, ConnExpires
<1>2. ASSUME NEW s \in Subs, SubExpires(s) PROVE TypeOK'
  <2>1. UNCHANGED <<dbConn, memConn, connExpired, told, revoked, sync, newSub,
                    newConn, del, subQueue, ext, res, faults>>
    BY <1>2, Zenon DEF SubExpires
  <2>2. \/ dbSub' = dbSub
        \/ dbSub' = [dbSub EXCEPT ![s] = "expired"]
    BY <1>2, Zenon DEF SubExpires
  <2>3. \/ memSub' = memSub
        \/ memSub' = [memSub EXCEPT ![s] = "expired"]
    BY <1>2, Zenon DEF SubExpires
  <2>. QED
    BY <2>1, <2>2, <2>3 DEF TypeOK
<1>3. ASSUME NEW s \in Subs, NEW status \in {"active", "expired"}, AddSubDb(s, status)
      PROVE  TypeOK'
  BY <1>3, Zenon DEF TypeOK, AddSubDb
<1>4. ASSUME NEW s \in Subs, AddSubMem(s) PROVE TypeOK'
  BY <1>4, Zenon DEF TypeOK, AddSubMem
<1>5. ASSUME NEW s \in Subs, NEW status \in {"active", "expired"}, UpdateSub(s, status)
      PROVE  TypeOK'
  BY <1>5, SMTT(30) DEF TypeOK, UpdateSub, Fault
<1>6. ASSUME NEW c \in Conns, CreateAdmit(c) PROVE TypeOK'
  BY <1>6, Zenon DEF TypeOK, CreateAdmit
<1>7. ASSUME NEW c \in Conns, AddConnDb(c) PROVE TypeOK'
  BY <1>7, Zenon DEF TypeOK, AddConnDb
<1>8. ASSUME NEW c \in Conns, AddConnDbFails(c) PROVE TypeOK'
  BY <1>8 DEF TypeOK, AddConnDbFails, Fault
<1>9. ASSUME NEW c \in Conns, AddConnMem(c) PROVE TypeOK'
  BY <1>9, Zenon DEF TypeOK, AddConnMem
<1>10. ASSUME NEW c \in Conns, CreateSend(c) PROVE TypeOK'
  BY <1>10, Zenon DEF TypeOK, CreateSend
<1>11. ASSUME NEW c \in Conns, CreateUnsent(c) PROVE TypeOK'
  BY <1>11, Zenon DEF TypeOK, CreateUnsent
<1>12. ASSUME NEW cs \in SUBSET Conns, NodeResync(cs) PROVE TypeOK'
  BY <1>12, Zenon DEF TypeOK, NodeResync
<1>13. ASSUME NEW w \in HttpDeleters, NEW c \in Conns, HttpDelete(w, c)
      PROVE  TypeOK'
  BY <1>13 DEF TypeOK, HttpDelete, Working, Deleters
<1>14. ASSUME ConnCleanerScan PROVE TypeOK'
  BY <1>14, Zenon DEF TypeOK, ConnCleanerScan, Working, Deleters
<1>15. ASSUME SubCleanerScan PROVE TypeOK'
  BY <1>15, Zenon DEF TypeOK, SubCleanerScan
<1>16. ASSUME NEW s \in Subs, SubCleanerVisit(s) PROVE TypeOK'
  BY <1>16, Zenon DEF TypeOK, SubCleanerVisit, Working, Deleters
<1>17. ASSUME NEW w \in Deleters, NEW c \in Conns, DeleteCheck(w, c)
      PROVE  TypeOK'
  BY <1>17 DEF TypeOK, DeleteCheck, Busy
<1>18. ASSUME NEW w \in Deleters, NEW c \in Conns, DeleteDb(w, c) PROVE TypeOK'
  BY <1>18 DEF TypeOK, DeleteDb, SetDeleted
<1>19. ASSUME NEW w \in Deleters, NEW c \in Conns, DeleteDbFails(w, c)
      PROVE  TypeOK'
  BY <1>19 DEF TypeOK, DeleteDbFails, Fault
<1>20. ASSUME NEW w \in Deleters, NEW c \in Conns, DeleteSend(w, c)
      PROVE  TypeOK'
  BY <1>20 DEF TypeOK, DeleteSend
<1>21. ASSUME NEW w \in Deleters, NEW c \in Conns, DeleteSendFails(w, c)
      PROVE  TypeOK'
  BY <1>21 DEF TypeOK, DeleteSendFails, Fault
<1>22. ASSUME NEW w \in Deleters, NEW c \in Conns, DeleteMem(w, c)
      PROVE  TypeOK'
  BY <1>22 DEF TypeOK, DeleteMem, SetDeleted
<1>23. ASSUME NEW e \in Extenders, NEW s \in Subs, NEW pos \in BOOLEAN, AddDaysRead(e, s, pos)
      PROVE  TypeOK'
  BY <1>23 DEF TypeOK, AddDaysRead
<1>24. ASSUME NEW e \in Extenders, AddDaysMem(e) PROVE TypeOK'
  <2>1. ext[e] \in [at : ExtStage, sub : Subs \cup {NoSub},
                   wasInactive : BOOLEAN, pos : BOOLEAN]
    BY Zenon DEF TypeOK
  <2>2. \/ ext' = [ext EXCEPT ![e] = NoExt]
        \/ ext' = [ext EXCEPT ![e].at = "db"]
    BY <1>24, Zenon DEF AddDaysMem
  <2>3. ext' \in [Extenders -> [at : ExtStage, sub : Subs \cup {NoSub},
                                wasInactive : BOOLEAN, pos : BOOLEAN]]
    <3>1. CASE ext' = [ext EXCEPT ![e] = NoExt]
      BY <3>1, Zenon DEF TypeOK, NoExt
    <3>2. CASE ext' = [ext EXCEPT ![e].at = "db"]
      BY <2>1, <3>2, Zenon DEF TypeOK
    <3>. QED
      BY <2>2, <3>1, <3>2, Zenon
  <2>4. memSub' \in [Subs -> SubStatus]
    <3>1. memSub \in [Subs -> SubStatus]
      BY Zenon DEF TypeOK
    <3>. QED
      BY <1>24, <3>1, Zenon DEF AddDaysMem
  <2>. QED
    BY <1>24, <2>3, <2>4, Zenon DEF TypeOK, AddDaysMem
<1>25. ASSUME NEW e \in Extenders, AddDaysDb(e) PROVE TypeOK'
  <2>1. ext[e] \in [at : ExtStage, sub : Subs \cup {NoSub},
                   wasInactive : BOOLEAN, pos : BOOLEAN]
    BY Zenon DEF TypeOK
  <2>2. ext' \in [Extenders -> [at : ExtStage, sub : Subs \cup {NoSub},
                                wasInactive : BOOLEAN, pos : BOOLEAN]]
    BY <1>25, <2>1, Zenon DEF TypeOK, AddDaysDb, NoExt
  <2>3. dbSub' \in [Subs -> SubStatus]
    <3>1. dbSub \in [Subs -> SubStatus]
      BY Zenon DEF TypeOK
    <3>. QED
      BY <1>25, <3>1, Zenon DEF AddDaysDb
  <2>. QED
    BY <1>25, <2>2, <2>3, Zenon DEF TypeOK, AddDaysDb
<1>26. ASSUME NEW e \in Extenders, AddDaysDbFails(e) PROVE TypeOK'
  BY <1>26 DEF TypeOK, AddDaysDbFails, Fault, NoExt
<1>27. ASSUME NEW e \in Extenders, AddDaysRestore(e) PROVE TypeOK'
  <2>1. ext[e] \in [at : ExtStage, sub : Subs \cup {NoSub},
                   wasInactive : BOOLEAN, pos : BOOLEAN]
    BY Zenon DEF TypeOK
  <2>2. ext' \in [Extenders -> [at : ExtStage, sub : Subs \cup {NoSub},
                                wasInactive : BOOLEAN, pos : BOOLEAN]]
    BY <1>27, <2>1, Zenon DEF TypeOK, AddDaysRestore
  <2>3. res' \in [Restorers -> [Conns -> ResStage]]
    <3>1. res \in [Restorers -> [Conns -> ResStage]]
      BY Zenon DEF TypeOK
    <3>. QED
      BY <1>27, <3>1, Zenon DEF AddDaysRestore, Selected
  <2>. QED
    BY <1>27, <2>2, <2>3, Zenon DEF TypeOK, AddDaysRestore
<1>28. ASSUME NEW e \in Extenders, AddDaysReturn(e) PROVE TypeOK'
  BY <1>28, Zenon DEF TypeOK, AddDaysReturn, NoExt
<1>29. ASSUME RestoreScan PROVE TypeOK'
  BY <1>29, Zenon DEF TypeOK, RestoreScan
<1>30. ASSUME NEW s \in Subs, RestoreVisit(s) PROVE TypeOK'
  BY <1>30, Zenon DEF TypeOK, RestoreVisit, Selected, Restorers
<1>31. ASSUME NEW r \in Restorers, NEW c \in Conns, RestoreSend(r, c)
      PROVE  TypeOK'
  BY <1>31, Zenon DEF TypeOK, RestoreSend
<1>32. ASSUME NEW r \in Restorers, NEW c \in Conns, RestoreSendFails(r, c)
      PROVE  TypeOK'
  BY <1>32 DEF TypeOK, RestoreSendFails, Fault
<1>33. ASSUME NEW r \in Restorers, NEW c \in Conns, RestoreCheck(r, c)
      PROVE  TypeOK'
  BY <1>33, Zenon DEF TypeOK, RestoreCheck
<1>34. ASSUME NEW r \in Restorers, NEW c \in Conns, RestoreDb(r, c)
      PROVE  TypeOK'
  BY <1>34, Zenon DEF TypeOK, RestoreDb, SetLive
<1>35. ASSUME NEW r \in Restorers, NEW c \in Conns, RestoreDbFails(r, c)
      PROVE  TypeOK'
  BY <1>35 DEF TypeOK, RestoreDbFails, Fault
<1>36. ASSUME NEW r \in Restorers, NEW c \in Conns, RestoreMem(r, c)
      PROVE  TypeOK'
  BY <1>36, Zenon DEF TypeOK, RestoreMem, SetLive
<1>37. ASSUME SyncReadConns PROVE TypeOK'
  BY <1>37, Zenon DEF TypeOK, SyncReadConns, NoSubs
<1>38. ASSUME SyncReadSubs PROVE TypeOK'
  BY <1>38, Zenon DEF TypeOK, SyncReadSubs
<1>39. ASSUME SyncInstall PROVE TypeOK'
  BY <1>39, Zenon DEF TypeOK, SyncInstall, NoSync, NoConns, NoSubs
<1>40. ASSUME SyncFails PROVE TypeOK'
  BY <1>40 DEF TypeOK, SyncFails, Fault, NoSync, NoConns, NoSubs
<1>41. ASSUME Restart PROVE TypeOK'
  BY <1>41 DEF TypeOK, Restart, Fault, NoSync, NoConns, NoSubs, NoExt, AllIdle
<1>42. CASE UNCHANGED vars
  BY <1>42, Zenon DEF TypeOK, vars
<1>. QED
  BY <1>1, <1>2, <1>3, <1>4, <1>5, <1>6, <1>7, <1>8, <1>9, <1>10, <1>11, <1>12,
     <1>13, <1>14, <1>15, <1>16, <1>17, <1>18, <1>19, <1>20, <1>21, <1>22,
     <1>23, <1>24, <1>25, <1>26, <1>27, <1>28, <1>29, <1>30, <1>31, <1>32,
     <1>33, <1>34, <1>35, <1>36, <1>37, <1>38, <1>39, <1>40, <1>41, <1>42, Zenon DEF
     Next, Clock, AddSub, Create, DeleteConnection, ConnCleanerStep,
     SubCleanerStep, RestoreConnections, AddDaysCall, AddDaysStep,
     RestoreTaskStep, SyncStep, Deleters, Restorers

\* The state of the API is well formed for every number of connections,
\* requests and faults, and a deleter works on one connection at a time.
THEOREM TypeCorrect == Spec => []TypeOK
<1>1. Init => TypeOK
  BY ConstantsAssumption
     DEF Init, TypeOK, ConnStatus, SubStatus, DelStage, ResStage,
         NewConnStage, NewSubStage, ExtStage, NoConns, NoSubs, AllIdle,
         NoSync, NoExt
<1>. QED
  BY <1>1, TypeStep, PTL DEF Spec

-----------------------------------------------------------------------------
(* The inductive invariant.                                                *)

\* Every step keeps rows, Cache, snapshot and operations under way consistent.
LEMMA InvStep == TypeOK /\ TypeOK' /\ IInv /\ [Next]_vars => IInv'
<1>. SUFFICES ASSUME TypeOK, TypeOK', IInv, [Next]_vars PROVE IInv'
  BY Zenon
<1>. USE ConstantsAssumption
     DEF storeVars, ConnStatus, SubStatus, DelStage, ResStage, NewConnStage,
         NewSubStage, ExtStage, ConnsOf, MemFree
<1>. USE DEF IInv, NothingWithoutRow, CarriedRows, SnapshotCovers, Admitted,
             WorkKnown, RestoreLast
<1>1. ASSUME NEW c \in Conns, ConnExpires(c) PROVE IInv'
  BY <1>1 DEF TypeOK, ConnExpires
<1>2. ASSUME NEW s \in Subs, SubExpires(s) PROVE IInv'
  BY <1>2 DEF TypeOK, SubExpires
<1>3. ASSUME NEW s \in Subs, NEW status \in {"active", "expired"}, AddSubDb(s, status)
      PROVE  IInv'
  BY <1>3 DEF TypeOK, AddSubDb
<1>4. ASSUME NEW s \in Subs, AddSubMem(s) PROVE IInv'
  BY <1>4 DEF TypeOK, AddSubMem
<1>5. ASSUME NEW s \in Subs, NEW status \in {"active", "expired"}, UpdateSub(s, status)
      PROVE  IInv'
  BY <1>5 DEF TypeOK, UpdateSub, Fault
<1>6. ASSUME NEW c \in Conns, CreateAdmit(c) PROVE IInv'
  BY <1>6 DEF TypeOK, CreateAdmit
<1>7. ASSUME NEW c \in Conns, AddConnDb(c) PROVE IInv'
  BY <1>7 DEF TypeOK, AddConnDb
<1>8. ASSUME NEW c \in Conns, AddConnDbFails(c) PROVE IInv'
  BY <1>8 DEF TypeOK, AddConnDbFails, Fault
<1>9. ASSUME NEW c \in Conns, AddConnMem(c) PROVE IInv'
  BY <1>9 DEF TypeOK, AddConnMem
<1>10. ASSUME NEW c \in Conns, CreateSend(c) PROVE IInv'
  BY <1>10 DEF TypeOK, CreateSend
<1>11. ASSUME NEW c \in Conns, CreateUnsent(c) PROVE IInv'
  BY <1>11 DEF TypeOK, CreateUnsent
<1>12. ASSUME NEW cs \in SUBSET Conns, NodeResync(cs) PROVE IInv'
  BY <1>12 DEF TypeOK, NodeResync
<1>13. ASSUME NEW w \in HttpDeleters, NEW c \in Conns, HttpDelete(w, c)
      PROVE  IInv'
  BY <1>13 DEF TypeOK, HttpDelete, Working, Deleters
<1>14. ASSUME ConnCleanerScan PROVE IInv'
  BY <1>14 DEF TypeOK, ConnCleanerScan, Working, Deleters
<1>15. ASSUME SubCleanerScan PROVE IInv'
  BY <1>15 DEF TypeOK, SubCleanerScan
<1>16. ASSUME NEW s \in Subs, SubCleanerVisit(s) PROVE IInv'
  BY <1>16 DEF TypeOK, SubCleanerVisit, Working, Deleters
<1>17. ASSUME NEW w \in Deleters, NEW c \in Conns, DeleteCheck(w, c)
      PROVE  IInv'
  BY <1>17 DEF TypeOK, DeleteCheck, Busy
<1>18. ASSUME NEW w \in Deleters, NEW c \in Conns, DeleteDb(w, c) PROVE IInv'
  BY <1>18 DEF TypeOK, DeleteDb, SetDeleted
<1>19. ASSUME NEW w \in Deleters, NEW c \in Conns, DeleteDbFails(w, c)
      PROVE  IInv'
  BY <1>19 DEF TypeOK, DeleteDbFails, Fault
<1>20. ASSUME NEW w \in Deleters, NEW c \in Conns, DeleteSend(w, c) PROVE IInv'
  BY <1>20 DEF TypeOK, DeleteSend
<1>21. ASSUME NEW w \in Deleters, NEW c \in Conns, DeleteSendFails(w, c)
      PROVE  IInv'
  BY <1>21 DEF TypeOK, DeleteSendFails, Fault
<1>22. ASSUME NEW w \in Deleters, NEW c \in Conns, DeleteMem(w, c) PROVE IInv'
  BY <1>22 DEF TypeOK, DeleteMem, SetDeleted
<1>23. ASSUME NEW e \in Extenders, NEW s \in Subs, NEW pos \in BOOLEAN, AddDaysRead(e, s, pos)
      PROVE  IInv'
  BY <1>23 DEF TypeOK, AddDaysRead
<1>24. ASSUME NEW e \in Extenders, AddDaysMem(e) PROVE IInv'
  <2>1. \A s \in Subs : memSub[s] # "absent" <=> memSub'[s] # "absent"
    BY <1>24 DEF TypeOK, AddDaysMem
  <2>2. \A f \in Extenders : f # e => ext'[f] = ext[f]
    BY <1>24 DEF TypeOK, AddDaysMem
  <2>3. ext[e].at # "wait"
    BY <1>24, Zenon DEF AddDaysMem
  <2>. QED
    BY <1>24, <2>1, <2>2, <2>3 DEF TypeOK, AddDaysMem
<1>25. ASSUME NEW e \in Extenders, AddDaysDb(e) PROVE IInv'
  BY <1>25 DEF TypeOK, AddDaysDb, NoExt
<1>26. ASSUME NEW e \in Extenders, AddDaysDbFails(e) PROVE IInv'
  BY <1>26 DEF TypeOK, AddDaysDbFails, Fault, NoExt
<1>27. ASSUME NEW e \in Extenders, AddDaysRestore(e) PROVE IInv'
  BY <1>27 DEF TypeOK, AddDaysRestore, Selected, Restorers
<1>28. ASSUME NEW e \in Extenders, AddDaysReturn(e) PROVE IInv'
  BY <1>28 DEF TypeOK, AddDaysReturn, NoExt, Restoring
<1>29. ASSUME RestoreScan PROVE IInv'
  BY <1>29 DEF TypeOK, RestoreScan
<1>30. ASSUME NEW s \in Subs, RestoreVisit(s) PROVE IInv'
  BY <1>30 DEF TypeOK, RestoreVisit, Selected, Restorers
<1>31. ASSUME NEW r \in Restorers, NEW c \in Conns, RestoreSend(r, c)
      PROVE  IInv'
  BY <1>31 DEF TypeOK, RestoreSend
<1>32. ASSUME NEW r \in Restorers, NEW c \in Conns, RestoreSendFails(r, c)
      PROVE  IInv'
  BY <1>32 DEF TypeOK, RestoreSendFails, Fault
<1>33. ASSUME NEW r \in Restorers, NEW c \in Conns, RestoreCheck(r, c)
      PROVE  IInv'
  BY <1>33 DEF TypeOK, RestoreCheck
<1>34. ASSUME NEW r \in Restorers, NEW c \in Conns, RestoreDb(r, c) PROVE IInv'
  BY <1>34 DEF TypeOK, RestoreDb, SetLive
<1>35. ASSUME NEW r \in Restorers, NEW c \in Conns, RestoreDbFails(r, c)
      PROVE  IInv'
  BY <1>35 DEF TypeOK, RestoreDbFails, Fault
<1>36. ASSUME NEW r \in Restorers, NEW c \in Conns, RestoreMem(r, c)
      PROVE  IInv'
  BY <1>36 DEF TypeOK, RestoreMem, SetLive
<1>37. ASSUME SyncReadConns PROVE IInv'
  BY <1>37 DEF TypeOK, SyncReadConns, NoSubs
<1>38. ASSUME SyncReadSubs PROVE IInv'
  BY <1>38 DEF TypeOK, SyncReadSubs
<1>39. ASSUME SyncInstall PROVE IInv'
  BY <1>39 DEF TypeOK, SyncInstall, NoSync, NoConns, NoSubs
<1>40. ASSUME SyncFails PROVE IInv'
  BY <1>40 DEF TypeOK, SyncFails, Fault, NoSync, NoConns, NoSubs
<1>41. ASSUME Restart PROVE IInv'
  <2>1. NothingWithoutRow' /\ CarriedRows' /\ SnapshotCovers' /\ Admitted'
    BY <1>41, SMTT(30) DEF TypeOK, Restart, NoSync, NoConns, NoSubs
  <2>2. WorkKnown' /\ RestoreLast'
    BY <1>41, Zenon DEF Restart, AllIdle, Restorers
  <2>. QED
    BY <2>1, <2>2, Zenon
<1>42. CASE UNCHANGED vars
  BY <1>42, Zenon DEF vars
<1>. QED
  BY Zenon, <1>1, <1>2, <1>3, <1>4, <1>5, <1>6, <1>7, <1>8, <1>9, <1>10, <1>11, <1>12,
     <1>13, <1>14, <1>15, <1>16, <1>17, <1>18, <1>19, <1>20, <1>21, <1>22,
     <1>23, <1>24, <1>25, <1>26, <1>27, <1>28, <1>29, <1>30, <1>31, <1>32,
     <1>33, <1>34, <1>35, <1>36, <1>37, <1>38, <1>39, <1>40, <1>41, <1>42 DEF
     Next, Clock, AddSub, Create, DeleteConnection, ConnCleanerStep,
     SubCleanerStep, RestoreConnections, AddDaysCall, AddDaysStep,
     RestoreTaskStep, SyncStep, Deleters, Restorers

\* The type invariant and IInv hold in every state.
LEMMA Invariant == Spec => [](TypeOK /\ IInv)
<1>1. Init => IInv
  BY ConstantsAssumption
     DEF Init, IInv, NothingWithoutRow, CarriedRows, SnapshotCovers, Admitted,
         WorkKnown, RestoreLast, NoConns, NoSubs, NoSync, AllIdle, Restorers
<1>. QED
  BY <1>1, TypeCorrect, InvStep, PTL DEF Spec

\* Nothing is in the Cache or known to the nodes without a row: add_conn and
\* add_sub insert into the database first, and no sync, restart or overlap of
\* operations undoes that order.
THEOREM RowsFirst == Spec => []NothingWithoutRow
BY Invariant, PTL DEF IInv

\* get_state_from_db never installs, and no handler inserts, a connection whose
\* subscription is not in the Cache.
THEOREM NoOrphans == Spec => []NoOrphanInCache
<1>1. IInv => NoOrphanInCache
  BY SMTT(30) DEF IInv, NothingWithoutRow, Admitted, NoOrphanInCache
<1>. QED
  BY <1>1, Invariant, PTL

-----------------------------------------------------------------------------
(* Deleted connections that are served.                                    *)

\* A step after which the nodes serve a deleted connection for good is one of
\* the five kinds LeavesZombie lists.
LEMMA ZombieStep ==
  TypeOK /\ IInv /\ [Next]_vars
    => \A c \in Conns : Zombie(c)' /\ ~Zombie(c) => LeavesZombie(c)
<1>. SUFFICES ASSUME TypeOK, IInv, [Next]_vars,
                     NEW d \in Conns, Zombie(d)', ~Zombie(d)
              PROVE  LeavesZombie(d)
  BY Zenon
<1>. USE ConstantsAssumption
     DEF storeVars, ConnStatus, SubStatus, DelStage, ResStage, NewConnStage,
         NewSubStage, ExtStage, ConnsOf, MemFree
<1>. USE DEF Zombie, MessageDue
<1>1. ASSUME NEW c \in Conns, ConnExpires(c) PROVE LeavesZombie(d)
  BY <1>1, Zenon DEF TypeOK, ConnExpires
<1>2. ASSUME NEW s \in Subs, SubExpires(s) PROVE LeavesZombie(d)
  BY <1>2, Zenon DEF TypeOK, SubExpires
<1>3. ASSUME NEW s \in Subs, NEW status \in {"active", "expired"}, AddSubDb(s, status)
      PROVE  LeavesZombie(d)
  BY <1>3, Zenon DEF TypeOK, AddSubDb
<1>4. ASSUME NEW s \in Subs, AddSubMem(s) PROVE LeavesZombie(d)
  BY <1>4, Zenon DEF TypeOK, AddSubMem
<1>5. ASSUME NEW s \in Subs, NEW status \in {"active", "expired"}, UpdateSub(s, status)
      PROVE  LeavesZombie(d)
  BY <1>5, Zenon DEF TypeOK, UpdateSub, Fault
<1>6. ASSUME NEW c \in Conns, CreateAdmit(c) PROVE LeavesZombie(d)
  BY <1>6, Zenon DEF TypeOK, CreateAdmit
<1>7. ASSUME NEW c \in Conns, AddConnDb(c) PROVE LeavesZombie(d)
  BY <1>7 DEF TypeOK, AddConnDb
<1>8. ASSUME NEW c \in Conns, AddConnDbFails(c) PROVE LeavesZombie(d)
  BY <1>8, Zenon DEF TypeOK, AddConnDbFails, Fault
<1>9. ASSUME NEW c \in Conns, AddConnMem(c) PROVE LeavesZombie(d)
  BY <1>9, Zenon DEF TypeOK, AddConnMem
<1>10. ASSUME NEW c \in Conns, CreateSend(c) PROVE LeavesZombie(d)
  <2>1. d = c
    BY <1>10 DEF TypeOK, CreateSend
  <2>. QED
    BY <1>10, <2>1, Zenon DEF LeavesZombie
<1>11. ASSUME NEW c \in Conns, CreateUnsent(c) PROVE LeavesZombie(d)
  BY <1>11, Zenon DEF TypeOK, CreateUnsent
<1>12. ASSUME NEW cs \in SUBSET Conns, NodeResync(cs) PROVE LeavesZombie(d)
  BY <1>12, Zenon DEF TypeOK, LeavesZombie, NodeResync
<1>13. ASSUME NEW w \in HttpDeleters, NEW c \in Conns, HttpDelete(w, c)
      PROVE  LeavesZombie(d)
  BY <1>13, Zenon DEF TypeOK, HttpDelete, Working, Deleters
<1>14. ASSUME ConnCleanerScan PROVE LeavesZombie(d)
  BY <1>14, Zenon DEF TypeOK, ConnCleanerScan, Working, Deleters
<1>15. ASSUME SubCleanerScan PROVE LeavesZombie(d)
  BY <1>15, Zenon DEF TypeOK, SubCleanerScan, Working
<1>16. ASSUME NEW s \in Subs, SubCleanerVisit(s) PROVE LeavesZombie(d)
  BY <1>16, Zenon DEF TypeOK, SubCleanerVisit, Working, Deleters
<1>17. ASSUME NEW w \in Deleters, NEW c \in Conns, DeleteCheck(w, c)
      PROVE  LeavesZombie(d)
  BY <1>17 DEF TypeOK, DeleteCheck, Busy
<1>18. ASSUME NEW w \in Deleters, NEW c \in Conns, DeleteDb(w, c)
      PROVE  LeavesZombie(d)
  BY <1>18 DEF TypeOK, DeleteDb, SetDeleted
<1>19. ASSUME NEW w \in Deleters, NEW c \in Conns, DeleteDbFails(w, c)
      PROVE  LeavesZombie(d)
  BY <1>19 DEF TypeOK, DeleteDbFails, Fault
<1>20. ASSUME NEW w \in Deleters, NEW c \in Conns, DeleteSend(w, c)
      PROVE  LeavesZombie(d)
  BY <1>20 DEF TypeOK, DeleteSend
<1>21. ASSUME NEW w \in Deleters, NEW c \in Conns, DeleteSendFails(w, c)
      PROVE  LeavesZombie(d)
  <2>1. d = c
    BY <1>21 DEF TypeOK, DeleteSendFails
  <2>. QED
    BY <1>21, <2>1, Zenon DEF LeavesZombie
<1>22. ASSUME NEW w \in Deleters, NEW c \in Conns, DeleteMem(w, c)
      PROVE  LeavesZombie(d)
  BY <1>22 DEF TypeOK, DeleteMem, SetDeleted
<1>23. ASSUME NEW e \in Extenders, NEW s \in Subs, NEW pos \in BOOLEAN, AddDaysRead(e, s, pos)
      PROVE  LeavesZombie(d)
  BY <1>23, Zenon DEF TypeOK, AddDaysRead
<1>24. ASSUME NEW e \in Extenders, AddDaysMem(e) PROVE LeavesZombie(d)
  BY <1>24, Zenon DEF TypeOK, AddDaysMem, NoExt
<1>25. ASSUME NEW e \in Extenders, AddDaysDb(e) PROVE LeavesZombie(d)
  BY <1>25, Zenon DEF TypeOK, AddDaysDb, NoExt
<1>26. ASSUME NEW e \in Extenders, AddDaysDbFails(e) PROVE LeavesZombie(d)
  BY <1>26, Zenon DEF TypeOK, AddDaysDbFails, Fault, NoExt
<1>27. ASSUME NEW e \in Extenders, AddDaysRestore(e) PROVE LeavesZombie(d)
  BY <1>27 DEF TypeOK, IInv, RestoreLast, AddDaysRestore, Selected, Restorers
<1>28. ASSUME NEW e \in Extenders, AddDaysReturn(e) PROVE LeavesZombie(d)
  BY <1>28, Zenon DEF TypeOK, AddDaysReturn, NoExt
<1>29. ASSUME RestoreScan PROVE LeavesZombie(d)
  BY <1>29, Zenon DEF TypeOK, RestoreScan, Restoring
<1>30. ASSUME NEW s \in Subs, RestoreVisit(s) PROVE LeavesZombie(d)
  BY <1>30, Zenon DEF TypeOK, RestoreVisit, Selected, Restoring, Restorers
<1>31. ASSUME NEW r \in Restorers, NEW c \in Conns, RestoreSend(r, c)
      PROVE  LeavesZombie(d)
  BY <1>31 DEF TypeOK, RestoreSend
<1>32. ASSUME NEW r \in Restorers, NEW c \in Conns, RestoreSendFails(r, c)
      PROVE  LeavesZombie(d)
  BY <1>32 DEF TypeOK, RestoreSendFails, Fault
<1>33. ASSUME NEW r \in Restorers, NEW c \in Conns, RestoreCheck(r, c)
      PROVE  LeavesZombie(d)
  BY <1>33 DEF TypeOK, IInv, WorkKnown, RestoreCheck
<1>34. ASSUME NEW r \in Restorers, NEW c \in Conns, RestoreDb(r, c)
      PROVE  LeavesZombie(d)
  BY <1>34 DEF TypeOK, RestoreDb, SetLive
<1>35. ASSUME NEW r \in Restorers, NEW c \in Conns, RestoreDbFails(r, c)
      PROVE  LeavesZombie(d)
  <2>1. d = c
    BY <1>35 DEF TypeOK, RestoreDbFails
  <2>. QED
    BY <1>35, <2>1, Zenon DEF LeavesZombie
<1>36. ASSUME NEW r \in Restorers, NEW c \in Conns, RestoreMem(r, c)
      PROVE  LeavesZombie(d)
  BY <1>36 DEF TypeOK, RestoreMem, SetLive
<1>37. ASSUME SyncReadConns PROVE LeavesZombie(d)
  BY <1>37, Zenon DEF TypeOK, SyncReadConns, NoSubs
<1>38. ASSUME SyncReadSubs PROVE LeavesZombie(d)
  BY <1>38, Zenon DEF TypeOK, SyncReadSubs
<1>39. ASSUME SyncInstall PROVE LeavesZombie(d)
  BY <1>39, Zenon DEF TypeOK, SyncInstall, NoSync, NoConns, NoSubs
<1>40. ASSUME SyncFails PROVE LeavesZombie(d)
  BY <1>40, Zenon DEF TypeOK, SyncFails, Fault, NoSync, NoConns, NoSubs
<1>41. ASSUME Restart PROVE LeavesZombie(d)
  BY <1>41, SMTT(30) DEF LeavesZombie
<1>42. CASE UNCHANGED vars
  BY <1>42, Zenon DEF vars
<1>. QED
  BY Zenon, <1>1, <1>2, <1>3, <1>4, <1>5, <1>6, <1>7, <1>8, <1>9, <1>10, <1>11, <1>12,
     <1>13, <1>14, <1>15, <1>16, <1>17, <1>18, <1>19, <1>20, <1>21, <1>22,
     <1>23, <1>24, <1>25, <1>26, <1>27, <1>28, <1>29, <1>30, <1>31, <1>32,
     <1>33, <1>34, <1>35, <1>36, <1>37, <1>38, <1>39, <1>40, <1>41, <1>42 DEF
     Next, Clock, AddSub, Create, DeleteConnection, ConnCleanerStep,
     SubCleanerStep, RestoreConnections, AddDaysCall, AddDaysStep,
     RestoreTaskStep, SyncStep, Deleters, Restorers

\* Deletes and restores that overlap never end, by themselves, with the nodes
\* serving a connection whose row is deleted: it takes a failed send, a failed
\* UPDATE after the message, a crash, or a late Create.
THEOREM ZombieOrigins == Spec => ZombieOrigin
BY Invariant, ZombieStep, PTL DEF Spec, ZombieOrigin
=============================================================================
