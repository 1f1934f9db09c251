------------------------- MODULE AuthServiceProofs --------------------------
(* Proofs about the auth service, for any connections, any number of        *)
(* operations at a time and any length of the socket's queue.               *)
EXTENDS AuthService, FiniteSetTheorems, TLAPS

-----------------------------------------------------------------------------
(* What messages do to WillAccept.                                         *)

\* A message about others, or none, changes nothing; one about c decides.
LEMMA Appended ==
  ASSUME queue \in Seq(Batch), NEW b \in Batch, queue' = Append(queue, b), mem' = mem,
         NEW c \in Conns
  PROVE  /\ c \notin b.conns => /\ OnlyAdds(1, c)' <=> OnlyAdds(1, c)
                                /\ WillAccept(c)' <=> WillAccept(c)
         /\ c \in b.conns /\ b.act = "add" => /\ WillAccept(c)'
                                              /\ OnlyAdds(1, c) => OnlyAdds(1, c)'
         /\ c \in b.conns /\ b.act = "del" => ~WillAccept(c)'
<1>0. /\ Len(queue) \in Nat /\ Len(queue') = Len(queue) + 1
      /\ queue'[Len(queue) + 1] = b
      /\ \A i \in 1..Len(queue) : queue'[i] = queue[i]
  OBVIOUS
<1>1. ASSUME c \notin b.conns
      PROVE  /\ \A i \in 1..Len(queue) + 1 : OnlyAdds(i, c)' <=> OnlyAdds(i, c)
             /\ OnlyAdds(1, c)' <=> OnlyAdds(1, c)
  BY <1>0, <1>1 DEF OnlyAdds
<1>2. ASSUME c \notin b.conns
      PROVE  WillAccept(c)' <=> WillAccept(c)
  BY <1>0, <1>1, <1>2 DEF WillAccept
<1>3. ASSUME c \in b.conns, b.act = "add"
      PROVE  /\ WillAccept(c)'
             /\ OnlyAdds(1, c) => OnlyAdds(1, c)'
  <2>1. OnlyAdds(Len(queue) + 1, c)'
    BY <1>0, <1>3 DEF OnlyAdds
  <2>. QED
    BY <1>0, <1>3, <2>1 DEF WillAccept, OnlyAdds
<1>4. ASSUME c \in b.conns, b.act = "del"
      PROVE  ~WillAccept(c)'
  <2>1. \A i \in 1..Len(queue'): ~OnlyAdds(i, c)'
    BY <1>0, <1>4 DEF OnlyAdds
  <2>2. ~OnlyAdds(1, c)'
    BY <1>0, <2>1
  <2>. QED
    BY <2>1, <2>2, Zenon DEF WillAccept
<1>. QED
  BY <1>1, <1>2, <1>3, <1>4, Zenon

\* handle_messages_batch does to the memory what the message promised.
LEMMA Received ==
  ASSUME TypeOK, Receive, NEW c \in Conns
  PROVE  /\ WillAccept(c)' <=> WillAccept(c)
         /\ OnlyAdds(1, c) => OnlyAdds(1, c)'
<1>0. /\ Len(queue) \in Nat /\ Len(queue) > 0 /\ Len(queue') = Len(queue) - 1
      /\ \A i \in 1..Len(queue') : queue'[i] = queue[i + 1]
      /\ queue[1] \in Batch
      /\ mem' = IF queue[1].act = "add" THEN mem \cup queue[1].conns ELSE mem \ queue[1].conns
  <2>1. queue \in Seq(Batch) /\ queue # <<>> /\ queue' = Tail(queue)
    BY Zenon DEF TypeOK, Receive
  <2>2. Len(queue) \in Nat /\ Len(queue) > 0 /\ Head(queue) = queue[1] /\ queue[1] \in Batch
    BY <2>1
  <2>3. Len(queue') = Len(queue) - 1 /\ \A i \in 1..Len(queue') : queue'[i] = queue[i + 1]
    BY <2>1, <2>2
  <2>. QED
    BY <2>2, <2>3, Zenon DEF Receive
<1>1. \A i \in 1..Len(queue) : OnlyAdds(i, c)' <=> OnlyAdds(i + 1, c)
  <2> TAKE i \in 1..Len(queue)
  <2>1. OnlyAdds(i + 1, c) => OnlyAdds(i, c)'
    BY <1>0 DEF OnlyAdds
  <2>2. ASSUME OnlyAdds(i, c)', NEW j \in (i + 1)..Len(queue), c \in queue[j].conns
        PROVE  queue[j].act = "add"
    <3>1. j - 1 \in i..Len(queue') /\ queue'[j - 1] = queue[j]
      BY <1>0
    <3>. QED
      BY <2>2, <3>1, Zenon DEF OnlyAdds
  <2>. QED
    BY <2>1, <2>2, Zenon DEF OnlyAdds
<1>2. OnlyAdds(1, c) <=> (c \in queue[1].conns => queue[1].act = "add") /\ OnlyAdds(2, c)
  BY <1>0 DEF OnlyAdds
<1>3. OnlyAdds(1, c)' <=> OnlyAdds(2, c)
  BY <1>0, <1>1
<1>4. WillAccept(c) => WillAccept(c)'
  <2>1. CASE OnlyAdds(1, c) /\ (c \in mem \/ c \in queue[1].conns)
    BY <1>0, <1>2, <1>3, <2>1, Zenon DEF WillAccept
  <2>2. ASSUME NEW i \in 2..Len(queue), c \in queue[i].conns, OnlyAdds(i, c)
        PROVE  WillAccept(c)'
    <3>1. i - 1 \in 1..Len(queue') /\ queue'[i - 1] = queue[i] /\ OnlyAdds(i - 1, c)'
      BY <1>0, <1>1, <2>2
    <3>. QED
      BY <2>2, <3>1, Zenon DEF WillAccept
  <2>. QED
    BY <1>0, <2>1, <2>2 DEF WillAccept
<1>5. WillAccept(c)' => WillAccept(c)
  <2>1. CASE c \in mem' /\ OnlyAdds(1, c)'
    BY <1>0, <1>2, <1>3, <2>1 DEF WillAccept, Batch
  <2>2. ASSUME NEW i \in 1..Len(queue'), c \in queue'[i].conns, OnlyAdds(i, c)'
        PROVE  WillAccept(c)
    <3>1. i + 1 \in 1..Len(queue) /\ queue'[i] = queue[i + 1] /\ OnlyAdds(i + 1, c)
      BY <1>0, <1>1, <2>2
    <3>. QED
      BY <2>2, <3>1, Zenon DEF WillAccept
  <2>. QED
    BY <2>1, <2>2, Zenon DEF WillAccept
<1>. QED
  BY <1>2, <1>3, <1>4, <1>5, Zenon

\* PUB: a message arrives or is dropped.
LEMMA Published ==
  ASSUME TypeOK, NEW act \in {"add", "del"}, NEW cs \in SUBSET Conns, Publish(act, cs),
         mem' = mem
  PROVE  /\ queue' \in Seq(Batch) /\ Len(queue') <= MaxQueue
         /\ phase = "down" => queue' = <<>>
         /\ \A c \in Conns \ cs : WillAccept(c)' <=> WillAccept(c)
         /\ queue' = queue => \A c \in Conns : WillAccept(c)' <=> WillAccept(c)
         /\ queue' # queue => \A c \in cs : WillAccept(c)' <=> act = "add"
<1>0. queue \in Seq(Batch) /\ Len(queue) \in Nat /\ MaxQueue \in Nat /\ Len(queue) <= MaxQueue
  BY AuthAssumption DEF TypeOK
<1>1. CASE queue' = queue
  <2>1. \A c \in Conns : WillAccept(c)' <=> WillAccept(c)
    BY <1>1, Zenon DEF WillAccept, OnlyAdds
  <2>. QED
    BY <1>0, <1>1, <2>1, Zenon DEF TypeOK
<1>2. CASE queue' # queue
  <2>1. PICK b \in Batch : b.act = act /\ b.conns = cs /\ queue' = Append(queue, b)
    <3>1. [act |-> act, conns |-> cs] \in Batch
      BY Zenon DEF Batch
    <3>. QED
      BY <1>2, <3>1, Zenon DEF Publish
  <2>2. queue' \in Seq(Batch) /\ Len(queue') <= MaxQueue /\ phase # "down"
    BY <1>0, <1>2, <2>1 DEF Publish
  <2>3. \A c \in Conns :
          /\ c \notin b.conns => (WillAccept(c)' <=> WillAccept(c))
          /\ c \in b.conns /\ b.act = "add" => WillAccept(c)'
          /\ c \in b.conns /\ b.act = "del" => ~WillAccept(c)'
    BY <1>0, <2>1, Appended, Zenon
  <2>. QED
    BY <1>2, <2>1, <2>2, <2>3, Zenon
<1>. QED
  BY <1>1, <1>2, Zenon

\* Whatever leaves socket and memory alone leaves WillAccept alone.
LEMMA Unheard ==
  ASSUME queue' = queue, mem' = mem, NEW c
  PROVE  WillAccept(c)' <=> WillAccept(c)
BY Zenon DEF WillAccept, OnlyAdds

-----------------------------------------------------------------------------
(* The steps of the API, by what they touch.                               *)

\* The steps that neither publish nor reach the service.
Silent ==
  \/ \E c \in Conns : CreateRow(c) \/ CreateCache(c)
  \/ \E w \in Workers, c \in Conns :
       \/ DeleteCheck(w, c) \/ DeleteRow(w, c) \/ DeleteCache(w, c) \/ DeleteFails(w, c)
       \/ RestoreSelect(w, c) \/ RestoreRow(w, c) \/ RestoreCache(w, c) \/ RestoreFails(w, c)
  \/ SyncRead \/ SyncInstall \/ SyncFails \/ Restart

\* The steps that publish about c.
Sends(c) == CreateSend(c) \/ \E w \in Workers : DeleteSend(w, c) \/ RestoreSend(w, c)

\* They are all of the API.
LEMMA ApiSplit ==
  Next => \/ Silent \/ (\E c \in Conns : Sends(c))
          \/ Start \/ StartFresh \/ Resync \/ ResyncFails \/ Receive \/ TakeSnapshot \/ Crash
BY Zenon DEF Next, Create, Delete, Restore, Silent, Sends

\* What a silent step leaves alone.
LEMMA SilentFrame == Silent => UNCHANGED <<queue, mem, snap, phase>>
BY Zenon DEF Silent, CreateRow, CreateCache, DeleteCheck, DeleteRow, DeleteCache, DeleteFails,
             RestoreSelect, RestoreRow, RestoreCache, RestoreFails, SyncRead, SyncInstall,
             SyncFails, Restart, service

\* What a step that publishes leaves alone.
LEMMA SendFrame ==
  ASSUME NEW c, Sends(c)
  PROVE  UNCHANGED <<live, known, cache, sync, since, bootSince, mem, snap, phase>>
BY Zenon DEF Sends, CreateSend, DeleteSend, RestoreSend, store, ages, service

\* A step of one operation is a step of no other.
LEMMA JobMoved ==
  ASSUME TypeOK, NEW w \in Workers, NEW c \in Conns, NEW from, NEW to \in JobStage,
         JobGoes(w, c, from, to)
  PROVE  /\ job' \in [Workers -> [Conns -> JobStage]]
         /\ job[w][c] = from /\ job'[w][c] = to
         /\ \A v \in Workers, d \in Conns : <<v, d>> # <<w, c>> => job'[v][d] = job[v][d]
BY Zenon DEF TypeOK, JobGoes

\* set_modified_at makes nothing older.
LEMMA Touched ==
  ASSUME TypeOK, NEW c \in Conns, Touch(c)
  PROVE  /\ since' \in [Conns -> Age] /\ bootSince' \in [Conns -> Age]
         /\ bootSince'[c] # "old" /\ \A d \in Conns \ {c} : bootSince'[d] = bootSince[d]
BY Zenon DEF TypeOK, Touch, Age

\* A reload keeps the times but those that were modified.
LEMMA Loaded ==
  ASSUME TypeOK, NEW ks \in SUBSET Conns, NEW ls \in SUBSET Conns, Load(ks, ls)
  PROVE  /\ known' = ks /\ cache' = ls
         /\ since' \in [Conns -> Age] /\ bootSince' \in [Conns -> Age]
         /\ \A c \in Conns : bootSince[c] # "modified" => bootSince'[c] = bootSince[c]
BY Zenon DEF TypeOK, Load, Age

-----------------------------------------------------------------------------
(* Types.                                                                  *)

\* The silent steps keep the types.
LEMMA SilentTypes ==
  ASSUME TypeOK, Silent
  PROVE  TypeOK'
<1>0. /\ UNCHANGED <<queue, mem, snap, phase>>
      /\ Rows \subseteq Conns
      /\ sync.known \subseteq Conns /\ sync.live \subseteq Conns /\ sync.busy \in BOOLEAN
  BY SilentFrame, Zenon DEF Rows, TypeOK
<1>s. /\ {"idle", "delRow", "delSend", "delCache", "resSend", "resRow", "resCache"} = JobStage
      /\ "cache" \in NewStage /\ "send" \in NewStage /\ "row" \in NewStage /\ "done" \in NewStage
  BY Zenon DEF JobStage, NewStage
<1>1. ASSUME live' \subseteq Conns, known' \subseteq Conns, cache' \subseteq Conns,
             new' \in [Conns -> NewStage], job' \in [Workers -> [Conns -> JobStage]],
             sync' \in [busy : BOOLEAN, known : SUBSET Conns, live : SUBSET Conns],
             since' \in [Conns -> Age], bootSince' \in [Conns -> Age]
      PROVE  TypeOK'
  BY <1>0, <1>1, Zenon DEF TypeOK
<1>2. ASSUME NEW c \in Conns, CreateRow(c) \/ CreateCache(c)
      PROVE  TypeOK'
  <2>1. new' \in [Conns -> NewStage] /\ UNCHANGED <<job, sync, since, bootSince>>
    BY <1>2, <1>s DEF CreateRow, CreateCache, TypeOK, ages
  <2>2. live' \subseteq Conns /\ known' \subseteq Conns /\ cache' \subseteq Conns
    BY <1>2, Zenon DEF CreateRow, CreateCache, TypeOK
  <2>. QED
    BY <1>1, <2>1, <2>2, Zenon DEF TypeOK
<1>3. ASSUME NEW w \in Workers, NEW c \in Conns,
             \/ DeleteCheck(w, c) \/ DeleteRow(w, c) \/ DeleteFails(w, c)
             \/ RestoreSelect(w, c) \/ RestoreRow(w, c) \/ RestoreFails(w, c)
      PROVE  TypeOK'
  <2>1. PICK from \in JobStage, to \in JobStage : JobGoes(w, c, from, to)
    BY <1>3, <1>s, Zenon
    DEF DeleteCheck, DeleteRow, DeleteFails, RestoreSelect, RestoreRow, RestoreFails
  <2>2. job' \in [Workers -> [Conns -> JobStage]]
    BY <2>1, JobMoved, Zenon
  <2>3. /\ live' \subseteq Conns
        /\ UNCHANGED <<known, cache, new, sync, since, bootSince>>
    BY <1>3, Zenon DEF DeleteCheck, DeleteRow, DeleteFails, RestoreSelect, RestoreRow, RestoreFails,
                       store, ages, TypeOK
  <2>. QED
    BY <1>1, <2>2, <2>3, Zenon DEF TypeOK
<1>4. ASSUME NEW w \in Workers, NEW c \in Conns, DeleteCache(w, c) \/ RestoreCache(w, c)
      PROVE  TypeOK'
  <2>1. PICK from \in JobStage, to \in JobStage : JobGoes(w, c, from, to)
    BY <1>4, <1>s, Zenon DEF DeleteCache, RestoreCache
  <2>2. job' \in [Workers -> [Conns -> JobStage]]
    BY <2>1, JobMoved, Zenon
  <2>3. since' \in [Conns -> Age] /\ bootSince' \in [Conns -> Age]
    BY <1>4, Touched, Zenon DEF DeleteCache, RestoreCache
  <2>4. cache' \subseteq Conns /\ UNCHANGED <<live, known, new, sync>>
    BY <1>4, Zenon DEF DeleteCache, RestoreCache, TypeOK
  <2>. QED
    BY <1>1, <2>2, <2>3, <2>4, Zenon DEF TypeOK
<1>5. CASE SyncRead \/ SyncFails
  <2>1. sync' \in [busy : BOOLEAN, known : SUBSET Conns, live : SUBSET Conns]
    <3>1. live \subseteq Conns
      BY Zenon DEF TypeOK
    <3>2. CASE SyncRead
      BY <1>0, <3>1, <3>2, Zenon DEF SyncRead
    <3>3. CASE SyncFails
      BY <3>3, Zenon DEF SyncFails, NoSync
    <3>. QED
      BY <1>5, <3>2, <3>3, Zenon
  <2>2. UNCHANGED <<live, known, cache, new, job, since, bootSince>>
    BY <1>5, Zenon DEF SyncRead, SyncFails, store, ages
  <2>. QED
    BY <1>1, <2>1, <2>2, Zenon DEF TypeOK
<1>6. CASE SyncInstall
  <2>1. /\ known' \subseteq Conns /\ cache' \subseteq Conns
        /\ since' \in [Conns -> Age] /\ bootSince' \in [Conns -> Age]
    BY <1>0, <1>6, Loaded, Zenon DEF SyncInstall
  <2>2. sync' \in [busy : BOOLEAN, known : SUBSET Conns, live : SUBSET Conns]
    BY <1>6, Zenon DEF SyncInstall, NoSync
  <2>3. UNCHANGED <<live, new, job>>
    BY <1>6, Zenon DEF SyncInstall
  <2>. QED
    BY <1>1, <2>1, <2>2, <2>3, Zenon DEF TypeOK
<1>7. CASE Restart
  <2>1. /\ known' \subseteq Conns /\ cache' \subseteq Conns
        /\ since' \in [Conns -> Age] /\ bootSince' \in [Conns -> Age]
    <3>1. live \in SUBSET Conns
      BY Zenon DEF TypeOK
    <3>. QED
      BY <1>0, <1>7, <3>1, Loaded, Zenon DEF Restart
  <2>2. sync' \in [busy : BOOLEAN, known : SUBSET Conns, live : SUBSET Conns]
    BY <1>7, Zenon DEF Restart, NoSync
  <2>3. new' \in [Conns -> NewStage] /\ job' \in [Workers -> [Conns -> JobStage]]
    BY <1>7, <1>s, Zenon DEF Restart, NoJobs
  <2>4. UNCHANGED live
    BY <1>7, Zenon DEF Restart
  <2>. QED
    BY <1>1, <2>1, <2>2, <2>3, <2>4, Zenon DEF TypeOK
<1>. QED
  BY <1>2, <1>3, <1>4, <1>5, <1>6, <1>7, Zenon DEF Silent

\* The steps that publish keep the types.
LEMMA SendTypes ==
  ASSUME TypeOK, NEW c \in Conns, Sends(c)
  PROVE  TypeOK' /\ \E act \in {"add", "del"} : Publish(act, {c})
<1>1. UNCHANGED <<live, known, cache, sync, since, bootSince, mem, snap, phase>>
  BY SendFrame, Zenon
<1>2. PICK act \in {"add", "del"} : Publish(act, {c})
  BY Zenon DEF Sends, CreateSend, DeleteSend, RestoreSend
<1>3. /\ queue' \in Seq(Batch) /\ Len(queue') <= MaxQueue
      /\ phase = "down" => queue' = <<>>
  BY <1>1, <1>2, Published, Zenon
<1>4. new' \in [Conns -> NewStage] /\ job' \in [Workers -> [Conns -> JobStage]]
  <2>1. CASE CreateSend(c)
    BY <2>1, Zenon DEF CreateSend, TypeOK, NewStage
  <2>2. ASSUME NEW w \in Workers, DeleteSend(w, c) \/ RestoreSend(w, c)
        PROVE  new' = new /\ job' \in [Workers -> [Conns -> JobStage]]
    <3>1. PICK from \in JobStage, to \in JobStage : JobGoes(w, c, from, to)
      BY <2>2, Zenon DEF DeleteSend, RestoreSend, JobStage
    <3>. QED
      BY <2>2, <3>1, JobMoved, Zenon DEF DeleteSend, RestoreSend
  <2>. QED
    BY <2>1, <2>2, Zenon DEF Sends, TypeOK
<1>5. TypeOK'
  BY <1>1, <1>3, <1>4, Zenon DEF TypeOK
<1>. QED
  BY <1>2, <1>5, Zenon

\* The steps of the service keep the types.
LEMMA ServiceTypes ==
  ASSUME TypeOK,
         Start \/ StartFresh \/ Resync \/ ResyncFails \/ Receive \/ TakeSnapshot \/ Crash
  PROVE  TypeOK'
<1>0. UNCHANGED <<live, known, cache, new, job, sync>>
  BY Zenon DEF Start, StartFresh, Resync, ResyncFails, Receive, TakeSnapshot, Crash, api, store
<1>1. since' \in [Conns -> Age] /\ bootSince' \in [Conns -> Age]
  BY Zenon DEF Start, StartFresh, Resync, ResyncFails, Receive, TakeSnapshot, Crash, api, ages,
               NoAges, Age, TypeOK
<1>2. ASSUME queue' \in Seq(Batch), Len(queue') <= MaxQueue, mem' \subseteq Conns,
             snap' \subseteq Conns, phase' \in {"down", "listen", "ready"},
             phase' = "down" => queue' = <<>> /\ mem' = {}
      PROVE  TypeOK'
  BY <1>0, <1>1, <1>2, Zenon DEF TypeOK
<1>3. CASE Start \/ StartFresh
  <2>1. UNCHANGED <<queue, snap>> /\ mem' \subseteq Conns /\ phase' = "listen"
    BY <1>3, Zenon DEF Start, StartFresh, TypeOK
  <2>. QED
    BY <1>2, <2>1, Zenon DEF TypeOK
<1>4. CASE Resync \/ ResyncFails
  <2>1. PublishResync /\ UNCHANGED <<mem, snap>> /\ phase = "listen" /\ phase' \in {"listen", "ready"}
    BY <1>4, Zenon DEF Resync, ResyncFails, service
  <2>2. ResyncBatch \subseteq Conns
    BY Zenon DEF ResyncBatch, TypeOK
  <2>3. queue' = queue \/ Publish("add", ResyncBatch)
    BY <2>1, Zenon DEF PublishResync
  <2>4. queue' \in Seq(Batch) /\ Len(queue') <= MaxQueue
    BY <2>1, <2>2, <2>3, Published, Zenon DEF TypeOK
  <2>. QED
    BY <1>2, <2>1, <2>4, Zenon DEF TypeOK
<1>5. CASE Receive
  <2>1. queue \in Seq(Batch) /\ queue # <<>> /\ queue' = Tail(queue) /\ Head(queue) \in Batch
    BY <1>5 DEF TypeOK, Receive
  <2>2. queue' \in Seq(Batch) /\ Len(queue') <= MaxQueue
    BY <2>1, AuthAssumption DEF TypeOK
  <2>3. mem' \subseteq Conns
    BY <1>5, <2>1, Zenon DEF TypeOK, Receive, Batch
  <2>4. UNCHANGED <<snap, phase>> /\ phase # "down"
    BY <1>5, Zenon DEF Receive
  <2>. QED
    BY <1>2, <2>2, <2>3, <2>4, Zenon DEF TypeOK
<1>6. CASE TakeSnapshot
  <2>1. UNCHANGED <<queue, mem, phase>> /\ snap' = mem
    BY <1>6, Zenon DEF TakeSnapshot
  <2>. QED
    BY <1>2, <2>1, Zenon DEF TypeOK
<1>7. CASE Crash
  <2>1. queue' = <<>> /\ mem' = {} /\ UNCHANGED snap /\ phase' = "down"
    BY <1>7, Zenon DEF Crash
  <2>2. <<>> \in Seq(Batch) /\ Len(<<>>) <= MaxQueue
    BY AuthAssumption
  <2>. QED
    BY <1>2, <2>1, <2>2, Zenon DEF TypeOK
<1>. QED
  BY <1>3, <1>4, <1>5, <1>6, <1>7, Zenon

\* One step of Next, or a stuttering step.
LEMMA TypeStep ==
  ASSUME TypeOK, [Next]_vars
  PROVE  TypeOK'
<1>1. CASE UNCHANGED vars
  BY <1>1, Zenon DEF vars, api, store, ages, service, TypeOK
<1>2. CASE Next
  BY <1>2, ApiSplit, SilentTypes, SendTypes, ServiceTypes, Zenon
<1>. QED
  BY <1>1, <1>2, Zenon

\* The state of service and API is well formed, and a stopped service holds nothing.
THEOREM TypeCorrect == Spec => []TypeOK
<1>1. Init => TypeOK
  <2> SUFFICES ASSUME Init PROVE TypeOK
    BY Zenon
  <2>1. /\ new \in [Conns -> NewStage] /\ job \in [Workers -> [Conns -> JobStage]]
        /\ sync \in [busy : BOOLEAN, known : SUBSET Conns, live : SUBSET Conns]
        /\ since \in [Conns -> Age] /\ bootSince \in [Conns -> Age]
    BY Zenon DEF Init, NoJobs, NoSync, NoAges, NewStage, JobStage, Age
  <2>2. queue \in Seq(Batch) /\ Len(queue) <= MaxQueue
    BY AuthAssumption DEF Init
  <2>. QED
    BY <2>1, <2>2, Zenon DEF Init, TypeOK
<1>. QED
  BY <1>1, TypeStep, PTL DEF Spec

-----------------------------------------------------------------------------
(* Live connections that nothing announces.                                *)

\* A step after which c is live, or about to be, only if it was, and which takes none
\* of the ways to c's acceptance away, does not leave c missed.
LEMMA NotMissed ==
  ASSUME NEW c, phase' = phase, Wanted(c)' => Wanted(c), WillAccept(c) => WillAccept(c)',
         ResyncDue(c) => ResyncDue(c)', Creating(c) => Creating(c)', Missed(c)'
  PROVE  Missed(c)
BY Zenon DEF Missed

\* A job that does not come to the row of a restore makes nothing wanted.
LEMMA WantedBefore ==
  ASSUME TypeOK, NEW w \in Workers, NEW d \in Conns, NEW from, NEW to \in JobStage \ {"resRow"},
         JobGoes(w, d, from, to), NEW c \in Conns, c \in live' => Wanted(c)
  PROVE  Wanted(c)' => Wanted(c)
<1> SUFFICES ASSUME Wanted(c)', c \notin live' PROVE Wanted(c)
  BY Zenon
<1>1. PICK v \in Workers : job'[v][c] = "resRow"
  BY Zenon DEF Wanted
<1>2. job[v][c] = "resRow"
  BY <1>1, JobMoved
<1>. QED
  BY <1>2, Zenon DEF Wanted

\* The silent steps.
LEMMA SilentMissed ==
  ASSUME TypeOK, Silent, NEW c \in Conns, ~LeavesMissed(c), Missed(c)'
  PROVE  Missed(c)
<1>0. /\ UNCHANGED <<queue, mem, phase>>
      /\ WillAccept(c)' <=> WillAccept(c)
  BY SilentFrame, Unheard, Zenon
<1>1. ASSUME NEW d \in Conns, CreateRow(d)
      PROVE  Missed(c)
  <2>1. /\ new'[d] = "cache" /\ new[d] = "row" /\ live' = live \cup {d}
        /\ \A e \in Conns \ {d} : new'[e] = new[e]
        /\ UNCHANGED <<cache, job, bootSince>>
    BY <1>1, Zenon DEF CreateRow, TypeOK, ages
  <2>2. CASE d = c
    BY <2>1, <2>2, Zenon DEF Missed, Creating
  <2>3. CASE d # c
    BY <1>0, <2>1, <2>3, NotMissed, Zenon DEF Wanted, Creating, ResyncDue
  <2>. QED
    BY <2>2, <2>3, Zenon
<1>2. ASSUME NEW d \in Conns, CreateCache(d)
      PROVE  Missed(c)
  <2>1. /\ new'[d] = "send" /\ new[d] = "cache" /\ cache \subseteq cache'
        /\ \A e \in Conns \ {d} : new'[e] = new[e]
        /\ UNCHANGED <<live, job, bootSince>>
    BY <1>2, Zenon DEF CreateCache, TypeOK, ages
  <2>2. Creating(c) => Creating(c)'
    BY <2>1, Zenon DEF Creating
  <2>. QED
    BY <1>0, <2>1, <2>2, NotMissed, Zenon DEF Wanted, ResyncDue
<1>3. ASSUME NEW w \in Workers, NEW d \in Conns,
             \/ DeleteCheck(w, d) \/ DeleteRow(w, d) \/ DeleteFails(w, d)
             \/ RestoreSelect(w, d) \/ RestoreFails(w, d)
      PROVE  Missed(c)
  <2>1. live' \subseteq live /\ UNCHANGED <<cache, new, bootSince>>
    BY <1>3, Zenon DEF DeleteCheck, DeleteRow, DeleteFails, RestoreSelect, RestoreFails, store, ages
  <2>2. PICK from \in JobStage, to \in JobStage \ {"resRow"} : JobGoes(w, d, from, to)
    BY <1>3, Zenon DEF DeleteCheck, DeleteRow, DeleteFails, RestoreSelect, RestoreFails, JobStage
  <2>3. Wanted(c)' => Wanted(c)
    BY <2>1, <2>2, WantedBefore, Zenon DEF Wanted
  <2>. QED
    BY <1>0, <2>1, <2>3, NotMissed, Zenon DEF ResyncDue, Creating
<1>4. ASSUME NEW w \in Workers, NEW d \in Conns, RestoreRow(w, d)
      PROVE  Missed(c)
  <2>1. JobGoes(w, d, "resRow", "resCache") /\ live' = live \cup {d}
        /\ UNCHANGED <<cache, new, bootSince>>
    BY <1>4, Zenon DEF RestoreRow, ages
  <2>2. job[w][d] = "resRow" /\ "resCache" \in JobStage \ {"resRow"}
    BY <2>1, Zenon DEF JobGoes, JobStage
  <2>3. c \in live' => Wanted(c)
    BY <2>1, <2>2, Zenon DEF Wanted
  <2>4. Wanted(c)' => Wanted(c)
    BY <2>1, <2>2, <2>3, WantedBefore, Zenon
  <2>. QED
    BY <1>0, <2>1, <2>4, NotMissed, Zenon DEF ResyncDue, Creating
<1>5. ASSUME NEW w \in Workers, NEW d \in Conns, DeleteCache(w, d) \/ RestoreCache(w, d)
      PROVE  Missed(c)
  <2>1. UNCHANGED <<live, new>>
    BY <1>5, Zenon DEF DeleteCache, RestoreCache
  <2>2. PICK from \in JobStage, to \in JobStage \ {"resRow"} : JobGoes(w, d, from, to)
    BY <1>5, Zenon DEF DeleteCache, RestoreCache, JobStage
  <2>3. Wanted(c)' => Wanted(c)
    BY <2>1, <2>2, WantedBefore, Zenon DEF Wanted
  <2>4. Touch(d) /\ (DeleteCache(w, d) => d # c)
    BY <1>5, Zenon DEF DeleteCache, RestoreCache, LeavesMissed
  <2>5. c \in cache => c \in cache'
    BY <1>5, <2>4, Zenon DEF DeleteCache, RestoreCache
  <2>6. bootSince[c] # "old" => bootSince'[c] # "old"
    BY <2>4, Touched, Zenon
  <2>. QED
    BY <1>0, <2>1, <2>3, <2>5, <2>6, NotMissed, Zenon DEF ResyncDue, Creating
<1>6. CASE SyncRead \/ SyncFails
  <2>1. UNCHANGED <<live, cache, new, job, bootSince>>
    BY <1>6, Zenon DEF SyncRead, SyncFails, store, ages
  <2>. QED
    BY <1>0, <2>1, NotMissed, Zenon DEF Wanted, ResyncDue, Creating
<1>7. CASE SyncInstall
  <2>1. c \in sync.live /\ bootSince[c] # "modified"
    BY <1>7, Zenon DEF LeavesMissed
  <2>2. sync.known \in SUBSET Conns /\ sync.live \in SUBSET Conns
    BY Zenon DEF TypeOK
  <2>3. c \in cache' /\ bootSince'[c] = bootSince[c]
    BY <1>7, <2>1, <2>2, Loaded, Zenon DEF SyncInstall
  <2>4. UNCHANGED <<live, new, job>>
    BY <1>7, Zenon DEF SyncInstall
  <2>. QED
    BY <1>0, <2>3, <2>4, NotMissed, Zenon DEF Wanted, ResyncDue, Creating
<1>8. CASE Restart
  <2>1. ~Creating(c) /\ bootSince[c] # "modified"
    BY <1>8, Zenon DEF LeavesMissed
  <2>2. Rows \in SUBSET Conns /\ live \in SUBSET Conns
    BY Zenon DEF TypeOK, Rows
  <2>3. cache' = live /\ bootSince'[c] = bootSince[c]
    BY <1>8, <2>1, <2>2, Loaded, Zenon DEF Restart
  <2>4. live' = live /\ \A w \in Workers : job'[w][c] = "idle"
    BY <1>8, Zenon DEF Restart, NoJobs
  <2>5. c \in live
    BY <2>4, Zenon DEF Missed, Wanted
  <2>6. Wanted(c) /\ (ResyncDue(c) => ResyncDue(c)')
    BY <1>0, <2>3, <2>5, Zenon DEF Wanted, ResyncDue
  <2>. QED
    BY <1>0, <2>1, <2>6, NotMissed, Zenon
<1>. QED
  BY <1>1, <1>2, <1>3, <1>4, <1>5, <1>6, <1>7, <1>8, Zenon DEF Silent

\* The steps that publish: about another connection, dropped, or about c.
LEMMA SendMissed ==
  ASSUME TypeOK, NEW d \in Conns, Sends(d), NEW c \in Conns, ~LeavesMissed(c), Missed(c)'
  PROVE  Missed(c)
<1>0. UNCHANGED <<live, cache, bootSince, mem, phase>>
  BY SendFrame, Zenon
<1>1. CASE CreateSend(d)
  <2>1. /\ Publish("add", {d}) /\ UNCHANGED job
        /\ \A e \in Conns \ {d} : new'[e] = new[e]
    BY <1>1, Zenon DEF CreateSend, TypeOK
  <2>2. /\ c # d => (WillAccept(c)' <=> WillAccept(c))
        /\ queue' # queue /\ c = d => WillAccept(c)'
    BY <1>0, <2>1, Published, Zenon
  <2>3. c = d => queue' # queue
    BY <1>1, Zenon DEF LeavesMissed
  <2>4. CASE c = d
    BY <2>2, <2>3, <2>4, Zenon DEF Missed
  <2>5. CASE c # d
    BY <1>0, <2>1, <2>2, <2>5, NotMissed, Zenon DEF Wanted, ResyncDue, Creating
  <2>. QED
    BY <2>4, <2>5, Zenon
<1>2. ASSUME NEW w \in Workers, DeleteSend(w, d)
      PROVE  Missed(c)
  <2>1. /\ Publish("del", {d}) /\ UNCHANGED new
        /\ JobGoes(w, d, "delSend", "delCache") /\ "delCache" \in JobStage \ {"resRow"}
    BY <1>2, Zenon DEF DeleteSend, JobStage
  <2>2. c # d
    BY <1>2, Zenon DEF LeavesMissed
  <2>3. WillAccept(c)' <=> WillAccept(c)
    BY <1>0, <2>1, <2>2, Published, Zenon
  <2>4. Wanted(c)' => Wanted(c)
    BY <1>0, <2>1, WantedBefore, Zenon DEF Wanted
  <2>. QED
    BY <1>0, <2>1, <2>3, <2>4, NotMissed, Zenon DEF ResyncDue, Creating
<1>3. ASSUME NEW w \in Workers, RestoreSend(w, d)
      PROVE  Missed(c)
  <2>1. /\ Publish("add", {d}) /\ UNCHANGED new
        /\ JobGoes(w, d, "resSend", "resRow") /\ "resRow" \in JobStage
    BY <1>3, Zenon DEF RestoreSend, JobStage
  <2>2. /\ c # d => (WillAccept(c)' <=> WillAccept(c))
        /\ queue' # queue /\ c = d => WillAccept(c)'
    BY <1>0, <2>1, Published, Zenon
  <2>3. c = d => queue' # queue
    BY <1>3, Zenon DEF LeavesMissed
  <2>4. CASE c = d
    BY <2>2, <2>3, <2>4, Zenon DEF Missed
  <2>5. CASE c # d
    <3>1. \A v \in Workers : job'[v][c] = job[v][c]
      BY <2>1, <2>5, JobMoved
    <3>. QED
      BY <1>0, <2>1, <2>2, <2>5, <3>1, NotMissed, Zenon DEF Wanted, ResyncDue, Creating
  <2>. QED
    BY <2>4, <2>5, Zenon
<1>. QED
  BY <1>1, <1>2, <1>3, Zenon DEF Sends

\* What get_connections_handler publishes.
LEMMA Resynced ==
  ASSUME TypeOK, PublishResync, mem' = mem, NEW c \in Conns
  PROVE  /\ WillAccept(c) => WillAccept(c)'
         /\ WillAccept(c)' => WillAccept(c) \/ c \in ResyncBatch
         /\ queue' # queue /\ c \in ResyncBatch => WillAccept(c)'
<1>1. CASE queue' = queue
  BY <1>1, Unheard, Zenon
<1>2. CASE queue' # queue
  <2>1. ResyncBatch \in SUBSET Conns /\ Publish("add", ResyncBatch)
    BY <1>2, Zenon DEF PublishResync, ResyncBatch, TypeOK
  <2>. QED
    BY <1>2, <2>1, Published, Zenon
<1>. QED
  BY <1>1, <1>2, Zenon

\* The steps of the service.
LEMMA ServiceMissed ==
  ASSUME TypeOK,
         Start \/ StartFresh \/ Resync \/ ResyncFails \/ Receive \/ TakeSnapshot \/ Crash,
         NEW c \in Conns, ~LeavesMissed(c), Missed(c)'
  PROVE  Missed(c)
<1>0. UNCHANGED <<live, cache, new, job>>
  BY Zenon DEF Start, StartFresh, Resync, ResyncFails, Receive, TakeSnapshot, Crash, api, store
<1>1. CASE Start
  <2>1. phase' = "listen" /\ bootSince' = since /\ since[c] # "old" /\ c \in cache
    BY <1>1, Zenon DEF Start, LeavesMissed
  <2>. QED
    BY <1>0, <2>1, Zenon DEF Missed, ResyncDue
<1>2. CASE StartFresh
  <2>1. phase' = "listen" /\ bootSince'[c] = "created" /\ c \in cache
    BY <1>2, Zenon DEF StartFresh, NoAges, LeavesMissed
  <2>. QED
    BY <1>0, <2>1, Zenon DEF Missed, ResyncDue
<1>3. CASE Resync
  <2>1. PublishResync /\ mem' = mem /\ queue' # queue /\ phase = "listen"
    BY <1>3, Zenon DEF Resync, LeavesMissed
  <2>2. ~WillAccept(c) /\ c \notin ResyncBatch
    BY <2>1, Resynced, Zenon DEF Missed
  <2>3. ~ResyncDue(c)
    BY <2>2, Zenon DEF ResyncDue, ResyncBatch
  <2>. QED
    BY <1>0, <2>1, <2>2, <2>3, Zenon DEF Missed, Wanted, Creating
<1>4. CASE ResyncFails
  <2>1. PublishResync /\ UNCHANGED <<mem, phase, bootSince>>
    BY <1>4, Zenon DEF ResyncFails, api, ages, service
  <2>2. WillAccept(c) => WillAccept(c)'
    BY <2>1, Resynced, Zenon
  <2>. QED
    BY <1>0, <2>1, <2>2, NotMissed, Zenon DEF Wanted, ResyncDue, Creating
<1>5. CASE Receive
  <2>1. (WillAccept(c)' <=> WillAccept(c)) /\ UNCHANGED <<phase, bootSince>>
    BY <1>5, Received, Zenon DEF Receive, api, ages
  <2>. QED
    BY <1>0, <2>1, NotMissed, Zenon DEF Wanted, ResyncDue, Creating
<1>6. CASE TakeSnapshot
  <2>1. UNCHANGED <<queue, mem, phase, bootSince>>
    BY <1>6, Zenon DEF TakeSnapshot
  <2>. QED
    BY <1>0, <2>1, Unheard, NotMissed, Zenon DEF Wanted, ResyncDue, Creating
<1>7. CASE Crash
  BY <1>7, Zenon DEF Crash, Missed
<1>. QED
  BY <1>1, <1>2, <1>3, <1>4, <1>5, <1>6, <1>7, Zenon

\* A live connection that the running service would come to accept stays so but for
\* the steps that LeavesMissed names: between the snapshot that run loads, the
\* subscription, get_connections and the operations of the API there is no other gap.
THEOREM NoOtherGap == Spec => MissedOrigin
<1>1. TypeOK /\ [Next]_vars
        => [\A c \in Conns : Missed(c)' /\ ~Missed(c) => LeavesMissed(c)]_vars
  <2> SUFFICES ASSUME TypeOK, Next, NEW c \in Conns, Missed(c)', ~Missed(c), ~LeavesMissed(c)
               PROVE  FALSE
    BY Zenon
  <2>. QED
    BY ApiSplit, SilentMissed, SendMissed, ServiceMissed, Zenon
<1>. QED
  BY <1>1, TypeCorrect, PTL DEF Spec, MissedOrigin

-----------------------------------------------------------------------------
(* Deleted connections.                                                    *)

\* The steps that LingersOrigin names.
Causes(c) ==
  \/ Start \/ Restart \/ CreateSend(c)
  \/ \E w \in Workers : \/ DeleteFails(w, c) \/ RestoreFails(w, c)
                        \/ DeleteSend(w, c) /\ queue' = queue
  \/ c \in cache \ live /\ (Resync \/ ResyncFails)

\* A step that leaves the row of c and its due messages alone.
LEMMA NotLingering ==
  ASSUME NEW c, c \in live => c \in live', MessageDue(c) => MessageDue(c)',
         WillAccept(c)' => WillAccept(c), Lingers(c)'
  PROVE  Lingers(c)
BY Zenon DEF Lingers

\* A job that is not past a message of c leaves what is due about c.
LEMMA DueBefore ==
  ASSUME TypeOK, NEW w \in Workers, NEW d \in Conns, NEW from, NEW to \in JobStage,
         JobGoes(w, d, from, to), NEW c \in Conns,
         d # c \/ from \notin {"delSend", "resRow"}
  PROVE  MessageDue(c) => MessageDue(c)'
<1> SUFFICES ASSUME MessageDue(c) PROVE MessageDue(c)'
  BY Zenon
<1>1. PICK v \in Workers : job[v][c] \in {"delSend", "resRow"}
  BY Zenon DEF MessageDue
<1>2. job'[v][c] = job[v][c]
  BY <1>1, JobMoved
<1>. QED
  BY <1>1, <1>2, Zenon DEF MessageDue

\* The silent steps.
LEMMA SilentLingers ==
  ASSUME TypeOK, Silent, NEW c \in Conns, ~Causes(c), Lingers(c)'
  PROVE  Lingers(c)
<1>0. WillAccept(c)' <=> WillAccept(c)
  BY SilentFrame, Unheard, Zenon
<1>1. ASSUME live \subseteq live', job' = job
      PROVE  Lingers(c)
  BY <1>0, <1>1, NotLingering, Zenon DEF MessageDue
<1>2. ASSUME NEW d \in Conns, CreateRow(d) \/ CreateCache(d)
      PROVE  Lingers(c)
  BY <1>1, <1>2, Zenon DEF CreateRow, CreateCache
<1>3. CASE SyncRead \/ SyncInstall \/ SyncFails
  BY <1>1, <1>3, Zenon DEF SyncRead, SyncInstall, SyncFails, store
<1>4. ~Restart
  BY Zenon DEF Causes
<1>5. ASSUME NEW w \in Workers, NEW d \in Conns, DeleteRow(w, d)
      PROVE  Lingers(c)
  <2>1. JobGoes(w, d, "delRow", "delSend") /\ live' = live \ {d} /\ "delSend" \in JobStage
    BY <1>5, Zenon DEF DeleteRow, JobStage
  <2>2. job'[w][d] = "delSend"
    BY <2>1, JobMoved
  <2>3. CASE d = c
    BY <2>2, <2>3, Zenon DEF Lingers, MessageDue
  <2>4. CASE d # c
    BY <1>0, <2>1, <2>4, DueBefore, NotLingering, Zenon
  <2>. QED
    BY <2>3, <2>4, Zenon
<1>6. ASSUME NEW w \in Workers, NEW d \in Conns, RestoreRow(w, d)
      PROVE  Lingers(c)
  <2>1. JobGoes(w, d, "resRow", "resCache") /\ live' = live \cup {d} /\ "resCache" \in JobStage
    BY <1>6, Zenon DEF RestoreRow, JobStage
  <2>2. CASE d = c
    BY <2>1, <2>2, Zenon DEF Lingers
  <2>3. CASE d # c
    BY <1>0, <2>1, <2>3, DueBefore, NotLingering, Zenon
  <2>. QED
    BY <2>2, <2>3, Zenon
<1>7. ASSUME NEW w \in Workers, NEW d \in Conns,
             \/ DeleteCheck(w, d) \/ DeleteCache(w, d)
             \/ RestoreSelect(w, d) \/ RestoreCache(w, d)
      PROVE  Lingers(c)
  <2>1. live' = live
    BY <1>7, Zenon DEF DeleteCheck, DeleteCache, RestoreSelect, RestoreCache, store
  <2>2. PICK from \in JobStage \ {"delSend", "resRow"}, to \in JobStage : JobGoes(w, d, from, to)
    BY <1>7, Zenon DEF DeleteCheck, DeleteCache, RestoreSelect, RestoreCache, JobStage
  <2>. QED
    BY <1>0, <2>1, <2>2, DueBefore, NotLingering, Zenon
<1>8. ASSUME NEW w \in Workers, NEW d \in Conns, DeleteFails(w, d) \/ RestoreFails(w, d)
      PROVE  Lingers(c)
  <2>1. live' = live /\ d # c
    BY <1>8, Zenon DEF DeleteFails, RestoreFails, store, Causes
  <2>2. PICK from \in JobStage, to \in JobStage : JobGoes(w, d, from, to)
    BY <1>8, Zenon DEF DeleteFails, RestoreFails, JobStage
  <2>. QED
    BY <1>0, <2>1, <2>2, DueBefore, NotLingering, Zenon
<1>. QED
  BY <1>2, <1>3, <1>4, <1>5, <1>6, <1>7, <1>8, Zenon DEF Silent

\* The steps that publish.
LEMMA SendLingers ==
  ASSUME TypeOK, NEW d \in Conns, Sends(d), NEW c \in Conns, ~Causes(c), Lingers(c)'
  PROVE  Lingers(c)
<1>0. UNCHANGED <<live, mem>>
  BY SendFrame, Zenon
<1>1. CASE CreateSend(d)
  <2>1. Publish("add", {d}) /\ job' = job /\ d # c
    BY <1>1, Zenon DEF CreateSend, Causes
  <2>2. WillAccept(c)' <=> WillAccept(c)
    BY <1>0, <2>1, Published, Zenon
  <2>. QED
    BY <1>0, <2>1, <2>2, NotLingering, Zenon DEF MessageDue
<1>2. ASSUME NEW w \in Workers, DeleteSend(w, d)
      PROVE  Lingers(c)
  <2>1. Publish("del", {d}) /\ JobGoes(w, d, "delSend", "delCache") /\ "delCache" \in JobStage
    BY <1>2, Zenon DEF DeleteSend, JobStage
  <2>2. /\ c # d => (WillAccept(c)' <=> WillAccept(c))
        /\ queue' # queue /\ c = d => ~WillAccept(c)'
    BY <1>0, <2>1, Published, Zenon
  <2>3. c = d => queue' # queue
    BY <1>2, Zenon DEF Causes
  <2>4. c # d
    BY <2>2, <2>3, Zenon DEF Lingers
  <2>. QED
    BY <1>0, <2>1, <2>2, <2>4, DueBefore, NotLingering, Zenon
<1>3. ASSUME NEW w \in Workers, RestoreSend(w, d)
      PROVE  Lingers(c)
  <2>1. Publish("add", {d}) /\ JobGoes(w, d, "resSend", "resRow") /\ "resRow" \in JobStage
    BY <1>3, Zenon DEF RestoreSend, JobStage
  <2>2. job'[w][d] = "resRow"
    BY <2>1, JobMoved
  <2>3. c # d
    BY <2>2, Zenon DEF Lingers, MessageDue
  <2>4. WillAccept(c)' <=> WillAccept(c)
    BY <1>0, <2>1, <2>3, Published, Zenon
  <2>. QED
    BY <1>0, <2>1, <2>3, <2>4, DueBefore, NotLingering, Zenon
<1>. QED
  BY <1>1, <1>2, <1>3, Zenon DEF Sends

\* The steps of the service.
LEMMA ServiceLingers ==
  ASSUME TypeOK,
         Start \/ StartFresh \/ Resync \/ ResyncFails \/ Receive \/ TakeSnapshot \/ Crash,
         NEW c \in Conns, ~Causes(c), Lingers(c)'
  PROVE  Lingers(c)
<1>0. UNCHANGED <<live, job>> /\ ~Start
  BY Zenon DEF Start, StartFresh, Resync, ResyncFails, Receive, TakeSnapshot, Crash, api, store, Causes
<1>1. ASSUME WillAccept(c)' => WillAccept(c)
      PROVE  Lingers(c)
  BY <1>0, <1>1, NotLingering, Zenon DEF MessageDue
<1>2. CASE StartFresh \/ TakeSnapshot
  <2>1. UNCHANGED <<queue, mem>>
    BY <1>2, Zenon DEF StartFresh, TakeSnapshot
  <2>. QED
    BY <1>1, <2>1, Unheard, Zenon
<1>3. CASE Resync \/ ResyncFails
  <2>1. PublishResync /\ mem' = mem
    BY <1>3, Zenon DEF Resync, ResyncFails, service
  <2>2. c \notin live /\ c \notin ResyncBatch
    BY <1>0, <1>3, Zenon DEF Causes, ResyncBatch, Lingers
  <2>. QED
    BY <1>1, <2>1, <2>2, Resynced, Zenon
<1>4. CASE Receive
  BY <1>1, <1>4, Received, Zenon
<1>5. CASE Crash
  <2>1. queue' = <<>> /\ mem' = {}
    BY <1>5, Zenon DEF Crash
  <2>. QED
    BY <1>1, <2>1 DEF WillAccept
<1>. QED
  BY <1>0, <1>2, <1>3, <1>4, <1>5, Zenon

\* A deleted connection comes to be accepted for good only by the start from an old
\* snapshot, a Delete that did not get through, a failed restore, the death of the API,
\* a Create sent after the Delete, or a resync that reads the Cache between
\* delete_connection's row and its entry; no other interleaving of the API's
\* operations with run_subscriber does it.
THEOREM LingersOnlyByCauses == Spec => LingersOrigin
<1>1. TypeOK /\ [Next]_vars
        => [\A c \in Conns : Lingers(c)' /\ ~Lingers(c) => Causes(c)]_vars
  <2> SUFFICES ASSUME TypeOK, Next, NEW c \in Conns, Lingers(c)', ~Lingers(c), ~Causes(c)
               PROVE  FALSE
    BY Zenon
  <2>. QED
    BY ApiSplit, SilentLingers, SendLingers, ServiceLingers, Zenon
<1>. QED
  BY <1>1, TypeCorrect, PTL DEF Spec, LingersOrigin, Causes

-----------------------------------------------------------------------------
(* The registers of TokenRegister: ranks of positions in the socket.       *)

\* How many of the positions in P come up to i.
Rank(P, i) == Cardinality({j \in P : j <= i})

\* Ranks are the numbers up to the size of P, and grow with the position.
LEMMA RankOrder ==
  ASSUME NEW P \in SUBSET Nat, IsFiniteSet(P)
  PROVE  /\ Cardinality(P) \in Nat
         /\ \A i \in P : Rank(P, i) \in 1..Cardinality(P)
         /\ \A i, j \in P : i < j => Rank(P, i) < Rank(P, j)
<1>0. \A i \in P : IsFiniteSet({j \in P : j <= i})
  BY FS_Subset, Zenon
<1>t. \A i \in P : Rank(P, i) \in Nat /\ Rank(P, i) <= Cardinality(P)
  BY FS_Subset, FS_CardinalityType, Zenon DEF Rank
<1>1. Cardinality(P) \in Nat
  BY FS_CardinalityType, Zenon
<1>2. ASSUME NEW i \in P
      PROVE  Rank(P, i) # 0
  <2>1. i \in {j \in P : j <= i}
    OBVIOUS
  <2>. QED
    BY <1>0, <2>1, FS_EmptySet, Zenon DEF Rank
<1>3. ASSUME NEW i \in P, NEW j \in P, i < j
      PROVE  Rank(P, i) < Rank(P, j)
  <2>0. i \in Nat /\ j \in Nat /\ \A k \in P : k \in Nat
    BY Zenon
  <2>1. {k \in P : k <= i} \in SUBSET {k \in P : k <= j}
    <3>1. \A k \in P : k <= i => k <= j
      BY <1>3, <2>0
    <3>. QED
      BY <3>1, Zenon
  <2>2. j \in {k \in P : k <= j} /\ j \notin {k \in P : k <= i}
    BY <1>3, <2>0
  <2>3. Rank(P, i) <= Rank(P, j) /\ Rank(P, i) # Rank(P, j)
    BY <1>0, <2>1, <2>2, FS_Subset, Zenon DEF Rank
  <2>. QED
    BY <1>t, <2>3
<1>. QED
  BY <1>t, <1>1, <1>2, <1>3

\* Every number up to the size of P is the rank of one position.
LEMMA KthRank ==
  ASSUME NEW P \in SUBSET Nat, IsFiniteSet(P)
  PROVE  /\ \A i \in P : Kth(P, Rank(P, i)) = i
         /\ \A k \in 1..Cardinality(P) : Kth(P, k) \in P /\ Rank(P, Kth(P, k)) = k
<1>1. ASSUME NEW i \in P, NEW j \in P, Rank(P, i) = Rank(P, j)
      PROVE  i = j
  <2>1. Rank(P, i) \in Nat /\ (i < j => Rank(P, i) < Rank(P, j)) /\ (j < i => Rank(P, j) < Rank(P, i))
    BY RankOrder
  <2>. QED
    BY <1>1, <2>1
<1>2. ASSUME NEW k \in 1..Cardinality(P)
      PROVE  \E i \in P : Rank(P, i) = k
  <2> DEFINE f == [i \in P |-> Rank(P, i)]
             n == Cardinality(P)
  <2>1. f \in [P -> 1..n] /\ n \in Nat
    BY RankOrder, Zenon
  <2>2. f \in Injection(P, 1..n)
    BY <1>1, <2>1, Zenon DEF Injection, IsInjective
  <2>3. IsFiniteSet(1..n) /\ Cardinality(1..n) = n
    BY <2>1, FS_Interval
  <2>4. f \in Surjection(P, 1..n)
    BY <2>2, <2>3, FS_Injection, Zenon
  <2>. QED
    BY <2>4, Zenon DEF Surjection
<1>3. ASSUME NEW k, NEW i \in P, Rank(P, i) = k
      PROVE  Kth(P, k) \in P /\ Rank(P, Kth(P, k)) = k
  BY <1>3, Zenon DEF Kth, Rank
<1>. QED
  BY <1>1, <1>2, <1>3, Zenon

\* Positions moved up by one are as many.
LEMMA Shifted ==
  ASSUME NEW S \in SUBSET Nat, IsFiniteSet(S), NEW T, T = {j + 1 : j \in S}
  PROVE  IsFiniteSet(T) /\ Cardinality(T) = Cardinality(S)
<1> DEFINE f == [j \in S |-> j + 1]
<1>1. f \in [S -> T]
  BY Zenon
<1>2. \A a, b \in S : f[a] = f[b] => a = b
  OBVIOUS
<1>3. ASSUME NEW t \in T
      PROVE  \E j \in S : f[j] = t
  <2>1. PICK j \in S : t = j + 1
    BY Zenon
  <2>2. f[j] = t
    BY <2>1, Zenon
  <2>. QED
    BY <2>2, Zenon
<1>. HIDE DEF f
<1>4. f \in Injection(S, T)
  BY <1>1, <1>2, Zenon DEF Injection, IsInjective
<1>5. f \in Surjection(S, T)
  BY <1>1, <1>3, Zenon DEF Surjection
<1>6. ExistsBijection(S, T)
  BY <1>4, <1>5, Zenon DEF ExistsBijection, Bijection
<1>. QED
  BY <1>6, FS_Bijection, Zenon

\* What is in the socket, as a set of positions.
LEMMA Positions ==
  ASSUME NEW q \in Seq(Batch), NEW P \in SUBSET (1..Len(q))
  PROVE  /\ P \in SUBSET Nat /\ IsFiniteSet(P) /\ Cardinality(P) \in Nat
         /\ ActsAt(q, P) \in Seq({"add", "del"}) /\ Len(ActsAt(q, P)) = Cardinality(P)
         /\ \A k \in 1..Cardinality(P) : ActsAt(q, P)[k] = q[Kth(P, k)].act
<1>1. P \in SUBSET (1..Len(q)) /\ Len(q) \in Nat
  OBVIOUS
<1>2. IsFiniteSet(P) /\ P \in SUBSET Nat
  <2>1. IsFiniteSet(1..Len(q))
    BY <1>1, FS_Interval
  <2>2. IsFiniteSet(P)
    BY <2>1, FS_Subset, Zenon
  <2>. QED
    BY <1>1, <2>2
<1>3. Cardinality(P) \in Nat
  BY <1>2, FS_CardinalityType, Zenon
<1>4. \A k \in 1..Cardinality(P) : q[Kth(P, k)].act \in {"add", "del"}
  <2> TAKE k \in 1..Cardinality(P)
  <2>1. Kth(P, k) \in 1..Len(q)
    BY <1>1, <1>2, KthRank, Zenon
  <2>2. q[Kth(P, k)] \in Batch
    BY <2>1
  <2>. QED
    BY <2>2, Zenon DEF Batch
<1>5. ActsAt(q, P) \in [1..Cardinality(P) -> {"add", "del"}]
  BY <1>4, Zenon DEF ActsAt
<1>. QED
  BY <1>2, <1>3, <1>5 DEF ActsAt

\* R has the positions of P and m + 1 behind them.
Grown(P, R, m) ==
  /\ Cardinality(R) = Cardinality(P) + 1 /\ Cardinality(P) \in Nat
  /\ \A k \in 1..Cardinality(P) : Kth(P, k) \in P /\ Kth(R, k) = Kth(P, k)
  /\ Kth(R, Cardinality(P) + 1) = m + 1

\* One position more, behind the others, is the last.
LEMMA KthGrown ==
  ASSUME NEW m \in Nat, NEW P \in SUBSET (1..m), NEW R, R = P \cup {m + 1}
  PROVE  Grown(P, R, m)
<1>1. IsFiniteSet(P)
  <2>1. IsFiniteSet(1..m)
    BY FS_Interval
  <2>. QED
    BY <2>1, FS_Subset, Zenon
<1>2. \A i \in P : i \in Nat /\ i < m + 1
  OBVIOUS
<1>3. P \in SUBSET Nat /\ R \in SUBSET Nat /\ m + 1 \notin P
  BY <1>2
<1>4. /\ IsFiniteSet(R) /\ Cardinality(R) = Cardinality(P) + 1 /\ Cardinality(P) \in Nat
  BY <1>1, <1>3, FS_AddElement, FS_CardinalityType, Zenon
<1>5. ASSUME NEW k \in 1..Cardinality(P)
      PROVE  Kth(P, k) \in P /\ Kth(R, k) = Kth(P, k)
  <2>1. PICK i \in P : i = Kth(P, k) /\ Rank(P, i) = k
    BY <1>1, <1>3, KthRank, Zenon
  <2>2. {j \in R : j <= i} = {j \in P : j <= i}
    <3>1. i \in Nat /\ ~(m + 1 <= i)
      BY <1>2
    <3>. QED
      BY <3>1, Zenon
  <2>3. i \in R /\ Rank(R, i) = k
    BY <2>1, <2>2, Zenon DEF Rank
  <2>4. Kth(R, Rank(R, i)) = i
    BY <1>3, <1>4, <2>3, KthRank, Zenon
  <2>. QED
    BY <2>1, <2>3, <2>4, Zenon
<1>6. Kth(R, Cardinality(P) + 1) = m + 1
  <2>1. \A j \in R : j <= m + 1
    BY <1>2
  <2>2. {j \in R : j <= m + 1} = R /\ m + 1 \in R
    BY <2>1, Zenon
  <2>3. Rank(R, m + 1) = Cardinality(P) + 1
    BY <1>4, <2>2, Zenon DEF Rank
  <2>4. Kth(R, Rank(R, m + 1)) = m + 1
    BY <1>3, <1>4, <2>2, KthRank, Zenon
  <2>. QED
    BY <2>3, <2>4, Zenon
<1>. QED
  BY <1>4, <1>5, <1>6, Zenon DEF Grown

\* P has the positions of S, moved up by one, and those in D before them.
ShiftedBy(S, D, P) ==
  /\ Cardinality(S) \in Nat /\ Cardinality(D) \in {0, 1}
  /\ D = {} => Cardinality(D) = 0
  /\ D # {} => Cardinality(D) = 1 /\ Kth(P, 1) = 1
  /\ Cardinality(P) = Cardinality(S) + Cardinality(D)
  /\ \A k \in 1..Cardinality(S) :
       Kth(S, k) \in S /\ Kth(P, k + Cardinality(D)) = Kth(S, k) + 1

\* Without the first position, if it is among them, the others move down by one.
LEMMA KthShifted ==
  ASSUME NEW S \in SUBSET (Nat \ {0}), IsFiniteSet(S), NEW D \in {{}, {1}},
         NEW P, P = D \cup {j + 1 : j \in S}
  PROVE  ShiftedBy(S, D, P)
<1> DEFINE d == Cardinality(D)
<1>1. /\ IsFiniteSet(D) /\ d \in {0, 1} /\ (D = {} => d = 0) /\ (D # {} => d = 1)
  <2>1. CASE D = {}
    BY <2>1, FS_EmptySet, Zenon
  <2>2. CASE D = {1}
    BY <2>2, FS_Singleton, Zenon
  <2>. QED
    BY <2>1, <2>2, Zenon
<1>2. Cardinality(S) \in Nat
  BY FS_CardinalityType, Zenon
<1>. HIDE DEF d
<1>3. ASSUME NEW X \in SUBSET S
      PROVE  /\ IsFiniteSet(D \cup {j + 1 : j \in X})
             /\ Cardinality(D \cup {j + 1 : j \in X}) = Cardinality(X) + d
             /\ Cardinality(X) \in Nat
  <2> DEFINE T == {j + 1 : j \in X}
  <2>1. IsFiniteSet(X) /\ Cardinality(X) \in Nat
    BY FS_Subset, FS_CardinalityType, Zenon
  <2>2. IsFiniteSet(T) /\ Cardinality(T) = Cardinality(X)
    <3>1. X \in SUBSET Nat
      BY Zenon
    <3>. QED
      BY <2>1, <3>1, Shifted, Zenon
  <2>3. 1 \notin T
    OBVIOUS
  <2>. HIDE DEF T
  <2>4. CASE D = {}
    <3>1. D \cup T = T
      BY <2>4, Zenon
    <3>. QED
      BY <1>1, <2>1, <2>2, <2>4, <3>1 DEF T
  <2>5. CASE D = {1}
    <3>1. D \cup T = T \cup {1}
      BY <2>5, Zenon
    <3>2. IsFiniteSet(T \cup {1}) /\ Cardinality(T \cup {1}) = Cardinality(T) + 1
      BY <2>2, <2>3, FS_AddElement, Zenon
    <3>. QED
      BY <1>1, <2>1, <2>2, <2>5, <3>1, <3>2, Zenon DEF T
  <2>. QED
    BY <2>4, <2>5, Zenon
<1>4. IsFiniteSet(P) /\ Cardinality(P) = Cardinality(S) + d /\ P \in SUBSET Nat
  <2>1. P \in SUBSET Nat
    OBVIOUS
  <2>. QED
    BY <1>3, <2>1, Zenon
<1>5. ASSUME NEW k \in 1..Cardinality(S)
      PROVE  Kth(S, k) \in S /\ Kth(P, k + d) = Kth(S, k) + 1
  <2>0. S \in SUBSET Nat
    BY Zenon
  <2>1. PICK i \in S : i = Kth(S, k) /\ Rank(S, i) = k
    BY <2>0, KthRank, Zenon
  <2>2. {j \in P : j <= i + 1} = D \cup {j + 1 : j \in {x \in S : x <= i}}
    <3>1. i \in Nat /\ i >= 1 /\ \A x \in S : x \in Nat
      OBVIOUS
    <3>2. \A j : j \in P /\ j <= i + 1 <=> j \in D \/ \E x \in S : x <= i /\ j = x + 1
      BY <3>1
    <3>. QED
      BY <3>2, Zenon
  <2>3. Rank(P, i + 1) = k + d
    <3>1. {x \in S : x <= i} \in SUBSET S
      BY Zenon
    <3>2. Cardinality(D \cup {j + 1 : j \in {x \in S : x <= i}}) = Cardinality({x \in S : x <= i}) + d
      BY <1>3, <3>1, Zenon
    <3>. QED
      BY <2>1, <2>2, <3>2, Zenon DEF Rank
  <2>4. i + 1 \in P
    BY Zenon
  <2>5. Kth(P, Rank(P, i + 1)) = i + 1
    BY <1>4, <2>4, KthRank, Zenon
  <2>. QED
    BY <2>1, <2>3, <2>5, Zenon
<1>6. ASSUME D # {}
      PROVE  Kth(P, 1) = 1
  <2>1. 1 \in P
    BY <1>6, Zenon
  <2>2. {j \in P : j <= 1} = {1}
    BY <1>6
  <2>3. Rank(P, 1) = 1
    BY <2>2, FS_Singleton, Zenon DEF Rank
  <2>4. Kth(P, Rank(P, 1)) = 1
    BY <1>4, <2>1, KthRank, Zenon
  <2>. QED
    BY <2>3, <2>4, Zenon
<1>. QED
  BY <1>1, <1>2, <1>4, <1>5, <1>6, Zenon DEF d, ShiftedBy

\* P has the positions of the messages of q that are about c.
PositionsOf(q, c, P) ==
  P \in SUBSET (1..Len(q)) /\ \A i \in 1..Len(q) : i \in P <=> c \in q[i].conns

\* The acts about c when message b is put behind q.
ActsExtend(q, P, q2, R, c, b) ==
  ActsAt(q2, R) = IF c \in b.conns THEN Append(ActsAt(q, P), b.act) ELSE ActsAt(q, P)

\* The acts about c when the first message of q is taken.
ActsShrink(q, P, q2, R, c) ==
  /\ c \notin Head(q).conns => ActsAt(q2, R) = ActsAt(q, P)
  /\ c \in Head(q).conns => /\ ActsAt(q, P) # <<>> /\ Head(ActsAt(q, P)) = Head(q).act
                            /\ ActsAt(q2, R) = Tail(ActsAt(q, P))

\* A message at the end of the socket is the last about its connections, and changes
\* nothing for the others.
LEMMA ActsAppended ==
  ASSUME NEW q \in Seq(Batch), NEW b \in Batch, NEW q2, q2 = Append(q, b), NEW c,
         NEW P, PositionsOf(q, c, P), NEW R, PositionsOf(q2, c, R)
  PROVE  ActsExtend(q, P, q2, R, c, b)
<1>. USE DEF PositionsOf
<1>1. /\ Len(q) \in Nat /\ Len(q2) = Len(q) + 1 /\ q2[Len(q) + 1] = b
      /\ \A i \in 1..Len(q) : q2[i] = q[i]
      /\ q2 \in Seq(Batch) /\ P \in SUBSET (1..Len(q))
  OBVIOUS
<1>2. CASE c \notin b.conns
  <2>1. R = P
    <3>1. \A i : i \in 1..Len(q2) <=> i \in 1..Len(q) \/ i = Len(q) + 1
      BY <1>1
    <3>2. \A i : i \in R <=> i \in P
      BY <1>1, <1>2, <3>1, Zenon
    <3>. QED
      BY <3>2, Zenon
  <2>2. \A k \in 1..Cardinality(P) : Kth(P, k) \in P
    BY <1>1, KthGrown, Zenon DEF Grown
  <2>3. \A k \in 1..Cardinality(P) : q2[Kth(P, k)] = q[Kth(P, k)]
    BY <1>1, <2>2, Zenon
  <2>. QED
    BY <1>2, <2>1, <2>3, Zenon DEF ActsAt, ActsExtend
<1>3. CASE c \in b.conns
  <2>1. R = P \cup {Len(q) + 1}
    <3>1. \A i : i \in 1..Len(q2) <=> i \in 1..Len(q) \/ i = Len(q) + 1
      BY <1>1
    <3>2. \A i : i \in R <=> i \in P \/ i = Len(q) + 1
      BY <1>1, <1>3, <3>1, Zenon
    <3>. QED
      BY <3>2, Zenon
  <2>2. /\ Cardinality(R) = Cardinality(P) + 1 /\ Cardinality(P) \in Nat
        /\ \A k \in 1..Cardinality(P) : Kth(P, k) \in P /\ Kth(R, k) = Kth(P, k)
        /\ Kth(R, Cardinality(P) + 1) = Len(q) + 1
    <3>1. PICK m \in Nat : m = Len(q)
      BY <1>1, Zenon
    <3>2. P \in SUBSET (1..m) /\ R = P \cup {m + 1}
      BY <2>1, <3>1, Zenon
    <3>3. Grown(P, R, m)
      BY <3>2, KthGrown, Zenon
    <3>. QED
      BY <3>1, <3>3, Zenon DEF Grown
  <2>3. /\ ActsAt(q, P) \in Seq({"add", "del"}) /\ Len(ActsAt(q, P)) = Cardinality(P)
        /\ \A k \in 1..Cardinality(P) : ActsAt(q, P)[k] = q[Kth(P, k)].act
    BY Positions, Zenon
  <2>4. /\ ActsAt(q2, R) \in Seq({"add", "del"}) /\ Len(ActsAt(q2, R)) = Cardinality(R)
        /\ \A k \in 1..Cardinality(R) : ActsAt(q2, R)[k] = q2[Kth(R, k)].act
    BY <1>1, Positions, Zenon
  <2>5. Cardinality(P) + 1 \in 1..Cardinality(R) /\ \A k \in 1..Cardinality(P) : k \in 1..Cardinality(R)
    BY <2>2
  <2>6. ActsAt(q2, R)[Cardinality(P) + 1] = b.act
    BY <1>1, <2>2, <2>4, <2>5, Zenon
  <2>7. \A k \in 1..Cardinality(P) : q2[Kth(R, k)] = q[Kth(P, k)]
    BY <1>1, <2>2, Zenon
  <2>8. \A k \in 1..Cardinality(P) : ActsAt(q2, R)[k] = ActsAt(q, P)[k]
    BY <2>3, <2>4, <2>5, <2>7, Zenon
  <2>. DEFINE s == ActsAt(q, P)
              t == ActsAt(q2, R)
              n == Cardinality(P)
  <2>9. /\ s \in Seq({"add", "del"}) /\ t \in Seq({"add", "del"}) /\ n \in Nat
        /\ Len(s) = n /\ Len(t) = n + 1 /\ t[n + 1] = b.act /\ \A k \in 1..n : t[k] = s[k]
    BY <2>2, <2>3, <2>4, <2>6, <2>8, Zenon
  <2>10. b.act \in {"add", "del"}
    BY Zenon DEF Batch
  <2>. HIDE DEF s, t, n
  <2>11. t = Append(s, b.act)
    BY <2>9, <2>10
  <2>. QED
    BY <1>3, <2>11, Zenon DEF s, t, ActsExtend
<1>. QED
  BY <1>2, <1>3, Zenon

\* The first message of the socket is the first about its connections.
LEMMA ActsTaken ==
  ASSUME NEW q \in Seq(Batch), q # <<>>, NEW q2, q2 = Tail(q), NEW c,
         NEW P, PositionsOf(q, c, P), NEW R, PositionsOf(q2, c, R)
  PROVE  ActsShrink(q, P, q2, R, c)
<1>. USE DEF PositionsOf
<1> DEFINE D == IF c \in q[1].conns THEN {1} ELSE {}
<1>1. /\ Len(q) \in Nat /\ Len(q2) = Len(q) - 1 /\ Head(q) = q[1]
      /\ \A i \in 1..Len(q2) : q2[i] = q[i + 1] /\ i + 1 \in 1..Len(q)
      /\ q2 \in Seq(Batch) /\ 1 \in 1..Len(q)
  OBVIOUS
<1>2. P = D \cup {j + 1 : j \in R}
  <2>1. \A i \in P : i = 1 \/ (i - 1 \in R /\ i = (i - 1) + 1)
    BY <1>1
  <2>2. \A j \in R : j + 1 \in P
    BY <1>1, Zenon
  <2>3. 1 \in P <=> 1 \in D
    BY <1>1, Zenon
  <2>. QED
    BY <2>1, <2>2, <2>3, Zenon
<1>. HIDE DEF D
<1>3. D \in {{}, {1}} /\ (D # {} <=> c \in q[1].conns)
  BY Zenon DEF D
<1>4. /\ ActsAt(q, P) \in Seq({"add", "del"}) /\ Len(ActsAt(q, P)) = Cardinality(P)
      /\ \A k \in 1..Cardinality(P) : ActsAt(q, P)[k] = q[Kth(P, k)].act
  BY Positions, Zenon
<1>5. /\ ActsAt(q2, R) \in Seq({"add", "del"}) /\ Len(ActsAt(q2, R)) = Cardinality(R)
      /\ \A k \in 1..Cardinality(R) : ActsAt(q2, R)[k] = q2[Kth(R, k)].act
      /\ IsFiniteSet(R) /\ R \in SUBSET (Nat \ {0})
  <2>1. R \in SUBSET (Nat \ {0})
    OBVIOUS
  <2>. QED
    BY <1>1, <2>1, Positions, Zenon
<1>. DEFINE d == Cardinality(D)
            m == Cardinality(R)
            s == ActsAt(q, P)
            t == ActsAt(q2, R)
<1>6. /\ m \in Nat /\ d \in {0, 1} /\ (D = {} => d = 0) /\ (D # {} => d = 1 /\ Kth(P, 1) = 1)
      /\ Cardinality(P) = m + d
      /\ \A k \in 1..m : Kth(R, k) \in R /\ Kth(P, k + d) = Kth(R, k) + 1
  <2>1. ShiftedBy(R, D, P)
    BY <1>2, <1>3, <1>5, KthShifted, Zenon
  <2>. QED
    BY <2>1, Zenon DEF ShiftedBy
<1>7. /\ s \in Seq({"add", "del"}) /\ t \in Seq({"add", "del"})
      /\ Len(s) = m + d /\ Len(t) = m
  BY <1>4, <1>5, <1>6, Zenon
<1>8. \A k \in 1..m : t[k] = s[k + d]
  <2> TAKE k \in 1..m
  <2>1. k + d \in 1..Cardinality(P)
    BY <1>6
  <2>2. s[k + d] = q[Kth(R, k) + 1].act
    BY <1>4, <1>6, <2>1, Zenon
  <2>3. Kth(R, k) \in 1..Len(q2)
    BY <1>6, Zenon
  <2>. QED
    BY <1>1, <1>5, <2>2, <2>3, Zenon
<1>9. D # {} => s[1] = q[1].act
  BY <1>4, <1>6
<1>. HIDE DEF d, m, s, t
<1>10. CASE D = {}
  <2>1. t = s
    BY <1>6, <1>7, <1>8, <1>10
  <2>. QED
    BY <1>1, <1>3, <1>10, <2>1, Zenon DEF s, t, ActsShrink
<1>11. CASE D # {}
  <2>1. s # <<>> /\ Head(s) = q[1].act /\ t = Tail(s)
    BY <1>6, <1>7, <1>8, <1>9, <1>11
  <2>. QED
    BY <1>1, <1>3, <1>11, <2>1, Zenon DEF s, t, ActsShrink
<1>. QED
  BY <1>10, <1>11, Zenon

\* What the API publishes is announced to the registers of its connections.
LEMMA PublishAnnounces ==
  ASSUME TypeOK, NEW act \in {"add", "del"}, NEW cs \in SUBSET Conns, Publish(act, cs),
         UNCHANGED <<mem, snap>>
  PROVE  [Register!Next]_(Register!vars)
<1>1. CASE queue' = queue
  BY <1>1, Zenon DEF Register!vars, About
<1>2. CASE queue' = Append(queue, [act |-> act, conns |-> cs])
  <2>1. ASSUME NEW c \in Conns
        PROVE  ActsAt(queue, About(c))' = IF c \in cs THEN Append(ActsAt(queue, About(c)), act)
                                                     ELSE ActsAt(queue, About(c))
    <3>1. queue \in Seq(Batch) /\ [act |-> act, conns |-> cs] \in Batch
      BY Zenon DEF TypeOK, Batch
    <3>2. PositionsOf(queue, c, About(c)) /\ PositionsOf(queue', c, About(c)')
      BY Zenon DEF About, PositionsOf
    <3>3. ActsExtend(queue, About(c), queue', About(c)', c, [act |-> act, conns |-> cs])
      BY <1>2, <3>1, <3>2, ActsAppended, Zenon
    <3>. QED
      BY <3>3, Zenon DEF ActsExtend
  <2>2. Register!Announce(cs, act)
    BY <2>1, Zenon DEF Register!Announce
  <2>. QED
    BY <2>2, Zenon DEF Register!Next, Register!Acts
<1>. QED
  BY <1>1, <1>2, Zenon DEF Publish

\* A batch that the service takes is heard by the registers of its connections.
LEMMA ReceiveHears ==
  ASSUME TypeOK, Receive
  PROVE  Register!Next
<1> DEFINE b == Head(queue)
<1>1. /\ queue \in Seq(Batch) /\ queue # <<>> /\ queue' = Tail(queue) /\ snap' = snap
      /\ mem' = IF b.act = "add" THEN mem \cup b.conns ELSE mem \ b.conns
  BY Zenon DEF TypeOK, Receive
<1>2. b \in Batch
  BY <1>1
<1>3. b.conns \in SUBSET Conns /\ b.act \in {"add", "del"}
  BY <1>2, Zenon DEF Batch
<1>. HIDE DEF b
<1>4. ASSUME NEW c \in Conns
      PROVE  /\ c \notin b.conns => ActsAt(queue, About(c))' = ActsAt(queue, About(c))
             /\ c \in b.conns => /\ ActsAt(queue, About(c)) # <<>>
                                 /\ Head(ActsAt(queue, About(c))) = b.act
                                 /\ ActsAt(queue, About(c))' = Tail(ActsAt(queue, About(c)))
  <2>1. PositionsOf(queue, c, About(c)) /\ PositionsOf(queue', c, About(c)')
    BY Zenon DEF About, PositionsOf
  <2>2. ActsShrink(queue, About(c), queue', About(c)', c)
    BY <1>1, <2>1, ActsTaken, Zenon
  <2>. QED
    BY <2>2, Zenon DEF ActsShrink, b
<1>5. Register!Hear(b.conns, b.act)
  BY <1>1, <1>3, <1>4, Zenon DEF Register!Hear
<1>. QED
  BY <1>3, <1>5, Zenon DEF Register!Next, Register!Acts

\* An empty socket announces nothing.
LEMMA NothingAnnounced ==
  ASSUME NEW q, NEW P, P = {}
  PROVE  ActsAt(q, P) = <<>>
<1>1. Cardinality(P) = 0
  BY FS_EmptySet, Zenon
<1>2. ActsAt(q, P) = [k \in 1..0 |-> q[Kth(P, k)].act]
  BY <1>1, Zenon DEF ActsAt
<1>. QED
  BY <1>2

\* Every step of the API and of the service is a step of the registers, or none.
LEMMA RegisterStep ==
  ASSUME TypeOK, [Next]_vars
  PROVE  [Register!Next]_(Register!vars)
<1>1. ASSUME UNCHANGED <<queue, mem, snap>>
      PROVE  UNCHANGED Register!vars
  BY <1>1, Zenon DEF Register!vars, About
<1>2. ASSUME NEW c \in Conns, Sends(c)
      PROVE  [Register!Next]_(Register!vars)
  <2>1. PICK act \in {"add", "del"} : Publish(act, {c})
    BY <1>2, SendTypes, Zenon
  <2>2. UNCHANGED <<mem, snap>>
    BY <1>2, SendFrame, Zenon
  <2>. QED
    BY <2>1, <2>2, PublishAnnounces, Zenon
<1>3. CASE Silent \/ StartFresh \/ UNCHANGED vars
  <2>1. UNCHANGED <<queue, mem, snap>>
    BY <1>3, SilentFrame, Zenon DEF StartFresh, vars, service
  <2>. QED
    BY <1>1, <2>1, Zenon
<1>4. CASE Resync \/ ResyncFails
  <2>1. PublishResync /\ UNCHANGED <<mem, snap>>
    BY <1>4, Zenon DEF Resync, ResyncFails, service
  <2>2. ResyncBatch \in SUBSET Conns
    BY Zenon DEF ResyncBatch, TypeOK
  <2>. QED
    BY <1>1, <2>1, <2>2, PublishAnnounces, Zenon DEF PublishResync
<1>5. CASE Start
  <2>1. /\ mem = {} /\ mem' = snap /\ snap' = snap
        /\ [c \in Conns |-> ActsAt(queue, About(c))]' = [c \in Conns |-> ActsAt(queue, About(c))]
    BY <1>5, Zenon DEF Start, TypeOK, About
  <2>. QED
    BY <2>1, Zenon DEF Register!Next, Register!Recall
<1>6. CASE TakeSnapshot
  <2>1. /\ snap' = mem /\ mem' = mem
        /\ [c \in Conns |-> ActsAt(queue, About(c))]' = [c \in Conns |-> ActsAt(queue, About(c))]
    BY <1>6, Zenon DEF TakeSnapshot, About
  <2>. QED
    BY <2>1, Zenon DEF Register!Next, Register!Save
<1>7. CASE Crash
  <2>1. queue' = <<>> /\ mem' = {} /\ snap' = snap
    BY <1>7, Zenon DEF Crash
  <2>2. \A c \in Conns : ActsAt(queue, About(c))' = <<>>
    <3> TAKE c \in Conns
    <3>1. About(c)' = {}
      BY <2>1 DEF About
    <3>. QED
      BY <3>1, NothingAnnounced, Zenon
  <2>. QED
    BY <2>1, <2>2, Zenon DEF Register!Next, Register!Stop
<1>. QED
  BY <1>2, <1>3, <1>4, <1>5, <1>6, <1>7, ApiSplit, ReceiveHears, Zenon

\* The auth service, with the API, the socket and the snapshot, implements one ordered
\* register per token (run_subscriber, handle_messages_batch, create_snapshot): batches,
\* resyncs, crashes and restarts never reorder, mix up or lose what is said of a token.
THEOREM RegistersImplemented == Spec => ImplementsRegister
<1>1. Init => Register!Init
  <2> SUFFICES ASSUME Init PROVE Register!Init
    BY Zenon
  <2>1. mem = {} /\ snap = {} /\ queue = <<>>
    BY Zenon DEF Init
  <2>2. \A c \in Conns : ActsAt(queue, About(c)) = <<>>
    <3> TAKE c \in Conns
    <3>1. About(c) = {}
      BY <2>1 DEF About
    <3>. QED
      BY <3>1, NothingAnnounced, Zenon
  <2>. QED
    BY <2>1, <2>2, Zenon DEF Register!Init
<1>2. TypeOK /\ [Next]_vars => [Register!Next]_(Register!vars)
  BY RegisterStep, Zenon
<1>. QED
  BY <1>1, <1>2, TypeCorrect, PTL DEF Spec, ImplementsRegister, Register!Spec
=============================================================================
