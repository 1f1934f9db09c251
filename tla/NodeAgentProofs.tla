-------------------------- MODULE NodeAgentProofs ---------------------------
(***************************************************************************)
(* What NodeAgent keeps, for any connections, any length of the queue and   *)
(* any number of faults: ServedOrOwed, and StaleOrigin for every step.      *)
(***************************************************************************)
EXTENDS NodeAgent, TLAPS

Msg == [act : {"add", "del"}, conns : SUBSET Conns]
Ages == {"created", "modified", "old"}

Typed ==
  /\ live \subseteq created /\ created \subseteq Conns
  /\ since \in [Conns -> Ages] /\ bootSince \in [Conns -> Ages]
  /\ queue \in Seq(Msg)
  /\ batch \in [Conns -> Stage]
  /\ mem \subseteq Conns /\ served \subseteq Conns
  /\ snap \subseteq Conns /\ restoring \subseteq Conns
  /\ phase \in {"down", "listen", "ready"}
  /\ toSync \subseteq Tags
  /\ owed \subseteq Conns

\* A stopped agent has no messages, and handles none.
Stopped == phase = "down" => queue = <<>> /\ batch = NoBatch

\* A Delete is alone in its batch.
DeletesAlone ==
  /\ \A i \in 1..Len(queue) : queue[i].act = "del" =>
       \A c, d \in queue[i].conns : c = d
  /\ \A c, d \in Conns : batch[c] \in {"del", "delMem"} /\ c # d => batch[d] = "none"

\* An Xray user that memory is still to learn of is there.
AddedFirst == \A c \in Conns : batch[c] = "addMem" => c \in served

\* What the API last said about c.
Wanted(c) == IF c \in live THEN "add" ELSE "del"

\* After place i of the queue comes a message that says act about c.
Later(i, act, c) ==
  \E j \in 1..Len(queue) : j > i /\ queue[j].act = act /\ c \in queue[j].conns

ActOf(stage) == IF stage \in {"add", "addMem"} THEN "add" ELSE "del"

\* Whatever is to be done about c and is no longer wanted is followed by a
\* message that corrects it.
Settled(c) ==
  /\ \A i \in 1..Len(queue) :
       c \in queue[i].conns /\ queue[i].act # Wanted(c) => Later(i, Wanted(c), c)
  /\ batch[c] # "none" /\ ActOf(batch[c]) # Wanted(c) => Later(0, Wanted(c), c)

\* An add of c is in the socket or in the current batch.
Coming(c) == Later(0, "add", c) \/ batch[c] \in {"add", "addMem"}

\* ServedOrOwed for one connection; a restore task counts only while memory has
\* the connection, since it puts it into the backend alone.
Cared(c) ==
  phase # "down" /\ c \in live =>
    \/ c \in mem \cap served
    \/ Coming(c)
    \/ c \in restoring \cap mem
    \/ c \in owed
    \/ ResyncDue(c)

NInv ==
  /\ Typed
  /\ Stopped
  /\ DeletesAlone
  /\ AddedFirst
  /\ \A c \in Conns : Settled(c)
  /\ \A c \in Conns : Cared(c)

-----------------------------------------------------------------------------
(* The queue.                                                              *)

\* Where a message is in the queue, its act and connections have their types.
LEMMA Messages ==
  ASSUME Typed, NEW i \in 1..Len(queue)
  PROVE  queue[i].act \in {"add", "del"} /\ queue[i].conns \subseteq Conns
<1>1. queue[i] \in Msg  BY DEF Typed
<1> QED  BY <1>1, Zenon DEF Msg

\* The first message taken from a queue leaves the others one place further up.
LEMMA TailOf ==
  ASSUME NEW q \in Seq(Msg), q # <<>>
  PROVE  /\ Len(q) \in Nat /\ Len(q) > 0 /\ Head(q) = q[1]
         /\ Tail(q) \in Seq(Msg) /\ Len(Tail(q)) = Len(q) - 1
         /\ \A i \in 1..(Len(q) - 1) : Tail(q)[i] = q[i + 1]
<1> QED  OBVIOUS

\* A message at the end of the queue leaves the others in their places.
LEMMA Appended ==
  ASSUME Typed, NEW act \in {"add", "del"}, NEW cs \in SUBSET Conns,
         queue' = Append(queue, [act |-> act, conns |-> cs])
  PROVE  /\ queue' \in Seq(Msg)
         /\ Len(queue') = Len(queue) + 1 /\ Len(queue) \in Nat
         /\ \A i \in 1..Len(queue) : queue'[i] = queue[i]
         /\ queue'[Len(queue) + 1] = [act |-> act, conns |-> cs]
<1>1. [act |-> act, conns |-> cs] \in Msg  BY Zenon DEF Msg
<1> QED  BY <1>1 DEF Typed

\* The effect of a publication on what is known of the queue: a message that says
\* what the API wants settles its connections, and the others stay settled.
LEMMA Published ==
  ASSUME Typed, Stopped, DeletesAlone,
         NEW act \in {"add", "del"}, NEW cs \in SUBSET Conns,
         act = "del" => \A c, d \in cs : c = d,
         Publish(act, cs), UNCHANGED batch, phase' = "down" => phase = "down"
  PROVE  /\ queue' \in Seq(Msg)
         /\ Stopped' /\ DeletesAlone'
         /\ \A c \in Conns :
              /\ /\ Settled(c)
                 /\ \/ c \in cs /\ Wanted(c)' = act
                    \/ c \notin cs /\ Wanted(c)' = Wanted(c)
                 => Settled(c)'
              /\ Coming(c) => Coming(c)'
              /\ phase # "down" /\ act = "add" /\ c \in cs => Coming(c)'
<1>1. CASE phase = "down"
  <2>1. queue' = <<>> /\ queue = <<>> /\ batch' = NoBatch  BY <1>1, Zenon DEF Publish, Stopped
  <2>2. \A c \in Conns : batch'[c] = "none"  BY <2>1, Zenon DEF NoBatch
  <2>3. queue' = queue  BY <2>1, Zenon
  <2>4. Len(queue') = 0  BY <2>1, Zenon
  <2>5. 1..Len(queue') = {}  BY <2>4
  <2>6. Stopped' /\ DeletesAlone' /\ queue' \in Seq(Msg)
    BY <2>1, <2>2, <2>3, <2>5, Zenon DEF Stopped, DeletesAlone, Typed
  <2>7. ASSUME NEW c \in Conns PROVE Settled(c)' /\ (Coming(c) => Coming(c)')
    BY <2>2, <2>3, <2>5, Zenon DEF Settled, Coming, Later
  <2> QED  BY <1>1, <2>6, <2>7, Zenon
<1>2. CASE phase # "down"
  <2> DEFINE m == [act |-> act, conns |-> cs]
             L == Len(queue)
  <2>1. queue' = Append(queue, m)  BY <1>2, Zenon DEF Publish
  <2>2. /\ queue' \in Seq(Msg) /\ Len(queue') = L + 1 /\ L \in Nat
        /\ \A i \in 1..L : queue'[i] = queue[i]
        /\ queue'[L + 1] = m
    BY <2>1, Appended, Zenon
  <2>3. m.act = act /\ m.conns = cs  BY Zenon
  <2> HIDE DEF m, L
  <2>4. Stopped'  BY <1>2, Zenon DEF Stopped
  <2>5. DeletesAlone'
    <3>1. ASSUME NEW i \in 1..Len(queue'), queue'[i].act = "del",
                 NEW c \in queue'[i].conns, NEW d \in queue'[i].conns
          PROVE  c = d
      <4>1. CASE i \in 1..L  BY <3>1, <4>1, <2>2, Zenon DEF DeletesAlone, L
      <4>2. CASE i = L + 1  BY <3>1, <4>2, <2>2, <2>3, Zenon
      <4> QED  BY <4>1, <4>2, <2>2
    <3>2. \A c, d \in Conns : batch'[c] \in {"del", "delMem"} /\ c # d => batch'[d] = "none"
      BY Zenon DEF DeletesAlone
    <3> QED  BY <3>1, <3>2, Zenon DEF DeletesAlone
  <2>6. ASSUME NEW c \in Conns, NEW i \in Nat, NEW a, Later(i, a, c)
        PROVE  Later(i, a, c)'
    <3>1. PICK j \in 1..L : j > i /\ queue[j].act = a /\ c \in queue[j].conns
      BY <2>6, Zenon DEF Later, L
    <3>2. j \in 1..Len(queue') /\ queue'[j] = queue[j]  BY <2>2
    <3> QED  BY <3>1, <3>2, Zenon DEF Later
  <2>7. ASSUME NEW c \in cs, NEW i \in 0..L PROVE Later(i, act, c)'
    <3>1. L + 1 \in 1..Len(queue') /\ L + 1 > i  BY <2>2
    <3> QED  BY <3>1, <2>2, <2>3, Zenon DEF Later
  <2>8. ASSUME NEW c \in Conns, Settled(c),
               \/ c \in cs /\ Wanted(c)' = act
               \/ c \notin cs /\ Wanted(c)' = Wanted(c)
        PROVE  Settled(c)'
    <3>1. CASE c \in cs /\ Wanted(c)' = act
      <4>1. ASSUME NEW i \in 1..Len(queue'), queue'[i].act # Wanted(c)'
            PROVE  Later(i, Wanted(c), c)'
        <5>1. i # L + 1  BY <3>1, <4>1, <2>2, <2>3, Zenon
        <5>2. i \in 0..L  BY <5>1, <2>2
        <5> QED  BY <5>2, <3>1, <2>7, Zenon
      <4>2. Later(0, Wanted(c), c)'  BY <3>1, <2>7, <2>2
      <4> QED  BY <4>1, <4>2, Zenon DEF Settled
    <3>2. CASE c \notin cs /\ Wanted(c)' = Wanted(c)
      <4>1. ASSUME NEW i \in 1..Len(queue'), c \in queue'[i].conns, queue'[i].act # Wanted(c)
            PROVE  Later(i, Wanted(c), c)'
        <5>1. i # L + 1  BY <3>2, <4>1, <2>2, <2>3, Zenon
        <5>2. i \in 1..L /\ queue'[i] = queue[i]  BY <5>1, <2>2
        <5>3. Later(i, Wanted(c), c)  BY <5>2, <4>1, <2>8, Zenon DEF Settled, L
        <5> QED  BY <5>2, <5>3, <2>6, <3>2
      <4>2. batch'[c] # "none" /\ ActOf(batch'[c]) # Wanted(c) => Later(0, Wanted(c), c)'
        BY <2>6, <2>8, <3>2, Zenon DEF Settled
      <4> QED  BY <4>1, <4>2, <3>2, Zenon DEF Settled
    <3> QED  BY <2>8, <3>1, <3>2, Zenon
  <2>9. ASSUME NEW c \in Conns PROVE /\ Coming(c) => Coming(c)'
                                     /\ act = "add" /\ c \in cs => Coming(c)'
    BY <2>2, <2>6, <2>7 DEF Coming
  <2> QED  BY <2>2, <2>4, <2>5, <2>8, <2>9, Zenon
<1> QED  BY <1>1, <1>2, Zenon

-----------------------------------------------------------------------------
(* What several actions do.                                                *)

\* Without a message and without a change of what the API wants, a connection
\* stays settled whose handling goes on, ends or is dropped.
LEMMA Quiet ==
  ASSUME Typed, UNCHANGED <<queue, live>>, NEW c \in Conns, Settled(c),
         \/ batch'[c] = batch[c] \/ batch'[c] = "none"
         \/ batch[c] # "none" /\ ActOf(batch'[c]) = ActOf(batch[c])
  PROVE  Settled(c)'
<1>1. \A i, a : Later(i, a, c)' = Later(i, a, c)  BY Zenon DEF Later
<1>2. Wanted(c)' = Wanted(c)  BY Zenon DEF Wanted
<1> QED  BY <1>1, <1>2, Zenon DEF Settled

\* One step of the handling of c.
LEMMA Handled ==
  ASSUME NInv, NEW c \in Conns, batch[c] # "none", NEW x \in Stage,
         x = "none" \/ ActOf(x) = ActOf(batch[c]),
         batch' = [batch EXCEPT ![c] = x], UNCHANGED <<queue, live, phase>>
  PROVE  /\ batch' \in [Conns -> Stage]
         /\ batch'[c] = x /\ \A d \in Conns \ {c} : batch'[d] = batch[d]
         /\ Stopped' /\ DeletesAlone'
         /\ \A d \in Conns : Settled(d)'
<1> USE DEF NInv
<1>1. /\ batch' \in [Conns -> Stage]
      /\ batch'[c] = x /\ \A d \in Conns \ {c} : batch'[d] = batch[d]
  BY Zenon DEF Typed
<1>2. Stopped'  BY Zenon DEF Stopped, NoBatch
<1>3. ASSUME NEW d \in Conns, NEW e \in Conns, batch'[d] \in {"del", "delMem"}, d # e
      PROVE  batch'[e] = "none"
  <2>1. CASE d = c
    <3>1. batch[c] \in {"del", "delMem"}
      BY <1>1, <1>3, <2>1, Zenon DEF ActOf, Typed, Stage
    <3> QED  BY <1>1, <1>3, <2>1, <3>1, Zenon DEF DeletesAlone
  <2>2. CASE d # c
    <3>1. batch[d] \in {"del", "delMem"}  BY <1>1, <1>3, <2>2, Zenon
    <3> QED  BY <3>1, <2>2, Zenon DEF DeletesAlone
  <2> QED  BY <2>1, <2>2, Zenon
<1>4. DeletesAlone'  BY <1>3, Zenon DEF DeletesAlone
<1>5. ASSUME NEW d \in Conns PROVE Settled(d)'
  <2>1. CASE d = c  BY <2>1, <1>1, Quiet, Zenon
  <2>2. CASE d # c  BY <2>2, <1>1, Quiet, Zenon
  <2> QED  BY <2>1, <2>2, Zenon
<1> QED  BY <1>1, <1>2, <1>4, <1>5, Zenon

\* A batch that ends with an error: its adds are owed.
LEMMA Dropped ==
  ASSUME NInv, DropBatch,
         UNCHANGED <<queue, live, bootSince, restoring, phase, toSync>>,
         mem \subseteq mem', mem' \subseteq Conns,
         served \subseteq served', served' \subseteq Conns
  PROVE  /\ owed' \subseteq Conns /\ batch' \in [Conns -> Stage]
         /\ Stopped' /\ DeletesAlone' /\ AddedFirst'
         /\ \A c \in Conns : Settled(c)' /\ Cared(c)'
<1> USE DEF NInv
<1>1. \A c \in Conns : batch'[c] = "none"  BY Zenon DEF DropBatch, NoBatch
<1>2. owed' = (owed \cup {c \in Conns : batch[c] \in {"add", "addMem"}}) \ (mem' \cap served')
  BY Zenon DEF DropBatch, Owe
<1>3. owed' \subseteq Conns /\ batch' \in [Conns -> Stage]
  BY <1>2, Zenon DEF Typed, DropBatch, NoBatch, Stage
<1>4. Stopped' /\ DeletesAlone' /\ AddedFirst'
  BY <1>1, Zenon DEF Stopped, DeletesAlone, AddedFirst, DropBatch
<1>5. ASSUME NEW c \in Conns PROVE Settled(c)'  BY <1>1, Quiet, Zenon
<1>6. ASSUME NEW c \in Conns PROVE Cared(c)'
  <2>1. Later(0, "add", c)' = Later(0, "add", c)  BY Zenon DEF Later
  <2>2. ResyncDue(c)' = ResyncDue(c)  BY Zenon DEF ResyncDue
  <2>3. Cared(c)  BY Zenon
  <2> QED  BY <2>1, <2>2, <2>3, <1>2, Zenon DEF Cared, Coming
<1> QED  BY <1>3, <1>4, <1>5, <1>6, Zenon

\* A change of one connection that the API announces.
LEMMA Announced ==
  ASSUME NInv, NEW c \in Conns, NEW act \in {"add", "del"},
         Publish(act, {c}), Wanted(c)' = act,
         \A d \in Conns \ {c} : d \in live' <=> d \in live,
         live' \subseteq created', created' \subseteq Conns,
         since' \in [Conns -> Ages], bootSince' \in [Conns -> Ages],
         \A d \in Conns \ {c} : bootSince'[d] = bootSince[d],
         UNCHANGED <<agent, boot, owed>>
  PROVE  NInv'
<1> USE DEF NInv, agent, boot
<1>1. /\ queue' \in Seq(Msg)
      /\ Stopped' /\ DeletesAlone'
      /\ \A d \in Conns :
           /\ /\ Settled(d)
              /\ \/ d \in {c} /\ Wanted(d)' = act
                 \/ d \notin {c} /\ Wanted(d)' = Wanted(d)
              => Settled(d)'
           /\ Coming(d) => Coming(d)'
           /\ phase # "down" /\ act = "add" /\ d \in {c} => Coming(d)'
  BY Published, Zenon
<1>2. Typed' /\ AddedFirst'  BY <1>1, Zenon DEF Typed, AddedFirst
<1>3. ASSUME NEW d \in Conns PROVE Settled(d)'
  BY <1>1, Zenon DEF Wanted
<1>4. ASSUME NEW d \in Conns PROVE Cared(d)'
  <2>1. CASE d = c  BY <1>1, <2>1, Zenon DEF Cared, Wanted
  <2>2. CASE d # c
    <3>1. ResyncDue(d)' = ResyncDue(d)  BY <2>2, Zenon DEF ResyncDue
    <3>2. Cared(d)  BY Zenon
    <3> QED  BY <1>1, <2>2, <3>1, <3>2, Zenon DEF Cared
  <2> QED  BY <2>1, <2>2, Zenon
<1> QED  BY <1>1, <1>2, <1>3, <1>4, Zenon

-----------------------------------------------------------------------------
(* One lemma per action.                                                   *)

\* Touch keeps the types, and the other connections.
LEMMA Touched ==
  ASSUME Typed, NEW c \in Conns, NEW age \in Ages, Touch(c, age)
  PROVE  /\ since' \in [Conns -> Ages] /\ bootSince' \in [Conns -> Ages]
         /\ \A d \in Conns \ {c} : bootSince'[d] = bootSince[d]
<1> QED  BY Zenon DEF Typed, Touch

\* A created connection is announced, with its time of creation.
LEMMA ApiCreateKeeps ==
  ASSUME NInv, NEW c \in Conns, ApiCreate(c)  PROVE NInv'
<1>1. "created" \in Ages  BY Zenon DEF Ages
<1>2. Typed /\ Touch(c, "created")  BY Zenon DEF NInv, ApiCreate
<1>3. /\ since' \in [Conns -> Ages] /\ bootSince' \in [Conns -> Ages]
      /\ \A d \in Conns \ {c} : bootSince'[d] = bootSince[d]
  BY <1>1, <1>2, Touched, Zenon
<1>4. Publish("add", {c}) /\ Wanted(c)' = "add"  BY Zenon DEF ApiCreate, Wanted
<1>5. /\ \A d \in Conns \ {c} : d \in live' <=> d \in live
      /\ live' \subseteq created' /\ created' \subseteq Conns
      /\ UNCHANGED <<agent, boot, owed>>
  BY <1>2, Zenon DEF ApiCreate, Typed
<1> QED  BY <1>3, <1>4, <1>5, Announced, Zenon

\* A deleted connection is announced.
LEMMA ApiDeleteKeeps ==
  ASSUME NInv, NEW c \in Conns, ApiDelete(c)  PROVE NInv'
<1>1. Publish("del", {c}) /\ Wanted(c)' = "del"  BY Zenon DEF ApiDelete, Wanted
<1>2. /\ \A d \in Conns \ {c} : d \in live' <=> d \in live
      /\ live' \subseteq created' /\ created' \subseteq Conns
      /\ UNCHANGED <<agent, boot, owed>>
      /\ since' \in [Conns -> Ages] /\ bootSince' \in [Conns -> Ages]
      /\ \A d \in Conns \ {c} : bootSince'[d] = bootSince[d]
  BY Zenon DEF ApiDelete, NInv, Typed
<1> QED  BY <1>1, <1>2, Announced, Zenon

\* A restored connection is announced, and was modified just now.
LEMMA ApiRestoreKeeps ==
  ASSUME NInv, NEW c \in Conns, ApiRestore(c)  PROVE NInv'
<1>1. "modified" \in Ages  BY Zenon DEF Ages
<1>2. Typed /\ Touch(c, "modified")  BY Zenon DEF NInv, ApiRestore
<1>3. /\ since' \in [Conns -> Ages] /\ bootSince' \in [Conns -> Ages]
      /\ \A d \in Conns \ {c} : bootSince'[d] = bootSince[d]
  BY <1>1, <1>2, Touched, Zenon
<1>4. Publish("add", {c}) /\ Wanted(c)' = "add"  BY Zenon DEF ApiRestore, Wanted
<1>5. /\ \A d \in Conns \ {c} : d \in live' <=> d \in live
      /\ live' \subseteq created' /\ created' \subseteq Conns
      /\ UNCHANGED <<agent, boot, owed>>
  BY <1>2, Zenon DEF ApiRestore, Typed
<1> QED  BY <1>3, <1>4, <1>5, Announced, Zenon

\* Nothing about messages or their handling changes.
LEMMA Still ==
  ASSUME NInv, UNCHANGED <<queue, live, batch>>, served \subseteq served',
         phase' = "down" => phase = "down"
  PROVE  /\ Stopped' /\ DeletesAlone' /\ AddedFirst'
         /\ \A c \in Conns : Settled(c)' /\ Coming(c)' = Coming(c)
<1>1. Stopped'  BY Zenon DEF NInv, Stopped
<1>2. DeletesAlone' /\ AddedFirst'  BY Zenon DEF NInv, DeletesAlone, AddedFirst
<1>3. \A c \in Conns : Settled(c)'  BY Quiet, Zenon DEF NInv
<1>4. \A c \in Conns : Coming(c)' = Coming(c)  BY Zenon DEF Coming, Later
<1> QED  BY <1>1, <1>2, <1>3, <1>4, Zenon

\* A database sync that takes modified_at back: what the resync would have sent is owed.
LEMMA ApiDbSyncKeeps ==
  ASSUME NInv, ApiDbSync  PROVE NInv'
<1> DEFINE changed == {c \in Conns : "modified" \in {since[c], bootSince[c]}}
<1> USE DEF NInv, api, agent, boot
<1>1. /\ UNCHANGED <<created, live, queue, agent, boot>>
      /\ since' = [c \in Conns |-> IF since[c] = "modified" THEN "old" ELSE since[c]]
      /\ bootSince' = [c \in Conns |-> IF bootSince[c] = "modified" THEN "old" ELSE bootSince[c]]
      /\ owed' = (owed \cup {c \in changed : ResyncDue(c)}) \ (mem' \cap served')
  BY Zenon DEF ApiDbSync, Owe
<1>2. since' \in [Conns -> Ages] /\ bootSince' \in [Conns -> Ages]
  BY <1>1, Zenon DEF Typed, Ages
<1>3. Typed'  BY <1>1, <1>2, Zenon DEF Typed
<1>4. /\ Stopped' /\ DeletesAlone' /\ AddedFirst'
      /\ \A c \in Conns : Settled(c)' /\ Coming(c)' = Coming(c)
  BY <1>1, Still, Zenon
<1>5. ASSUME NEW c \in Conns PROVE Cared(c)'
  <2>1. Cared(c)  BY Zenon
  <2>2. ResyncDue(c) => ResyncDue(c)' \/ c \in changed
    BY <1>1, Zenon DEF ResyncDue
  <2> QED  BY <1>1, <1>4, <2>1, <2>2, Zenon DEF Cared
<1> QED  BY <1>3, <1>4, <1>5, Zenon

\* Every connection has a tag.
LEMMA Tagged == \A c \in Conns : \E tag \in Tags : c \in ConnsOf(tag)
<1> QED  BY Zenon DEF Conns, Tags, ConnsOf

\* The agent starts from its snapshot; what neither snapshot nor resync brings is owed.
LEMMA StartKeeps ==
  ASSUME NInv, Start  PROVE NInv'
<1> USE DEF NInv
<1>1. Typed'  BY Zenon DEF Start, Owe, Gap, Typed
<1>2. /\ Stopped' /\ DeletesAlone' /\ AddedFirst'
      /\ \A c \in Conns : Settled(c)' /\ Coming(c)' = Coming(c)
  BY Still, Zenon DEF Start
<1>3. ASSUME NEW c \in Conns PROVE Cared(c)'
  <2>1. CASE c \in snap  BY <2>1, Zenon DEF Start, Cared
  <2>2. CASE c \notin snap /\ since[c] = "old"
    BY <2>2, Zenon DEF Start, Cared, Owe, Gap
  <2>3. CASE since[c] # "old"
    BY <2>3, Tagged, Zenon DEF Start, Cared, ResyncDue
  <2> QED  BY <2>1, <2>2, <2>3, Zenon
<1> QED  BY <1>1, <1>2, <1>3, Zenon

\* The agent starts fresh, and the resync will send every live connection.
LEMMA StartFreshKeeps ==
  ASSUME NInv, StartFresh  PROVE NInv'
<1> USE DEF NInv, agent
<1>1. Typed'  BY Zenon DEF StartFresh, Typed, Ages
<1>2. /\ Stopped' /\ DeletesAlone' /\ AddedFirst'
      /\ \A c \in Conns : Settled(c)' /\ Coming(c)' = Coming(c)
  BY Still, Zenon DEF StartFresh
<1>3. ASSUME NEW c \in Conns PROVE Cared(c)'
  BY Tagged, Zenon DEF StartFresh, Cared, ResyncDue
<1> QED  BY <1>1, <1>2, <1>3, Zenon

\* get_connections_handler sends one inbound its connections modified since the snapshot.
LEMMA ResyncKeeps ==
  ASSUME NInv, NEW tag \in Tags, Resync(tag)  PROVE NInv'
<1> DEFINE cs == {c \in live \cap ConnsOf(tag) : bootSince[c] # "old"}
<1> USE DEF NInv, api, agent
<1>1. /\ phase = "listen" /\ phase' # "down" /\ phase' \in {"listen", "ready"}
      /\ toSync' = toSync \ {tag}
      /\ IF cs = {} THEN UNCHANGED queue ELSE Publish("add", cs)
      /\ UNCHANGED <<api, agent, snap, owed>>
  BY Zenon DEF Resync
<1>2. cs \subseteq Conns /\ cs \subseteq live  BY Zenon DEF Typed
<1> HIDE DEF cs
<1>3. /\ queue' \in Seq(Msg)
      /\ Stopped' /\ DeletesAlone'
      /\ \A c \in Conns : Settled(c)' /\ (Coming(c) => Coming(c)') /\ (c \in cs => Coming(c)')
  <2>1. CASE cs = {}  BY <1>1, <2>1, Still, Zenon DEF Typed
  <2>2. CASE cs # {}
    <3>1. /\ queue' \in Seq(Msg)
          /\ Stopped' /\ DeletesAlone'
          /\ \A c \in Conns :
               /\ /\ Settled(c)
                  /\ \/ c \in cs /\ Wanted(c)' = "add"
                     \/ c \notin cs /\ Wanted(c)' = Wanted(c)
                  => Settled(c)'
               /\ Coming(c) => Coming(c)'
               /\ phase # "down" /\ "add" = "add" /\ c \in cs => Coming(c)'
      BY <1>1, <1>2, <2>2, Published, Zenon
    <3>2. \A c \in Conns : Wanted(c)' = Wanted(c) /\ (c \in cs => Wanted(c) = "add")
      BY <1>1, <1>2, Zenon DEF Wanted
    <3> QED  BY <1>1, <3>1, <3>2, Zenon
  <2> QED  BY <2>1, <2>2, Zenon
<1>4. Typed' /\ AddedFirst'  BY <1>1, <1>3, Zenon DEF Typed, AddedFirst
<1>5. ASSUME NEW c \in Conns PROVE Cared(c)'
  <2>1. Cared(c)  BY Zenon
  <2>2. c \in live /\ ResyncDue(c) => c \in cs \/ ResyncDue(c)'
    BY <1>1, Zenon DEF ResyncDue, cs
  <2> QED  BY <1>1, <1>3, <2>1, <2>2, Zenon DEF Cared
<1> QED  BY <1>3, <1>4, <1>5, Zenon

\* A stop leaves nothing to hold of the queue, the batch and the memory.
LEMMA StopKeeps ==
  ASSUME NInv, Stop, UNCHANGED <<api, snap>>, served' \subseteq Conns
  PROVE  NInv'
<1> USE DEF NInv, api
<1>1. queue' = <<>> /\ batch' = NoBatch /\ phase' = "down"  BY Zenon DEF Stop
<1>2. \A c \in Conns : batch'[c] = "none"  BY <1>1, Zenon DEF NoBatch
<1>3. 1..Len(queue') = {}
  <2>1. Len(queue') = 0  BY <1>1, Zenon
  <2> QED  BY <2>1
<1>4. batch' \in [Conns -> Stage]  BY <1>1, Zenon DEF NoBatch, Stage
<1>5. Typed'  BY <1>4 DEF Stop, Typed
<1>6. Stopped' /\ DeletesAlone' /\ AddedFirst'
  BY <1>1, <1>2, <1>3, Zenon DEF Stopped, DeletesAlone, AddedFirst
<1>7. \A c \in Conns : Settled(c)' /\ Cared(c)'  BY <1>1, <1>2, <1>3, Zenon DEF Settled, Cared
<1> QED  BY <1>5, <1>6, <1>7, Zenon

\* create_snapshot copies the memory and changes nothing that is served.
LEMMA TakeSnapshotKeeps ==
  ASSUME NInv, TakeSnapshot  PROVE NInv'
<1> USE DEF NInv, agent
<1>1. Typed'  BY Zenon DEF TakeSnapshot, Typed, Ages
<1>2. /\ Stopped' /\ DeletesAlone' /\ AddedFirst'
      /\ \A c \in Conns : Settled(c)' /\ Coming(c)' = Coming(c)
  BY Still, Zenon DEF TakeSnapshot
<1>3. ASSUME NEW c \in Conns PROVE Cared(c)'
  <2>1. Cared(c) /\ ResyncDue(c)' = ResyncDue(c)  BY Zenon DEF TakeSnapshot, ResyncDue
  <2> QED  BY <1>2, <2>1, Zenon DEF Cared, TakeSnapshot
<1> QED  BY <1>1, <1>2, <1>3, Zenon

\* A spawned restore task puts a connection into the backend, or fails to.
LEMMA SpawnedRestoreKeeps ==
  ASSUME NInv, NEW c \in Conns, SpawnedRestore(c) \/ SpawnedRestoreFails(c)
  PROVE  NInv'
<1> USE DEF NInv, api, boot
<1>1. /\ restoring' = restoring \ {c} /\ c \in restoring
      /\ UNCHANGED <<api, queue, batch, mem, boot>>
      /\ served \subseteq served' /\ served' \subseteq served \cup {c}
      /\ owed' \subseteq Conns
      /\ owed \subseteq owed' \cup (mem' \cap served')
      /\ c \in served' \/ c \in owed'
  BY Zenon DEF SpawnedRestore, SpawnedRestoreFails, Owe, Typed
<1>2. Typed'  BY <1>1, Zenon DEF Typed
<1>3. /\ Stopped' /\ DeletesAlone' /\ AddedFirst'
      /\ \A d \in Conns : Settled(d)' /\ Coming(d)' = Coming(d)
  BY <1>1, Still, Zenon
<1>4. ASSUME NEW d \in Conns PROVE Cared(d)'
  <2>1. Cared(d) /\ ResyncDue(d)' = ResyncDue(d)  BY <1>1, Zenon DEF ResyncDue
  <2> QED  BY <1>1, <1>3, <2>1, Zenon DEF Cared
<1> QED  BY <1>2, <1>3, <1>4, Zenon

\* run_subscriber takes the first message off the queue and starts on its connections.
LEMMA ReceiveKeeps ==
  ASSUME NInv, Receive  PROVE NInv'
<1> USE DEF NInv, api, boot
<1> DEFINE L == Len(queue)
<1>0. queue \in Seq(Msg) /\ queue # <<>> /\ queue' = Tail(queue)
  BY Zenon DEF Receive, Typed
<1>2. /\ L \in Nat /\ L > 0 /\ Len(queue') = L - 1 /\ Head(queue) = queue[1]
      /\ queue' \in Seq(Msg)
      /\ \A i \in 1..(L - 1) : queue'[i] = queue[i + 1]
  BY <1>0, TailOf, Zenon
<1>1. /\ phase # "down" /\ batch = NoBatch
      /\ batch' = [c \in Conns |-> IF c \in queue[1].conns THEN queue[1].act ELSE "none"]
      /\ UNCHANGED <<api, mem, served, restoring, boot, owed>>
  BY <1>2, Zenon DEF Receive
<1>3. 1 \in 1..L /\ queue[1].act \in {"add", "del"} /\ queue[1].conns \subseteq Conns
  BY <1>2, Messages
<1> HIDE DEF L
<1>4. Typed'
  <2>1. batch' \in [Conns -> Stage]  BY <1>1, <1>3, Zenon DEF Stage
  <2> QED  BY <1>1, <1>2, <2>1, Zenon DEF Typed
<1>5. Stopped' /\ AddedFirst'  BY <1>1, <1>3, Zenon DEF Stopped, AddedFirst
<1>6. DeletesAlone'
  <2>1. ASSUME NEW i \in 1..Len(queue'), queue'[i].act = "del",
               NEW c \in queue'[i].conns, NEW d \in queue'[i].conns
        PROVE  c = d
    <3>1. i + 1 \in 1..L /\ queue'[i] = queue[i + 1]  BY <1>2
    <3> QED  BY <2>1, <3>1, Zenon DEF DeletesAlone, L
  <2>2. ASSUME NEW c \in Conns, NEW d \in Conns, batch'[c] \in {"del", "delMem"}, c # d
        PROVE  batch'[d] = "none"
    <3>1. queue[1].act = "del" /\ c \in queue[1].conns  BY <1>1, <1>3, <2>2, Zenon
    <3>2. d \notin queue[1].conns  BY <1>3, <2>2, <3>1, Zenon DEF DeletesAlone, L
    <3> QED  BY <1>1, <3>2, Zenon
  <2> QED  BY <2>1, <2>2, Zenon DEF DeletesAlone
<1>7. ASSUME NEW c \in Conns, NEW i \in 1..L, NEW a, Later(i, a, c)
      PROVE  Later(i - 1, a, c)'
  <2>1. PICK j \in 1..L : j > i /\ queue[j].act = a /\ c \in queue[j].conns
    BY <1>7, Zenon DEF Later, L
  <2>2. PICK k \in 1..(L - 1) : k + 1 = j
    <3>1. j - 1 \in 1..(L - 1) /\ (j - 1) + 1 = j  BY <1>2, <2>1
    <3> QED  BY <3>1, Zenon
  <2>3. k \in 1..Len(queue') /\ k > i - 1  BY <1>2, <2>1, <2>2
  <2>4. queue'[k] = queue[j]  BY <1>2, <2>2, Zenon
  <2> QED  BY <2>1, <2>3, <2>4, Zenon DEF Later
<1>8. ASSUME NEW c \in Conns PROVE Settled(c)'
  <2>1. Settled(c) /\ Wanted(c)' = Wanted(c)  BY <1>1, Zenon DEF Wanted
  <2>2. ASSUME NEW i \in 1..Len(queue'), c \in queue'[i].conns, queue'[i].act # Wanted(c)
        PROVE  Later(i, Wanted(c), c)'
    <3>1. i + 1 \in 1..L /\ queue'[i] = queue[i + 1] /\ (i + 1) - 1 = i  BY <1>2
    <3>2. Later(i + 1, Wanted(c), c)  BY <2>1, <2>2, <3>1, Zenon DEF Settled, L
    <3>3. Later((i + 1) - 1, Wanted(c), c)'  BY <3>1, <3>2, <1>7, <2>1, Zenon
    <3> QED  BY <3>1, <3>3, Zenon
  <2>3. ASSUME batch'[c] # "none", ActOf(batch'[c]) # Wanted(c)
        PROVE  Later(0, Wanted(c), c)'
    <3>1. c \in queue[1].conns /\ queue[1].act # Wanted(c)
      BY <1>1, <1>3, <2>3, Zenon DEF ActOf
    <3>2. Later(1, Wanted(c), c)  BY <1>3, <2>1, <3>1, Zenon DEF Settled, L
    <3>3. Later(1 - 1, Wanted(c), c)'  BY <1>3, <1>7, <2>1, <3>2, Zenon
    <3> QED  BY <3>3
  <2> QED  BY <2>1, <2>2, <2>3, Zenon DEF Settled
<1>9. ASSUME NEW c \in Conns, Coming(c) PROVE Coming(c)'
  <2>1. batch[c] = "none"  BY <1>1, Zenon DEF NoBatch
  <2>2. PICK j \in 1..L : queue[j].act = "add" /\ c \in queue[j].conns
    BY <1>9, <2>1, Zenon DEF Coming, Later, L
  <2>3. CASE j = 1  BY <1>1, <2>2, <2>3, Zenon DEF Coming
  <2>4. CASE j # 1
    <3>1. /\ j - 1 \in 1..Len(queue') /\ j - 1 > 0
          /\ queue'[j - 1] = queue[(j - 1) + 1] /\ (j - 1) + 1 = j
      BY <1>2, <2>4
    <3> QED  BY <2>2, <3>1, Zenon DEF Coming, Later
  <2> QED  BY <2>3, <2>4, Zenon
<1>10. ASSUME NEW c \in Conns PROVE Cared(c)'
  <2>1. Cared(c) /\ ResyncDue(c)' = ResyncDue(c)  BY <1>1, Zenon DEF ResyncDue
  <2> QED  BY <1>1, <1>9, <2>1, Zenon DEF Cared
<1> QED  BY <1>4, <1>5, <1>6, <1>8, <1>10, Zenon

\* A step of the handling of c that takes nothing from memory and backend, or
\* takes c from them for a Delete.
LEMMA HandledKeeps ==
  ASSUME NInv, NEW c \in Conns, batch[c] # "none", NEW x \in Stage,
         x = "none" \/ ActOf(x) = ActOf(batch[c]),
         batch' = [batch EXCEPT ![c] = x],
         UNCHANGED <<api, queue, restoring, boot>>,
         mem' \subseteq Conns, served' \subseteq Conns, owed' \subseteq Conns,
         mem \ {c} \subseteq mem', served \ {c} \subseteq served',
         owed \subseteq owed' \cup (mem' \cap served'),
         x = "addMem" => c \in served',
         \/ batch[c] \in {"add", "addMem"} /\ c \in mem' \cap served'
         \/ x \in {"add", "addMem"}
         \/ batch[c] \in {"del", "delMem"}
         \/ c \in owed'
  PROVE  NInv'
<1> USE DEF NInv, api, boot
<1>1. /\ batch' \in [Conns -> Stage]
      /\ batch'[c] = x /\ \A d \in Conns \ {c} : batch'[d] = batch[d]
      /\ Stopped' /\ DeletesAlone'
      /\ \A d \in Conns : Settled(d)'
  BY Handled, Zenon
<1>2. Typed' /\ AddedFirst'  BY <1>1, Zenon DEF Typed, AddedFirst
<1>3. \A d \in Conns, i \in Nat, a \in {"add", "del"} : Later(i, a, d)' = Later(i, a, d)
  BY Zenon DEF Later
<1>4. ASSUME NEW d \in Conns PROVE Cared(d)'
  <2>1. Cared(d) /\ ResyncDue(d)' = ResyncDue(d)  BY Zenon DEF ResyncDue
  <2>2. CASE d # c
    BY <1>1, <1>3, <2>1, <2>2, Zenon DEF Cared, Coming
  <2>3. CASE d = c
    <3>1. CASE c \in mem' \cap served'  BY <2>3, <3>1, Zenon DEF Cared
    <3>2. CASE x \in {"add", "addMem"}  BY <1>1, <2>3, <3>2, Zenon DEF Cared, Coming
    <3>3. CASE batch[c] \in {"del", "delMem"}
      <4>1. c \in live => Later(0, "add", c)
        BY <3>3, Zenon DEF Settled, Wanted, ActOf
      <4> QED  BY <1>3, <2>3, <4>1, Zenon DEF Cared, Coming
    <3>4. CASE c \in owed'  BY <2>3, <3>4, Zenon DEF Cared
    <3> QED  BY <3>1, <3>2, <3>3, <3>4, Zenon
  <2> QED  BY <2>2, <2>3, Zenon
<1> QED  BY <1>1, <1>2, <1>4, Zenon

\* A step of handle_messages_batch for one connection, or the end of the batch at its error.
LEMMA HandleKeeps ==
  ASSUME NInv, NEW c \in Conns, Handle(c)  PROVE NInv'
<1> USE DEF api, boot
<1>0. /\ Typed /\ batch \in [Conns -> Stage]
      /\ mem \subseteq Conns /\ served \subseteq Conns /\ owed \subseteq Conns
  BY Zenon DEF NInv, Typed
<1>1. CASE DropBatch /\ UNCHANGED <<api, queue, restoring, boot>>
           /\ mem \subseteq mem' /\ mem' \subseteq Conns
           /\ served \subseteq served' /\ served' \subseteq Conns
  <2>1. /\ owed' \subseteq Conns /\ batch' \in [Conns -> Stage]
        /\ Stopped' /\ DeletesAlone' /\ AddedFirst'
        /\ \A d \in Conns : Settled(d)' /\ Cared(d)'
    BY <1>1, Dropped, Zenon
  <2>2. Typed'  BY <1>0, <1>1, <2>1, Zenon DEF Typed
  <2> QED  BY <2>1, <2>2, Zenon DEF NInv
<1>2. CASE WgAdd(c)
  <2>1. CASE c \in served  BY <1>0, <1>1, <1>2, <2>1, Zenon DEF WgAdd
  <2>2. CASE c \notin served
    <3>1. /\ batch[c] = "add" /\ batch' = [batch EXCEPT ![c] = "none"]
          /\ mem' = mem \cup {c} /\ served' = served \cup {c}
          /\ owed' = owed \ (mem' \cap served')
          /\ UNCHANGED <<api, queue, restoring, boot>>
      BY <1>2, <2>2, Zenon DEF WgAdd, Owe
    <3> QED  BY <1>0, <3>1, HandledKeeps, Zenon DEF Stage
  <2> QED  BY <2>1, <2>2, Zenon
<1>3. CASE WgAddFails(c)  BY <1>0, <1>1, <1>3, Zenon DEF WgAddFails
<1>4. CASE XrayAdd(c)
  <2>1. CASE c \in served  BY <1>0, <1>1, <1>4, <2>1, Zenon DEF XrayAdd
  <2>2. CASE c \notin served
    <3>1. /\ batch[c] = "add" /\ batch' = [batch EXCEPT ![c] = "addMem"]
          /\ mem' = mem /\ served' = served \cup {c} /\ owed' = owed
          /\ UNCHANGED <<api, queue, restoring, boot>>
      BY <1>4, <2>2, Zenon DEF XrayAdd
    <3> QED  BY <1>0, <3>1, HandledKeeps, Zenon DEF Stage, ActOf
  <2> QED  BY <2>1, <2>2, Zenon
<1>5. CASE XrayAddFails(c)  BY <1>0, <1>1, <1>5, Zenon DEF XrayAddFails
<1>6. CASE XrayAddMem(c)
  <2>1. /\ batch[c] = "addMem" /\ batch' = [batch EXCEPT ![c] = "none"]
        /\ mem' = mem \cup {c} /\ served' = served
        /\ owed' = owed \ (mem' \cap served')
        /\ UNCHANGED <<api, queue, restoring, boot>>
    BY <1>6, Zenon DEF XrayAddMem, Owe
  <2>2. c \in served  BY <2>1, Zenon DEF NInv, AddedFirst
  <2> QED  BY <1>0, <2>1, <2>2, HandledKeeps, Zenon DEF Stage
<1>7. CASE Remove(c)
  <2>1. /\ batch[c] = "del" /\ batch' = [batch EXCEPT ![c] = "delMem"]
        /\ mem' = mem /\ served' = served \ {c} /\ owed' = owed
        /\ UNCHANGED <<api, queue, restoring, boot>>
    BY <1>7, Zenon DEF Remove
  <2> QED  BY <1>0, <2>1, HandledKeeps, Zenon DEF Stage, ActOf
<1>8. CASE WgRemoveFails(c)  BY <1>0, <1>1, <1>8, Zenon DEF WgRemoveFails
<1>9. CASE XrayRemoveFails(c)
  <2>1. /\ batch[c] = "del" /\ batch' = [batch EXCEPT ![c] = "delMem"]
        /\ mem' = mem /\ served' = served /\ owed' = owed
        /\ UNCHANGED <<api, queue, restoring, boot>>
    BY <1>9, Zenon DEF XrayRemoveFails
  <2> QED  BY <1>0, <2>1, HandledKeeps, Zenon DEF Stage, ActOf
<1>10. CASE RemoveMem(c)
  <2>1. /\ batch[c] = "delMem" /\ batch' = [batch EXCEPT ![c] = "none"]
        /\ mem' = mem \ {c} /\ served' = served /\ owed' = owed
        /\ UNCHANGED <<api, queue, restoring, boot>>
    BY <1>10, Zenon DEF RemoveMem
  <2> QED  BY <1>0, <2>1, HandledKeeps, Zenon DEF Stage, ActOf
<1> QED  BY <1>2, <1>3, <1>4, <1>5, <1>6, <1>7, <1>8, <1>9, <1>10, Zenon DEF Handle

-----------------------------------------------------------------------------
\* Every step of the agent and of the API keeps NInv.
THEOREM NInvInductive == NInv /\ [Next]_vars => NInv'
<1> SUFFICES ASSUME NInv, [Next]_vars PROVE NInv'  BY Zenon
<1>1. CASE UNCHANGED vars
  BY <1>1 DEF vars, api, agent, boot, NInv, Typed, Stopped, DeletesAlone, AddedFirst,
              Settled, Later, Wanted, Cared, Coming, ResyncDue
<1>2. CASE Api
  BY <1>2, ApiCreateKeeps, ApiDeleteKeeps, ApiRestoreKeeps, ApiDbSyncKeeps, Zenon DEF Api
<1>3. CASE Start \/ StartFresh  BY <1>3, StartKeeps, StartFreshKeeps, Zenon
<1>4. CASE \E tag \in Tags : Resync(tag)  BY <1>4, ResyncKeeps, Zenon
<1>5. CASE ResyncFails \/ Crash \/ Reboot
  <2>1. Stop /\ UNCHANGED <<api, snap>> /\ served' \subseteq Conns
    BY <1>5, Zenon DEF ResyncFails, Crash, Reboot, NInv, Typed
  <2> QED  BY <2>1, StopKeeps, Zenon
<1>6. CASE TakeSnapshot  BY <1>6, TakeSnapshotKeeps, Zenon
<1>7. CASE Restores  BY <1>7, SpawnedRestoreKeeps, Zenon DEF Restores
<1>8. CASE Subscriber  BY <1>8, ReceiveKeeps, HandleKeeps, Zenon DEF Subscriber
<1> QED  BY <1>1, <1>2, <1>3, <1>4, <1>5, <1>6, <1>7, <1>8, Zenon DEF Next

\* A stopped agent with an empty queue satisfies NInv.
LEMMA NInvInit == Init => NInv
<1> SUFFICES ASSUME Init PROVE NInv  BY Zenon
<1>1. queue = <<>> /\ batch = NoBatch /\ phase = "down" /\ live = {}  BY Zenon DEF Init
<1>2. \A c \in Conns : batch[c] = "none"  BY <1>1, Zenon DEF NoBatch
<1>3. 1..Len(queue) = {}
  <2>1. Len(queue) = 0  BY <1>1, Zenon
  <2> QED  BY <2>1
<1>4. batch \in [Conns -> Stage]  BY <1>1, Zenon DEF NoBatch, Stage
<1>5. Typed  BY <1>4 DEF Init, Typed, Ages
<1>6. Stopped /\ DeletesAlone /\ AddedFirst
  BY <1>1, <1>2, <1>3, Zenon DEF Stopped, DeletesAlone, AddedFirst
<1>7. \A c \in Conns : Settled(c) /\ Cared(c)  BY <1>1, <1>2, <1>3, Zenon DEF Settled, Cared
<1> QED  BY <1>5, <1>6, <1>7, Zenon DEF NInv

\* NInv holds throughout.
THEOREM NInvAlways == Spec => []NInv
<1> QED  BY NInvInit, NInvInductive, PTL DEF Spec

\* What is coming is in Adds.
LEMMA ComingAdds ==
  ASSUME Typed, NEW c \in Conns, Coming(c)  PROVE c \in Adds
<1>1. CASE batch[c] \in {"add", "addMem"}  BY <1>1, Zenon DEF Adds
<1>2. CASE Later(0, "add", c)
  <2>1. PICK j \in 1..Len(queue) : queue[j].act = "add" /\ c \in queue[j].conns
    BY <1>2, Zenon DEF Later
  <2>2. queue[j] \in {d \in {queue[i] : i \in 1..Len(queue)} : d.act = "add"}  BY <2>1, Zenon
  <2> QED  BY <2>1, <2>2, Zenon DEF Adds
<1> QED  BY <1>1, <1>2, Zenon DEF Coming

\* ServedOrOwed, for every agent: memory and backends have what is live, or are
\* about to, or the add is one that failed, was cancelled or fell into the gap
\* of the snapshot.
THEOREM ServedOrAccounted == Spec => []ServedOrOwed
<1>1. ASSUME NInv PROVE ServedOrOwed
  <2>1. ASSUME phase # "down", NEW c \in live \ (mem \cap served)
        PROVE  c \in Adds \cup restoring \cup owed \/ ResyncDue(c)
    <3>1. c \in Conns /\ Typed /\ Cared(c)  BY <1>1, Zenon DEF NInv, Typed
    <3>2. Coming(c) => c \in Adds  BY <3>1, ComingAdds, Zenon
    <3> QED  BY <2>1, <3>1, <3>2, Zenon DEF Cared
  <2> QED  BY <2>1, Zenon DEF ServedOrOwed
<1> QED  BY <1>1, NInvAlways, PTL

-----------------------------------------------------------------------------
(* StaleOrigin.                                                            *)

\* The steps StaleOrigin allows to leave a deleted connection served.
LeavesStale(c) ==
  \/ phase = "down" /\ ApiDelete(c)
  \/ ResyncFails \/ Crash
  \/ WgRemoveFails(c) \/ XrayRemoveFails(c)
  \/ SpawnedRestore(c)

NoMessage(c) == \A i \in 1..Len(queue) : c \notin queue[i].conns

\* A publication does not take messages away, and one that is sent can be seen.
LEMMA NoMessageBefore ==
  ASSUME Typed, NEW c \in Conns, NEW act \in {"add", "del"}, NEW cs \in SUBSET Conns,
         Publish(act, cs), NoMessage(c)'
  PROVE  NoMessage(c) /\ (phase # "down" => c \notin cs)
<1>1. CASE phase = "down"  BY <1>1, Zenon DEF Publish, NoMessage
<1>2. CASE phase # "down"
  <2>1. queue' = Append(queue, [act |-> act, conns |-> cs])  BY <1>2, Zenon DEF Publish
  <2>2. /\ Len(queue') = Len(queue) + 1 /\ Len(queue) \in Nat
        /\ \A i \in 1..Len(queue) : queue'[i] = queue[i]
        /\ queue'[Len(queue) + 1] = [act |-> act, conns |-> cs]
    BY <2>1, Appended, Zenon
  <2>3. NoMessage(c)  BY <2>2 DEF NoMessage
  <2>4. Len(queue) + 1 \in 1..Len(queue')  BY <2>2
  <2>5. c \notin cs  BY <2>2, <2>4 DEF NoMessage
  <2> QED  BY <2>3, <2>5, Zenon
<1> QED  BY <1>1, <1>2, Zenon

\* Stale, conjunct by conjunct.
LEMMA StaleIs ==
  ASSUME NEW c \in Conns
  PROVE  /\ Stale(c) <=> /\ c \in served /\ c \notin live
                         /\ batch[c] \notin {"add", "addMem", "del"}
                         /\ NoMessage(c)
         /\ Stale(c)' <=> /\ c \in served' /\ c \notin live'
                          /\ batch'[c] \notin {"add", "addMem", "del"}
                          /\ NoMessage(c)'
<1> QED  BY Zenon DEF Stale, NoMessage

\* A message that is received is being handled.
LEMMA ReceiveStale ==
  ASSUME Typed, NEW c \in Conns, Receive, NoMessage(c)',
         batch'[c] \notin {"add", "addMem", "del"}
  PROVE  NoMessage(c) /\ batch[c] = "none"
<1>1. queue \in Seq(Msg) /\ queue # <<>> /\ queue' = Tail(queue)
  BY Zenon DEF Receive, Typed
<1>2. /\ Len(queue) \in Nat /\ Len(queue) > 0 /\ Len(queue') = Len(queue) - 1
      /\ Head(queue) = queue[1]
      /\ \A i \in 1..(Len(queue) - 1) : queue'[i] = queue[i + 1]
  BY <1>1, TailOf, Zenon
<1>3. c \notin queue[1].conns
  <2>1. 1 \in 1..Len(queue)  BY <1>2
  <2>2. queue[1].act \in {"add", "del"}  BY <2>1, Messages, Zenon
  <2>3. batch'[c] = IF c \in queue[1].conns THEN queue[1].act ELSE "none"
    BY <1>2, Zenon DEF Receive
  <2> QED  BY <2>2, <2>3, Zenon
<1>4. ASSUME NEW i \in 1..Len(queue) PROVE c \notin queue[i].conns
  <2>1. CASE i = 1  BY <1>3, <2>1, Zenon
  <2>2. CASE i # 1
    <3>1. PICK k \in 1..(Len(queue) - 1) : k + 1 = i
      <4>1. i - 1 \in 1..(Len(queue) - 1) /\ (i - 1) + 1 = i  BY <1>2, <2>2
      <4> QED  BY <4>1, Zenon
    <3>2. k \in 1..Len(queue') /\ queue'[k] = queue[i]  BY <1>2, <3>1, Zenon
    <3> QED  BY <3>2, Zenon DEF NoMessage
  <2> QED  BY <2>1, <2>2, Zenon
<1>5. batch[c] = "none"  BY Zenon DEF Receive, NoBatch
<1> QED  BY <1>4, <1>5, Zenon DEF NoMessage

\* Of the handling, only a removal that fails leaves something stale: an add of a
\* deleted connection is followed by its Delete, and a Delete is lost to nobody
\* else's error because it is alone.
LEMMA HandleStale ==
  ASSUME NInv, NEW c \in Conns, NEW d \in Conns, Handle(d),
         c \in served', c \notin live', NoMessage(c)', ~Stale(c)
  PROVE  WgRemoveFails(c) \/ XrayRemoveFails(c)
<1>1. UNCHANGED <<queue, live>> /\ batch[d] # "none"
  BY Zenon DEF Handle, WgAdd, WgAddFails, XrayAdd, XrayAddFails, XrayAddMem, Remove,
               WgRemoveFails, XrayRemoveFails, RemoveMem, api
<1>2. NoMessage(c) /\ c \notin live  BY <1>1, Zenon DEF NoMessage
<1>3. batch[c] \notin {"add", "addMem"}
  <2>1. ~Later(0, "del", c)  BY <1>2, Zenon DEF Later, NoMessage
  <2> QED  BY <1>2, <2>1, Zenon DEF NInv, Settled, Wanted, ActOf
<1>4. CASE batch[c] = "del"
  <2>1. d = c  BY <1>1, <1>4, Zenon DEF NInv, DeletesAlone
  <2> QED  BY <1>4, <2>1, Zenon DEF Handle, WgAdd, WgAddFails, XrayAdd, XrayAddFails, XrayAddMem,
                                    Remove, RemoveMem
<1>5. CASE batch[c] # "del"
  <2>1. c \notin served  BY <1>2, <1>3, <1>5, StaleIs, Zenon
  <2> QED  BY <1>3, <1>5, <2>1, Zenon DEF Handle, WgAdd, WgAddFails, XrayAdd, XrayAddFails,
              XrayAddMem, Remove, WgRemoveFails, XrayRemoveFails, RemoveMem
<1> QED  BY <1>4, <1>5, Zenon

\* The API's steps: a Delete that is published can be seen in the queue.
LEMMA ApiStale ==
  ASSUME NInv, NEW c \in Conns, NEW d \in Conns,
         ApiCreate(d) \/ ApiDelete(d) \/ ApiRestore(d), Stale(c)', ~Stale(c)
  PROVE  phase = "down" /\ ApiDelete(c)
<1>1. c \in served /\ batch[c] \notin {"add", "addMem", "del"} /\ c \notin live'
  BY StaleIs, Zenon DEF ApiCreate, ApiDelete, ApiRestore, agent
<1>2. ASSUME NEW act \in {"add", "del"}, Publish(act, {d})
      PROVE  NoMessage(c) /\ (phase # "down" => c # d)
  BY <1>2, StaleIs, NoMessageBefore, Zenon DEF NInv
<1>3. NoMessage(c) /\ (phase # "down" => c # d)
  BY <1>2, Zenon DEF ApiCreate, ApiDelete, ApiRestore
<1>4. c \in live  BY <1>1, <1>3, StaleIs, Zenon
<1>5. ApiDelete(d) /\ c = d  BY <1>1, <1>4, Zenon DEF ApiCreate, ApiDelete, ApiRestore
<1> QED  BY <1>3, <1>5, Zenon

\* A resync publishes and does nothing else.
LEMMA ResyncStale ==
  ASSUME NInv, NEW c \in Conns, NEW tag \in Tags, Resync(tag), Stale(c)'
  PROVE  Stale(c)
<1> DEFINE cs == {d \in live \cap ConnsOf(tag) : bootSince[d] # "old"}
<1>1. /\ UNCHANGED <<live, served, batch>>
      /\ IF cs = {} THEN UNCHANGED queue ELSE Publish("add", cs)
  BY Zenon DEF Resync, api, agent
<1>2. cs \in SUBSET Conns  BY Zenon DEF NInv, Typed
<1> HIDE DEF cs
<1>3. NoMessage(c)
  <2>1. CASE cs = {}  BY <1>1, <2>1, StaleIs, Zenon DEF NoMessage
  <2>2. CASE cs # {}  BY <1>1, <1>2, <2>2, StaleIs, NoMessageBefore, Zenon DEF NInv
  <2> QED  BY <2>1, <2>2, Zenon
<1> QED  BY <1>1, <1>3, StaleIs, Zenon

\* The steps that change nothing Stale speaks of, or only take from the backends.
LEMMA UntouchedStale ==
  ASSUME NEW c \in Conns, Stale(c)', UNCHANGED <<queue, live, batch>>,
         c \in served' => c \in served
  PROVE  Stale(c)
<1> QED  BY StaleIs, Zenon DEF NoMessage

\* No other step leaves a deleted connection served.
LEMMA StaleStep ==
  ASSUME NInv, [Next]_vars, NEW c \in Conns, Stale(c)', ~Stale(c)
  PROVE  LeavesStale(c)
<1>1. CASE UNCHANGED vars
  BY <1>1, UntouchedStale, Zenon DEF vars, api, agent
<1>2. CASE Api
  <2>1. ~ApiDbSync  BY UntouchedStale, Zenon DEF ApiDbSync, agent
  <2> QED  BY <1>2, <2>1, ApiStale, Zenon DEF Api, LeavesStale
<1>3. CASE Start \/ StartFresh \/ TakeSnapshot
  BY <1>3, UntouchedStale, Zenon DEF Start, StartFresh, TakeSnapshot, agent
<1>4. CASE \E tag \in Tags : Resync(tag)  BY <1>4, ResyncStale, Zenon
<1>5. CASE ResyncFails \/ Crash  BY <1>5, Zenon DEF LeavesStale
<1>6. CASE Reboot  BY <1>6, StaleIs, Zenon DEF Reboot
<1>7. CASE Restores
  <2>1. PICK d \in Conns : SpawnedRestore(d) \/ SpawnedRestoreFails(d)  BY <1>7, Zenon DEF Restores
  <2>2. ~SpawnedRestoreFails(d)  BY UntouchedStale, Zenon DEF SpawnedRestoreFails, api
  <2>3. SpawnedRestore(d) => d = c  BY UntouchedStale, Zenon DEF SpawnedRestore, api
  <2> QED  BY <2>1, <2>2, <2>3, Zenon DEF LeavesStale
<1>8. CASE Receive
  <2>1. UNCHANGED <<live, served>>  BY <1>8, Zenon DEF Receive, api
  <2>2. NoMessage(c) /\ batch[c] = "none"  BY <1>8, StaleIs, ReceiveStale, Zenon DEF NInv
  <2> QED  BY <2>1, <2>2, StaleIs, Zenon
<1>9. ASSUME NEW d \in Conns, Handle(d) PROVE LeavesStale(c)
  <2>1. WgRemoveFails(c) \/ XrayRemoveFails(c)  BY <1>9, StaleIs, HandleStale, Zenon
  <2> QED  BY <2>1, Zenon DEF LeavesStale
<1> QED  BY <1>1, <1>2, <1>3, <1>4, <1>5, <1>6, <1>7, <1>8, <1>9, Zenon DEF Next, Subscriber

\* StaleOrigin, for every agent: only a Delete that is lost or fails, or a restore
\* task that overtakes one, leaves a deleted connection served.
THEOREM StaleOnlyByCauses == Spec => StaleOrigin
<1>1. NInv /\ [Next]_vars => [\A c \in Conns : Stale(c)' /\ ~Stale(c) => LeavesStale(c)]_vars
  BY StaleStep, Zenon
<1> QED  BY <1>1, NInvAlways, PTL DEF Spec, StaleOrigin, LeavesStale
=============================================================================
