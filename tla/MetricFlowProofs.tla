-------------------------- MODULE MetricFlowProofs ---------------------------
(* Proofs that the points an agent measures reach the API once and in       *)
(* order, and that a counter only falls there for a reason, for any sources,*)
(* system series, and number of points, connection changes and mishaps.     *)
EXTENDS MetricFlow, TLAPS

\* The names of the system's series, and a point of either kind.
Names == {System[i] : i \in 1..Len(System)} \ Sources
Point == [src : Names \cup Sources, time : Nat, val : Nat]

\* The types of MetricFlow's variables.
FlowTyped ==
  /\ counter \in [Sources -> Nat]
  /\ conns \subseteq Sources
  /\ task \in [stage : {"idle", "system", "inbounds", "users", "wg"},
               system : Seq(Names), left : SUBSET Sources]
  /\ batch \in Seq(Point) /\ taken \in Seq(Point) /\ got \in Seq(Point)
  /\ wire \in Seq(Seq(Point))
  /\ clock \in Nat

\* A batch in the order of its times, and one set of times before another.
Ordered(q) == \A i, j \in 1..Len(q) : i < j => q[i].time < q[j].time
Before(S, T) == \A s \in S, t \in T : s < t

\* Stages g, w, t and b hold the times in order, each within itself and all one after
\* another.
InChain(g, w, t, b) ==
  /\ Ordered(g) /\ Ordered(t) /\ Ordered(b)
  /\ \A i \in 1..Len(w) :
       /\ Ordered(w[i])
       /\ Before(Times(g), Times(w[i]))
       /\ Before(Times(w[i]), Times(t)) /\ Before(Times(w[i]), Times(b))
       /\ \A j \in 1..Len(w) : i < j => Before(Times(w[i]), Times(w[j]))
  /\ Before(Times(g), Times(t)) /\ Before(Times(g), Times(b)) /\ Before(Times(t), Times(b))

\* The stages of MetricFlow are in order.
Chain == InChain(got, wire, taken, batch)

\* Every time up to now is that of a point on its way or of one that was dropped.
Wired(w) == UNION {Times(w[i]) : i \in 1..Len(w)}
\* The times at the stages, and the claim.
InPlace == Times(got) \cup OnWire \cup Times(taken) \cup Times(batch)
Placed == InPlace \cap lost = {} /\ InPlace \cup lost = 0..(clock - 1)

\* The inductive invariant.
FInv == FlowTyped /\ Chain /\ Placed

-----------------------------------------------------------------------------
\* There is no time in no batch.
LEMMA Nothing ==
  /\ 1..Len(<<>>) = {} /\ Times(<<>>) = {} /\ Ordered(<<>>)
  /\ \A S : Before(S, Times(<<>>)) /\ Before(Times(<<>>), S)
<1>1. 1..Len(<<>>) = {}
  OBVIOUS
<1>2. Times(<<>>) = {} /\ Ordered(<<>>)
  BY <1>1, Zenon DEF Times, Ordered
<1>. QED
  BY <1>1, <1>2, Zenon DEF Before

\* The times of a batch, and of one that grows.
LEMMA TimesGrown ==
  ASSUME NEW q \in Seq(Point)
  PROVE  /\ Times(q) \subseteq Nat
         /\ \A p \in Point : Times(Append(q, p)) = Times(q) \cup {p.time}
<1>3. \A i \in 1..Len(q) : q[i] \in Point
  OBVIOUS
<1>4. Times(q) \subseteq Nat
  BY <1>3, Zenon DEF Point, Times
<1>5. ASSUME NEW p \in Point
      PROVE  Times(Append(q, p)) = Times(q) \cup {p.time}
  <2>1. /\ Len(q) \in Nat /\ Len(Append(q, p)) = Len(q) + 1
        /\ Append(q, p)[Len(q) + 1] = p
        /\ \A i \in 1..Len(q) : Append(q, p)[i] = q[i]
    OBVIOUS
  <2>. QED
    BY <2>1 DEF Times
<1>. QED
  BY <1>4, <1>5, Zenon

\* The times of two batches in a row.
LEMMA TimesJoined ==
  ASSUME NEW q \in Seq(Point), NEW r \in Seq(Point)
  PROVE  Times(q \o r) = Times(q) \cup Times(r)
<1>1. /\ Len(q) \in Nat /\ Len(r) \in Nat /\ Len(q \o r) = Len(q) + Len(r)
      /\ \A i \in 1..Len(q) : (q \o r)[i] = q[i]
      /\ \A i \in 1..Len(r) : (q \o r)[i + Len(q)] = r[i]
  OBVIOUS
<1>2. /\ \A i \in 1..Len(q \o r) :
           i \in 1..Len(q) \/ (i - Len(q) \in 1..Len(r) /\ i = (i - Len(q)) + Len(q))
      /\ \A i \in 1..Len(r) : i + Len(q) \in 1..Len(q \o r)
  BY <1>1
<1>3. \A i \in 1..Len(q \o r) : (q \o r)[i].time \in Times(q) \cup Times(r)
  BY <1>1, <1>2 DEF Times
<1>4. \A i \in 1..Len(q) : q[i].time \in Times(q \o r)
  BY <1>1 DEF Times
<1>5. \A i \in 1..Len(r) : r[i].time \in Times(q \o r)
  BY <1>1, <1>2, Zenon DEF Times
<1>. QED
  BY <1>3, <1>4, <1>5, Zenon DEF Times

\* A batch stays in order when a later point follows.
LEMMA OrderGrown ==
  ASSUME NEW q \in Seq(Point), NEW p \in Point, Ordered(q), Before(Times(q), {p.time})
  PROVE  Ordered(Append(q, p))
<1>1. /\ Len(q) \in Nat /\ Len(Append(q, p)) = Len(q) + 1
      /\ Append(q, p)[Len(q) + 1] = p
      /\ \A i \in 1..Len(q) : Append(q, p)[i] = q[i]
  OBVIOUS
<1>2. \A i \in 1..Len(q) : q[i].time < p.time
  BY Zenon DEF Before, Times
<1>3. SUFFICES ASSUME NEW i \in 1..(Len(q) + 1), NEW j \in 1..(Len(q) + 1), i < j
               PROVE  Append(q, p)[i].time < Append(q, p)[j].time
  BY <1>1, Zenon DEF Ordered
<1>4. i \in 1..Len(q) /\ (j \in 1..Len(q) \/ j = Len(q) + 1)
  BY <1>1, <1>3
<1>. QED
  BY <1>1, <1>2, <1>3, <1>4, Zenon DEF Ordered

\* Two batches in a row are in order when each is and the second is later.
LEMMA OrderJoined ==
  ASSUME NEW q \in Seq(Point), NEW r \in Seq(Point),
         Ordered(q), Ordered(r), Before(Times(q), Times(r))
  PROVE  Ordered(q \o r)
<1>1. /\ Len(q) \in Nat /\ Len(r) \in Nat /\ Len(q \o r) = Len(q) + Len(r)
      /\ \A i \in 1..Len(q) : (q \o r)[i] = q[i]
      /\ \A i \in (Len(q) + 1)..(Len(q) + Len(r)) : (q \o r)[i] = r[i - Len(q)]
  OBVIOUS
<1>2. \A i \in 1..Len(q), j \in 1..Len(r) : q[i].time < r[j].time
  BY Zenon DEF Before, Times
<1>3. SUFFICES ASSUME NEW i \in 1..(Len(q) + Len(r)), NEW j \in 1..(Len(q) + Len(r)), i < j
               PROVE  (q \o r)[i].time < (q \o r)[j].time
  BY <1>1, Zenon DEF Ordered
<1>4. \/ i \in 1..Len(q) /\ j \in 1..Len(q)
      \/ i \in 1..Len(q) /\ j \in (Len(q) + 1)..(Len(q) + Len(r)) /\ j - Len(q) \in 1..Len(r)
      \/ /\ i \in (Len(q) + 1)..(Len(q) + Len(r)) /\ j \in (Len(q) + 1)..(Len(q) + Len(r))
         /\ i - Len(q) \in 1..Len(r) /\ j - Len(q) \in 1..Len(r) /\ i - Len(q) < j - Len(q)
  BY <1>1, <1>3
<1>. QED
  BY <1>1, <1>2, <1>3, <1>4, Zenon DEF Ordered

\* What the stages are.
LEMMA StagesAre ==
  ASSUME FlowTyped
  PROVE  /\ Len(wire) \in Nat /\ Len(Stages) = Len(wire) + 3
         /\ Stages[1] = got
         /\ \A i \in 2..(Len(wire) + 1) : Stages[i] = wire[i - 1]
         /\ Stages[Len(wire) + 2] = taken /\ Stages[Len(wire) + 3] = batch
<1>. DEFINE S == Seq(Point)
<1>1. wire \in Seq(S) /\ got \in S /\ taken \in S /\ batch \in S
  BY Zenon DEF FlowTyped
<1>. HIDE DEF S
<1>2. /\ <<got>> \in Seq(S) /\ Len(<<got>>) = 1 /\ <<got>>[1] = got
      /\ <<taken, batch>> \in Seq(S) /\ Len(<<taken, batch>>) = 2
      /\ <<taken, batch>>[1] = taken /\ <<taken, batch>>[2] = batch
      /\ Len(wire) \in Nat
  BY <1>1
<1>3. PICK u : u = <<got>> \o wire
  BY Zenon
<1>4. /\ u \in Seq(S) /\ Len(u) = Len(wire) + 1 /\ u[1] = got
      /\ \A i \in 2..(Len(wire) + 1) : u[i] = wire[i - 1]
  BY <1>1, <1>2, <1>3
<1>5. PICK v : v = <<taken, batch>>
  BY Zenon
<1>6. /\ Len(u \o v) = Len(u) + 2
      /\ \A i \in 1..Len(u) : (u \o v)[i] = u[i]
      /\ (u \o v)[Len(u) + 1] = v[1] /\ (u \o v)[Len(u) + 2] = v[2]
  BY <1>2, <1>4, <1>5
<1>7. Stages = u \o v
  BY <1>3, <1>5, Zenon DEF Stages
<1>. QED
  BY <1>2, <1>4, <1>5, <1>6, <1>7

\* The chain of stages is what OnceInOrder says of them.
LEMMA ChainOrders ==
  ASSUME FInv
  PROVE  OnceInOrder
<1>1. FlowTyped /\ Chain /\ Placed
  BY Zenon DEF FInv
<1>2. PICK n \in Nat : n = Len(wire)
  BY <1>1, StagesAre, Zenon
<1>3. PICK S : S = Stages
  BY Zenon
<1>4. /\ Len(S) = n + 3 /\ S[1] = got /\ S[n + 2] = taken /\ S[n + 3] = batch
      /\ \A i \in 2..(n + 1) : S[i] = wire[i - 1] /\ i - 1 \in 1..n
  BY <1>1, <1>2, <1>3, StagesAre
<1>5. \A a \in 1..Len(S) : a = 1 \/ a \in 2..(n + 1) \/ a = n + 2 \/ a = n + 3
  BY <1>2, <1>4
<1>6. ASSUME NEW a \in 1..Len(S) PROVE Ordered(S[a])
  BY <1>1, <1>2, <1>4, <1>5, Zenon DEF Chain, InChain
<1>7. ASSUME NEW a \in 1..Len(S), NEW b \in 1..Len(S), a < b
      PROVE  Before(Times(S[a]), Times(S[b]))
  <2>1. CASE a = 1
    BY <1>1, <1>2, <1>4, <1>5, <1>7, <2>1 DEF Chain, InChain
  <2>2. CASE a \in 2..(n + 1)
    <3>1. a - 1 \in 1..Len(wire) /\ S[a] = wire[a - 1]
      BY <1>2, <1>4, <2>2, Zenon
    <3>2. CASE b \in 2..(n + 1)
      <4>1. b - 1 \in 1..Len(wire) /\ S[b] = wire[b - 1] /\ a - 1 < b - 1
        BY <1>2, <1>4, <1>7, <3>2
      <4>. QED
        BY <1>1, <3>1, <4>1, Zenon DEF Chain, InChain
    <3>3. CASE b = n + 2 \/ b = n + 3
      BY <1>1, <1>4, <3>1, <3>3, Zenon DEF Chain, InChain
    <3>. QED
      BY <1>2, <1>5, <1>7, <2>2, <3>2, <3>3
  <2>3. CASE a = n + 2
    <3>1. b = n + 3
      BY <1>2, <1>4, <1>7, <2>3
    <3>. QED
      BY <1>1, <1>4, <2>3, <3>1, Zenon DEF Chain, InChain
  <2>4. a # n + 3
    BY <1>2, <1>4, <1>7
  <2>. QED
    BY <1>5, <2>1, <2>2, <2>3, <2>4, Zenon
<1>8. \A a, b \in 1..Len(S) : \A i \in 1..Len(S[a]), j \in 1..Len(S[b]) :
        a < b \/ (a = b /\ i < j) => S[a][i].time < S[b][j].time
  BY <1>6, <1>7, Zenon DEF Ordered, Before, Times
<1>9. UNION {Times(S[a]) : a \in 1..Len(S)} = InPlace
  <2>1. \A a \in 1..Len(S) : Times(S[a]) \subseteq InPlace
    BY <1>2, <1>4, <1>5 DEF InPlace, OnWire
  <2>2. /\ 1 \in 1..Len(S) /\ n + 2 \in 1..Len(S) /\ n + 3 \in 1..Len(S)
        /\ \A i \in 1..Len(wire) : i + 1 \in 1..Len(S) /\ S[i + 1] = wire[i]
    BY <1>2, <1>4
  <2>3. InPlace \subseteq UNION {Times(S[a]) : a \in 1..Len(S)}
    BY <1>4, <2>2 DEF InPlace, OnWire
  <2>. QED
    BY <2>1, <2>3, Zenon
<1>. QED
  BY <1>1, <1>3, <1>8, <1>9, Zenon DEF OnceInOrder, OnTheWay, Placed

-----------------------------------------------------------------------------
(* What each step makes of the chain.                                      *)

\* No point is between no points, and what is between points is not in two places.
LEMMA BeforeSets ==
  /\ \A S, T, U : Before(S, U) /\ Before(T, U) => Before(S \cup T, U)
  /\ \A S, T, U : Before(S, T) /\ U \subseteq S => Before(U, T)
  /\ \A S \in SUBSET Nat : \A T : Before(S, T) => S \cap T = {}
<1>2. \A S, T, U : Before(S, U) /\ Before(T, U) => Before(S \cup T, U)
  BY Zenon DEF Before
<1>3. \A S, T, U : Before(S, T) /\ U \subseteq S => Before(U, T)
  BY Zenon DEF Before
<1>4. ASSUME NEW S \in SUBSET Nat, NEW T, Before(S, T)
      PROVE  S \cap T = {}
  <2>1. ASSUME NEW s \in S, s \in T PROVE FALSE
    BY <1>4, <2>1 DEF Before
  <2>. QED
    BY <2>1, Zenon
<1>. QED
  BY <1>2, <1>3, <1>4, Zenon

\* A point that is later than all.
LEMMA ChainWrite ==
  ASSUME NEW g, NEW w, NEW t, NEW b \in Seq(Point), NEW p \in Point, InChain(g, w, t, b),
         Before(Times(g), {p.time}), Before(Times(t), {p.time}), Before(Times(b), {p.time}),
         \A i \in 1..Len(w) : Before(Times(w[i]), {p.time})
  PROVE  InChain(g, w, t, Append(b, p))
<1>1. Times(Append(b, p)) = Times(b) \cup {p.time}
  BY TimesGrown, Zenon
<1>2. \A S : Before(S, Times(b)) /\ Before(S, {p.time}) => Before(S, Times(Append(b, p)))
  BY <1>1, Zenon DEF Before
<1>3. Ordered(Append(b, p))
  BY OrderGrown, Zenon DEF InChain
<1>. QED
  BY <1>2, <1>3, Zenon DEF InChain

\* The batch is taken, when none is waiting.
LEMMA ChainFlush ==
  ASSUME NEW g, NEW w, NEW b, InChain(g, w, <<>>, b)
  PROVE  InChain(g, w, b, <<>>)
BY Nothing, Zenon DEF InChain

\* Stages that lose what they hold.
LEMMA ChainDrop ==
  ASSUME NEW g, NEW w, NEW t, NEW b, InChain(g, w, t, b)
  PROVE  /\ InChain(g, w, <<>>, b) /\ InChain(g, w, <<>>, <<>>)
         /\ InChain(g, <<>>, t, b)
BY Nothing, Zenon DEF InChain

\* What is sent becomes the last message.
LEMMA ChainSend ==
  ASSUME NEW g, NEW w \in Seq(Seq(Point)), NEW t \in Seq(Point), NEW b, InChain(g, w, t, b)
  PROVE  /\ InChain(g, Append(w, t), <<>>, b)
         /\ Wired(Append(w, t)) = Wired(w) \cup Times(t)
<1>0. PICK v : v = Append(w, t)
  BY Zenon
<1>1. PICK n \in Nat : n = Len(w) /\ v = Append(w, t)
  BY <1>0
<1>2. /\ Len(v) = n + 1 /\ v[n + 1] = t /\ n + 1 \in 1..Len(v)
      /\ \A i \in 1..n : v[i] = w[i] /\ i \in 1..Len(v)
      /\ \A i \in 1..Len(v) : i \in 1..n \/ i = n + 1
  BY <1>1
<1>3. \A i \in 1..Len(v), j \in 1..Len(v) : i < j =>
        i \in 1..n /\ (j \in 1..n \/ j = n + 1)
  BY <1>2
<1>5. ASSUME NEW i \in 1..Len(v)
      PROVE  /\ Ordered(v[i]) /\ Before(Times(g), Times(v[i]))
             /\ Before(Times(v[i]), Times(b))
  BY <1>1, <1>2, Zenon DEF InChain
<1>6. ASSUME NEW i \in 1..Len(v), NEW j \in 1..Len(v), i < j
      PROVE  Before(Times(v[i]), Times(v[j]))
  <2>1. i \in 1..n /\ v[i] = w[i] /\ i \in 1..Len(w)
    BY <1>1, <1>2, <1>3, <1>6, Zenon
  <2>2. CASE j \in 1..n
    BY <1>1, <1>2, <1>6, <2>1, <2>2, Zenon DEF InChain
  <2>3. CASE j = n + 1
    BY <1>1, <1>2, <2>1, <2>3, Zenon DEF InChain
  <2>. QED
    BY <1>3, <1>6, <2>2, <2>3, Zenon
<1>7. InChain(g, v, <<>>, b)
  BY <1>5, <1>6, Nothing, Zenon DEF InChain
<1>8. Wired(v) = Wired(w) \cup Times(t)
  BY <1>1, <1>2, Zenon DEF Wired
<1>. QED
  BY <1>1, <1>7, <1>8, Zenon

\* The first message joins what has arrived.
LEMMA ChainReceive ==
  ASSUME NEW g \in Seq(Point), NEW w \in Seq(Seq(Point)), w # <<>>, NEW t, NEW b,
         InChain(g, w, t, b)
  PROVE  /\ InChain(g \o Head(w), Tail(w), t, b)
         /\ Head(w) \in Seq(Point) /\ Tail(w) \in Seq(Seq(Point))
         /\ Wired(w) = Times(Head(w)) \cup Wired(Tail(w))
<1>0. PICK v : v = Tail(w)
  BY Zenon
<1>1. PICK n \in Nat : n = Len(w) - 1
  <2>1. Len(w) - 1 \in Nat
    OBVIOUS
  <2>. QED
    BY <2>1, Zenon
<1>2. /\ Head(w) = w[1] /\ w[1] \in Seq(Point) /\ v \in Seq(Seq(Point)) /\ Len(v) = n
      /\ 1 \in 1..Len(w) /\ \A i \in 1..n : v[i] = w[i + 1] /\ i + 1 \in 1..Len(w) /\ 1 < i + 1
      /\ \A i, j \in 1..n : i < j => i + 1 < j + 1
      /\ \A i \in 1..Len(w) : i = 1 \/ (i - 1 \in 1..n /\ v[i - 1] = w[i])
  BY <1>0, <1>1
<1>3. Times(g \o w[1]) = Times(g) \cup Times(w[1])
  BY <1>2, TimesJoined, Zenon
<1>4. Ordered(g \o w[1])
  BY <1>2, OrderJoined, Zenon DEF InChain
<1>5. ASSUME NEW i \in 1..Len(v)
      PROVE  /\ Ordered(v[i]) /\ Before(Times(g), Times(v[i])) /\ Before(Times(w[1]), Times(v[i]))
             /\ Before(Times(v[i]), Times(t)) /\ Before(Times(v[i]), Times(b))
             /\ \A j \in 1..Len(v) : i < j => Before(Times(v[i]), Times(v[j]))
  BY <1>2, Zenon DEF InChain
<1>6. InChain(g \o w[1], v, t, b)
  BY <1>2, <1>3, <1>4, <1>5, BeforeSets DEF InChain
<1>7. Wired(w) = Times(w[1]) \cup Wired(v)
  <2>1. \A i \in 1..Len(w) : Times(w[i]) \subseteq Times(w[1]) \cup Wired(v)
    <3>1. \A i \in 1..Len(v) : Times(v[i]) \subseteq Wired(v)
      BY Zenon DEF Wired
    <3>. QED
      BY <1>2, <3>1, Zenon
  <2>2. Times(w[1]) \subseteq Wired(w) /\ \A i \in 1..Len(v) : Times(v[i]) \subseteq Wired(w)
    BY <1>2, Zenon DEF Wired
  <2>. QED
    BY <2>1, <2>2, Zenon DEF Wired
<1>. QED
  BY <1>0, <1>2, <1>6, <1>7, Zenon

-----------------------------------------------------------------------------
(* The steps.                                                              *)

\* What is outside the flow is typed.
Around == /\ counter \in [Sources -> Nat] /\ conns \subseteq Sources
          /\ task \in [stage : {"idle", "system", "inbounds", "users", "wg"},
                       system : Seq(Names), left : SUBSET Sources]

\* A step that neither writes, moves nor drops a point.
Still == UNCHANGED <<batch, taken, wire, got, lost, clock>>

\* A step that writes what was measured: a counter, 0 for a user who is not answered
\* for, or a value of the system.
Measures(src, val) ==
  /\ Write(src, val) /\ UNCHANGED <<counter, resets>>
  /\ \/ src \in Sources /\ (val = counter[src] \/ (src \in Users /\ val = 0))
     \/ src \notin Sources /\ val = 0

\* Every step of collect_metrics writes one measured point or none.
LEMMA MeasureWrites ==
  ASSUME Around, Measure
  PROVE  /\ Around'
         /\ \/ \E src \in Names \cup Sources, val \in Nat : Measures(src, val)
            \/ Still /\ UNCHANGED <<counter, resets>>
<1>. USE DEF Around
<1>1. CASE WriteSystem
  <2>1. Head(task.system) \in Names /\ Tail(task.system) \in Seq(Names)
    BY <1>1 DEF WriteSystem
  <2>2. Head(task.system) \notin Sources
    BY <2>1, Zenon DEF Names
  <2>3. Measures(Head(task.system), 0)
    BY <1>1, <2>2, Zenon DEF WriteSystem, Measures
  <2>4. Around'
    BY <1>1, <2>1, Zenon DEF WriteSystem
  <2>. QED
    BY <2>1, <2>3, <2>4, Zenon
<1>2. CASE NextStage
  <2>1. Around'
    BY <1>2, Zenon DEF NextStage, Ask, NoTask, Sources
  <2>2. Still /\ UNCHANGED <<counter, resets>>
    BY <1>2, Zenon DEF NextStage, Still, flow
  <2>. QED
    BY <2>1, <2>2, Zenon
<1>3. ASSUME NEW k \in Inbounds, WriteInbound(k)
      PROVE  /\ Around'
             /\ Measures(k, counter[k]) \/ (Still /\ UNCHANGED <<counter, resets>>)
  BY <1>3, Zenon DEF WriteInbound, Measures, Still, flow, Sources
<1>4. ASSUME NEW k \in Users, WriteUser(k)
      PROVE  Around' /\ (Measures(k, counter[k]) \/ Measures(k, 0))
  BY <1>4, Zenon DEF WriteUser, Measures, Sources
<1>5. ASSUME NEW k \in Peers, WritePeer(k)
      PROVE  /\ Around'
             /\ Measures(k, counter[k]) \/ (Still /\ UNCHANGED <<counter, resets>>)
  BY <1>5, Zenon DEF WritePeer, Measures, Still, flow, Sources
<1>6. \A k \in Inbounds \cup Users \cup Peers : k \in Names \cup Sources /\ counter[k] \in Nat
  BY Zenon DEF Sources
<1>. QED
  BY <1>1, <1>2, <1>3, <1>4, <1>5, <1>6, 0 \in Nat, Zenon DEF Measure

\* No point moves while only the measured changes.
LEMMA StillKeeps ==
  ASSUME FInv, Around', Still
  PROVE  FInv'
<1>1. UNCHANGED <<batch, taken, wire, got, lost, clock>>
  BY Zenon DEF Still
<1>2. FlowTyped'
  BY <1>1, Zenon DEF FInv, FlowTyped, Around
<1>3. Chain'
  BY <1>1, Zenon DEF FInv, Chain
<1>4. InPlace' = InPlace
  BY <1>1, Zenon DEF InPlace, OnWire
<1>. QED
  BY <1>1, <1>2, <1>3, <1>4, Zenon DEF FInv, Placed

\* A new point has the latest time of all.
LEMMA WriteKeeps ==
  ASSUME FInv, Around', NEW src \in Names \cup Sources, NEW val \in Nat, Write(src, val)
  PROVE  FInv'
<1>1. /\ FlowTyped /\ Chain /\ Placed
      /\ batch \in Seq(Point) /\ clock \in Nat
  BY Zenon DEF FInv, FlowTyped
<1>2. PICK p \in Point : p = [src |-> src, time |-> clock, val |-> val]
  BY <1>1, Zenon DEF Point
<1>3. /\ batch' = Append(batch, p) /\ clock' = clock + 1 /\ p.time = clock
      /\ UNCHANGED <<taken, wire, got, lost>>
  BY <1>2, Zenon DEF Write
<1>4. /\ Before(InPlace, {clock}) /\ clock \notin InPlace \cup lost
      /\ 0..(clock + 1 - 1) = 0..(clock - 1) \cup {clock}
  BY <1>1 DEF Placed, Before
<1>5. /\ Before(Times(batch), {clock}) /\ Before(Times(taken), {clock})
      /\ Before(Times(got), {clock})
      /\ \A i \in 1..Len(wire) : Before(Times(wire[i]), {clock})
  BY <1>4, Zenon DEF Before, InPlace, OnWire
<1>6. InChain(got, wire, taken, Append(batch, p))
  BY <1>1, <1>3, <1>5, ChainWrite, Zenon DEF Chain
<1>7. Times(Append(batch, p)) = Times(batch) \cup {clock}
  BY <1>1, <1>3, TimesGrown, Zenon
<1>8. Chain'
  BY <1>3, <1>6, Zenon DEF Chain
<1>9. InPlace' = InPlace \cup {clock}
  BY <1>3, <1>7 DEF InPlace, OnWire, Times
<1>10. Placed'
  BY <1>1, <1>3, <1>4, <1>9 DEF Placed
<1>11. FlowTyped'
  BY <1>1, <1>3 DEF FlowTyped, Around
<1>. QED
  BY <1>8, <1>10, <1>11, Zenon DEF FInv

\* What of the flow a step leaves as it is.
LEMMA StagesMove ==
  ASSUME FInv, UNCHANGED <<counter, conns, task, clock>>, Flush \/ Send \/ Receive
  PROVE  FInv'
<1>1. /\ Chain /\ InChain(got, wire, taken, batch) /\ Placed /\ FlowTyped
      /\ batch \in Seq(Point) /\ taken \in Seq(Point) /\ got \in Seq(Point)
      /\ wire \in Seq(Seq(Point))
  BY Zenon DEF FInv, Chain, FlowTyped
<1>2. CASE Flush
  <2>1. taken = <<>> /\ taken' = batch /\ batch' = <<>> /\ UNCHANGED <<wire, got, lost>>
    BY <1>2, Zenon DEF Flush
  <2>2. Chain'
    BY <1>1, <2>1, ChainFlush, Zenon DEF Chain
  <2>3. InPlace' = InPlace
    BY <2>1 DEF InPlace, OnWire
  <2>4. FlowTyped'
    BY <1>1, <2>1, Zenon DEF FlowTyped
  <2>. QED
    BY <1>1, <2>1, <2>2, <2>3, <2>4, Zenon DEF FInv, Placed
<1>3. CASE Send /\ wire' = Append(wire, taken) /\ lost' = lost
  <2>1. taken' = <<>> /\ UNCHANGED <<batch, got>>
    BY <1>3, Zenon DEF Send
  <2>2. Chain'
    BY <1>1, <1>3, <2>1, ChainSend, Zenon DEF Chain
  <2>3. Wired(wire') = Wired(wire) \cup Times(taken) /\ Times(<<>>) = {}
    BY <1>1, <1>3, ChainSend, Nothing, Zenon
  <2>4. InPlace' = InPlace
    BY <2>1, <2>3, Zenon DEF InPlace, OnWire, Wired
  <2>5. FlowTyped'
    BY <1>1, <1>3, <2>1 DEF FlowTyped
  <2>. QED
    BY <1>1, <1>3, <2>2, <2>4, <2>5, Zenon DEF FInv, Placed
<1>4. CASE Send /\ wire' = wire /\ lost' = lost \cup Times(taken)
  <2>1. taken' = <<>> /\ UNCHANGED <<batch, got>>
    BY <1>4, Zenon DEF Send
  <2>2. Chain'
    BY <1>1, <1>4, <2>1, ChainDrop, Zenon DEF Chain
  <2>3. Times(<<>>) = {}
    BY Nothing, Zenon
  <2>4. InPlace = InPlace' \cup Times(taken)
    BY <1>4, <2>1, <2>3 DEF InPlace, OnWire
  <2>5. InPlace' \cap Times(taken) = {}
    <3>1. Times(got) \cap Times(taken) = {} /\ Times(taken) \cap Times(batch) = {}
      BY <1>1, TimesGrown, BeforeSets, Zenon DEF InChain
    <3>2. \A i \in 1..Len(wire) : Times(wire[i]) \cap Times(taken) = {}
      BY <1>1, TimesGrown, BeforeSets DEF InChain
    <3>. QED
      BY <1>4, <2>1, <2>3, <3>1, <3>2 DEF InPlace, OnWire
  <2>6. FlowTyped'
    BY <1>1, <1>4, <2>1 DEF FlowTyped
  <2>. QED
    BY <1>1, <1>4, <2>2, <2>4, <2>5, <2>6, Zenon DEF FInv, Placed
<1>5. CASE Receive
  <2>1. /\ wire # <<>> /\ got' = got \o Head(wire) /\ wire' = Tail(wire)
        /\ UNCHANGED <<batch, taken, lost>>
    BY <1>5, Zenon DEF Receive
  <2>2. /\ InChain(got', wire', taken, batch) /\ Head(wire) \in Seq(Point)
        /\ wire' \in Seq(Seq(Point)) /\ Wired(wire) = Times(Head(wire)) \cup Wired(wire')
    BY <1>1, <2>1, ChainReceive, Zenon
  <2>3. Times(got') = Times(got) \cup Times(Head(wire))
    BY <1>1, <2>1, <2>2, TimesJoined, Zenon
  <2>4. InPlace' = InPlace
    BY <2>1, <2>2, <2>3, Zenon DEF InPlace, OnWire, Wired
  <2>5. Chain' /\ FlowTyped'
    BY <1>1, <2>1, <2>2 DEF Chain, FlowTyped
  <2>. QED
    BY <1>1, <2>1, <2>4, <2>5, Zenon DEF FInv, Placed
<1>. QED
  BY <1>2, <1>3, <1>4, <1>5, Zenon DEF Send

\* What is lost with the API's connection, or with the agent.
LEMMA LossKeeps ==
  ASSUME FInv, Around', UNCHANGED clock, ApiDown \/ AgentRestart
  PROVE  FInv'
<1>1. /\ Chain /\ InChain(got, wire, taken, batch) /\ Placed /\ FlowTyped
      /\ batch \in Seq(Point) /\ taken \in Seq(Point) /\ got \in Seq(Point)
      /\ wire \in Seq(Seq(Point))
  BY Zenon DEF FInv, Chain, FlowTyped
<1>2. /\ Times(got) \cap Times(taken) = {} /\ Times(got) \cap Times(batch) = {}
      /\ \A i \in 1..Len(wire) : /\ Times(wire[i]) \cap Times(taken) = {}
                                 /\ Times(wire[i]) \cap Times(batch) = {}
                                 /\ Times(got) \cap Times(wire[i]) = {}
  BY <1>1, TimesGrown, BeforeSets DEF InChain
<1>3. /\ Times(got) \cap OnWire = {} /\ OnWire \cap Times(taken) = {}
      /\ OnWire \cap Times(batch) = {}
  BY <1>2 DEF OnWire
<1>4. CASE ApiDown
  <2>1. lost' = lost \cup OnWire /\ wire' = <<>> /\ UNCHANGED <<batch, taken, got>>
    BY <1>4, Zenon DEF ApiDown
  <2>2. Chain'
    BY <1>1, <2>1, ChainDrop, Zenon DEF Chain
  <2>3. OnWire' = {}
    BY <2>1, Nothing, Zenon DEF OnWire
  <2>4. InPlace = InPlace' \cup OnWire /\ InPlace' \cap OnWire = {}
    BY <1>3, <2>1, <2>3, Zenon DEF InPlace
  <2>5. FlowTyped'
    BY <1>1, <2>1 DEF FlowTyped, Around
  <2>. QED
    BY <1>1, <2>1, <2>2, <2>4, <2>5, Zenon DEF FInv, Placed
<1>5. CASE AgentRestart
  <2>1. /\ lost' = lost \cup Times(batch) \cup Times(taken)
        /\ batch' = <<>> /\ taken' = <<>> /\ UNCHANGED <<wire, got>>
    BY <1>5, Zenon DEF AgentRestart
  <2>2. Chain'
    BY <1>1, <2>1, ChainDrop, Zenon DEF Chain
  <2>3. InPlace' = Times(got) \cup OnWire
    BY <2>1, Nothing, Zenon DEF InPlace, OnWire
  <2>4. /\ InPlace = InPlace' \cup (Times(batch) \cup Times(taken))
        /\ InPlace' \cap (Times(batch) \cup Times(taken)) = {}
    BY <1>2, <1>3, <2>3, Zenon DEF InPlace
  <2>5. FlowTyped'
    BY <1>1, <2>1 DEF FlowTyped, Around
  <2>. QED
    BY <1>1, <2>1, <2>2, <2>4, <2>5, Zenon DEF FInv, Placed
<1>. QED
  BY <1>4, <1>5, Zenon

\* A step around the flow leaves it, or is one of those above.
LEMMA StepAround ==
  ASSUME Around, FlowNext
  PROVE  /\ Around'
         /\ \/ \E src \in Names \cup Sources, val \in Nat : Measures(src, val)
            \/ Still
            \/ (Flush \/ Send \/ Receive) /\ UNCHANGED <<counter, conns, task, clock>>
            \/ (ApiDown \/ AgentRestart) /\ UNCHANGED clock
<1>. USE DEF Around
<1>1. ASSUME NEW k \in Sources, Traffic(k) \/ Reset(k)
      PROVE  Around' /\ Still
  BY <1>1 DEF Traffic, Reset, Still, flow, agent
<1>2. ASSUME NEW k \in Users \cup Peers,
             AddUser(k) \/ RemoveUser(k) \/ AddPeer(k) \/ RemovePeer(k)
      PROVE  Around' /\ Still
  BY <1>2 DEF AddUser, RemoveUser, AddPeer, RemovePeer, Still, flow, Sources
<1>3. CASE Collect
  <2>1. System \in Seq(Names)
    BY FlowAssumption, Zenon DEF Names
  <2>. QED
    BY <1>3, <2>1, Zenon DEF Collect, Still, flow
<1>4. CASE Flush \/ Send \/ Receive
  BY <1>4, Zenon DEF Flush, Send, Receive
<1>5. CASE ApiDown \/ AgentRestart
  <2>1. UNCHANGED clock /\ UNCHANGED <<counter, conns>> /\ task' \in {task, NoTask}
    BY <1>5, Zenon DEF ApiDown, AgentRestart
  <2>2. NoTask \in [stage : {"idle", "system", "inbounds", "users", "wg"},
                     system : Seq(Names), left : SUBSET Sources]
    <3>1. <<>> \in Seq(Names)
      OBVIOUS
    <3>. QED
      BY <3>1, Zenon DEF NoTask
  <2>3. Around'
    BY <2>1, <2>2, Zenon
  <2>. QED
    BY <1>5, <2>1, <2>3, Zenon
<1>6. CASE ApiUp
  BY <1>6, Zenon DEF ApiUp, Still
<1>7. CASE Measure
  BY <1>7, MeasureWrites, Zenon DEF Around
<1>. QED
  BY <1>1, <1>2, <1>3, <1>4, <1>5, <1>6, <1>7, Zenon DEF FlowNext

\* Every step keeps the points in their order.
LEMMA FlowStep == FInv /\ [FlowNext]_flowVars => FInv'
<1>. SUFFICES ASSUME FInv, [FlowNext]_flowVars
              PROVE  FInv'
  BY Zenon
<1>1. Around
  BY Zenon DEF FInv, FlowTyped, Around
<1>2. CASE UNCHANGED flowVars
  <2>1. Around' /\ Still
    BY <1>1, <1>2, Zenon DEF flowVars, Still, flow, Around
  <2>. QED
    BY <2>1, StillKeeps, Zenon
<1>4. CASE FlowNext
  BY <1>1, <1>4, StepAround, StillKeeps, WriteKeeps, StagesMove, LossKeeps, Zenon DEF Measures
<1>. QED
  BY <1>2, <1>4, Zenon

\* The buffer, the messages and the storage are empty at first.
LEMMA FlowStart == FlowInit => FInv
<1>. SUFFICES ASSUME FlowInit PROVE FInv
  BY Zenon
<1>1. FlowTyped
  BY DEF FlowInit, FlowTyped, NoTask, Sources
<1>2. Chain
  BY Nothing, Zenon DEF FlowInit, Chain, InChain
<1>3. InPlace = {} /\ 0..(clock - 1) = {}
  BY Nothing DEF FlowInit, InPlace, OnWire
<1>. QED
  BY <1>1, <1>2, <1>3, Zenon DEF FInv, Placed, FlowInit

\* Points arrive in the order of their times and none twice, whatever is dropped,
\* whenever the agent dies and however the batches fall.
THEOREM PointsInOrder == FlowSpec => []OnceInOrder
<1>1. FlowSpec => []FInv
  BY FlowStart, FlowStep, PTL DEF FlowSpec
<1>. QED
  BY <1>1, ChainOrders, PTL

-----------------------------------------------------------------------------
(* Falling counters.                                                       *)

\* The points of a batch.
Held(q) == {q[i] : i \in 1..Len(q)}

\* The points that are somewhere between the buffer and the storage.
Points == Held(got) \cup Held(taken) \cup Held(batch) \cup (UNION {Held(wire[i]) : i \in 1..Len(wire)})

\* Counter k was reset, or removed with its peer, at one of the times s..t.
ResetIn(k, s, t) == \E r \in s..t : <<k, r>> \in resets

\* A point of the system shows 0, and a counter is at least what a point showed of it
\* unless it went back to zero since.
Shown(p) ==
  /\ p.src \notin Sources => p.val = 0
  /\ p.src \in Sources => p.val <= counter[p.src] \/ ResetIn(p.src, p.time, clock)

\* Of two points of a source, the later one shows less for a reason.
Explained(p, q) ==
  p.time < q.time /\ p.src = q.src /\ q.val < p.val =>
    ResetIn(p.src, p.time, q.time) \/ (q.src \in Users /\ q.val = 0)

\* What FallsExplained needs of all points.
Traced == /\ \A p \in Points : Shown(p)
          /\ \A p, q \in Points : Explained(p, q)

\* A point that is somewhere is a point, with a time that has passed.
LEMMA PointsPast ==
  ASSUME FInv
  PROVE  \A p \in Points : p \in Point /\ p.time \in 0..(clock - 1)
<1>1. \A q \in Seq(Point) : \A p \in Held(q) : p \in Point /\ p.time \in Times(q)
  BY DEF Held, Times
<1>2. \A p \in Points : p \in Point /\ p.time \in InPlace
  <2>1. /\ got \in Seq(Point) /\ taken \in Seq(Point) /\ batch \in Seq(Point)
        /\ \A i \in 1..Len(wire) : wire[i] \in Seq(Point)
    BY DEF FInv, FlowTyped
  <2>2. ASSUME NEW i \in 1..Len(wire), NEW p \in Held(wire[i])
        PROVE  p \in Point /\ p.time \in OnWire
    BY <1>1, <2>1, Zenon DEF OnWire
  <2>3. ASSUME NEW p \in Held(got) \cup Held(taken) \cup Held(batch)
        PROVE  p \in Point /\ p.time \in Times(got) \cup Times(taken) \cup Times(batch)
    BY <1>1, <2>1, Zenon
  <2>. QED
    BY <2>2, <2>3, Zenon DEF Points, InPlace
<1>. QED
  BY <1>2, Zenon DEF FInv, Placed

\* Two batches in a row hold no more than each.
LEMMA HeldJoined ==
  ASSUME NEW q \in Seq(Point), NEW r \in Seq(Point)
  PROVE  Held(q \o r) \subseteq Held(q) \cup Held(r)
<1>1. /\ Len(q) \in Nat /\ Len(r) \in Nat /\ Len(q \o r) = Len(q) + Len(r)
      /\ \A i \in 1..Len(q) : (q \o r)[i] = q[i]
      /\ \A i \in 1..Len(r) : (q \o r)[i + Len(q)] = r[i]
  OBVIOUS
<1>2. \A i \in 1..Len(q \o r) :
        i \in 1..Len(q) \/ (i - Len(q) \in 1..Len(r) /\ i = (i - Len(q)) + Len(q))
  BY <1>1
<1>3. \A i \in 1..Len(q \o r) : (q \o r)[i] \in Held(q) \cup Held(r)
  BY <1>1, <1>2, Zenon DEF Held
<1>. QED
  BY <1>3, Zenon DEF Held

\* Only a measurement adds a point.
LEMMA PointsStay ==
  ASSUME FInv, FlowNext, ~\E src \in Names \cup Sources, val \in Nat : Measures(src, val)
  PROVE  Points' \subseteq Points
<1>1. /\ Around /\ got \in Seq(Point) /\ taken \in Seq(Point) /\ batch \in Seq(Point)
      /\ wire \in Seq(Seq(Point))
  BY Zenon DEF FInv, FlowTyped, Around
<1>2. Held(<<>>) = {}
  BY Nothing, Zenon DEF Held
<1>3. CASE Still
  BY <1>3 DEF Still, Points
<1>4. CASE Flush
  BY <1>2, <1>4 DEF Flush, Points
<1>5. CASE Send
  <2>1. taken' = <<>> /\ wire' \in {wire, Append(wire, taken)} /\ UNCHANGED <<batch, got>>
    BY <1>5, Zenon DEF Send
  <2>2. \A i \in 1..Len(wire') : wire'[i] = taken \/ (i \in 1..Len(wire) /\ wire'[i] = wire[i])
    <3>1. CASE wire' = wire
      BY <3>1, Zenon
    <3>2. CASE wire' = Append(wire, taken)
      BY <1>1, <3>2
    <3>. QED
      BY <2>1, <3>1, <3>2, Zenon
  <2>3. \A i \in 1..Len(wire') : Held(wire'[i]) \subseteq Points
    BY <2>2, Zenon DEF Points
  <2>. QED
    BY <1>2, <2>1, <2>3, Zenon DEF Points
<1>6. CASE Receive
  <2>1. wire # <<>> /\ got' = got \o Head(wire) /\ wire' = Tail(wire) /\ UNCHANGED <<batch, taken>>
    BY <1>6, Zenon DEF Receive
  <2>2. /\ Head(wire) = wire[1] /\ 1 \in 1..Len(wire) /\ wire[1] \in Seq(Point)
        /\ \A i \in 1..Len(wire') : i + 1 \in 1..Len(wire) /\ wire'[i] = wire[i + 1]
    BY <1>1, <2>1
  <2>3. Held(got') \subseteq Held(got) \cup Held(wire[1])
    BY <1>1, <2>1, <2>2, HeldJoined, Zenon
  <2>. QED
    BY <2>1, <2>2, <2>3 DEF Points
<1>7. CASE ApiDown
  BY <1>7, Nothing, Zenon DEF ApiDown, Points
<1>8. CASE AgentRestart
  BY <1>2, <1>8 DEF AgentRestart, Points
<1>. QED
  BY <1>1, <1>3, <1>4, <1>5, <1>6, <1>7, <1>8, StepAround, Zenon

\* A point is explained when it is written: it shows the counter, or a user's 0.
LEMMA MeasureTraced ==
  ASSUME FInv, Traced, NEW src \in Names \cup Sources, NEW val \in Nat, Measures(src, val)
  PROVE  Traced'
<1>1. PICK n : n = [src |-> src, time |-> clock, val |-> val]
  BY Zenon
<1>2. /\ batch' = Append(batch, n) /\ clock' = clock + 1 /\ clock \in Nat
      /\ UNCHANGED <<taken, wire, got, counter, resets>>
      /\ batch \in Seq(Point) /\ n \in Point /\ counter \in [Sources -> Nat]
  BY <1>1, Zenon DEF Measures, Write, FInv, FlowTyped, Point
<1>3. n.src = src /\ n.time = clock /\ n.val = val
  BY <1>1, Zenon
<1>4. Points' \subseteq Points \cup {n}
  <2>1. \A i \in 1..Len(batch') : batch'[i] = n \/ (i \in 1..Len(batch) /\ batch'[i] = batch[i])
    BY <1>2
  <2>2. Held(batch') \subseteq Held(batch) \cup {n}
    BY <2>1, Zenon DEF Held
  <2>. QED
    BY <1>2, <2>2 DEF Points
<1>5. \A p \in Points : p \in Point /\ p.time \in Nat /\ p.time < clock
  BY <1>2, PointsPast
<1>6. \A k, s, t : ResetIn(k, s, t)' <=> ResetIn(k, s, t)
  BY <1>2, Zenon DEF ResetIn
<1>7. ASSUME NEW p \in Points
      PROVE  Shown(p)' /\ Explained(p, n)
  <2>1. Shown(p) /\ p.time \in Nat /\ p.time < clock /\ p.val \in Nat
    BY <1>5, Zenon DEF Traced, Point
  <2>2. \A k : ResetIn(k, p.time, clock) => ResetIn(k, p.time, clock + 1)
    <3>1. p.time..clock \subseteq p.time..(clock + 1)
      BY <1>2, <2>1
    <3>. QED
      BY <3>1, Zenon DEF ResetIn
  <2>3. Shown(p)'
    BY <1>2, <1>6, <2>1, <2>2, Zenon DEF Shown
  <2>4. Explained(p, n)
    BY <1>2, <1>3, <2>1 DEF Shown, Explained, Measures
  <2>. QED
    BY <2>3, <2>4, Zenon
<1>8. Shown(n)'
  BY <1>2, <1>3 DEF Shown, Measures
<1>9. \A p \in Points \cup {n} : ~(n.time < p.time)
  BY <1>2, <1>3, <1>5
<1>10. \A p, q \in Points \cup {n} : Explained(p, q)
  BY <1>7, <1>9, Zenon DEF Traced, Explained
<1>11. \A p, q : Explained(p, q)' <=> Explained(p, q)
  BY <1>6, Zenon DEF Explained
<1>. QED
  BY <1>4, <1>7, <1>8, <1>10, <1>11, Zenon DEF Traced

\* Other steps add no point, and take a counter down only by a reset or with its peer.
LEMMA OthersTraced ==
  ASSUME FInv, Traced, FlowNext,
         ~\E src \in Names \cup Sources, val \in Nat : Measures(src, val)
  PROVE  Traced'
<1>1. Points' \subseteq Points
  BY PointsStay, Zenon
<1>2. /\ clock \in Nat /\ counter \in [Sources -> Nat]
      /\ \A p \in Points : p \in Point /\ p.time \in Nat /\ p.time < clock
  BY PointsPast DEF FInv, FlowTyped
<1>. DEFINE Falls == /\ clock' = clock /\ resets \subseteq resets'
                     /\ \A k \in Sources : counter[k] <= counter'[k] \/ <<k, clock>> \in resets'
<1>3. Falls
  <2>1. ASSUME NEW k \in Sources, Traffic(k)
        PROVE  Falls
    BY <1>2, <2>1 DEF Traffic
  <2>2. ASSUME NEW k \in Sources, Reset(k)
        PROVE  Falls
    BY <1>2, <2>2 DEF Reset
  <2>3. ASSUME UNCHANGED <<counter, resets, clock>>
        PROVE  Falls
    BY <1>2, <2>3
  <2>4. CASE Measure
    <3>1. Around
      BY Zenon DEF FInv, FlowTyped, Around
    <3>. QED
      BY <2>3, <2>4, <3>1, MeasureWrites, Zenon DEF Still
  <2>5. ASSUME NEW k \in Users \cup Peers, AddUser(k) \/ RemoveUser(k) \/ AddPeer(k)
        PROVE  Falls
    BY <2>3, <2>5, Zenon DEF AddUser, RemoveUser, AddPeer
  <2>6. CASE Collect \/ Flush \/ Send \/ Receive
    BY <2>3, <2>6, Zenon DEF Collect, Flush, Send, Receive
  <2>7. CASE ApiDown \/ ApiUp \/ AgentRestart
    BY <2>3, <2>7, Zenon DEF ApiDown, ApiUp, AgentRestart
  <2>8. ASSUME NEW k \in Peers, RemovePeer(k)
        PROVE  Falls
    BY <1>2, <2>8 DEF RemovePeer
  <2>. QED
    BY <2>1, <2>2, <2>4, <2>5, <2>6, <2>7, <2>8, Zenon DEF FlowNext
<1>4. \A k, s, t : ResetIn(k, s, t) => ResetIn(k, s, t)'
  BY <1>3, Zenon DEF ResetIn
<1>5. ASSUME NEW p \in Points
      PROVE  Shown(p)'
  <2>1. Shown(p) /\ p.time \in Nat /\ p.time < clock /\ p.val \in Nat
    BY <1>2, Zenon DEF Traced, Point
  <2>2. CASE p.src \notin Sources
    BY <2>1, <2>2, Zenon DEF Shown
  <2>3. CASE p.src \in Sources
    <3>1. p.val <= counter[p.src] \/ ResetIn(p.src, p.time, clock)'
      BY <1>3, <1>4, <2>1, <2>3, Zenon DEF Shown
    <3>2. <<p.src, clock>> \in resets' => ResetIn(p.src, p.time, clock)'
      BY <1>2, <1>3, <2>1 DEF ResetIn
    <3>3. counter'[p.src] \in Nat
      BY <2>3, FlowStep, Zenon DEF FInv, FlowTyped
    <3>. QED
      BY <1>2, <1>3, <2>1, <2>3, <3>1, <3>2, <3>3 DEF Shown
  <2>. QED
    BY <2>2, <2>3, Zenon
<1>6. \A p, q : Explained(p, q) => Explained(p, q)'
  BY <1>4, Zenon DEF Explained
<1>. QED
  BY <1>1, <1>5, <1>6, Zenon DEF Traced

\* A traffic counter in the storage goes down only by a reset of it between the two
\* measurements, by the removal of its WireGuard peer, or for an Xray user who was not
\* answered for.
THEOREM FallsHaveReasons == FlowSpec => []FallsExplained
<1>1. FlowInit => Traced
  <2>1. Held(<<>>) = {}
    BY Nothing, Zenon DEF Held
  <2>2. FlowInit => Points = {}
    BY <2>1, Nothing, Zenon DEF FlowInit, Points
  <2>. QED
    BY <2>2, Zenon DEF Traced
<1>2. FInv /\ Traced /\ [FlowNext]_flowVars => Traced'
  <2>1. ASSUME Traced, UNCHANGED flowVars PROVE Traced'
    BY <2>1 DEF flowVars, Traced, Points, Shown, Explained, ResetIn
  <2>. QED
    BY <2>1, MeasureTraced, OthersTraced, Zenon
<1>3. FInv /\ Traced => FallsExplained
  <2>. SUFFICES ASSUME FInv, Traced, NEW i \in 1..Len(got), NEW j \in 1..Len(got),
                       i < j, got[i].src = got[j].src, got[j].val < got[i].val
                PROVE  \/ \E t \in got[i].time..got[j].time : <<got[i].src, t>> \in resets
                       \/ got[j].src \in Users /\ got[j].val = 0
    BY Zenon DEF FallsExplained
  <2>1. got[i] \in Points /\ got[j] \in Points
    BY Zenon DEF Points, Held
  <2>2. got[i].time < got[j].time
    BY Zenon DEF FInv, Chain, InChain, Ordered
  <2>. QED
    BY <2>1, <2>2, Zenon DEF Traced, Explained, ResetIn
<1>. QED
  BY <1>1, <1>2, <1>3, FlowStart, FlowStep, PTL DEF FlowSpec
=============================================================================
