---------------------------- MODULE MetricStore -----------------------------
(***************************************************************************)
(* The API's metric storage (src/metrics/storage.rs): points by node and    *)
(* series, the name and tags of every series, and an index from tags to     *)
(* series.  MetricWorker inserts envelopes one after the other while        *)
(* perform_gc runs on other threads.  The three maps are DashMaps: a step   *)
(* is atomic under the lock of a shard and nothing spans two maps, except   *)
(* that a new series is indexed under the lock of its metadata entry.      *)
(*                                                                         *)
(* A point is reduced to its age, in units far longer than a collection.   *)
(***************************************************************************)
EXTENDS Naturals, Sequences

CONSTANTS
  Senders,     \* node ids
  Series,      \* series keys (hashes of name and tags)
  Tags,        \* tag key and value pairs
  TagsOf,      \* TagsOf[s]: the tags of series s
  Collectors,  \* runs of perform_gc that may overlap
  MaxPoints,   \* max_points
  Retention,   \* retention_seconds
  MaxLag       \* bound on the age of an envelope when it is inserted

ASSUME StoreAssumption ==
  /\ TagsOf \in [Series -> SUBSET Tags]
  /\ MaxPoints \in Nat \ {0}
  /\ Retention \in Nat
  /\ MaxLag \in Nat

VARIABLES
  inner,      \* inner[n][s]: the ages of the points, front first
  metadata,   \* series that have an entry in metadata
  tagIndex,   \* tagIndex[t]: series listed under tag t
  ins,        \* insert_envelope in progress
  gc,         \* gc[g]: perform_gc in progress
  overlapped  \* series inserted while a collection ran (history)

vars == <<inner, metadata, tagIndex, ins, gc, overlapped>>

MaxAge == Retention + MaxLag + 1   \* older points are all alike
Age == 0..MaxAge
Older(a) == IF a = MaxAge THEN a ELSE a + 1

NoInsert == [at |-> "idle"]
NoGc == [at |-> "idle", todo |-> {}, alive |-> {}]

InsState == [at : {"index", "point"}, node : Senders, series : Series, tags : SUBSET Tags]
GcState == [at : {"idle", "trim", "scan", "metadata", "index"},
            todo : SUBSET (Senders \cup Series \cup Tags), alive : SUBSET Series]

HasPoints(s) == \E n \in Senders : inner[n][s] # <<>>
Inserting(s) == ins.at # "idle" /\ ins.series = s
Listed(s) == s \in metadata /\ \A t \in TagsOf[s] : s \in tagIndex[t]
Collecting == \E g \in Collectors : gc[g].at # "idle"

\* while let Some(front) ... pop_front: the prefix of points older than limit.
DropOld(q, limit) ==
  LET kept == {i \in 1..Len(q) : q[i] <= limit} IN
  IF kept = {} THEN <<>>
    ELSE SubSeq(q, CHOOSE i \in kept : \A j \in kept : i <= j, Len(q))

\* while entry.len() > max_points: pop_front.
DropExcess(q) ==
  IF Len(q) > MaxPoints THEN SubSeq(q, Len(q) - MaxPoints + 1, Len(q)) ELSE q

Init ==
  /\ inner = [n \in Senders |-> [s \in Series |-> <<>>]]
  /\ metadata = {}
  /\ tagIndex = [t \in Tags |-> {}]
  /\ ins = NoInsert
  /\ gc = [g \in Collectors |-> NoGc]
  /\ overlapped = {}

-----------------------------------------------------------------------------
\* Time passes; not while a collection compares ages with its one min_ts.
Tick ==
  /\ \A g \in Collectors : gc[g].at # "trim"
  /\ inner' = [n \in Senders |-> [s \in Series |->
                 [i \in 1..Len(inner[n][s]) |-> Older(inner[n][s][i])]]]
  /\ UNCHANGED <<metadata, tagIndex, ins, gc, overlapped>>

-----------------------------------------------------------------------------
(* insert_envelope.                                                        *)

Overlap(s) == overlapped' = IF Collecting THEN overlapped \cup {s} ELSE overlapped

\* metadata.entry(key).or_insert_with: the closure runs for a new series only,
\* and keeps the entry locked.
InsertBegin(n, s) ==
  /\ ins.at = "idle"
  /\ ins' = [at |-> IF s \in metadata THEN "point" ELSE "index",
             node |-> n, series |-> s, tags |-> TagsOf[s]]
  /\ Overlap(s)
  /\ UNCHANGED <<inner, metadata, tagIndex, gc>>

InsertTag(t) ==
  /\ ins.at = "index" /\ t \in ins.tags
  /\ tagIndex' = [tagIndex EXCEPT ![t] = @ \cup {ins.series}]
  /\ ins' = [ins EXCEPT !.tags = @ \ {t}]
  /\ Overlap(ins.series)
  /\ UNCHANGED <<inner, metadata, gc>>

InsertMetadata ==
  /\ ins.at = "index" /\ ins.tags = {}
  /\ metadata' = metadata \cup {ins.series}
  /\ ins' = [ins EXCEPT !.at = "point"]
  /\ Overlap(ins.series)
  /\ UNCHANGED <<inner, tagIndex, gc>>

\* Mutant: max_points is not enforced.
InsertPointUnbounded(age) ==
  /\ ins.at = "point"
  /\ inner' = [inner EXCEPT ![ins.node][ins.series] =
                 DropOld(Append(@, age), age + Retention)]
  /\ ins' = NoInsert
  /\ Overlap(ins.series)
  /\ UNCHANGED <<metadata, tagIndex, gc>>

\* Push, then trim by number and by age relative to the new point.
InsertPoint(age) ==
  /\ ins.at = "point"
  /\ inner' = [inner EXCEPT ![ins.node][ins.series] =
                 DropOld(DropExcess(Append(@, age)), age + Retention)]
  /\ ins' = NoInsert
  /\ Overlap(ins.series)
  /\ UNCHANGED <<metadata, tagIndex, gc>>

-----------------------------------------------------------------------------
(* perform_gc: points, the series still alive, metadata, index.            *)

Goto(g, at, todo, alive) == gc' = [gc EXCEPT ![g] = [at |-> at, todo |-> todo, alive |-> alive]]

\* With nobody else at work, what is listed has recovered from an overlap.
GcBegin(g) ==
  /\ gc[g].at = "idle"
  /\ Goto(g, "trim", Senders, {})
  /\ overlapped' = IF Collecting \/ ins.at # "idle"
                     THEN overlapped \cup {s \in Series : Inserting(s)}
                     ELSE {s \in overlapped : ~Listed(s)}
  /\ UNCHANGED <<inner, metadata, tagIndex, ins>>

\* inner.retain, one node.
GcTrim(g, n) ==
  /\ gc[g].at = "trim" /\ n \in gc[g].todo
  /\ inner' = [inner EXCEPT ![n] = [s \in Series |-> DropOld(@[s], Retention)]]
  /\ gc' = [gc EXCEPT ![g].todo = @ \ {n}]
  /\ UNCHANGED <<metadata, tagIndex, ins, overlapped>>

GcTrimmed(g) ==
  /\ gc[g].at = "trim" /\ gc[g].todo = {}
  /\ Goto(g, "scan", Senders, {})
  /\ UNCHANGED <<inner, metadata, tagIndex, ins, overlapped>>

\* Mutant: alive_series is started anew for every node.
GcScanLast(g, n) ==
  /\ gc[g].at = "scan" /\ n \in gc[g].todo
  /\ Goto(g, "scan", gc[g].todo \ {n}, {s \in Series : inner[n][s] # <<>>})
  /\ UNCHANGED <<inner, metadata, tagIndex, ins, overlapped>>

\* alive_series, from one node.
GcScan(g, n) ==
  /\ gc[g].at = "scan" /\ n \in gc[g].todo
  /\ Goto(g, "scan", gc[g].todo \ {n},
          gc[g].alive \cup {s \in Series : inner[n][s] # <<>>})
  /\ UNCHANGED <<inner, metadata, tagIndex, ins, overlapped>>

GcScanned(g) ==
  /\ gc[g].at = "scan" /\ gc[g].todo = {}
  /\ Goto(g, "metadata", Series, gc[g].alive)
  /\ UNCHANGED <<inner, metadata, tagIndex, ins, overlapped>>

\* metadata.retain, one series; an entry that is being filled is locked.
GcMetadata(g, s) ==
  /\ gc[g].at = "metadata" /\ s \in gc[g].todo
  /\ ~(ins.at = "index" /\ ins.series = s)
  /\ metadata' = IF s \in gc[g].alive THEN metadata ELSE metadata \ {s}
  /\ gc' = [gc EXCEPT ![g].todo = @ \ {s}]
  /\ UNCHANGED <<inner, tagIndex, ins, overlapped>>

GcMetadataDone(g) ==
  /\ gc[g].at = "metadata" /\ gc[g].todo = {}
  /\ Goto(g, "index", Tags, gc[g].alive)
  /\ UNCHANGED <<inner, metadata, tagIndex, ins, overlapped>>

\* Mutant: a series stays in the index once it is there.
GcIndexKept(g, t) ==
  /\ gc[g].at = "index" /\ t \in gc[g].todo
  /\ gc' = [gc EXCEPT ![g].todo = @ \ {t}]
  /\ UNCHANGED <<inner, metadata, tagIndex, ins, overlapped>>

\* tag_index.retain, one tag.
GcIndex(g, t) ==
  /\ gc[g].at = "index" /\ t \in gc[g].todo
  /\ tagIndex' = [tagIndex EXCEPT ![t] = @ \cap gc[g].alive]
  /\ gc' = [gc EXCEPT ![g].todo = @ \ {t}]
  /\ UNCHANGED <<inner, metadata, ins, overlapped>>

GcEnd(g) ==
  /\ gc[g].at = "index" /\ gc[g].todo = {}
  /\ gc' = [gc EXCEPT ![g] = NoGc]
  /\ UNCHANGED <<inner, metadata, tagIndex, ins, overlapped>>

-----------------------------------------------------------------------------
Insert == \/ \E t \in Tags : InsertTag(t)
          \/ InsertMetadata
          \/ \E age \in 0..MaxLag : InsertPoint(age)

PerformGc(g) ==
  \/ GcBegin(g) \/ GcTrimmed(g) \/ GcScanned(g) \/ GcMetadataDone(g) \/ GcEnd(g)
  \/ \E n \in Senders : GcTrim(g, n) \/ GcScan(g, n)
  \/ \E s \in Series : GcMetadata(g, s)
  \/ \E t \in Tags : GcIndex(g, t)

Next ==
  \/ Tick
  \/ \E n \in Senders, s \in Series : InsertBegin(n, s)
  \/ Insert
  \/ \E g \in Collectors : PerformGc(g)

Spec == Init /\ [][Next]_vars

\* An insertion begun ends, collections keep being started and end, and time
\* passes, whatever else happens; none of them can be kept from it for good by
\* the others, which take only short locks.  Collections are started at an
\* interval, so that one is not always comparing ages.
FairSpec == /\ Spec
            /\ WF_vars(Insert)
            /\ []<>(\A g \in Collectors : gc[g].at # "trim")
            /\ SF_vars(Tick)
            /\ \A g \in Collectors : SF_vars(PerformGc(g))

-----------------------------------------------------------------------------
(* Properties.                                                             *)

\* The state is well formed; no series holds more than max_points.
TypeOK ==
  /\ inner \in [Senders -> [Series -> Seq(Age)]]
  /\ \A n \in Senders, s \in Series : Len(inner[n][s]) <= MaxPoints
  /\ metadata \subseteq Series
  /\ tagIndex \in [Tags -> SUBSET Series]
  /\ ins \in {NoInsert} \cup InsState
  /\ gc \in [Collectors -> GcState]
  /\ overlapped \subseteq Series

\* A series with points is found by its name and by each of its tags
\* (find_series_by_tag, get_aggregated_range), unless an insertion into it
\* overlapped a collection: perform_gc may then remove the index entry of a
\* series whose metadata it has already passed, and no later insertion restores
\* it as long as the metadata is there.
PointsFindable ==
  \A s \in Series : HasPoints(s) => Listed(s) \/ Inserting(s) \/ s \in overlapped

\* A series that gets no more points disappears from all three maps: also one
\* that an overlap left half listed.
Forgotten ==
  \A s \in Series :
    <>[](~Inserting(s)) =>
      <>[](~HasPoints(s) /\ s \notin metadata /\ \A t \in Tags : s \notin tagIndex[t])
=============================================================================
