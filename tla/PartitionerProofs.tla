-------------------------- MODULE PartitionerProofs --------------------------
(***************************************************************************)
(* Proofs about Partitioner, for any numbers of producers, shards and      *)
(* tasks: the slices of a group divide the shards, and the tasks of a      *)
(* settled group have these slices.                                        *)
(***************************************************************************)
EXTENDS Partitioner, FiniteSetTheorems, TLAPS

-----------------------------------------------------------------------------
(* The slices.                                                             *)

\* Rounding down, as the bounds of a slice need it.
LEMMA Division ==
    ASSUME NEW a \in Nat, NEW b \in Nat, b > 0
    PROVE  /\ a \div b \in Nat
           /\ b * (a \div b) <= a
           /\ a < b * (a \div b) + b
  BY SMT

LEMMA LaterSliceIsHigher ==
    ASSUME NEW size \in Nat, NEW i \in Nat, NEW j \in Nat, i < j
    PROVE  size * i + size <= size * j
<1>1. size * (i + 1) = size * i + size
  OBVIOUS
<1>2. \A x \in Nat, y \in Nat : x <= y => size * x <= size * y
  BY SMT
<1> QED BY <1>1, <1>2

\* The slices with the indexes 0..(count - 1) hold every shard once.
LEMMA IndexedSlicesDivide ==
    ASSUME NEW count \in Nat, count > 0, NEW s \in Shards
    PROVE  \E i \in 0..(count - 1) :
              /\ s \in IndexedSlice(i, count)
              /\ \A j \in 0..(count - 1) : j # i => s \notin IndexedSlice(j, count)
<1> DEFINE size == CeilDiv(NumShards, count)
           i == s \div size
<1>0. /\ NumShards \in Nat /\ s \in Nat /\ s < NumShards
      /\ NumShards + count - 1 \in Nat
  BY PartitionerAssumption DEF Shards
<1>1. /\ size \in Nat
      /\ NumShards + count - 1 < count * size + count
  BY <1>0, Division DEF CeilDiv
<1> HIDE DEF size
<1>2. NumShards <= count * size
  BY <1>0, <1>1
<1>3. size > 0
  <2> SUFFICES ASSUME size = 0 PROVE FALSE
    BY <1>1
  <2> QED BY <1>0, <1>2
<1>4. /\ i \in Nat
      /\ size * i <= s
      /\ s < size * i + size
  BY <1>0, <1>1, <1>3, Division
<1> HIDE DEF i
<1>5. i \in 0..(count - 1)
  <2> SUFFICES ASSUME count <= i PROVE FALSE
    BY <1>4
  <2>1. size * count <= size * i
    <3>1. CASE count = i
      BY <3>1, <1>1, <1>4
    <3>2. CASE count < i
      <4>1. size * count + size <= size * i
        BY <3>2, <1>1, <1>4, LaterSliceIsHigher
      <4> QED BY <4>1, <1>1, <1>4
    <3> QED BY <3>1, <3>2, <1>4
  <2>2. size * count = count * size
    BY <1>1
  <2> QED BY <2>1, <2>2, <1>0, <1>1, <1>2, <1>4
<1>6. s \in IndexedSlice(i, count)
  BY <1>4 DEF IndexedSlice, size
<1>7. ASSUME NEW j \in 0..(count - 1), j # i
      PROVE  s \notin IndexedSlice(j, count)
  <2>1. CASE j < i
    <3>1. size * j + size <= size * i
      BY <2>1, <1>1, <1>4, LaterSliceIsHigher
    <3>2. ~(s < size * j + size)
      BY <3>1, <1>0, <1>1, <1>4
    <3> QED BY <3>2 DEF IndexedSlice, size
  <2>2. CASE i < j
    <3>1. size * i + size <= size * j
      BY <2>2, <1>1, <1>4, LaterSliceIsHigher
    <3>2. ~(size * j <= s)
      BY <3>1, <1>0, <1>1, <1>4
    <3> QED BY <3>2 DEF IndexedSlice, size
  <2> QED BY <2>1, <2>2, <1>4, <1>7
<1> QED BY <1>5, <1>6, <1>7

\* The members of a group have the indexes 0..(count - 1), each its own.
LEMMA SlicesDivide ==
    ASSUME NEW members \in SUBSET Producers, members # {}, NEW s \in Shards
    PROVE  \E p \in members :
              /\ s \in Slice(members, p)
              /\ \A q \in members \ {p} : s \notin Slice(members, q)
<1> DEFINE count == Cardinality(members)
           Below(p) == {q \in members : q < p}
           index == [p \in members |-> Cardinality(Below(p))]
<1>1. /\ IsFiniteSet(members) /\ count \in Nat /\ count > 0
      /\ \A p \in members : p \in Nat
  <2>1. IsFiniteSet(Producers)
    BY PartitionerAssumption, FS_Interval DEF Producers
  <2>2. IsFiniteSet(members)
    BY <2>1, FS_Subset
  <2> QED BY <2>2, FS_CardinalityType, FS_EmptySet, PartitionerAssumption DEF Producers
<1>2. ASSUME NEW p \in members
      PROVE  /\ IsFiniteSet(Below(p))
             /\ index[p] = Cardinality(Below(p))
             /\ index[p] \in 0..(count - 1)
  <2>1. /\ IsFiniteSet(members \ {p})
        /\ Cardinality(members \ {p}) = count - 1
    BY <1>1, FS_RemoveElement
  <2>2. Below(p) \in SUBSET (members \ {p})
    BY <1>1
  <2>3. /\ IsFiniteSet(Below(p))
        /\ Cardinality(Below(p)) <= count - 1
    BY <2>1, <2>2, FS_Subset
  <2>4. Cardinality(Below(p)) \in Nat
    BY <2>3, FS_CardinalityType
  <2> QED BY <2>3, <2>4, <1>1
<1>range. index \in [members -> 0..(count - 1)]
  BY <1>2
<1>slice. \A p \in members : Slice(members, p) = IndexedSlice(index[p], count)
  BY DEF Slice
<1> HIDE DEF index
<1>3. ASSUME NEW p \in members, NEW q \in members, p < q
      PROVE  index[p] < index[q]
  <2>1. Below(p) \in SUBSET (Below(q) \ {p})
    BY <1>1, <1>3
  <2>2. p \in Below(q)
    BY <1>3
  <2>3. /\ IsFiniteSet(Below(q) \ {p})
        /\ Cardinality(Below(q) \ {p}) = Cardinality(Below(q)) - 1
    BY <1>2, <2>2, FS_RemoveElement
  <2>4. Cardinality(Below(p)) <= Cardinality(Below(q)) - 1
    BY <2>1, <2>3, FS_Subset
  <2>5. index[p] = Cardinality(Below(p)) /\ index[q] = Cardinality(Below(q))
    BY <1>2
  <2>6. index[p] \in Int /\ index[q] \in Int
    BY <1>range
  <2> QED BY <2>4, <2>5, <2>6
<1>4. index \in Injection(members, 0..(count - 1))
  <2>2. ASSUME NEW p \in members, NEW q \in members, index[p] = index[q]
        PROVE  p = q
    <3>1. p \in Nat /\ q \in Nat /\ index[p] \in Int /\ index[q] \in Int
      BY <1>1, <1>range
    <3>2. ~(p < q) /\ ~(q < p)
      BY <1>3, <2>2, <3>1
    <3> QED BY <3>1, <3>2
  <2> QED BY <1>range, <2>2 DEF Injection, IsInjective
<1>5. index \in Surjection(members, 0..(count - 1))
  <2>1. /\ IsFiniteSet(0..(count - 1))
        /\ Cardinality(0..(count - 1)) = count
    <3>1. 0 \in Int /\ count - 1 \in Int /\ ~(0 > count - 1) /\ (count - 1) - 0 + 1 = count
      BY <1>1
    <3> HIDE DEF count
    <3>2. /\ IsFiniteSet(0..(count - 1))
          /\ Cardinality(0..(count - 1)) = (count - 1) - 0 + 1
      BY <3>1, FS_Interval, Zenon
    <3> QED BY <3>1, <3>2, Zenon DEF count
  <2> QED BY <1>4, <2>1, FS_Injection
<1>6. PICK i \in 0..(count - 1) :
         /\ s \in IndexedSlice(i, count)
         /\ \A j \in 0..(count - 1) : j # i => s \notin IndexedSlice(j, count)
  BY <1>1, IndexedSlicesDivide
<1>7. PICK p \in members : index[p] = i
  BY <1>5 DEF Surjection
<1>9. ASSUME NEW q \in members \ {p}
      PROVE  s \notin Slice(members, q)
  <2>1. index[q] # i /\ index[q] \in 0..(count - 1)
    BY <1>4, <1>7, <1>range DEF Injection, IsInjective
  <2> QED BY <2>1, <1>6, <1>slice
<1> QED BY <1>6, <1>7, <1>slice, <1>9

-----------------------------------------------------------------------------
(* The invariant, for one producer.                                        *)

Starting(p) == main[p].at \in {"watching", "computed", "started", "subscribed"}

\* The subscribers that the starting thread has told their shards.
Told(p) == 1..(IF main[p].at = "subscribed" THEN subscribed[p] - 1 ELSE subscribed[p])

\* Who has shards somewhere, has been told them on the way.
KnownInv(p) ==
    /\ main[p].at \in {"computed", "subscribed"} => main[p].range \in SUBSET Shards
    /\ main[p].at \in {"started", "subscribed", "running"}
          => /\ mine[p] \in SUBSET Shards
             /\ \A k \in Told(p) : task[p][k] \in SUBSET Shards
    /\ main[p].at \in {"off", "joined", "watching", "computed", "ended"}
          => subscribed[p] = 0
    /\ main[p].at = "subscribed" => subscribed[p] > 0
    /\ main[p].at = "running" => subscribed[p] = NumTasks
    /\ watcher[p].at = "computed" => watcher[p].range \in SUBSET Shards
    /\ watcher[p].at = "calling" => mine[p] \in SUBSET Shards

\* A start that the watchers have not disturbed, in the group it began with.
StartInv(p) ==
    Starting(p) =>
       /\ main[p].since \in 1..version
       /\ ~main[p].disturbed => watcher[p].at = "idle"
       /\ ~main[p].disturbed /\ main[p].since = version =>
             /\ seen[p] = group
             /\ main[p].at \in {"computed", "subscribed"}
                   => main[p].range = Slice(group, p)
             /\ main[p].at \in {"started", "subscribed"}
                   => mine[p] = Slice(group, p)
             /\ \A k \in Told(p) : task[p][k] = Slice(group, p)

\* A run of the watchers of a running producer, in the group it was made for.
WatchInv(p) ==
    watcher[p].at # "idle" =>
       /\ main[p].at \notin {"off", "joined", "ended"}
       /\ watcher[p].since \in 1..version
       /\ watcher[p].alone => main[p].at = "running"
       /\ watcher[p].alone /\ watcher[p].since = version =>
             /\ watcher[p].members = group
             /\ watcher[p].at = "computed" => watcher[p].range = Slice(group, p)
             /\ watcher[p].at = "calling" =>
                   /\ mine[p] = Slice(group, p)
                   /\ \A k \in 1..subscribed[p] :
                         k < watcher[p].next => task[p][k] = Slice(group, p)

\* Who has dealt with the last change has its slice, and waits for the next one.
DealtInv(p) ==
    /\ dealt[p] \in 0..version
    /\ dealt[p] # 0 => main[p].at = "running"
    /\ dealt[p] = version =>
          /\ watcher[p].at = "idle"
          /\ seen[p] = group
          /\ \A k \in Tasks : task[p][k] = Slice(group, p)

ProducerInv(p) == KnownInv(p) /\ StartInv(p) /\ WatchInv(p) /\ DealtInv(p)

IInv ==
    /\ TypeOK
    /\ version > 0
    /\ \A p \in Producers : ProducerInv(p)

LEMMA SliceIsKnown == \A g, p : Slice(g, p) \in SUBSET Shards
BY DEF Slice, IndexedSlice

LEMMA RangesAre == NoShards \in Ranges /\ \A g, p : Slice(g, p) \in Ranges
BY SliceIsKnown DEF Ranges

\* What another producer does, a change of the group included, breaks nothing here:
\* what is claimed for the last version is claimed for no earlier one.
LEMMA OthersKeep ==
    ASSUME IInv, NEW p \in Producers,
           UNCHANGED <<main[p], watcher[p], seen[p], mine[p], subscribed[p], task[p],
                       dealt[p]>>,
           \/ UNCHANGED <<group, version>>
           \/ version' = version + 1
    PROVE  ProducerInv(p)'
<1>0. /\ ProducerInv(p)
      /\ version \in Nat
      /\ dealt[p] \in Nat
  BY DEF IInv, TypeOK
<1>1. CASE UNCHANGED <<group, version>>
  BY <1>0, <1>1 DEF ProducerInv, KnownInv, StartInv, WatchInv, DealtInv, Starting, Told
<1>2. CASE version' = version + 1
  <2>1. KnownInv(p)'
    BY <1>0 DEF ProducerInv, KnownInv, Told
  <2>2. StartInv(p)'
    BY <1>0, <1>2 DEF ProducerInv, StartInv, Starting
  <2>3. WatchInv(p)'
    BY <1>0, <1>2 DEF ProducerInv, WatchInv
  <2>4. DealtInv(p)'
    BY <1>0, <1>2 DEF ProducerInv, DealtInv
  <2> QED BY <2>1, <2>2, <2>3, <2>4 DEF ProducerInv
<1> QED BY <1>1, <1>2

LEMMA ChangeCounts ==
    ASSUME NEW members, ChangeGroup(members)
    PROVE  group' = members /\ version' = version + 1 /\ calm' \in BOOLEAN
<1> DEFINE all == \A p \in group : main[p].at # "ended" => dealt[p] = version
<1>1. group' = members /\ version' = version + 1 /\ calm' = all
  BY Zenon DEF ChangeGroup
<1>2. all \in BOOLEAN
  BY Zenon
<1> HIDE DEF all
<1> QED BY <1>1, <1>2, Zenon

\* The end of a process leaves nothing to claim.
LEMMA EndKeeps ==
    ASSUME IInv, NEW p \in Producers, EndProcess(p),
           \/ UNCHANGED <<group, version, calm>>
           \/ ChangeGroup(group \ {p}),
           faults' \in 0..MaxFaults
    PROVE  IInv'
<1>0. TypeOK /\ version > 0
  BY DEF IInv
<1>1. TypeOK'
  <2>1. /\ group' \subseteq Producers
        /\ version' \in Nat
        /\ calm' \in BOOLEAN
    BY <1>0, ChangeCounts DEF TypeOK
  <2>2. /\ subscribed' \in [Producers -> 0..NumTasks]
        /\ dealt' \in [Producers -> Nat]
        /\ seen' \in [Producers -> SUBSET Producers]
    BY <1>0, PartitionerAssumption DEF TypeOK, EndProcess
  <2>3. /\ mine' \in [Producers -> Ranges]
        /\ task' \in [Producers -> [Tasks -> Ranges]]
    BY <1>0 DEF TypeOK, EndProcess, Ranges
  <2>4. main' \in [Producers -> StartThreads]
    BY <1>0 DEF TypeOK, EndProcess, Off, Ranges, StartThreads
  <2>5. watcher' \in [Producers -> WatcherThreads]
    BY <1>0 DEF TypeOK, EndProcess, Idle, Ranges, WatcherThreads
  <2> QED BY <2>1, <2>2, <2>3, <2>4, <2>5 DEF TypeOK
<1>2. version' > 0 /\ (UNCHANGED <<group, version>> \/ version' = version + 1)
  BY <1>0, ChangeCounts DEF TypeOK
<1>3. ProducerInv(p)'
  <2>1. /\ main'[p].at = "ended" /\ watcher'[p].at = "idle"
        /\ subscribed'[p] = 0 /\ dealt'[p] = 0
    BY <1>0 DEF TypeOK, EndProcess, Off, Idle
  <2>2. version' \in Nat
    BY <1>1 DEF TypeOK
  <2> QED BY <2>1, <2>2, <1>2
        DEF ProducerInv, KnownInv, StartInv, WatchInv, DealtInv, Starting, Told
<1>4. ASSUME NEW q \in Producers, q # p
      PROVE  ProducerInv(q)'
  <2>1. UNCHANGED <<main[q], watcher[q], seen[q], mine[q], subscribed[q], task[q],
                    dealt[q]>>
    BY <1>0, <1>4 DEF TypeOK, EndProcess
  <2> QED BY <2>1, <1>2, OthersKeep
<1> QED BY <1>1, <1>2, <1>3, <1>4 DEF IInv

-----------------------------------------------------------------------------
(* The steps.                                                              *)

\* A step of p keeps the invariant if it keeps the types and what is claimed of p.
LEMMA OneSteps ==
    ASSUME IInv, NEW p \in Producers, TypeOK',
           UNCHANGED <<group, version>> \/ version' = version + 1,
           \A q \in Producers : q # p =>
              UNCHANGED <<main[q], watcher[q], seen[q], mine[q], subscribed[q],
                          task[q], dealt[q]>>,
           ProducerInv(p)'
    PROVE  IInv'
<1>1. ASSUME NEW q \in Producers, q # p
      PROVE  ProducerInv(q)'
  BY <1>1, OthersKeep
<1>2. version' > 0
  BY DEF IInv, TypeOK
<1> QED BY <1>1, <1>2 DEF IInv

LEMMA StartFields ==
    ASSUME NEW m \in StartThreads,
           NEW at \in {"joined", "watching", "computed", "started", "subscribed"},
           NEW range \in Ranges
    PROVE  /\ [m EXCEPT !.at = at] \in StartThreads
           /\ [m EXCEPT !.at = at, !.range = range] \in StartThreads
           /\ \A since \in Nat : [m EXCEPT !.at = at, !.since = since] \in StartThreads
           /\ \A b \in BOOLEAN : [m EXCEPT !.disturbed = b] \in StartThreads
<1>1. [m EXCEPT !.at = at] \in StartThreads
  BY DEF StartThreads
<1>2. [m EXCEPT !.at = at, !.range = range] \in StartThreads
  BY DEF StartThreads
<1>3. \A since \in Nat : [m EXCEPT !.at = at, !.since = since] \in StartThreads
  BY DEF StartThreads
<1>4. \A b \in BOOLEAN : [m EXCEPT !.disturbed = b] \in StartThreads
  BY DEF StartThreads
<1> QED BY <1>1, <1>2, <1>3, <1>4

LEMMA GroupSteps ==
    ASSUME IInv, NEW p \in Producers,
           JoinGroup(p) \/ LeaveGroup(p) \/ Crash(p) \/ Expire(p)
    PROVE  IInv'
<1>0. TypeOK /\ version > 0 /\ ProducerInv(p)
  BY DEF IInv
<1>1. CASE JoinGroup(p)
  <2>1. /\ group' = group \union {p}
        /\ version' = version + 1
        /\ calm' \in BOOLEAN
    BY <1>1, ChangeCounts, Zenon DEF JoinGroup
  <2>2. main[p].at = "off" /\ main' = [main EXCEPT ![p].at = "joined"]
    BY <1>1 DEF JoinGroup
  <2>3. UNCHANGED <<watcher, seen, mine, subscribed, task, faults, dealt>>
    BY <1>1 DEF JoinGroup
  <2>4. TypeOK'
    <3>1. [main[p] EXCEPT !.at = "joined"] \in StartThreads
      BY <1>0, StartFields, RangesAre DEF TypeOK
    <3>2. main' \in [Producers -> StartThreads]
      BY <1>0, <2>2, <3>1 DEF TypeOK
    <3> QED BY <1>0, <2>1, <2>3, <3>2 DEF TypeOK
  <2>5. ProducerInv(p)'
    BY <1>0, <2>1, <2>2, <2>3 DEF TypeOK, StartThreads, WatcherThreads, ProducerInv, KnownInv, StartInv, WatchInv, DealtInv, Starting, Told
  <2>6. \A q \in Producers : q # p => main'[q] = main[q]
    BY <1>0, <2>2 DEF TypeOK
  <2> QED BY <2>1, <2>3, <2>4, <2>5, <2>6, OneSteps
<1>2. CASE LeaveGroup(p)
  BY <1>0, <1>2, EndKeeps DEF LeaveGroup, TypeOK
<1>3. CASE Crash(p)
  <2>1. faults' \in 0..MaxFaults
    BY <1>0, <1>3, PartitionerAssumption DEF Crash, TypeOK
  <2> QED BY <1>3, <2>1, EndKeeps DEF Crash
<1>4. CASE Expire(p)
  <2>1. /\ group' = group \ {p}
        /\ version' = version + 1
        /\ calm' \in BOOLEAN
    BY <1>4, ChangeCounts, Zenon DEF Expire
  <2>2. UNCHANGED <<main, watcher, seen, mine, subscribed, task, dealt>>
    BY <1>4 DEF Expire
  <2>3. faults' \in 0..MaxFaults
    BY <1>0, <1>4, PartitionerAssumption DEF Expire, TypeOK
  <2>4. TypeOK'
    BY <1>0, <2>1, <2>2, <2>3 DEF TypeOK
  <2>5. ProducerInv(p)'
    BY <2>1, <2>2, OthersKeep
  <2> QED BY <2>1, <2>2, <2>4, <2>5, OneSteps
<1> QED BY <1>1, <1>2, <1>3, <1>4

LEMMA WatcherFields ==
    ASSUME NEW w \in WatcherThreads
    PROVE  /\ \A range \in Ranges :
                 [w EXCEPT !.at = "computed", !.range = range] \in WatcherThreads
           /\ [w EXCEPT !.at = "calling", !.next = 1] \in WatcherThreads
           /\ [w EXCEPT !.next = @ + 1] \in WatcherThreads
           /\ w.events > 1
                 => [w EXCEPT !.at = "event", !.events = @ - 1] \in WatcherThreads
           /\ Idle \in WatcherThreads
<1>1. w.next + 1 \in Nat
  BY DEF WatcherThreads
<1>2. w.events > 1 => w.events - 1 \in Nat
  BY DEF WatcherThreads
<1>3. \A range \in Ranges :
         [w EXCEPT !.at = "computed", !.range = range] \in WatcherThreads
  BY DEF WatcherThreads
<1>4. [w EXCEPT !.at = "calling", !.next = 1] \in WatcherThreads
  BY DEF WatcherThreads
<1>5. [w EXCEPT !.next = @ + 1] \in WatcherThreads
  BY <1>1 DEF WatcherThreads
<1>6. w.events > 1 => [w EXCEPT !.at = "event", !.events = @ - 1] \in WatcherThreads
  BY <1>2 DEF WatcherThreads
<1>7. Idle \in WatcherThreads
  BY RangesAre DEF WatcherThreads, Idle
<1> QED BY <1>3, <1>4, <1>5, <1>6, <1>7

LEMMA StartSteps ==
    ASSUME IInv, NEW p \in Producers, StartStep(p)
    PROVE  IInv'
<1>0. TypeOK /\ version > 0 /\ ProducerInv(p)
  BY DEF IInv
<1>1. CASE WatchGroup(p)
  <2>1. UNCHANGED <<group, version>>
    BY <1>1 DEF WatchGroup
  <2>2. TypeOK'
    <3>1. main' \in [Producers -> StartThreads]
      <4>1. [main[p] EXCEPT !.at = "watching", !.since = version] \in StartThreads
        BY <1>0, StartFields, RangesAre DEF TypeOK
      <4> QED BY <1>0, <1>1, <4>1 DEF WatchGroup, TypeOK
    <3>2. watcher' \in [Producers -> WatcherThreads]
      BY <1>0, <1>1, RangesAre DEF WatchGroup, TypeOK, WatcherThreads, Goes
    <3>3. /\ mine' \in [Producers -> Ranges]
          /\ task' \in [Producers -> [Tasks -> Ranges]]
      BY <1>0, <1>1 DEF WatchGroup, TypeOK, StartThreads, WatcherThreads, Goes
    <3>4. /\ group' \subseteq Producers /\ version' \in Nat /\ calm' \in BOOLEAN
          /\ seen' \in [Producers -> SUBSET Producers]
          /\ subscribed' \in [Producers -> 0..NumTasks]
          /\ faults' \in 0..MaxFaults
          /\ dealt' \in [Producers -> Nat]
      BY <1>0, <1>1, PartitionerAssumption
         DEF WatchGroup, TypeOK, StartThreads, WatcherThreads, Goes
    <3> QED BY <3>1, <3>2, <3>3, <3>4 DEF TypeOK
  <2>3. \A q \in Producers : q # p =>
           UNCHANGED <<main[q], watcher[q], seen[q], mine[q], subscribed[q],
                       task[q], dealt[q]>>
    BY <1>0, <1>1 DEF WatchGroup, TypeOK, Goes
  <2>4. ProducerInv(p)'
    BY <1>0, <1>1, SliceIsKnown DEF WatchGroup, TypeOK, ProducerInv, KnownInv, StartInv, WatchInv, DealtInv, Starting, Told, Goes
  <2> QED BY <2>1, <2>2, <2>3, <2>4, OneSteps
<1>2. CASE AssignAtStart(p)
  <2>1. UNCHANGED <<group, version>>
    BY <1>2 DEF AssignAtStart
  <2>2. TypeOK'
    <3>1. main' \in [Producers -> StartThreads]
      BY <1>0, <1>2, RangesAre DEF AssignAtStart, TypeOK, StartThreads, Goes
    <3>2. watcher' \in [Producers -> WatcherThreads]
      BY <1>0, <1>2, RangesAre DEF AssignAtStart, TypeOK, WatcherThreads, Goes
    <3>3. /\ mine' \in [Producers -> Ranges]
          /\ task' \in [Producers -> [Tasks -> Ranges]]
      BY <1>0, <1>2 DEF AssignAtStart, TypeOK, StartThreads, WatcherThreads, Goes
    <3>4. /\ group' \subseteq Producers /\ version' \in Nat /\ calm' \in BOOLEAN
          /\ seen' \in [Producers -> SUBSET Producers]
          /\ subscribed' \in [Producers -> 0..NumTasks]
          /\ faults' \in 0..MaxFaults
          /\ dealt' \in [Producers -> Nat]
      BY <1>0, <1>2, PartitionerAssumption
         DEF AssignAtStart, TypeOK, StartThreads, WatcherThreads, Goes
    <3> QED BY <3>1, <3>2, <3>3, <3>4 DEF TypeOK
  <2>3. \A q \in Producers : q # p =>
           UNCHANGED <<main[q], watcher[q], seen[q], mine[q], subscribed[q],
                       task[q], dealt[q]>>
    BY <1>0, <1>2 DEF AssignAtStart, TypeOK, Goes
  <2>4. ProducerInv(p)'
    BY <1>0, <1>2, SliceIsKnown DEF AssignAtStart, TypeOK, ProducerInv, KnownInv, StartInv, WatchInv, DealtInv, Starting, Told, Goes
  <2> QED BY <2>1, <2>2, <2>3, <2>4, OneSteps
<1>3. CASE Subscribe(p)
  <2>1. UNCHANGED <<group, version>>
    BY <1>3 DEF Subscribe
  <2>2. TypeOK'
    <3>1. main' \in [Producers -> StartThreads]
      <4>1. [main[p] EXCEPT !.at = "subscribed", !.range = mine[p]] \in StartThreads
        BY <1>0, StartFields DEF TypeOK
      <4> QED BY <1>0, <1>3, <4>1 DEF Subscribe, TypeOK
    <3>2. watcher' \in [Producers -> WatcherThreads]
      BY <1>0, <1>3, RangesAre DEF Subscribe, TypeOK, WatcherThreads, Goes
    <3>3. /\ mine' \in [Producers -> Ranges]
          /\ task' \in [Producers -> [Tasks -> Ranges]]
      BY <1>0, <1>3 DEF Subscribe, TypeOK, StartThreads, WatcherThreads, Goes
    <3>4. /\ group' \subseteq Producers /\ version' \in Nat /\ calm' \in BOOLEAN
          /\ seen' \in [Producers -> SUBSET Producers]
          /\ subscribed' \in [Producers -> 0..NumTasks]
          /\ faults' \in 0..MaxFaults
          /\ dealt' \in [Producers -> Nat]
      BY <1>0, <1>3, PartitionerAssumption
         DEF Subscribe, TypeOK, StartThreads, WatcherThreads, Goes
    <3> QED BY <3>1, <3>2, <3>3, <3>4 DEF TypeOK
  <2>3. \A q \in Producers : q # p =>
           UNCHANGED <<main[q], watcher[q], seen[q], mine[q], subscribed[q],
                       task[q], dealt[q]>>
    BY <1>0, <1>3 DEF Subscribe, TypeOK, Goes
  <2>4. ProducerInv(p)'
    BY <1>0, <1>3, SliceIsKnown DEF Subscribe, TypeOK, ProducerInv, KnownInv, StartInv, WatchInv, DealtInv, Starting, Told, Goes
  <2> QED BY <2>1, <2>2, <2>3, <2>4, OneSteps
<1>4. CASE TellTask(p)
  <2>1. UNCHANGED <<group, version>>
    BY <1>4 DEF TellTask
  <2>2. TypeOK'
    <3>1. main' \in [Producers -> StartThreads]
      BY <1>0, <1>4, RangesAre DEF TellTask, TypeOK, StartThreads, Goes
    <3>2. watcher' \in [Producers -> WatcherThreads]
      BY <1>0, <1>4, RangesAre DEF TellTask, TypeOK, WatcherThreads, Goes
    <3>3. /\ mine' \in [Producers -> Ranges]
          /\ task' \in [Producers -> [Tasks -> Ranges]]
      BY <1>0, <1>4 DEF TellTask, TypeOK, StartThreads, WatcherThreads, Goes
    <3>4. /\ group' \subseteq Producers /\ version' \in Nat /\ calm' \in BOOLEAN
          /\ seen' \in [Producers -> SUBSET Producers]
          /\ subscribed' \in [Producers -> 0..NumTasks]
          /\ faults' \in 0..MaxFaults
          /\ dealt' \in [Producers -> Nat]
      BY <1>0, <1>4, PartitionerAssumption
         DEF TellTask, TypeOK, StartThreads, WatcherThreads, Goes
    <3> QED BY <3>1, <3>2, <3>3, <3>4 DEF TypeOK
  <2>3. \A q \in Producers : q # p =>
           UNCHANGED <<main[q], watcher[q], seen[q], mine[q], subscribed[q],
                       task[q], dealt[q]>>
    BY <1>0, <1>4 DEF TellTask, TypeOK, Goes
  <2>4. ProducerInv(p)'
    <3>1. /\ main[p].at = "subscribed" /\ main'[p].at = "started"
          /\ UNCHANGED <<main[p].range, main[p].since, main[p].disturbed>>
          /\ \A k \in Tasks : task'[p][k] =
                IF k = subscribed[p] THEN main[p].range ELSE task[p][k]
          /\ UNCHANGED <<watcher, seen, mine, subscribed, dealt>>
      BY <1>0, <1>4 DEF TellTask, TypeOK, StartThreads, WatcherThreads, Goes
    <3>2. /\ version \in Nat /\ dealt[p] \in Nat /\ subscribed[p] \in 0..NumTasks
          /\ watcher[p].next \in Nat
      BY <1>0 DEF TypeOK, WatcherThreads
    <3>3. KnownInv(p)'
      BY <1>0, <2>1, <3>1, <3>2, PartitionerAssumption DEF ProducerInv, KnownInv, Told, Tasks
    <3>4. StartInv(p)'
      BY <1>0, <2>1, <3>1, <3>2, PartitionerAssumption
         DEF ProducerInv, KnownInv, StartInv, WatchInv, Starting, Told, Tasks
    <3>5. WatchInv(p)'
      BY <1>0, <2>1, <3>1, <3>2 DEF ProducerInv, KnownInv, StartInv, WatchInv, Starting
    <3>6. DealtInv(p)'
      BY <1>0, <2>1, <3>1, <3>2, PartitionerAssumption
         DEF ProducerInv, KnownInv, StartInv, WatchInv, DealtInv, Starting, Told, Tasks
    <3> QED BY <3>3, <3>4, <3>5, <3>6 DEF ProducerInv
  <2> QED BY <2>1, <2>2, <2>3, <2>4, OneSteps
<1>5. CASE FinishStart(p)
  <2>1. UNCHANGED <<group, version>>
    BY <1>5 DEF FinishStart
  <2>2. TypeOK'
    <3>1. main' \in [Producers -> StartThreads]
      BY <1>0, <1>5, RangesAre DEF FinishStart, TypeOK, StartThreads, Goes, Running, Off
    <3>2. watcher' \in [Producers -> WatcherThreads]
      BY <1>0, <1>5, RangesAre DEF FinishStart, TypeOK, WatcherThreads, Goes, Running, Off
    <3>3. /\ mine' \in [Producers -> Ranges]
          /\ task' \in [Producers -> [Tasks -> Ranges]]
      BY <1>0, <1>5 DEF FinishStart, TypeOK, StartThreads, WatcherThreads, Goes, Running, Off
    <3>4. /\ group' \subseteq Producers /\ version' \in Nat /\ calm' \in BOOLEAN
          /\ seen' \in [Producers -> SUBSET Producers]
          /\ subscribed' \in [Producers -> 0..NumTasks]
          /\ faults' \in 0..MaxFaults
          /\ dealt' \in [Producers -> Nat]
      BY <1>0, <1>5, PartitionerAssumption
         DEF FinishStart, TypeOK, StartThreads, WatcherThreads, Goes, Running, Off
    <3> QED BY <3>1, <3>2, <3>3, <3>4 DEF TypeOK
  <2>3. \A q \in Producers : q # p =>
           UNCHANGED <<main[q], watcher[q], seen[q], mine[q], subscribed[q],
                       task[q], dealt[q]>>
    BY <1>0, <1>5 DEF FinishStart, TypeOK, Goes, Running, Off
  <2>4. ProducerInv(p)'
    <3>1. /\ main[p].at = "started" /\ subscribed[p] = NumTasks
          /\ main'[p] = [at |-> "running", range |-> NoShards, since |-> 0,
                         disturbed |-> FALSE]
          /\ dealt'[p] = IF main[p].disturbed THEN dealt[p] ELSE main[p].since
          /\ UNCHANGED <<watcher, seen, mine, subscribed, task>>
      BY <1>0, <1>5 DEF FinishStart, TypeOK, StartThreads, WatcherThreads, Goes, Running, Off
    <3>2. /\ version \in Nat /\ dealt[p] \in Nat /\ subscribed[p] \in 0..NumTasks
          /\ watcher[p].next \in Nat
      BY <1>0 DEF TypeOK, WatcherThreads
    <3>3. KnownInv(p)'
      BY <1>0, <2>1, <3>1, <3>2, PartitionerAssumption DEF ProducerInv, KnownInv, Told
    <3>4. StartInv(p)'
      BY <1>0, <2>1, <3>1, <3>2, PartitionerAssumption
         DEF ProducerInv, StartInv, WatchInv, Starting, Told
    <3>5. WatchInv(p)'
      BY <1>0, <2>1, <3>1, <3>2 DEF ProducerInv, KnownInv, StartInv, WatchInv, Starting
    <3>6. DealtInv(p)'
      BY <1>0, <2>1, <3>1, <3>2, PartitionerAssumption
         DEF ProducerInv, KnownInv, StartInv, WatchInv, DealtInv, Starting, Told, Tasks
    <3> QED BY <3>3, <3>4, <3>5, <3>6 DEF ProducerInv
  <2> QED BY <2>1, <2>2, <2>3, <2>4, OneSteps
<1>6. CASE ComputeAtStart(p)
  <2>1. UNCHANGED <<group, version, faults, calm>>
    BY <1>6 DEF ComputeAtStart
  <2>2. CASE EndProcess(p)
    BY <1>0, <2>1, <2>2, EndKeeps DEF TypeOK
  <2>3. CASE /\ main[p].at = "watching"
             /\ main' = [main EXCEPT ![p].at = "computed", ![p].range = Slice(group, p)]
             /\ UNCHANGED <<watcher, seen, mine, subscribed, task, dealt>>
    <3>1. main' \in [Producers -> StartThreads]
      <4>1. [main[p] EXCEPT !.at = "computed", !.range = Slice(group, p)] \in StartThreads
        BY <1>0, StartFields, RangesAre DEF TypeOK
      <4> QED BY <1>0, <2>3, <4>1 DEF TypeOK
    <3>2. TypeOK'
      BY <1>0, <2>1, <2>3, <3>1 DEF TypeOK
    <3>3. ProducerInv(p)'
      BY <1>0, <2>1, <2>3, SliceIsKnown
         DEF TypeOK, StartThreads, ProducerInv, KnownInv, StartInv, WatchInv, DealtInv,
             Starting, Told
    <3>4. \A q \in Producers : q # p => main'[q] = main[q]
      BY <1>0, <2>3 DEF TypeOK
    <3> QED BY <2>1, <2>3, <3>2, <3>3, <3>4, OneSteps
  <2> QED BY <1>6, <2>2, <2>3 DEF ComputeAtStart, Goes
<1> QED BY <1>1, <1>2, <1>3, <1>4, <1>5, <1>6 DEF StartStep

LEMMA WatcherSteps ==
    ASSUME IInv, NEW p \in Producers, WatcherStep(p)
    PROVE  IInv'
<1>0. TypeOK /\ version > 0 /\ ProducerInv(p)
  BY DEF IInv
<1>1. CASE RunWatchers(p)
  <2>1. UNCHANGED <<group, version>>
    BY <1>1 DEF RunWatchers
  <2>2. TypeOK'
    <3>1. main' \in [Producers -> StartThreads]
      <4>1. [main[p] EXCEPT !.disturbed = main[p].at # "running"] \in StartThreads
        BY <1>0, StartFields, RangesAre DEF TypeOK
      <4> QED BY <1>0, <1>1, <4>1 DEF RunWatchers, TypeOK
    <3>2. watcher' \in [Producers -> WatcherThreads]
      <4>1. Cardinality((group \ seen[p]) \union (seen[p] \ group)) \in Nat
        <5>1. IsFiniteSet(Producers)
          BY PartitionerAssumption, FS_Interval DEF Producers
        <5>2. (group \ seen[p]) \union (seen[p] \ group) \in SUBSET Producers
          BY <1>0 DEF TypeOK
        <5> QED BY <5>1, <5>2, FS_Subset, FS_CardinalityType
      <4>2. watcher'[p] \in WatcherThreads
        BY <1>0, <1>1, <4>1, RangesAre DEF RunWatchers, TypeOK, WatcherThreads
      <4> QED BY <1>0, <1>1, <4>2 DEF RunWatchers, TypeOK
    <3>3. /\ mine' \in [Producers -> Ranges]
          /\ task' \in [Producers -> [Tasks -> Ranges]]
      BY <1>0, <1>1 DEF RunWatchers, TypeOK, StartThreads, WatcherThreads, Watches
    <3>4. /\ group' \subseteq Producers /\ version' \in Nat /\ calm' \in BOOLEAN
          /\ seen' \in [Producers -> SUBSET Producers]
          /\ subscribed' \in [Producers -> 0..NumTasks]
          /\ faults' \in 0..MaxFaults
          /\ dealt' \in [Producers -> Nat]
      BY <1>0, <1>1, PartitionerAssumption
         DEF RunWatchers, TypeOK, StartThreads, WatcherThreads, Watches
    <3> QED BY <3>1, <3>2, <3>3, <3>4 DEF TypeOK
  <2>3. \A q \in Producers : q # p =>
           UNCHANGED <<main[q], watcher[q], seen[q], mine[q], subscribed[q],
                       task[q], dealt[q]>>
    BY <1>0, <1>1 DEF RunWatchers, TypeOK, Watches
  <2>4. ProducerInv(p)'
    <3>1. /\ watcher[p].at = "idle" /\ main[p].at \notin {"off", "joined", "ended"}
          /\ seen[p] # group
          /\ watcher'[p].at = "event" /\ watcher'[p].members = group
          /\ watcher'[p].since = version
          /\ watcher'[p].alone => main[p].at = "running"
          /\ main[p].at # "running" => main'[p].disturbed
          /\ UNCHANGED <<main[p].at, main[p].range, main[p].since>>
          /\ UNCHANGED <<seen, mine, subscribed, task, dealt>>
      <4>1. /\ watcher[p].at = "idle" /\ main[p].at \notin {"off", "joined", "ended"}
            /\ seen[p] # group
            /\ UNCHANGED <<seen, mine, subscribed, task, dealt>>
        BY <1>1 DEF RunWatchers, Watches
      <4>2. /\ watcher'[p].at = "event" /\ watcher'[p].members = group
            /\ watcher'[p].since = version
            /\ watcher'[p].alone => main[p].at = "running"
        BY <1>0, <1>1 DEF RunWatchers, TypeOK
      <4>3. main'[p] = [main[p] EXCEPT !.disturbed = main[p].at # "running"]
        BY <1>0, <1>1 DEF RunWatchers, TypeOK
      <4>4. /\ main[p].at # "running" => main'[p].disturbed
            /\ UNCHANGED <<main[p].at, main[p].range, main[p].since>>
        <5>1. main[p] \in StartThreads
          BY <1>0 DEF TypeOK
        <5>2. UNCHANGED <<main[p].at, main[p].range, main[p].since>>
          BY <4>3, <5>1 DEF StartThreads
        <5>3. ASSUME main[p].at # "running"
              PROVE  main'[p].disturbed
          <6>1. main'[p].disturbed = (main[p].at # "running")
            BY <4>3, <5>1 DEF StartThreads
          <6> QED BY <5>3, <6>1, Zenon
        <5> QED BY <5>2, <5>3
      <4> QED BY <4>1, <4>2, <4>4
    <3>2. /\ version \in Nat /\ dealt[p] \in Nat /\ subscribed[p] \in 0..NumTasks
          /\ watcher[p].next \in Nat
      BY <1>0 DEF TypeOK, WatcherThreads
    <3>3. KnownInv(p)'
      BY <1>0, <2>1, <3>1, <3>2, PartitionerAssumption DEF ProducerInv, KnownInv, Told
    <3>4. StartInv(p)'
      BY <1>0, <2>1, <3>1, <3>2, PartitionerAssumption
         DEF ProducerInv, StartInv, WatchInv, Starting, Told
    <3>5. WatchInv(p)'
      BY <1>0, <2>1, <3>1, <3>2 DEF ProducerInv, KnownInv, StartInv, WatchInv, Starting
    <3>6. DealtInv(p)'
      BY <1>0, <2>1, <3>1, <3>2, PartitionerAssumption
         DEF ProducerInv, KnownInv, StartInv, WatchInv, DealtInv, Starting, Told, Tasks
    <3> QED BY <3>3, <3>4, <3>5, <3>6 DEF ProducerInv
  <2> QED BY <2>1, <2>2, <2>3, <2>4, OneSteps
<1>2. CASE ComputeOnChange(p)
  <2>1. UNCHANGED <<group, version>>
    BY <1>2 DEF ComputeOnChange
  <2>2. TypeOK'
    <3>1. main' \in [Producers -> StartThreads]
      BY <1>0, <1>2, RangesAre DEF ComputeOnChange, TypeOK, StartThreads, Watches
    <3>2. watcher' \in [Producers -> WatcherThreads]
      BY <1>0, <1>2, RangesAre, WatcherFields DEF ComputeOnChange, TypeOK, Watches
    <3>3. /\ mine' \in [Producers -> Ranges]
          /\ task' \in [Producers -> [Tasks -> Ranges]]
      BY <1>0, <1>2 DEF ComputeOnChange, TypeOK, StartThreads, WatcherThreads, Watches
    <3>4. /\ group' \subseteq Producers /\ version' \in Nat /\ calm' \in BOOLEAN
          /\ seen' \in [Producers -> SUBSET Producers]
          /\ subscribed' \in [Producers -> 0..NumTasks]
          /\ faults' \in 0..MaxFaults
          /\ dealt' \in [Producers -> Nat]
      BY <1>0, <1>2, PartitionerAssumption
         DEF ComputeOnChange, TypeOK, StartThreads, WatcherThreads, Watches
    <3> QED BY <3>1, <3>2, <3>3, <3>4 DEF TypeOK
  <2>3. \A q \in Producers : q # p =>
           UNCHANGED <<main[q], watcher[q], seen[q], mine[q], subscribed[q],
                       task[q], dealt[q]>>
    BY <1>0, <1>2 DEF ComputeOnChange, TypeOK, Watches
  <2>4. ProducerInv(p)'
    BY <1>0, <1>2, SliceIsKnown DEF ComputeOnChange, TypeOK, ProducerInv, KnownInv, StartInv, WatchInv, DealtInv, Starting, Told, Watches
  <2> QED BY <2>1, <2>2, <2>3, <2>4, OneSteps
<1>3. CASE FailOnChange(p)
  <2>1. UNCHANGED <<group, version>>
    BY <1>3 DEF FailOnChange
  <2>2. TypeOK'
    <3>1. main' \in [Producers -> StartThreads]
      BY <1>0, <1>3, RangesAre DEF FailOnChange, TypeOK, StartThreads, Watches, Idle
    <3>2. watcher' \in [Producers -> WatcherThreads]
      BY <1>0, <1>3, RangesAre DEF FailOnChange, TypeOK, WatcherThreads, Watches, Idle
    <3>3. /\ mine' \in [Producers -> Ranges]
          /\ task' \in [Producers -> [Tasks -> Ranges]]
      BY <1>0, <1>3 DEF FailOnChange, TypeOK, StartThreads, WatcherThreads, Watches, Idle
    <3>4. /\ group' \subseteq Producers /\ version' \in Nat /\ calm' \in BOOLEAN
          /\ seen' \in [Producers -> SUBSET Producers]
          /\ subscribed' \in [Producers -> 0..NumTasks]
          /\ faults' \in 0..MaxFaults
          /\ dealt' \in [Producers -> Nat]
      BY <1>0, <1>3, PartitionerAssumption
         DEF FailOnChange, TypeOK, StartThreads, WatcherThreads, Watches, Idle
    <3> QED BY <3>1, <3>2, <3>3, <3>4 DEF TypeOK
  <2>3. \A q \in Producers : q # p =>
           UNCHANGED <<main[q], watcher[q], seen[q], mine[q], subscribed[q],
                       task[q], dealt[q]>>
    BY <1>0, <1>3 DEF FailOnChange, TypeOK, Watches, Idle
  <2>4. ProducerInv(p)'
    BY <1>0, <1>3, SliceIsKnown DEF FailOnChange, TypeOK, ProducerInv, KnownInv, StartInv, WatchInv, DealtInv, Starting, Told, Watches, Idle
  <2> QED BY <2>1, <2>2, <2>3, <2>4, OneSteps
<1>4. CASE AssignOnChange(p)
  <2>1. UNCHANGED <<group, version>>
    BY <1>4 DEF AssignOnChange
  <2>2. TypeOK'
    <3>1. main' \in [Producers -> StartThreads]
      BY <1>0, <1>4, RangesAre DEF AssignOnChange, TypeOK, StartThreads, Watches
    <3>2. watcher' \in [Producers -> WatcherThreads]
      BY <1>0, <1>4, RangesAre, WatcherFields DEF AssignOnChange, TypeOK, Watches
    <3>3. /\ mine' \in [Producers -> Ranges]
          /\ task' \in [Producers -> [Tasks -> Ranges]]
      BY <1>0, <1>4 DEF AssignOnChange, TypeOK, StartThreads, WatcherThreads, Watches
    <3>4. /\ group' \subseteq Producers /\ version' \in Nat /\ calm' \in BOOLEAN
          /\ seen' \in [Producers -> SUBSET Producers]
          /\ subscribed' \in [Producers -> 0..NumTasks]
          /\ faults' \in 0..MaxFaults
          /\ dealt' \in [Producers -> Nat]
      BY <1>0, <1>4, PartitionerAssumption
         DEF AssignOnChange, TypeOK, StartThreads, WatcherThreads, Watches
    <3> QED BY <3>1, <3>2, <3>3, <3>4 DEF TypeOK
  <2>3. \A q \in Producers : q # p =>
           UNCHANGED <<main[q], watcher[q], seen[q], mine[q], subscribed[q],
                       task[q], dealt[q]>>
    BY <1>0, <1>4 DEF AssignOnChange, TypeOK, Watches
  <2>4. ProducerInv(p)'
    BY <1>0, <1>4, SliceIsKnown DEF AssignOnChange, TypeOK, ProducerInv, KnownInv, StartInv, WatchInv, DealtInv, Starting, Told, Watches
  <2> QED BY <2>1, <2>2, <2>3, <2>4, OneSteps
<1>5. CASE RunCallback(p)
  <2>1. UNCHANGED <<group, version>>
    BY <1>5 DEF RunCallback
  <2>2. TypeOK'
    <3>1. main' \in [Producers -> StartThreads]
      BY <1>0, <1>5, RangesAre DEF RunCallback, TypeOK, StartThreads, Watches
    <3>2. watcher' \in [Producers -> WatcherThreads]
      BY <1>0, <1>5, RangesAre, WatcherFields DEF RunCallback, TypeOK, Watches
    <3>3. /\ mine' \in [Producers -> Ranges]
          /\ task' \in [Producers -> [Tasks -> Ranges]]
      BY <1>0, <1>5 DEF RunCallback, TypeOK, StartThreads, WatcherThreads, Watches
    <3>4. /\ group' \subseteq Producers /\ version' \in Nat /\ calm' \in BOOLEAN
          /\ seen' \in [Producers -> SUBSET Producers]
          /\ subscribed' \in [Producers -> 0..NumTasks]
          /\ faults' \in 0..MaxFaults
          /\ dealt' \in [Producers -> Nat]
      BY <1>0, <1>5, PartitionerAssumption
         DEF RunCallback, TypeOK, StartThreads, WatcherThreads, Watches
    <3> QED BY <3>1, <3>2, <3>3, <3>4 DEF TypeOK
  <2>3. \A q \in Producers : q # p =>
           UNCHANGED <<main[q], watcher[q], seen[q], mine[q], subscribed[q],
                       task[q], dealt[q]>>
    BY <1>0, <1>5 DEF RunCallback, TypeOK, Watches
  <2>4. ProducerInv(p)'
    <3>1. /\ watcher[p].at = "calling" /\ watcher[p].next <= subscribed[p]
          /\ watcher'[p].at = "calling" /\ watcher'[p].next = watcher[p].next + 1
          /\ UNCHANGED <<watcher[p].members, watcher[p].since, watcher[p].alone>>
          /\ \A k \in Tasks : task'[p][k] =
                IF k = watcher[p].next THEN mine[p] ELSE task[p][k]
          /\ UNCHANGED <<main, seen, mine, subscribed, dealt>>
      BY <1>0, <1>5 DEF RunCallback, TypeOK, StartThreads, WatcherThreads, Watches
    <3>2. /\ version \in Nat /\ dealt[p] \in Nat /\ subscribed[p] \in 0..NumTasks
          /\ watcher[p].next \in Nat
      BY <1>0 DEF TypeOK, WatcherThreads
    <3>3. KnownInv(p)'
      BY <1>0, <2>1, <3>1, <3>2, PartitionerAssumption DEF ProducerInv, KnownInv, Told, Tasks
    <3>4. StartInv(p)'
      BY <1>0, <2>1, <3>1, <3>2, PartitionerAssumption
         DEF ProducerInv, StartInv, WatchInv, Starting, Told
    <3>5. WatchInv(p)'
      BY <1>0, <2>1, <3>1, <3>2, PartitionerAssumption
         DEF ProducerInv, KnownInv, StartInv, WatchInv, Starting, Tasks
    <3>6. DealtInv(p)'
      BY <1>0, <2>1, <3>1, <3>2, PartitionerAssumption
         DEF ProducerInv, KnownInv, StartInv, WatchInv, DealtInv, Starting, Told, Tasks
    <3> QED BY <3>3, <3>4, <3>5, <3>6 DEF ProducerInv
  <2> QED BY <2>1, <2>2, <2>3, <2>4, OneSteps
<1>6. CASE FinishEvent(p)
  <2>1. UNCHANGED <<group, version>>
    BY <1>6 DEF FinishEvent
  <2>2. TypeOK'
    <3>1. main' \in [Producers -> StartThreads]
      BY <1>0, <1>6, RangesAre DEF FinishEvent, TypeOK, StartThreads, Watches, Idle
    <3>2. watcher' \in [Producers -> WatcherThreads]
      <4>1. \/ /\ watcher[p].events > 1
               /\ watcher' = [watcher EXCEPT ![p].at = "event", ![p].events = @ - 1]
            \/ watcher' = [watcher EXCEPT ![p] = Idle]
        BY <1>6 DEF FinishEvent
      <4>2. watcher[p].events > 1
               => [watcher[p] EXCEPT !.at = "event", !.events = @ - 1] \in WatcherThreads
        BY <1>0, WatcherFields DEF TypeOK
      <4>3. Idle \in WatcherThreads
        BY <1>0, WatcherFields DEF TypeOK
      <4> QED BY <1>0, <4>1, <4>2, <4>3 DEF TypeOK
    <3>3. /\ mine' \in [Producers -> Ranges]
          /\ task' \in [Producers -> [Tasks -> Ranges]]
      BY <1>0, <1>6 DEF FinishEvent, TypeOK, StartThreads, WatcherThreads, Watches, Idle
    <3>4. /\ group' \subseteq Producers /\ version' \in Nat /\ calm' \in BOOLEAN
          /\ subscribed' \in [Producers -> 0..NumTasks]
          /\ faults' \in 0..MaxFaults
      BY <1>0, <1>6 DEF FinishEvent, TypeOK
    <3>5. watcher[p].members \in SUBSET Producers /\ watcher[p].since \in Nat
      BY <1>0 DEF TypeOK, WatcherThreads
    <3>6. /\ seen' \in [Producers -> SUBSET Producers]
          /\ dealt' \in [Producers -> Nat]
      BY <1>0, <1>6, <3>5 DEF FinishEvent, TypeOK
    <3> QED BY <3>1, <3>2, <3>3, <3>4, <3>6 DEF TypeOK
  <2>3. \A q \in Producers : q # p =>
           UNCHANGED <<main[q], watcher[q], seen[q], mine[q], subscribed[q],
                       task[q], dealt[q]>>
    BY <1>0, <1>6 DEF FinishEvent, TypeOK, Watches, Idle
  <2>4. ProducerInv(p)'
    <3>1. /\ watcher[p].at = "calling" /\ watcher[p].next > subscribed[p]
          /\ \/ /\ watcher'[p].at = "event"
                /\ watcher'[p].members = watcher[p].members
                /\ watcher'[p].since = watcher[p].since
                /\ watcher'[p].alone = watcher[p].alone
                /\ UNCHANGED <<seen, dealt>>
             \/ /\ watcher'[p].at = "idle"
                /\ seen'[p] = watcher[p].members
                /\ dealt'[p] = IF watcher[p].alone THEN watcher[p].since ELSE dealt[p]
          /\ UNCHANGED <<main, mine, subscribed, task>>
      BY <1>0, <1>6 DEF FinishEvent, TypeOK, StartThreads, WatcherThreads, Watches, Idle
    <3>2. /\ version \in Nat /\ dealt[p] \in Nat /\ subscribed[p] \in 0..NumTasks
          /\ watcher[p].next \in Nat
      BY <1>0 DEF TypeOK, WatcherThreads
    <3>3. KnownInv(p)'
      BY <1>0, <2>1, <3>1, <3>2, PartitionerAssumption DEF ProducerInv, KnownInv, Told
    <3>4. StartInv(p)'
      BY <1>0, <2>1, <3>1, <3>2, PartitionerAssumption
         DEF ProducerInv, StartInv, WatchInv, Starting, Told
    <3>5. WatchInv(p)'
      BY <1>0, <2>1, <3>1, <3>2 DEF ProducerInv, KnownInv, StartInv, WatchInv, Starting
    <3>6. DealtInv(p)'
      BY <1>0, <2>1, <3>1, <3>2, PartitionerAssumption
         DEF ProducerInv, KnownInv, StartInv, WatchInv, DealtInv, Starting, Told, Tasks
    <3> QED BY <3>3, <3>4, <3>5, <3>6 DEF ProducerInv
  <2> QED BY <2>1, <2>2, <2>3, <2>4, OneSteps
<1> QED BY <1>1, <1>2, <1>3, <1>4, <1>5, <1>6 DEF WatcherStep

-----------------------------------------------------------------------------
(* The theorems.                                                           *)

LEMMA InitHolds == Init => IInv
<1> SUFFICES ASSUME Init PROVE IInv
  OBVIOUS
<1>1. TypeOK
  <2>1. main \in [Producers -> StartThreads]
    BY RangesAre DEF Init, StartThreads, Running, Off
  <2>2. watcher \in [Producers -> WatcherThreads]
    BY RangesAre DEF Init, WatcherThreads, Idle
  <2>3. /\ mine \in [Producers -> Ranges]
        /\ task \in [Producers -> [Tasks -> Ranges]]
    BY RangesAre DEF Init
  <2>4. /\ group \subseteq Producers /\ version \in Nat /\ calm \in BOOLEAN
        /\ seen \in [Producers -> SUBSET Producers]
        /\ subscribed \in [Producers -> 0..NumTasks]
        /\ faults \in 0..MaxFaults
        /\ dealt \in [Producers -> Nat]
    BY PartitionerAssumption DEF Init
  <2> QED BY <2>1, <2>2, <2>3, <2>4 DEF TypeOK
<1>2. ASSUME NEW p \in Producers
      PROVE  ProducerInv(p)
  <2>1. /\ watcher[p].at = "idle" /\ version = 1
        /\ main[p].at = IF p \in group THEN "running" ELSE "off"
        /\ subscribed[p] = IF p \in group THEN NumTasks ELSE 0
        /\ dealt[p] = IF p \in group THEN 1 ELSE 0
        /\ p \in group => seen[p] = group /\ mine[p] = Slice(group, p)
        /\ \A k \in Tasks : task[p][k] = mine[p]
    BY DEF Init, Idle, Running, Off
  <2>2. KnownInv(p) /\ StartInv(p) /\ WatchInv(p)
    BY <2>1, SliceIsKnown DEF KnownInv, StartInv, WatchInv, Starting, Told, Tasks
  <2>3. DealtInv(p)
    BY <2>1 DEF DealtInv
  <2> QED BY <2>2, <2>3 DEF ProducerInv
<1>3. version > 0
  BY DEF Init
<1> QED BY <1>1, <1>2, <1>3 DEF IInv

LEMMA StepHolds == IInv /\ [Next]_vars => IInv'
<1> SUFFICES ASSUME IInv, [Next]_vars PROVE IInv'
  OBVIOUS
<1>1. CASE UNCHANGED vars
  BY <1>1 DEF vars, IInv, TypeOK, ProducerInv, KnownInv, StartInv, WatchInv, DealtInv,
              Starting, Told
<1>2. CASE Next
  BY <1>2, GroupSteps, StartSteps, WatcherSteps DEF Next
<1> QED BY <1>1, <1>2

\* The invariant of every run of the producers.
THEOREM Inductive == Spec => []IInv
BY InitHolds, StepHolds, PTL DEF Spec

\* The state keeps its types, and no task subscribes twice.
THEOREM TypeCorrect == Spec => []TypeOK
<1>1. IInv => TypeOK
  BY DEF IInv
<1> QED BY <1>1, Inductive, PTL

\* A task whose timer runs has been told its shards (_my_range).
THEOREM TasksTold == Spec => []TasksAreTold
<1>1. IInv => TasksAreTold
  <2> SUFFICES ASSUME IInv, NEW p \in Producers, main[p].at = "running", NEW k \in Tasks
               PROVE  task[p][k] # NoShards
    BY DEF TasksAreTold
  <2>1. task[p][k] \in SUBSET Shards
    BY DEF IInv, ProducerInv, KnownInv, Told, Tasks
  <2>2. -1 \in NoShards /\ -1 \notin Shards
    BY PartitionerAssumption DEF NoShards, Shards
  <2> QED BY <2>1, <2>2
<1> QED BY <1>1, Inductive, PTL

\* Once each member has dealt with the last change of the group, each shard belongs
\* to exactly one of them, in each of its tasks (_partition, _on_group_change).
THEOREM SettledGroupsDivide == Spec => []DividedWhenSettled
<1>1. IInv => DividedWhenSettled
  <2> SUFFICES ASSUME IInv, Settled, group # {} PROVE Divided
    BY DEF DividedWhenSettled
  <2>1. group \in SUBSET Producers
    BY DEF IInv, TypeOK
  <2>2. \A p \in group : \A k \in Tasks : task[p][k] = Slice(group, p)
    BY <2>1 DEF IInv, ProducerInv, DealtInv, Settled
  <2>3. ASSUME NEW s \in Shards
        PROVE  \E p \in group : /\ s \in Slice(group, p)
                                /\ \A q \in group \ {p} : s \notin Slice(group, q)
    BY <2>1, SlicesDivide
  <2> QED BY <2>2, <2>3 DEF Divided
<1> QED BY <1>1, Inductive, PTL

=============================================================================
