----------------------------- MODULE ZonesProofs ------------------------------
(***************************************************************************)
(* Proofs about what central decides about zones. ZoneTree: for any names, *)
(* tenants, pools and threads, zones of different tenants stay apart and   *)
(* parents stay above their subzones. Placement: for any names and types   *)
(* of recordsets and any number of threads, a CNAME stands alone.          *)
(* ZoneOwners: for any projects, users, recordsets, offers and calls at    *)
(* once, who has recordsets in a zone and who may take it. Quotas: for any *)
(* number of callers, any limits and calls that add any number of items up *)
(* to MaxItems, how far a quota can be overrun.                            *)
(***************************************************************************)
EXTENDS MCCentral, WellFoundedInduction, FiniteSetTheorems, TLAPS

-----------------------------------------------------------------------------
(* ZoneTree.                                                               *)

\* A row of the table.
TreeRow ==
    [state : {"live", "deleting", "deleted"}, name : ZoneNames, tenant : Tenants,
     pool : PoolIds, parent : ZoneIds \union {NoParent}]
PurgedRow == [state |-> "purged"]

\* What a thread knows that creates, deletes or purges zones.
Creation ==
    [op : {"create"}, at : {"insert", "reparent"}, name : ZoneNames, tenant : Tenants,
     pool : PoolIds, parent : ZoneIds \union {NoParent}, zone : ZoneIds \union {0},
     subzones : SUBSET ZoneIds]
Deletion == [op : {"delete"}, at : {"mark"}, zone : ZoneIds]
ParentsOf(batch) == [batch -> ZoneIds \union {NoParent}]
Purge ==
    [op : {"purge"}, at : {"reparent", "remove"}, batch : SUBSET ZoneIds, left : SUBSET ZoneIds,
     zone : ZoneIds \union {0}, parents : UNION {ParentsOf(batch) : batch \in SUBSET ZoneIds}]

TreeTyped ==
    /\ zones \in [ZoneIds -> {NoZone, PurgedRow} \union TreeRow]
    /\ thread \in [Threads -> {Resting} \union Creation \union Deletion \union Purge]
    /\ upsets \in 0..MaxUpsets
    /\ transferred \subseteq ZoneNames

\* The id is in use, or was.
Known(x) == zones[x] # NoZone

\* The lock create-new-zone.
OneCreator == \A p, q \in Threads : Doing(p) = "create" /\ Doing(q) = "create" => p = q

\* As long as no zone between is transferred, who creates a zone n owns those around it.
NoneMovedBetween(m, n) == ~\E k \in transferred : IsPrefix(m, k) /\ IsPrefix(k, n)
OwnAround(n, t) ==
    \A x \in LiveZones :
        LET m == zones[x].name
        IN  /\ IsPrefix(m, n) /\ NoneMovedBetween(m, n) => zones[x].tenant = t
            /\ IsPrefix(n, m) /\ NoneMovedBetween(n, m) => zones[x].tenant = t

\* A zone that is known to a creation, which may be gone by now.
IsOver(x, n, its_pool) == InTable(x) => Below(n, zones[x].name) /\ zones[x].pool = its_pool
IsUnder(x, n, its_pool) == InTable(x) => Below(zones[x].name, n) /\ zones[x].pool = its_pool
IsAt(x, n, its_pool) == InTable(x) => zones[x].name = n /\ zones[x].pool = its_pool

\* The parent and the subzones that a creation found are still where they belong.
CreatingWell(p) ==
    LET th == thread[p]
    IN  /\ th.at = "insert" =>
              /\ th.parent # NoParent
                    => Known(th.parent) /\ IsOver(th.parent, th.name, th.pool)
              /\ OwnAround(th.name, th.tenant)
        /\ \A x \in th.subzones : Known(x) /\ IsUnder(x, th.name, th.pool)
        /\ th.at = "reparent" =>
              th.zone \in ZoneIds /\ Known(th.zone) /\ IsAt(th.zone, th.name, th.pool)

\* Zone s, or the top, is above zone z, if they are still there.
Leads(s, z) ==
    s = NoParent \/ (s \in ZoneIds /\ Known(s)
                     /\ (InTable(s) /\ InTable(z)
                           => IsAbove(s, z) /\ zones[s].pool = zones[z].pool))

\* Each zone of a batch is led to a parent outside the batch that is above it.
PurgingWell(p) ==
    LET th == thread[p]
    IN  /\ th.left \subseteq th.batch
        /\ th.at = "remove" => th.zone \in th.batch
        /\ \A z \in th.batch : Known(z) /\ Leads(Survivor(th.batch, th.parents, z), z)

\* What holds of the tree and of what the threads know of it.
TreeInv ==
    /\ OneCreator
    /\ TenantsAreApart
    /\ ParentsAreAbove
    /\ \A p \in Threads : Doing(p) = "create" => CreatingWell(p)
    /\ \A p \in Threads : Doing(p) = "purge" => PurgingWell(p)

-----------------------------------------------------------------------------
(* Names.                                                                  *)

\* A set of natural numbers has a least one.
LEMMA LeastNumber ==
    ASSUME NEW T \in SUBSET Nat, T # {}
    PROVE  \E n \in T : \A m \in T : n <= m
<1> DEFINE R == OpToRel(<, Nat)
<1>1. IsWellFoundedOn(R, Nat)
  BY NatLessThanWellFounded
<1>2. R = {ss \in Nat \X Nat : ss[1] < ss[2]}
  BY Zenon DEF OpToRel
<1> HIDE DEF R
<1>3. PICK n \in T : \A m \in T : <<m, n>> \notin R
  BY <1>1, WFMin
<1>4. ASSUME NEW m \in Nat, NEW k \in Nat, m < k PROVE <<m, k>> \in R
  <2>1. <<m, k>> \in Nat \X Nat /\ <<m, k>>[1] = m /\ <<m, k>>[2] = k
    OBVIOUS
  <2> QED
    BY <1>2, <1>4, <2>1, Zenon
<1>5. \A m \in T : m \in Nat /\ ~(m < n)
  BY <1>3, <1>4, Zenon
<1> QED
  BY <1>5

LEMMA NameLength == \A n \in ZoneNames : n \in Seq(Range(n)) /\ Len(n) \in Nat
  BY TreeAssumption

\* A prefix, label by label.
LEMMA PrefixAt ==
    ASSUME NEW s \in ZoneNames, NEW t \in ZoneNames
    PROVE  IsPrefix(s, t) <=> Len(s) <= Len(t) /\ \A i \in 1..Len(s) : s[i] = t[i]
<1>1. /\ s \in Seq(Range(s)) /\ t \in Seq(Range(t)) /\ Len(s) \in Nat /\ Len(t) \in Nat
  BY NameLength
<1>2. ASSUME Len(s) <= Len(t)
      PROVE  /\ SubSeq(s, 1, Len(s)) = [i \in 1..Len(s) |-> s[i]]
             /\ SubSeq(t, 1, Len(s)) = [i \in 1..Len(s) |-> t[i]]
  BY <1>1, <1>2
<1> QED
  BY <1>1, <1>2 DEF IsPrefix

\* Prefixes are ordered, and those of one name are in line.
LEMMA PrefixesAreOrdered ==
    /\ \A n \in ZoneNames : IsPrefix(n, n)
    /\ \A k, m, n \in ZoneNames : IsPrefix(k, m) /\ IsPrefix(m, n) => IsPrefix(k, n)
    /\ \A k, m, n \in ZoneNames :
          IsPrefix(k, n) /\ IsPrefix(m, n) /\ Len(k) <= Len(m) => IsPrefix(k, m)
<1>1. \A n \in ZoneNames : IsPrefix(n, n)
  BY PrefixAt, NameLength
<1>2. ASSUME NEW k \in ZoneNames, NEW m \in ZoneNames, NEW n \in ZoneNames
      PROVE  /\ IsPrefix(k, m) /\ IsPrefix(m, n) => IsPrefix(k, n)
             /\ IsPrefix(k, n) /\ IsPrefix(m, n) /\ Len(k) <= Len(m) => IsPrefix(k, m)
  <2>1. Len(k) \in Nat /\ Len(m) \in Nat /\ Len(n) \in Nat
    BY NameLength
  <2> QED
    BY <2>1, PrefixAt
<1> QED
  BY <1>1, <1>2

LEMMA BelowIsLonger ==
    ASSUME NEW n \in ZoneNames, NEW m \in ZoneNames
    PROVE  /\ Below(n, m) <=> IsPrefix(m, n) /\ m # n
           /\ Below(n, m) => Len(m) < Len(n)
<1>1. Below(n, m) <=> IsPrefix(m, n) /\ m # n
  BY DEF Below, IsStrictPrefix
<1>2. ASSUME IsPrefix(m, n), m # n PROVE Len(m) < Len(n)
  <2>1. /\ Len(m) \in Nat /\ Len(n) \in Nat /\ m \in Seq(Range(m)) /\ n \in Seq(Range(n))
        /\ Len(m) <= Len(n) /\ \A i \in 1..Len(m) : m[i] = n[i]
    BY <1>2, NameLength, PrefixAt
  <2> SUFFICES ASSUME Len(m) = Len(n) PROVE FALSE
    BY <2>1
  <2>2. m = [i \in 1..Len(m) |-> m[i]] /\ n = [i \in 1..Len(n) |-> n[i]]
    BY <2>1
  <2> QED
    BY <1>2, <2>1, <2>2
<1> QED
  BY <1>1, <1>2

LEMMA BelowIsTransitive ==
    ASSUME NEW k \in ZoneNames, NEW m \in ZoneNames, NEW n \in ZoneNames, Below(n, m),
           Below(m, k)
    PROVE  Below(n, k)
<1>1. /\ IsPrefix(k, n) /\ Len(k) < Len(m) /\ Len(m) < Len(n)
      /\ Len(k) \in Nat /\ Len(m) \in Nat /\ Len(n) \in Nat
  BY BelowIsLonger, PrefixesAreOrdered, NameLength
<1> QED
  BY <1>1, BelowIsLonger

-----------------------------------------------------------------------------
(* Rows and threads.                                                       *)

LEMMA TreeRowTypes ==
    ASSUME TreeTyped, NEW z \in ZoneIds
    PROVE  /\ InTable(z) <=> zones[z] \in TreeRow
           /\ InTable(z) => /\ zones[z].name \in ZoneNames /\ zones[z].tenant \in Tenants
                            /\ zones[z].pool \in PoolIds
                            /\ zones[z].parent \in ZoneIds \union {NoParent}
                            /\ Known(z)
           /\ Live(z) => InTable(z)
           /\ z # NoParent
<1>1. zones[z] \in {NoZone, PurgedRow} \union TreeRow
  BY DEF TreeTyped
<1>2. InTable(z) <=> zones[z] \in TreeRow
  BY <1>1 DEF InTable, NoZone, PurgedRow, TreeRow
<1>3. InTable(z) => Known(z)
  BY DEF InTable, Known, NoZone
<1>4. Live(z) => InTable(z)
  BY DEF Live, InTable
<1>5. z # NoParent
  BY TreeAssumption DEF NoParent
<1> QED
  BY <1>2, <1>3, <1>4, <1>5 DEF TreeRow

LEMMA ThreadTypes ==
    ASSUME TreeTyped, NEW p \in Threads
    PROVE  /\ Doing(p) = "create" => thread[p] \in Creation
           /\ Doing(p) = "delete" => thread[p] \in Deletion
           /\ Doing(p) = "purge" => thread[p] \in Purge
<1>1. thread[p] \in {Resting} \union Creation \union Deletion \union Purge
  BY DEF TreeTyped
<1> QED
  BY <1>1 DEF Doing, Resting, Creation, Deletion, Purge

LEMMA PurgeSteps ==
    ASSUME NEW th \in Purge
    PROVE  /\ \A z \in ZoneIds :
                 LET next == [th EXCEPT !.at = "remove", !.zone = z, !.left = @ \ {z}]
                 IN  /\ next \in Purge
                     /\ next.op = "purge" /\ next.at = "remove" /\ next.zone = z
                     /\ next.left = th.left \ {z}
                     /\ next.batch = th.batch /\ next.parents = th.parents
           /\ LET next == [th EXCEPT !.at = "reparent"]
              IN  /\ next \in Purge
                  /\ next.op = "purge" /\ next.at = "reparent" /\ next.left = th.left
                  /\ next.batch = th.batch /\ next.parents = th.parents
  BY DEF Purge

LEMMA ProceedFacts ==
    ASSUME TreeTyped, NEW p \in Threads,
           NEW next \in {Resting} \union Creation \union Deletion \union Purge,
           Proceed(p, next)
    PROVE  /\ thread'[p] = next /\ \A q \in Threads \ {p} : thread'[q] = thread[q]
           /\ thread' \in [Threads -> {Resting} \union Creation \union Deletion \union Purge]
  BY DEF TreeTyped, Proceed

LEMMA ReturnFacts ==
    ASSUME TreeTyped, NEW p \in Threads, Return(p)
    PROVE  /\ Doing(p)' = "none" /\ \A q \in Threads \ {p} : thread'[q] = thread[q]
           /\ thread' \in [Threads -> {Resting} \union Creation \union Deletion \union Purge]
<1>1. Resting.op = "none" /\ Proceed(p, Resting)
  BY DEF Resting, Return
<1> QED
  BY <1>1, ProceedFacts DEF Doing

-----------------------------------------------------------------------------
(* The way up.                                                             *)

LEMMA SurvivorIsAbove ==
    ASSUME TreeTyped, ParentsAreAbove,
           NEW batch \in SUBSET ZoneIds, \A x \in batch : InTable(x),
           NEW parents, \A x \in batch : parents[x] = zones[x].parent,
           NEW z \in batch
    PROVE  LET s == Survivor(batch, parents, z)
           IN  s = NoParent \/ (s \in ZoneIds /\ InTable(s) /\ IsAbove(s, z)
                                /\ zones[s].pool = zones[z].pool)
<1> DEFINE Closed(way) == \A x \in way : parents[x] \in batch => parents[x] \in way
           walked == {x \in batch : \A way \in SUBSET batch : z \in way /\ Closed(way)
                      => x \in way}
           s == Survivor(batch, parents, z)
           higher == {x \in batch : x = z \/ (IsAbove(x, z)
                                              /\ zones[x].pool = zones[z].pool)}
<1>1. ASSUME NEW x \in batch, parents[x] # NoParent
      PROVE  /\ parents[x] \in ZoneIds /\ InTable(parents[x]) /\ IsAbove(parents[x], x)
             /\ zones[parents[x]].pool = zones[x].pool
  BY <1>1, TreeRowTypes DEF ParentsAreAbove
<1>2. \A x \in batch : parents[x] \in batch => parents[x] # NoParent
  BY TreeRowTypes
<1>3. \A x \in ZoneIds, y, w \in ZoneIds :
         InTable(x) /\ InTable(y) /\ InTable(w) /\ IsAbove(x, y) /\ IsAbove(y, w)
               => IsAbove(x, w)
  BY TreeRowTypes, BelowIsTransitive DEF IsAbove
<1>4. Closed(higher)
  BY <1>1, <1>2, <1>3
<1>5. walked \subseteq higher
  BY <1>4
<1>6. z \in walked /\ Closed(walked)
  OBVIOUS
<1>7. \E x \in walked : parents[x] \notin batch
  <2> DEFINE T == {Len(zones[x].name) : x \in walked}
  <2> HIDE DEF walked
  <2>1. \A x \in walked : x \in batch /\ x \in ZoneIds /\ Len(zones[x].name) \in Nat
    BY TreeRowTypes, NameLength DEF walked
  <2>2. T \in SUBSET Nat /\ T # {}
    BY <1>6, <2>1
  <2>3. PICK n \in T : \A m \in T : n <= m
    BY <2>2, LeastNumber
  <2>4. PICK x \in walked : n = Len(zones[x].name)
    BY <2>3
  <2> SUFFICES ASSUME parents[x] \in batch PROVE FALSE
    OBVIOUS
  <2>5. parents[x] \in walked /\ IsAbove(parents[x], x) /\ InTable(parents[x])
    BY <1>1, <1>2, <1>6, <2>1
  <2>6. Len(zones[parents[x]].name) < Len(zones[x].name)
    BY <2>1, <2>5, TreeRowTypes, BelowIsLonger DEF IsAbove
  <2>7. n <= Len(zones[parents[x]].name)
    BY <2>3, <2>5
  <2> QED
    BY <2>1, <2>4, <2>5, <2>6, <2>7
<1>8. s \in {parents[x] : x \in walked} /\ s \notin batch
  BY <1>7 DEF Survivor
<1>9. PICK x \in walked : s = parents[x]
  BY <1>8
<1> HIDE DEF s, walked
<1>10. CASE s # NoParent
  <2>1. x \in batch /\ x \in higher
    BY <1>5 DEF walked
  <2>2. s \in ZoneIds /\ InTable(s) /\ IsAbove(s, x) /\ zones[s].pool = zones[x].pool
    BY <1>1, <1>9, <1>10, <2>1
  <2>3. x = z \/ (IsAbove(x, z) /\ zones[x].pool = zones[z].pool)
    BY <2>1
  <2> QED
    BY <1>3, <2>1, <2>2, <2>3 DEF s
<1> QED
  BY <1>10 DEF s

-----------------------------------------------------------------------------
(* What a step leaves as it is.                                            *)

\* Rows that are known stay known, and keep their names and pools while they are there.
RowsStay ==
    \A x \in ZoneIds : Known(x) =>
        /\ Known(x)'
        /\ InTable(x)' => InTable(x) /\ zones'[x].name = zones[x].name
                          /\ zones'[x].pool = zones[x].pool

\* No zone comes, and none changes hands without being among the transferred.
OwnersStay ==
    /\ transferred \subseteq transferred'
    /\ \A x \in ZoneIds : Live(x)' =>
          /\ Live(x) /\ zones'[x].name = zones[x].name
          /\ zones'[x].tenant = zones[x].tenant \/ zones'[x].name \in transferred'

LEMMA PurgingStays ==
    ASSUME TreeTyped, NEW p \in Threads, Doing(p) = "purge", PurgingWell(p), RowsStay,
           thread'[p].batch = thread[p].batch, thread'[p].parents = thread[p].parents,
           thread'[p].left \subseteq thread[p].left,
           thread'[p].at = "remove" => thread'[p].zone \in thread[p].batch
    PROVE  PurgingWell(p)'
<1> DEFINE th == thread[p]
<1>1. th \in Purge /\ th.batch \subseteq ZoneIds
  BY ThreadTypes DEF Purge
<1>2. /\ th.left \subseteq th.batch
      /\ \A z \in th.batch : Known(z) /\ Leads(Survivor(th.batch, th.parents, z), z)
  BY DEF PurgingWell
<1>3. ASSUME NEW s, NEW z \in ZoneIds, Known(z), Leads(s, z)
      PROVE  Known(z)' /\ (s = NoParent \/ (s \in ZoneIds /\ Known(s)'
                             /\ (InTable(s)' /\ InTable(z)' =>
                                   /\ Below(zones'[z].name, zones'[s].name)
                                   /\ zones'[s].pool = zones'[z].pool)))
  BY <1>3 DEF Leads, RowsStay, IsAbove
<1>4. \A z \in th.batch : LET s == Survivor(th.batch, th.parents, z)
                          IN  Known(z)' /\ (s = NoParent \/ (s \in ZoneIds /\ Known(s)'
                                /\ (InTable(s)' /\ InTable(z)' =>
                                      /\ Below(zones'[z].name, zones'[s].name)
                                      /\ zones'[s].pool = zones'[z].pool)))
  BY <1>1, <1>2, <1>3
<1> QED
  BY <1>2, <1>4 DEF PurgingWell, Leads, IsAbove

LEMMA PurgesStay ==
    ASSUME TreeTyped, TreeInv, RowsStay
    PROVE  \A q \in Threads : Doing(q)' = "purge" /\ thread'[q] = thread[q]
          => PurgingWell(q)'
<1> SUFFICES ASSUME NEW q \in Threads, Doing(q)' = "purge", thread'[q] = thread[q]
             PROVE  PurgingWell(q)'
  OBVIOUS
<1>1. Doing(q) = "purge" /\ PurgingWell(q)
  BY DEF Doing, TreeInv
<1> QED
  BY <1>1, PurgingStays DEF PurgingWell

LEMMA KnownStays ==
    ASSUME RowsStay, NEW x \in ZoneIds, Known(x)
    PROVE  /\ Known(x)'
           /\ \A n, k : /\ IsOver(x, n, k) => (InTable(x)'
                            => Below(n, zones'[x].name) /\ zones'[x].pool = k)
                        /\ IsUnder(x, n, k) => (InTable(x)'
                            => Below(zones'[x].name, n) /\ zones'[x].pool = k)
                        /\ IsAt(x, n, k) => (InTable(x)'
                                             => zones'[x].name = n /\ zones'[x].pool = k)
  BY DEF RowsStay, IsOver, IsUnder, IsAt

\* Who has the name of a zone of his own, or one between, has it moved or keeps it.
LEMMA AroundStays ==
    ASSUME TreeTyped, OwnersStay, NEW n \in ZoneNames, NEW t, OwnAround(n, t)
    PROVE  \A x \in LiveZones' :
              LET m == zones'[x].name
              IN  /\ IsPrefix(m, n) /\ ~(\E k \in transferred' : IsPrefix(m, k)
                                         /\ IsPrefix(k, n))
                     => zones'[x].tenant = t
                  /\ IsPrefix(n, m) /\ ~(\E k \in transferred' : IsPrefix(n, k)
                                         /\ IsPrefix(k, m))
                     => zones'[x].tenant = t
<1> SUFFICES ASSUME NEW x \in LiveZones'
             PROVE  LET m == zones'[x].name
                    IN  /\ IsPrefix(m, n)
                           /\ ~(\E k \in transferred' : IsPrefix(m, k) /\ IsPrefix(k, n))
                           => zones'[x].tenant = t
                        /\ IsPrefix(n, m)
                           /\ ~(\E k \in transferred' : IsPrefix(n, k) /\ IsPrefix(k, m))
                           => zones'[x].tenant = t
  OBVIOUS
<1> DEFINE m == zones'[x].name
<1>1. /\ x \in LiveZones /\ x \in ZoneIds /\ m = zones[x].name
      /\ zones'[x].tenant = zones[x].tenant \/ m \in transferred'
      /\ transferred \subseteq transferred'
  BY DEF LiveZones, OwnersStay
<1>2. m \in ZoneNames /\ IsPrefix(m, m)
  BY <1>1, TreeRowTypes, PrefixesAreOrdered DEF LiveZones
<1> HIDE DEF m
<1> QED
  BY <1>1, <1>2 DEF OwnAround, NoneMovedBetween, m

LEMMA CreatingStays ==
    ASSUME TreeTyped, NEW p \in Threads, Doing(p) = "create", CreatingWell(p), RowsStay,
           OwnersStay,
           thread'[p] = thread[p]
    PROVE  CreatingWell(p)'
<1> DEFINE th == thread[p]
<1>1. /\ th.parent \in ZoneIds \union {NoParent} /\ th.subzones \subseteq ZoneIds
      /\ th.name \in ZoneNames
  BY ThreadTypes DEF Creation
<1>2. ASSUME th.at = "insert"
      PROVE  /\ th.parent # NoParent =>
                   /\ Known(th.parent)'
                   /\ InTable(th.parent)' => Below(th.name, zones'[th.parent].name)
                                             /\ zones'[th.parent].pool = th.pool
             /\ OwnAround(th.name, th.tenant)
  BY <1>1, <1>2, KnownStays DEF CreatingWell
<1>3. \A x \in th.subzones :
         /\ Known(x)'
         /\ InTable(x)' => Below(zones'[x].name, th.name) /\ zones'[x].pool = th.pool
  BY <1>1, KnownStays DEF CreatingWell
<1>4. th.at = "reparent" =>
         /\ th.zone \in ZoneIds /\ Known(th.zone)'
         /\ InTable(th.zone)'
               => zones'[th.zone].name = th.name /\ zones'[th.zone].pool = th.pool
  BY KnownStays DEF CreatingWell
<1>5. th.at = "insert" =>
         \A x \in LiveZones' :
              LET m == zones'[x].name
                  n == th.name
              IN  /\ IsPrefix(m, n) /\ ~(\E k \in transferred' : IsPrefix(m, k)
                                         /\ IsPrefix(k, n))
                     => zones'[x].tenant = th.tenant
                  /\ IsPrefix(n, m) /\ ~(\E k \in transferred' : IsPrefix(n, k)
                                         /\ IsPrefix(k, m))
                     => zones'[x].tenant = th.tenant
  BY <1>1, <1>2, AroundStays
<1> QED
  BY <1>2, <1>3, <1>4, <1>5
     DEF CreatingWell, IsOver, IsUnder, IsAt, OwnAround, NoneMovedBetween

LEMMA CreationsStay ==
    ASSUME TreeTyped, TreeInv, RowsStay, OwnersStay,
           \A q \in Threads : Doing(q)' = "create" => thread'[q] = thread[q]
    PROVE  OneCreator' /\ \A q \in Threads : Doing(q)' = "create" => CreatingWell(q)'
<1>1. \A q \in Threads : Doing(q)' = "create"
      => thread'[q] = thread[q] /\ Doing(q) = "create"
  BY DEF Doing
<1>2. OneCreator'
  BY <1>1 DEF TreeInv, OneCreator
<1> QED
  BY <1>1, <1>2, CreatingStays DEF TreeInv

LEMMA ApartStays ==
    ASSUME TreeTyped, OwnersStay, TenantsAreApart
    PROVE  TenantsAreApart'
<1> SUFFICES ASSUME NEW x \in LiveZones', NEW z \in LiveZones',
                    zones'[x].name = zones'[z].name \/ Below(zones'[z].name, zones'[x].name),
                    ~\E n \in transferred' : /\ IsPrefix(zones'[x].name, n)
                                             /\ IsPrefix(n, zones'[z].name)
             PROVE  zones'[x].tenant = zones'[z].tenant
  BY DEF TenantsAreApart, IsAbove
<1>1. /\ x \in LiveZones /\ z \in LiveZones /\ x \in ZoneIds /\ z \in ZoneIds
      /\ zones'[x].name = zones[x].name /\ zones'[z].name = zones[z].name
      /\ zones'[x].tenant = zones[x].tenant \/ zones[x].name \in transferred'
      /\ zones'[z].tenant = zones[z].tenant \/ zones[z].name \in transferred'
      /\ transferred \subseteq transferred'
  BY DEF LiveZones, OwnersStay
<1>2. /\ zones[x].name \in ZoneNames /\ zones[z].name \in ZoneNames
  BY <1>1, TreeRowTypes DEF LiveZones
<1>3. /\ IsPrefix(zones[x].name, zones[z].name)
      /\ IsPrefix(zones[x].name, zones[x].name) /\ IsPrefix(zones[z].name, zones[z].name)
  BY <1>1, <1>2, PrefixesAreOrdered, BelowIsLonger
<1>4. zones[x].name \notin transferred' /\ zones[z].name \notin transferred'
  BY <1>1, <1>3
<1>5. zones[x].tenant = zones[z].tenant
  BY <1>1 DEF TenantsAreApart, IsAbove
<1> QED
  BY <1>1, <1>4, <1>5

\* The rows that are there stay there, and so do their parents.
LEMMA ParentsStay ==
    ASSUME TreeTyped, ParentsAreAbove,
           \A x \in ZoneIds : /\ Known(x) => Known(x)'
                              /\ InTable(x)' <=> InTable(x)
                              /\ InTable(x) => /\ zones'[x].name = zones[x].name
                                               /\ zones'[x].pool = zones[x].pool
                                               /\ zones'[x].parent = zones[x].parent
    PROVE  ParentsAreAbove' /\ RowsStay
<1>1. ASSUME NEW z \in ZoneIds, InTable(z)', zones'[z].parent # NoParent,
             NEW x, x = zones'[z].parent
      PROVE  InTable(x)' /\ Below(zones'[z].name, zones'[x].name)
            /\ zones'[x].pool = zones'[z].pool
  <2>1. /\ zones[z].parent = x /\ x \in ZoneIds /\ InTable(z)
        /\ InTable(x) /\ IsAbove(x, z) /\ zones[x].pool = zones[z].pool
    BY <1>1, TreeRowTypes DEF ParentsAreAbove
  <2> QED
    BY <2>1 DEF IsAbove
<1> QED
  BY <1>1 DEF ParentsAreAbove, IsAbove, RowsStay

\* The threads that create or purge zones go on as they were.
LEMMA OthersGoOn ==
    ASSUME TreeTyped, TreeInv, RowsStay, OwnersStay, ParentsAreAbove',
           \A q \in Threads : Doing(q)' \in {"create", "purge"} => thread'[q] = thread[q]
    PROVE  TreeInv'
<1>1. OneCreator' /\ \A q \in Threads : Doing(q)' = "create" => CreatingWell(q)'
  BY CreationsStay
<1>2. \A q \in Threads : Doing(q)' = "purge" => PurgingWell(q)'
  BY PurgesStay
<1>3. TenantsAreApart'
  BY ApartStays DEF TreeInv
<1> QED
  BY <1>1, <1>2, <1>3 DEF TreeInv

-----------------------------------------------------------------------------
(* create_zone.                                                            *)

LEMMA NearestExists ==
    ASSUME TreeTyped, NEW n \in ZoneNames, NEW x \in LiveZones, Below(n, zones[x].name)
    PROVE  \E y \in NearestAbove(n, LiveZones) : Len(zones[x].name) <= Len(zones[y].name)
<1> DEFINE above == {z \in LiveZones : Below(n, zones[z].name)}
           T == {Len(n) - Len(zones[z].name) : z \in above}
<1>1. ASSUME NEW z \in above
      PROVE  /\ zones[z].name \in ZoneNames /\ Len(zones[z].name) \in Nat /\ Len(n) \in Nat
             /\ Len(zones[z].name) < Len(n)
  BY TreeRowTypes, NameLength, BelowIsLonger DEF LiveZones
<1>2. \A z \in above : Len(n) - Len(zones[z].name) \in Nat
  BY <1>1
<1> HIDE DEF above
<1>3. T \in SUBSET Nat /\ T # {}
  <2>1. x \in above
    BY DEF above
  <2> QED
    BY <1>2, <2>1
<1>4. PICK k \in T : \A m \in T : k <= m
  BY <1>3, LeastNumber
<1>5. PICK y \in above : k = Len(n) - Len(zones[y].name)
  BY <1>4
<1>6. ASSUME NEW z \in above PROVE Len(zones[z].name) <= Len(zones[y].name)
  <2>1. k <= Len(n) - Len(zones[z].name)
    BY <1>4
  <2> QED
    BY <1>1, <1>5, <2>1
<1>7. y \in NearestAbove(n, LiveZones) /\ x \in above
  BY <1>5, <1>6 DEF NearestAbove, above
<1> QED
  BY <1>6, <1>7

LEMMA NoConflictMeansOwn ==
    ASSUME TreeTyped, TenantsAreApart, NEW n \in ZoneNames, NEW t, ~Conflicts(t, n)
    PROVE  OwnAround(n, t)
<1> SUFFICES ASSUME NEW x \in LiveZones
             PROVE  LET m == zones[x].name
                    IN  /\ IsPrefix(m, n) /\ NoneMovedBetween(m, n) => zones[x].tenant = t
                        /\ IsPrefix(n, m) => zones[x].tenant = t
  BY DEF OwnAround
<1> DEFINE m == zones[x].name
<1>1. x \in ZoneIds /\ m \in ZoneNames
  BY TreeRowTypes DEF LiveZones
<1>2. m = n => zones[x].tenant = t
  BY DEF Conflicts
<1>3. IsPrefix(n, m) => zones[x].tenant = t
  BY <1>1, <1>2, BelowIsLonger DEF Conflicts
<1>4. ASSUME IsPrefix(m, n), NoneMovedBetween(m, n), m # n PROVE zones[x].tenant = t
  <2>1. Below(n, m)
    BY <1>1, <1>4, BelowIsLonger
  <2>2. PICK y \in NearestAbove(n, LiveZones) : Len(m) <= Len(zones[y].name)
    BY <2>1, NearestExists
  <2>3. y \in LiveZones /\ Below(n, zones[y].name) /\ zones[y].tenant = t
    BY <2>2 DEF NearestAbove, Conflicts
  <2>4. y \in ZoneIds /\ zones[y].name \in ZoneNames /\ IsPrefix(zones[y].name, n)
    BY <2>3, TreeRowTypes, BelowIsLonger DEF LiveZones
  <2>5. IsPrefix(m, zones[y].name)
    BY <1>1, <1>4, <2>2, <2>4, PrefixesAreOrdered
  <2>6. m = zones[y].name \/ IsAbove(x, y)
    BY <1>1, <2>4, <2>5, BelowIsLonger DEF IsAbove
  <2>7. ~\E k \in transferred : IsPrefix(m, k) /\ IsPrefix(k, zones[y].name)
    BY <1>4, <2>4, PrefixesAreOrdered DEF NoneMovedBetween, TreeTyped
  <2>8. zones[x].tenant = zones[y].tenant
    BY <2>3, <2>6, <2>7 DEF TenantsAreApart
  <2> QED
    BY <2>3, <2>8
<1> QED
  BY <1>2, <1>3, <1>4

LEMMA NothingMoves ==
    ASSUME TreeTyped, TreeInv, UNCHANGED <<zones, transferred>>
    PROVE  RowsStay /\ OwnersStay /\ TenantsAreApart' /\ ParentsAreAbove'
<1>1. RowsStay /\ OwnersStay
  BY DEF RowsStay, OwnersStay, Known, InTable, Live
<1>2. ParentsAreAbove'
  BY DEF TreeInv, ParentsAreAbove, InTable, IsAbove
<1> QED
  BY <1>1, <1>2, ApartStays DEF TreeInv

LEMMA BeginCreateInv ==
    ASSUME TreeTyped, TreeInv, NEW p \in Threads, NEW n \in ZoneNames, NEW t \in Tenants,
           NEW k \in PoolIds, BeginCreate(p, n, t, k)
    PROVE  TreeTyped' /\ TreeInv'
<1> DEFINE nearest == NearestInPool(n, k)
           below == AllBelow(n, k)
           next(x) == [op |-> "create", at |-> "insert", name |-> n, tenant |-> t,
                       pool |-> k, parent |-> x, zone |-> 0, subzones |-> below]
<1>1. /\ CreateLockIsFree /\ ~Conflicts(t, n)
      /\ \E x \in IF nearest = {} THEN {NoParent} ELSE nearest : Proceed(p, next(x))
      /\ UNCHANGED <<zones, upsets, transferred>>
  BY DEF BeginCreate
<1>2. /\ \A x \in nearest : x \in ZoneIds /\ Known(x) /\ IsOver(x, n, k)
      /\ \A x \in below : x \in ZoneIds /\ Known(x) /\ IsUnder(x, n, k)
  BY TreeRowTypes DEF NearestInPool, NearestAbove, AllBelow, InPool, LiveZones, IsOver, IsUnder
<1>3. PICK x \in ZoneIds \union {NoParent} :
         /\ Proceed(p, next(x))
         /\ x # NoParent => Known(x) /\ IsOver(x, n, k)
  BY <1>1, <1>2
<1>4. next(x) \in Creation
  BY <1>2 DEF Creation
<1>5. /\ thread'[p] = next(x) /\ \A q \in Threads \ {p} : thread'[q] = thread[q]
      /\ thread' \in [Threads -> {Resting} \union Creation \union Deletion \union Purge]
  BY <1>3, <1>4, ProceedFacts
<1>6. /\ thread'[p].op = "create" /\ thread'[p].at = "insert" /\ thread'[p].name = n
      /\ thread'[p].tenant = t /\ thread'[p].pool = k /\ thread'[p].parent = x
      /\ thread'[p].subzones = below
  BY <1>5
<1> HIDE DEF next, below, nearest
<1>7. TreeTyped'
  BY <1>1, <1>5 DEF TreeTyped
<1>8. RowsStay /\ OwnersStay /\ TenantsAreApart' /\ ParentsAreAbove'
  BY <1>1, NothingMoves
<1>9. Doing(p)' = "create" /\ \A q \in Threads : Doing(q)' = "create" => q = p
  BY <1>1, <1>5, <1>6 DEF CreateLockIsFree, Doing
<1>10. OwnAround(n, t)
  BY <1>1, NoConflictMeansOwn DEF TreeInv
<1>11. CreatingWell(p)'
  BY <1>1, <1>2, <1>3, <1>6, <1>10
     DEF CreatingWell, Known, InTable, IsOver, IsUnder, OwnAround, NoneMovedBetween,
         LiveZones, Live
<1>12. \A q \in Threads : Doing(q)' = "purge" => PurgingWell(q)'
  <2>1. \A q \in Threads : Doing(q)' = "purge" => thread'[q] = thread[q]
    BY <1>5, <1>9
  <2> QED
    BY <1>8, <2>1, PurgesStay
<1> QED
  BY <1>7, <1>8, <1>9, <1>11, <1>12 DEF TreeInv, OneCreator

\* What is done after the first zone, or after one more.
LEMMA ReparentingFacts ==
    ASSUME TreeTyped, NEW p \in Threads, Doing(p) = "create", NEW z \in ZoneIds,
           NEW xs \in SUBSET thread[p].subzones, Reparenting(p, xs, z)
    PROVE  /\ \A q \in Threads \ {p} : thread'[q] = thread[q]
           /\ thread' \in [Threads -> {Resting} \union Creation \union Deletion \union Purge]
           /\ \/ Doing(p)' = "none"
              \/ /\ thread'[p].op = "create" /\ thread'[p].at = "reparent"
                 /\ thread'[p].subzones = xs /\ thread'[p].zone = z
                 /\ thread'[p].name = thread[p].name /\ thread'[p].pool = thread[p].pool
<1>1. CASE xs = {}
  BY <1>1, ReturnFacts DEF Reparenting
<1>2. CASE xs # {}
  <2> DEFINE next == [thread[p] EXCEPT !.at = "reparent", !.subzones = xs, !.zone = z]
  <2>1. thread[p] \in Creation /\ xs \in SUBSET ZoneIds
    BY ThreadTypes DEF Creation
  <2>2. Proceed(p, next)
    BY <1>2 DEF Reparenting
  <2>3. /\ next \in Creation
        /\ next.op = "create" /\ next.at = "reparent" /\ next.subzones = xs /\ next.zone = z
        /\ next.name = thread[p].name /\ next.pool = thread[p].pool
    BY <2>1 DEF Creation
  <2> HIDE DEF next
  <2> QED
    BY <2>2, <2>3, ProceedFacts
<1> QED
  BY <1>1, <1>2

\* One row gets another parent, state or tenant.
LEMMA ReparentedRow ==
    ASSUME TreeTyped, NEW z \in ZoneIds, InTable(z), NEW q \in ZoneIds \union {NoParent},
           zones' = [zones EXCEPT ![z].parent = q, ![z].state = "live"]
    PROVE  /\ zones' \in [ZoneIds -> {NoZone, PurgedRow} \union TreeRow]
           /\ \A x \in ZoneIds \ {z} : zones'[x] = zones[x]
           /\ zones'[z].state = "live" /\ zones'[z].parent = q
           /\ zones'[z].name = zones[z].name /\ zones'[z].tenant = zones[z].tenant
           /\ zones'[z].pool = zones[z].pool
<1>1. zones[z] \in TreeRow /\ zones \in [ZoneIds -> {NoZone, PurgedRow} \union TreeRow]
  BY TreeRowTypes DEF TreeTyped
<1> QED
  BY <1>1 DEF TreeRow

LEMMA MarkedRow ==
    ASSUME TreeTyped, NEW z \in ZoneIds, InTable(z), NEW state \in {"live", "deleting", "deleted"},
           zones' = [zones EXCEPT ![z].state = state]
    PROVE  /\ zones' \in [ZoneIds -> {NoZone, PurgedRow} \union TreeRow]
           /\ \A x \in ZoneIds \ {z} : zones'[x] = zones[x]
           /\ zones'[z].state = state /\ zones'[z].parent = zones[z].parent
           /\ zones'[z].name = zones[z].name /\ zones'[z].tenant = zones[z].tenant
           /\ zones'[z].pool = zones[z].pool
<1>1. zones[z] \in TreeRow /\ zones \in [ZoneIds -> {NoZone, PurgedRow} \union TreeRow]
  BY TreeRowTypes DEF TreeTyped
<1> QED
  BY <1>1 DEF TreeRow

LEMMA TransferredRow ==
    ASSUME TreeTyped, NEW z \in ZoneIds, InTable(z), NEW t \in Tenants,
           zones' = [zones EXCEPT ![z].tenant = t]
    PROVE  /\ zones' \in [ZoneIds -> {NoZone, PurgedRow} \union TreeRow]
           /\ \A x \in ZoneIds \ {z} : zones'[x] = zones[x]
           /\ zones'[z].state = zones[z].state /\ zones'[z].parent = zones[z].parent
           /\ zones'[z].name = zones[z].name /\ zones'[z].tenant = t
           /\ zones'[z].pool = zones[z].pool
<1>1. zones[z] \in TreeRow /\ zones \in [ZoneIds -> {NoZone, PurgedRow} \union TreeRow]
  BY TreeRowTypes DEF TreeTyped
<1> QED
  BY <1>1 DEF TreeRow

LEMMA InsertZoneInv ==
    ASSUME TreeTyped, TreeInv, NEW p \in Threads, NEW z \in ZoneIds, InsertZone(p, z)
    PROVE  TreeTyped' /\ TreeInv'
<1> DEFINE th == thread[p]
           new == [state |-> "live", name |-> th.name, tenant |-> th.tenant,
                   pool |-> th.pool, parent |-> th.parent]
<1>1. /\ Doing(p) = "create" /\ At(p, "insert") /\ zones[z] = NoZone
      /\ \/ /\ ParentExists(th.parent) /\ zones' = [zones EXCEPT ![z] = new]
            /\ Reparenting(p, th.subzones, z)
         \/ Return(p) /\ UNCHANGED zones
      /\ UNCHANGED <<upsets, transferred>>
  BY DEF InsertZone
<1>2. th \in Creation /\ CreatingWell(p)
  BY <1>1, ThreadTypes DEF TreeInv
<1>3. \A q \in Threads \ {p} : Doing(q) # "create"
  BY <1>1 DEF TreeInv, OneCreator
<1>4. CASE ParentExists(th.parent) /\ zones' = [zones EXCEPT ![z] = new]
           /\ Reparenting(p, th.subzones, z)
  <2>1. new \in TreeRow
    BY <1>2 DEF Creation, TreeRow
  <2>2. /\ zones' \in [ZoneIds -> {NoZone, PurgedRow} \union TreeRow]
        /\ zones'[z] = new /\ \A x \in ZoneIds \ {z} : zones'[x] = zones[x]
    BY <1>4, <2>1 DEF TreeTyped
  <2>3. /\ zones'[z].state = "live" /\ zones'[z].name = th.name
        /\ zones'[z].tenant = th.tenant
        /\ zones'[z].pool = th.pool /\ zones'[z].parent = th.parent
    BY <2>2
  <2>4. /\ \A q \in Threads \ {p} : thread'[q] = thread[q]
        /\ thread' \in [Threads -> {Resting} \union Creation \union Deletion \union Purge]
        /\ \/ Doing(p)' = "none"
           \/ /\ thread'[p].op = "create" /\ thread'[p].at = "reparent"
              /\ thread'[p].subzones = th.subzones /\ thread'[p].zone = z
              /\ thread'[p].name = th.name /\ thread'[p].pool = th.pool
    BY <1>1, <1>4, ReparentingFacts
  <2> HIDE DEF new
  <2>5. TreeTyped'
    BY <1>1, <2>2, <2>4 DEF TreeTyped
  <2>6. ~Known(z) /\ ~InTable(z) /\ ~Live(z)
    BY <1>1 DEF Known, InTable, Live, NoZone
  <2>7. Live(z)' /\ InTable(z)' /\ Known(z)'
    BY <2>3 DEF Live, InTable, Known, NoZone
  <2>8. \A x \in ZoneIds \ {z} : /\ Live(x)' <=> Live(x)
                                 /\ InTable(x)' <=> InTable(x)
                                 /\ Known(x)' <=> Known(x)
    BY <2>2 DEF Live, InTable, Known
  <2>9. RowsStay
    BY <2>2, <2>6, <2>8 DEF RowsStay
  <2>10. /\ th.parent \in ZoneIds \union {NoParent} /\ th.subzones \subseteq ZoneIds
         /\ th.name \in ZoneNames
    BY <1>2 DEF Creation
  <2>11. ParentsAreAbove'
    <3> SUFFICES ASSUME NEW y \in ZoneIds, InTable(y)', NEW x, x = zones'[y].parent,
                        x # NoParent
                 PROVE  InTable(x)' /\ Below(zones'[y].name, zones'[x].name)
                        /\ zones'[x].pool = zones'[y].pool
      BY DEF ParentsAreAbove, IsAbove
    <3>1. CASE y = z
      <4>1. /\ x = th.parent /\ x \in ZoneIds \ {z} /\ InTable(x)
            /\ IsOver(x, th.name, th.pool)
        BY <1>1, <1>2, <1>4, <2>3, <2>6, <2>10, <3>1 DEF ParentExists, CreatingWell, At
      <4> QED
        BY <2>2, <2>3, <2>8, <3>1, <4>1 DEF IsOver
    <3>2. CASE y # z
      <4>1. /\ InTable(y) /\ x = zones[y].parent /\ x \in ZoneIds /\ InTable(x)
            /\ IsAbove(x, y)
            /\ zones[x].pool = zones[y].pool
        BY <2>2, <2>8, <3>2, TreeRowTypes DEF TreeInv, ParentsAreAbove
      <4>2. x # z
        BY <2>6, <4>1
      <4> QED
        BY <2>2, <2>8, <3>2, <4>1, <4>2 DEF IsAbove
    <3> QED
      BY <3>1, <3>2
  <2>12. TenantsAreApart'
    <3> SUFFICES ASSUME NEW x \in LiveZones', NEW y \in LiveZones',
                        zones'[x].name = zones'[y].name \/ Below(zones'[y].name, zones'[x].name),
                        ~\E n \in transferred : /\ IsPrefix(zones'[x].name, n)
                                                /\ IsPrefix(n, zones'[y].name)
                 PROVE  zones'[x].tenant = zones'[y].tenant
      BY <1>1 DEF TenantsAreApart, IsAbove
    <3>1. x \in ZoneIds /\ y \in ZoneIds /\ (x # z => x \in LiveZones) /\ (y # z => y \in LiveZones)
      BY <2>8 DEF LiveZones
    <3>2. zones'[x].name \in ZoneNames /\ zones'[y].name \in ZoneNames
      BY <2>2, <2>3, <2>10, <3>1, TreeRowTypes DEF LiveZones
    <3>3. IsPrefix(zones'[x].name, zones'[y].name)
      BY <3>2, BelowIsLonger, PrefixesAreOrdered
    <3>4. OwnAround(th.name, th.tenant)
      BY <1>1, <1>2 DEF CreatingWell, At
    <3>5. CASE x # z /\ y # z
      BY <2>2, <3>1, <3>5 DEF TreeInv, TenantsAreApart, IsAbove
    <3>6. CASE x # z /\ y = z
      BY <2>2, <2>3, <3>1, <3>3, <3>4, <3>6 DEF OwnAround, NoneMovedBetween
    <3>7. CASE x = z /\ y # z
      BY <2>2, <2>3, <3>1, <3>3, <3>4, <3>7 DEF OwnAround, NoneMovedBetween
    <3> QED
      BY <3>5, <3>6, <3>7
  <2>13. ASSUME Doing(p)' = "create" PROVE CreatingWell(p)'
    <3>1. /\ thread'[p].op = "create" /\ thread'[p].at = "reparent"
          /\ thread'[p].subzones = th.subzones /\ thread'[p].zone = z
          /\ thread'[p].name = th.name /\ thread'[p].pool = th.pool
      BY <2>4, <2>13
    <3>2. \A x \in th.subzones :
             /\ Known(x)'
             /\ InTable(x)' => Below(zones'[x].name, th.name) /\ zones'[x].pool = th.pool
      BY <1>2, <2>9, <2>10, KnownStays DEF CreatingWell
    <3> QED
      BY <2>3, <2>7, <3>1, <3>2 DEF CreatingWell, IsUnder, IsAt
  <2>14. /\ \A q \in Threads : Doing(q)' = "create" => q = p
         /\ \A q \in Threads : Doing(q)' = "purge" => thread'[q] = thread[q]
    BY <1>3, <2>4 DEF Doing
  <2>15. \A q \in Threads : Doing(q)' = "purge" => PurgingWell(q)'
    BY <2>9, <2>14, PurgesStay
  <2> QED
    BY <2>5, <2>11, <2>12, <2>13, <2>14, <2>15 DEF TreeInv, OneCreator
<1>5. CASE Return(p) /\ UNCHANGED zones
  <2>1. /\ Doing(p)' = "none" /\ \A q \in Threads \ {p} : thread'[q] = thread[q]
        /\ thread' \in [Threads -> {Resting} \union Creation \union Deletion \union Purge]
    BY <1>5, ReturnFacts
  <2>2. RowsStay /\ OwnersStay /\ ParentsAreAbove'
    BY <1>1, <1>5, NothingMoves
  <2>3. TreeInv'
    BY <2>1, <2>2, OthersGoOn
  <2> QED
    BY <1>1, <1>5, <2>1, <2>3 DEF TreeTyped
<1> QED
  BY <1>1, <1>4, <1>5

LEMMA ReparentInv ==
    ASSUME TreeTyped, TreeInv, NEW p \in Threads, NEW z \in ZoneIds, Reparent(p, z)
    PROVE  TreeTyped' /\ TreeInv'
<1> DEFINE th == thread[p]
<1>1. /\ Doing(p) = "create" /\ At(p, "reparent") /\ z \in th.subzones
      /\ \/ /\ Live(z) /\ ParentExists(th.zone)
            /\ zones' = [zones EXCEPT ![z].parent = th.zone, ![z].state = "live"]
            /\ Reparenting(p, th.subzones \ {z}, th.zone)
         \/ Return(p) /\ UNCHANGED zones
      /\ UNCHANGED <<upsets, transferred>>
  BY DEF Reparent
<1>2. th \in Creation /\ CreatingWell(p) /\ th.subzones \subseteq ZoneIds
  BY <1>1, ThreadTypes DEF TreeInv, Creation
<1>3. \A q \in Threads \ {p} : Doing(q) # "create"
  BY <1>1 DEF TreeInv, OneCreator
<1>4. CASE /\ Live(z) /\ ParentExists(th.zone)
           /\ zones' = [zones EXCEPT ![z].parent = th.zone, ![z].state = "live"]
           /\ Reparenting(p, th.subzones \ {z}, th.zone)
  <2>1. /\ th.zone \in ZoneIds /\ th.zone # NoParent /\ Known(th.zone) /\ InTable(th.zone)
        /\ IsAt(th.zone, th.name, th.pool) /\ InTable(z) /\ IsUnder(z, th.name, th.pool)
    BY <1>1, <1>2, <1>4, TreeRowTypes DEF CreatingWell, At, ParentExists
  <2>2. /\ zones' \in [ZoneIds -> {NoZone, PurgedRow} \union TreeRow]
        /\ \A x \in ZoneIds \ {z} : zones'[x] = zones[x]
        /\ zones'[z].state = "live" /\ zones'[z].parent = th.zone
        /\ zones'[z].name = zones[z].name
        /\ zones'[z].tenant = zones[z].tenant /\ zones'[z].pool = zones[z].pool
    BY <1>4, <2>1, ReparentedRow
  <2>3. /\ \A q \in Threads \ {p} : thread'[q] = thread[q]
        /\ thread' \in [Threads -> {Resting} \union Creation \union Deletion \union Purge]
        /\ \/ Doing(p)' = "none"
           \/ /\ thread'[p].op = "create" /\ thread'[p].at = "reparent"
              /\ thread'[p].subzones = th.subzones \ {z} /\ thread'[p].zone = th.zone
              /\ thread'[p].name = th.name /\ thread'[p].pool = th.pool
    BY <1>1, <1>4, <2>1, ReparentingFacts
  <2>4. TreeTyped'
    BY <1>1, <2>2, <2>3 DEF TreeTyped
  <2>5. \A x \in ZoneIds : /\ Live(x)' <=> Live(x)
                           /\ InTable(x)' <=> InTable(x)
                           /\ Known(x)' <=> Known(x)
                           /\ zones'[x].name = zones[x].name
                           /\ zones'[x].pool = zones[x].pool
                           /\ zones'[x].tenant = zones[x].tenant
    <3>1. Live(z) /\ InTable(z) /\ Known(z)
      BY <1>4, <2>1, TreeRowTypes
    <3>2. Live(z)' /\ InTable(z)' /\ Known(z)'
      BY <2>2 DEF Live, InTable, Known, NoZone
    <3> QED
      BY <2>2, <3>1, <3>2 DEF Live, InTable, Known
  <2>6. RowsStay /\ OwnersStay
    BY <1>1, <2>5 DEF RowsStay, OwnersStay
  <2>7. ParentsAreAbove'
    <3> SUFFICES ASSUME NEW y \in ZoneIds, InTable(y)', NEW x, x = zones'[y].parent,
                        x # NoParent
                 PROVE  InTable(x)' /\ Below(zones'[y].name, zones'[x].name)
                        /\ zones'[x].pool = zones'[y].pool
      BY DEF ParentsAreAbove, IsAbove
    <3>1. CASE y = z
      BY <2>1, <2>2, <2>5, <3>1 DEF IsAt, IsUnder
    <3>2. CASE y # z
      <4>1. /\ InTable(y) /\ x = zones[y].parent /\ x \in ZoneIds /\ InTable(x)
            /\ IsAbove(x, y)
            /\ zones[x].pool = zones[y].pool
        BY <2>2, <2>5, <3>2, TreeRowTypes DEF TreeInv, ParentsAreAbove
      <4> QED
        BY <2>5, <4>1 DEF IsAbove
    <3> QED
      BY <3>1, <3>2
  <2>8. TenantsAreApart'
    BY <2>6, ApartStays DEF TreeInv
  <2>9. ASSUME Doing(p)' = "create" PROVE CreatingWell(p)'
    <3>1. /\ thread'[p].op = "create" /\ thread'[p].at = "reparent"
          /\ thread'[p].subzones = th.subzones \ {z} /\ thread'[p].zone = th.zone
          /\ thread'[p].name = th.name /\ thread'[p].pool = th.pool
      BY <2>3, <2>9
    <3>2. \A x \in th.subzones :
             /\ Known(x)'
             /\ InTable(x)' => Below(zones'[x].name, th.name) /\ zones'[x].pool = th.pool
      BY <1>2, <2>6, KnownStays DEF CreatingWell
    <3>3. ASSUME NEW x \in ZoneIds, x = th.zone
          PROVE  Known(x)' /\ (InTable(x)'
                               => zones'[x].name = th.name /\ zones'[x].pool = th.pool)
      BY <2>1, <2>6, <3>3, KnownStays
    <3> QED
      BY <2>1, <3>1, <3>2, <3>3 DEF CreatingWell, IsUnder, IsAt
  <2>10. /\ \A q \in Threads : Doing(q)' = "create" => q = p
         /\ \A q \in Threads : Doing(q)' = "purge" => thread'[q] = thread[q]
    BY <1>3, <2>3 DEF Doing
  <2>11. \A q \in Threads : Doing(q)' = "purge" => PurgingWell(q)'
    BY <2>6, <2>10, PurgesStay
  <2> QED
    BY <2>4, <2>7, <2>8, <2>9, <2>10, <2>11 DEF TreeInv, OneCreator
<1>5. CASE Return(p) /\ UNCHANGED zones
  <2>1. /\ Doing(p)' = "none" /\ \A q \in Threads \ {p} : thread'[q] = thread[q]
        /\ thread' \in [Threads -> {Resting} \union Creation \union Deletion \union Purge]
    BY <1>5, ReturnFacts
  <2>2. RowsStay /\ OwnersStay /\ ParentsAreAbove'
    BY <1>1, <1>5, NothingMoves
  <2>3. TreeInv'
    BY <2>1, <2>2, OthersGoOn
  <2> QED
    BY <1>1, <1>5, <2>1, <2>3 DEF TreeTyped
<1> QED
  BY <1>1, <1>4, <1>5

-----------------------------------------------------------------------------
(* The other operations.                                                   *)

\* One row changes its state or its tenant, and no thread creates or purges anew.
LEMMA OneRowInv ==
    ASSUME TreeTyped, TreeInv, NEW z \in ZoneIds, Live(z),
           \A x \in ZoneIds \ {z} : zones'[x] = zones[x],
           zones'[z].state \in {"live", "deleting", "deleted"},
           zones'[z].parent = zones[z].parent,
           zones'[z].name = zones[z].name, zones'[z].pool = zones[z].pool,
           zones'[z].tenant = zones[z].tenant \/ zones[z].name \in transferred',
           transferred \subseteq transferred',
           \A q \in Threads : Doing(q)' \in {"create", "purge"} => thread'[q] = thread[q]
    PROVE  TreeInv'
<1>1. Live(z) /\ InTable(z) /\ Known(z)
  BY TreeRowTypes
<1>2. InTable(z)' /\ Known(z)'
  BY DEF InTable, Known, NoZone
<1>3. \A x \in ZoneIds : /\ Live(x)' => Live(x)
                         /\ InTable(x)' <=> InTable(x)
                         /\ Known(x)' <=> Known(x)
                         /\ zones'[x].name = zones[x].name /\ zones'[x].pool = zones[x].pool
                         /\ zones'[x].parent = zones[x].parent
  BY <1>1, <1>2 DEF Live, InTable, Known
<1>4. OwnersStay
  BY <1>3 DEF OwnersStay
<1>5. RowsStay /\ ParentsAreAbove'
  BY <1>3, ParentsStay DEF TreeInv
<1> QED
  BY <1>4, <1>5, OthersGoOn

LEMMA DeleteZoneInv ==
    ASSUME TreeTyped, TreeInv, NEW p \in Threads, DeleteZone(p)
    PROVE  TreeTyped' /\ TreeInv'
<1>1. ASSUME NEW z \in ZoneIds, BeginDelete(p, z) PROVE TreeTyped' /\ TreeInv'
  <2> DEFINE next == [op |-> "delete", at |-> "mark", zone |-> z]
  <2>1. Proceed(p, next) /\ UNCHANGED <<zones, upsets, transferred>>
    BY <1>1 DEF BeginDelete
  <2>2. next \in Deletion /\ next.op = "delete"
    BY DEF Deletion
  <2> HIDE DEF next
  <2>3. /\ thread'[p] = next /\ \A q \in Threads \ {p} : thread'[q] = thread[q]
        /\ thread' \in [Threads -> {Resting} \union Creation \union Deletion \union Purge]
    BY <2>1, <2>2, ProceedFacts
  <2>4. \A q \in Threads : Doing(q)' \in {"create", "purge"} => thread'[q] = thread[q]
    BY <2>2, <2>3 DEF Doing
  <2>5. TreeInv'
    BY <2>1, <2>4, NothingMoves, OthersGoOn
  <2> QED
    BY <2>1, <2>3, <2>5 DEF TreeTyped
<1>2. ASSUME NEW state \in {"deleting", "deleted"}, MarkDeleted(p, state)
      PROVE  TreeTyped' /\ TreeInv'
  <2>1. /\ Doing(p) = "delete" /\ Return(p) /\ UNCHANGED <<upsets, transferred>>
    BY <1>2 DEF MarkDeleted
  <2>2. PICK z \in ZoneIds : z = thread[p].zone
    BY <2>1, ThreadTypes DEF Deletion
  <2>3. zones' = IF Live(z) THEN [zones EXCEPT ![z].state = state] ELSE zones
    BY <1>2, <2>2 DEF MarkDeleted
  <2>4. /\ \A q \in Threads : Doing(q)' \in {"create", "purge"} => thread'[q] = thread[q]
        /\ thread' \in [Threads -> {Resting} \union Creation \union Deletion \union Purge]
    BY <2>1, ReturnFacts
  <2>5. CASE Live(z)
    <3>1. /\ zones' \in [ZoneIds -> {NoZone, PurgedRow} \union TreeRow]
          /\ \A x \in ZoneIds \ {z} : zones'[x] = zones[x]
          /\ zones'[z].state = state /\ zones'[z].parent = zones[z].parent
          /\ zones'[z].name = zones[z].name /\ zones'[z].tenant = zones[z].tenant
          /\ zones'[z].pool = zones[z].pool
      BY <2>3, <2>5, TreeRowTypes, MarkedRow
    <3>2. TreeInv'
      BY <2>1, <2>4, <2>5, <3>1, OneRowInv
    <3> QED
      BY <2>1, <2>4, <3>1, <3>2 DEF TreeTyped
  <2>6. CASE ~Live(z)
    <3>1. TreeInv'
      BY <2>1, <2>3, <2>4, <2>6, NothingMoves, OthersGoOn
    <3> QED
      BY <2>1, <2>3, <2>4, <2>6, <3>1 DEF TreeTyped
  <2> QED
    BY <2>5, <2>6
<1> QED
  BY <1>1, <1>2 DEF DeleteZone

LEMMA ConfirmDeletedInv ==
    ASSUME TreeTyped, TreeInv, NEW z \in ZoneIds, ConfirmDeleted(z)
    PROVE  TreeTyped' /\ TreeInv'
<1>1. /\ Live(z) /\ zones' = [zones EXCEPT ![z].state = "deleted"]
      /\ UNCHANGED <<thread, upsets, transferred>>
  BY DEF ConfirmDeleted, Live
<1>2. /\ zones' \in [ZoneIds -> {NoZone, PurgedRow} \union TreeRow]
      /\ \A x \in ZoneIds \ {z} : zones'[x] = zones[x]
      /\ zones'[z].state = "deleted" /\ zones'[z].parent = zones[z].parent
      /\ zones'[z].name = zones[z].name /\ zones'[z].tenant = zones[z].tenant
      /\ zones'[z].pool = zones[z].pool
  BY <1>1, TreeRowTypes, MarkedRow
<1>3. TreeInv'
  BY <1>1, <1>2, OneRowInv
<1> QED
  BY <1>1, <1>2, <1>3 DEF TreeTyped

LEMMA TransferInv ==
    ASSUME TreeTyped, TreeInv, NEW z \in ZoneIds, NEW t \in Tenants, Transfer(z, t)
    PROVE  TreeTyped' /\ TreeInv'
<1>1. /\ Live(z) /\ zones[z].state = "live" /\ zones' = [zones EXCEPT ![z].tenant = t]
      /\ upsets < MaxUpsets /\ upsets' = upsets + 1
      /\ transferred' = transferred \union {zones[z].name} /\ UNCHANGED thread
  BY DEF Transfer, Live
<1>2. InTable(z) /\ zones[z].name \in ZoneNames
  BY <1>1, TreeRowTypes
<1>3. /\ zones' \in [ZoneIds -> {NoZone, PurgedRow} \union TreeRow]
      /\ \A x \in ZoneIds \ {z} : zones'[x] = zones[x]
      /\ zones'[z].state = "live" /\ zones'[z].parent = zones[z].parent
      /\ zones'[z].name = zones[z].name /\ zones'[z].pool = zones[z].pool
  BY <1>1, <1>2, TransferredRow
<1>4. TreeInv'
  BY <1>1, <1>3, OneRowInv
<1>5. upsets' \in 0..MaxUpsets
  BY <1>1, TreeAssumption DEF TreeTyped
<1> QED
  BY <1>1, <1>2, <1>3, <1>4, <1>5 DEF TreeTyped

LEMMA ThreadDiesInv ==
    ASSUME TreeTyped, TreeInv, NEW p \in Threads, ThreadDies(p)
    PROVE  TreeTyped' /\ TreeInv'
<1>1. /\ upsets < MaxUpsets /\ upsets' = upsets + 1 /\ Return(p)
      /\ UNCHANGED <<zones, transferred>>
  BY DEF ThreadDies
<1>2. /\ \A q \in Threads : Doing(q)' \in {"create", "purge"} => thread'[q] = thread[q]
      /\ thread' \in [Threads -> {Resting} \union Creation \union Deletion \union Purge]
  BY <1>1, ReturnFacts
<1>3. TreeInv'
  BY <1>1, <1>2, NothingMoves, OthersGoOn
<1>4. upsets' \in 0..MaxUpsets
  BY <1>1, TreeAssumption DEF TreeTyped
<1> QED
  BY <1>1, <1>2, <1>3, <1>4 DEF TreeTyped

-----------------------------------------------------------------------------
(* purge_zones.                                                            *)

LEMMA BeginPurgeInv ==
    ASSUME TreeTyped, TreeInv, NEW p \in Threads, NEW batch \in SUBSET ZoneIds,
           BeginPurge(p, batch)
    PROVE  TreeTyped' /\ TreeInv'
<1> DEFINE parents == [z \in batch |-> zones[z].parent]
           next == [op |-> "purge", at |-> "reparent", batch |-> batch, left |-> batch,
                    zone |-> 0, parents |-> parents]
<1>1. /\ \A z \in batch : zones[z].state = "deleted"
      /\ Proceed(p, next) /\ UNCHANGED <<zones, upsets, transferred>>
  BY DEF BeginPurge, LongDeleted
<1>2. \A z \in batch : InTable(z) /\ Known(z)
      /\ zones[z].parent \in ZoneIds \union {NoParent}
  <2>1. \A z \in batch : InTable(z)
    BY <1>1 DEF InTable
  <2> QED
    BY <2>1, TreeRowTypes
<1>3. parents \in ParentsOf(batch) /\ \A z \in batch : parents[z] = zones[z].parent
  BY <1>2 DEF ParentsOf
<1> HIDE DEF parents
<1>4. next \in Purge
  BY <1>3 DEF Purge
<1>5. /\ thread'[p] = next /\ \A q \in Threads \ {p} : thread'[q] = thread[q]
      /\ thread' \in [Threads -> {Resting} \union Creation \union Deletion \union Purge]
  BY <1>1, <1>4, ProceedFacts
<1>6. /\ thread'[p].op = "purge" /\ thread'[p].at = "reparent" /\ thread'[p].left = batch
      /\ thread'[p].batch = batch /\ thread'[p].parents = parents
  BY <1>5
<1> HIDE DEF next
<1>7. RowsStay /\ OwnersStay /\ TenantsAreApart' /\ ParentsAreAbove'
  BY <1>1, NothingMoves
<1>8. ASSUME NEW z \in batch
      PROVE  Known(z) /\ Leads(Survivor(batch, parents, z), z)
  <2> DEFINE s == Survivor(batch, parents, z)
  <2>1. s = NoParent \/ (s \in ZoneIds /\ InTable(s) /\ IsAbove(s, z)
                         /\ zones[s].pool = zones[z].pool)
    BY <1>2, <1>3, SurvivorIsAbove DEF TreeInv
  <2> HIDE DEF s
  <2>2. Leads(s, z)
    BY <2>1, TreeRowTypes DEF Leads
  <2> QED
    BY <1>2, <2>2 DEF s
<1>9. PurgingWell(p)'
  <2>1. PICK ps : ps = parents
    OBVIOUS
  <2>2. ASSUME NEW s, NEW z \in batch, Known(z), Leads(s, z)
        PROVE  Known(z)' /\ (s = NoParent \/ (s \in ZoneIds /\ Known(s)'
                               /\ (InTable(s)' /\ InTable(z)' =>
                                     /\ Below(zones'[z].name, zones'[s].name)
                                     /\ zones'[s].pool = zones'[z].pool)))
    BY <1>1, <2>2 DEF Leads, Known, InTable, IsAbove
  <2>3. \A z \in batch : LET s == Survivor(batch, ps, z)
                         IN  Known(z)' /\ (s = NoParent \/ (s \in ZoneIds /\ Known(s)'
                                /\ (InTable(s)' /\ InTable(z)' =>
                                      /\ Below(zones'[z].name, zones'[s].name)
                                      /\ zones'[s].pool = zones'[z].pool)))
    BY <1>8, <2>1, <2>2
  <2>4. thread'[p].left = batch /\ thread'[p].batch = batch /\ thread'[p].parents = ps
    BY <1>6, <2>1
  <2>5. thread'[p].at # "remove"
    BY <1>6
  <2> QED
    BY <2>3, <2>4, <2>5 DEF PurgingWell, Leads, IsAbove
<1>10. \A q \in Threads : Doing(q)' = "create" => thread'[q] = thread[q]
  BY <1>5, <1>6 DEF Doing
<1>11. OneCreator' /\ \A q \in Threads : Doing(q)' = "create" => CreatingWell(q)'
  BY <1>7, <1>10, CreationsStay
<1>12. \A q \in Threads : Doing(q)' = "purge" => PurgingWell(q)'
  BY <1>5, <1>7, <1>9, PurgesStay
<1> QED
  BY <1>1, <1>5, <1>7, <1>11, <1>12 DEF TreeTyped, TreeInv

LEMMA ReparentChildrenInv ==
    ASSUME TreeTyped, TreeInv, NEW p \in Threads, NEW z \in ZoneIds, ReparentChildren(p, z)
    PROVE  TreeTyped' /\ TreeInv'
<1> DEFINE th == thread[p]
           children == {x \in ZoneIds : InTable(x) /\ zones[x].parent = z}
           next == [th EXCEPT !.at = "remove", !.zone = z, !.left = @ \ {z}]
<1>1. PICK parent : parent = Survivor(th.batch, th.parents, z)
  OBVIOUS
<1>2. /\ Doing(p) = "purge" /\ At(p, "reparent") /\ z \in th.left
      /\ \/ /\ ParentExists(parent) \/ children = {}
            /\ zones' = [x \in ZoneIds |-> IF x \in children
                            THEN [zones[x] EXCEPT !.parent = parent] ELSE zones[x]]
            /\ Proceed(p, next)
         \/ Return(p) /\ UNCHANGED zones
      /\ UNCHANGED <<upsets, transferred>>
  BY <1>1 DEF ReparentChildren
<1>3. th \in Purge /\ PurgingWell(p)
  BY <1>2, ThreadTypes DEF TreeInv
<1>4. z \in th.batch /\ Known(z) /\ Leads(parent, z)
  BY <1>1, <1>2, <1>3 DEF PurgingWell
<1>5. CASE /\ ParentExists(parent) \/ children = {}
           /\ zones' = [x \in ZoneIds |-> IF x \in children
                           THEN [zones[x] EXCEPT !.parent = parent] ELSE zones[x]]
           /\ Proceed(p, next)
  <2>1. parent \in ZoneIds \union {NoParent}
    BY <1>4 DEF Leads
  <2>2. ASSUME NEW x \in children
        PROVE  LET new == [zones[x] EXCEPT !.parent = parent]
               IN  /\ new \in TreeRow /\ new.parent = parent /\ new.name = zones[x].name
                   /\ new.tenant = zones[x].tenant /\ new.pool = zones[x].pool
                   /\ new.state = zones[x].state
    <3>1. zones[x] \in TreeRow
      BY TreeRowTypes
    <3> QED
      BY <2>1, <3>1 DEF TreeRow
  <2>3. /\ zones' \in [ZoneIds -> {NoZone, PurgedRow} \union TreeRow]
        /\ \A x \in ZoneIds \ children : zones'[x] = zones[x]
        /\ \A x \in children :
              /\ zones'[x].parent = parent /\ zones'[x].name = zones[x].name
              /\ zones'[x].tenant = zones[x].tenant /\ zones'[x].pool = zones[x].pool
              /\ zones'[x].state = zones[x].state /\ zones'[x] \in TreeRow
    <3> HIDE DEF children
    <3>1. \A x \in children : x \in ZoneIds
      BY DEF children
    <3> QED
      BY <1>5, <2>2, <3>1 DEF TreeTyped
  <2>4. next \in Purge /\ next.op = "purge" /\ next.at = "remove" /\ next.zone = z
        /\ next.left = th.left \ {z} /\ next.batch = th.batch /\ next.parents = th.parents
    BY <1>3 DEF Purge
  <2> HIDE DEF next
  <2>5. /\ thread'[p] = next /\ \A q \in Threads \ {p} : thread'[q] = thread[q]
        /\ thread' \in [Threads -> {Resting} \union Creation \union Deletion \union Purge]
    BY <1>5, <2>4, ProceedFacts
  <2>6. \A x \in children : InTable(x) /\ Known(x) /\ InTable(x)' /\ Known(x)'
    <3>1. \A x \in children : InTable(x)'
      BY <2>3 DEF InTable
    <3>2. \A x \in children : Known(x)'
      BY <2>3, <3>1 DEF Known, InTable, NoZone
    <3> QED
      BY <3>1, <3>2, TreeRowTypes
  <2>7. \A x \in ZoneIds : /\ Live(x)' <=> Live(x)
                           /\ InTable(x)' <=> InTable(x)
                           /\ Known(x)' <=> Known(x)
                           /\ zones'[x].name = zones[x].name
                           /\ zones'[x].pool = zones[x].pool
                           /\ zones'[x].tenant = zones[x].tenant
    <3> HIDE DEF children
    <3> QED
      BY <2>3, <2>6 DEF Live, InTable, Known
  <2>8. RowsStay /\ OwnersStay
    BY <1>2, <2>7 DEF RowsStay, OwnersStay
  <2>9. ParentsAreAbove'
    <3> SUFFICES ASSUME NEW y \in ZoneIds, InTable(y)', NEW x, x = zones'[y].parent,
                        x # NoParent
                 PROVE  InTable(x)' /\ Below(zones'[y].name, zones'[x].name)
                        /\ zones'[x].pool = zones'[y].pool
      BY DEF ParentsAreAbove, IsAbove
    <3>1. CASE y \in children
      <4>1. /\ InTable(z) /\ IsAbove(z, y) /\ zones[z].pool = zones[y].pool /\ InTable(y)
        BY <3>1, TreeRowTypes DEF TreeInv, ParentsAreAbove
      <4>2. x = parent
        BY <2>3, <3>1
      <4>3. /\ x \in ZoneIds /\ InTable(x) /\ IsAbove(x, z) /\ zones[x].pool = zones[z].pool
        BY <1>4, <1>5, <3>1, <4>1, <4>2 DEF Leads, ParentExists
      <4>4. Below(zones[y].name, zones[x].name)
        BY <4>1, <4>3, TreeRowTypes, BelowIsTransitive DEF IsAbove
      <4> QED
        BY <2>7, <4>1, <4>3, <4>4
    <3>2. CASE y \notin children
      <4>1. /\ InTable(y) /\ x = zones[y].parent /\ x \in ZoneIds /\ InTable(x)
            /\ IsAbove(x, y)
            /\ zones[x].pool = zones[y].pool
        BY <2>3, <2>7, <3>2, TreeRowTypes DEF TreeInv, ParentsAreAbove
      <4> QED
        BY <2>7, <4>1 DEF IsAbove
    <3> QED
      BY <3>1, <3>2
  <2>10. PurgingWell(p)'
    BY <1>2, <1>3, <1>4, <2>4, <2>5, <2>8, PurgingStays
  <2>11. \A q \in Threads : Doing(q)' = "create" => thread'[q] = thread[q]
    BY <2>4, <2>5 DEF Doing
  <2>12. OneCreator' /\ \A q \in Threads : Doing(q)' = "create" => CreatingWell(q)'
    BY <2>8, <2>11, CreationsStay
  <2>13. \A q \in Threads : Doing(q)' = "purge" => PurgingWell(q)'
    BY <2>5, <2>8, <2>10, PurgesStay
  <2>14. TenantsAreApart'
    BY <2>8, ApartStays DEF TreeInv
  <2> QED
    BY <1>2, <2>3, <2>5, <2>9, <2>12, <2>13, <2>14 DEF TreeTyped, TreeInv
<1>6. CASE Return(p) /\ UNCHANGED zones
  <2>1. /\ \A q \in Threads : Doing(q)' \in {"create", "purge"} => thread'[q] = thread[q]
        /\ thread' \in [Threads -> {Resting} \union Creation \union Deletion \union Purge]
    BY <1>6, ReturnFacts
  <2>2. TreeInv'
    BY <1>2, <1>6, <2>1, NothingMoves, OthersGoOn
  <2> QED
    BY <1>2, <1>6, <2>1, <2>2 DEF TreeTyped
<1> QED
  BY <1>2, <1>5, <1>6

LEMMA RemoveRowInv ==
    ASSUME TreeTyped, TreeInv, NEW p \in Threads, RemoveRow(p)
    PROVE  TreeTyped' /\ TreeInv'
<1> DEFINE th == thread[p]
<1>1. Doing(p) = "purge" /\ At(p, "remove") /\ UNCHANGED <<upsets, transferred>>
  BY DEF RemoveRow
<1>2. th \in Purge /\ PurgingWell(p)
  BY <1>1, ThreadTypes DEF TreeInv
<1>3. PICK z \in ZoneIds : z = th.zone /\ z \in th.batch
  BY <1>1, <1>2 DEF PurgingWell, Purge, At
<1> DEFINE new(x) == IF x = z THEN PurgedRow
                     ELSE IF InTable(x) /\ zones[x].parent = z
                     THEN [zones[x] EXCEPT !.parent = NoParent] ELSE zones[x]
<1>4. \/ /\ InTable(z) /\ zones' = [x \in ZoneIds |-> new(x)]
         /\ IF th.left = {} THEN Return(p) ELSE Goto(p, "reparent")
      \/ Return(p) /\ UNCHANGED zones
  BY <1>3 DEF RemoveRow, PurgedRow
<1>5. CASE /\ InTable(z) /\ zones' = [x \in ZoneIds |-> new(x)]
           /\ IF th.left = {} THEN Return(p) ELSE Goto(p, "reparent")
  <2>1. ASSUME NEW x \in ZoneIds \ {z}, InTable(x)
        PROVE  /\ new(x) \in TreeRow /\ new(x).state = zones[x].state
               /\ new(x).name = zones[x].name /\ new(x).tenant = zones[x].tenant
               /\ new(x).pool = zones[x].pool /\ new(x).parent # z
               /\ new(x).parent # NoParent => new(x).parent = zones[x].parent
    <3>1. zones[x] \in TreeRow /\ z # NoParent
      BY <2>1, TreeRowTypes
    <3> QED
      BY <2>1, <3>1 DEF TreeRow
  <2>2. \A x \in ZoneIds \ {z} : ~InTable(x) => new(x) = zones[x]
    OBVIOUS
  <2>3. zones'[z] = PurgedRow
    BY <1>5
  <2> HIDE DEF new
  <2>4. \A x \in ZoneIds \ {z} :
           /\ zones'[x].state = zones[x].state /\ (Known(x) => Known(x)')
           /\ InTable(x) =>
                 /\ zones'[x] \in TreeRow
                 /\ zones'[x].name = zones[x].name /\ zones'[x].tenant = zones[x].tenant
                 /\ zones'[x].pool = zones[x].pool /\ zones'[x].parent # z
                 /\ zones'[x].parent # NoParent => zones'[x].parent = zones[x].parent
           /\ ~InTable(x) => zones'[x] = zones[x]
    <3> SUFFICES ASSUME NEW x \in ZoneIds \ {z}
                 PROVE  /\ zones'[x].state = zones[x].state /\ (Known(x) => Known(x)')
                        /\ InTable(x) =>
                              /\ zones'[x] \in TreeRow
                              /\ zones'[x].name = zones[x].name
                              /\ zones'[x].tenant = zones[x].tenant
                              /\ zones'[x].pool = zones[x].pool /\ zones'[x].parent # z
                              /\ zones'[x].parent # NoParent
                                    => zones'[x].parent = zones[x].parent
                        /\ ~InTable(x) => zones'[x] = zones[x]
      OBVIOUS
    <3>1. zones'[x] = new(x)
      BY <1>5
    <3>2. CASE InTable(x)
      <4>1. zones'[x] # NoZone
        BY <2>1, <3>1, <3>2 DEF InTable, NoZone
      <4> QED
        BY <2>1, <3>1, <3>2, <4>1 DEF Known
    <3>3. CASE ~InTable(x)
      BY <2>2, <3>1, <3>3 DEF Known
    <3> QED
      BY <3>2, <3>3
  <2>5. zones' \in [ZoneIds -> {NoZone, PurgedRow} \union TreeRow]
    <3>1. \A x \in ZoneIds : zones'[x] \in {NoZone, PurgedRow} \union TreeRow
      BY <2>3, <2>4 DEF TreeTyped
    <3> QED
      BY <1>5, <3>1
  <2>6. Known(z)' /\ ~InTable(z)' /\ ~Live(z)'
    BY <2>3 DEF Known, InTable, Live, PurgedRow, NoZone
  <2>7. \A x \in ZoneIds \ {z} : (InTable(x)' <=> InTable(x)) /\ (Live(x)' <=> Live(x))
    BY <2>4 DEF InTable, Live
  <2>8. RowsStay /\ OwnersStay
    <3>1. RowsStay
      BY <2>4, <2>6, <2>7 DEF RowsStay
    <3>2. \A x \in ZoneIds : Live(x) => InTable(x)
      BY TreeRowTypes
    <3> QED
      BY <1>1, <2>4, <2>6, <2>7, <3>1, <3>2 DEF OwnersStay
  <2>9. ParentsAreAbove'
    <3> SUFFICES ASSUME NEW y \in ZoneIds, InTable(y)', NEW x, x = zones'[y].parent,
                        x # NoParent
                 PROVE  InTable(x)' /\ Below(zones'[y].name, zones'[x].name)
                        /\ zones'[x].pool = zones'[y].pool
      BY DEF ParentsAreAbove, IsAbove
    <3>1. y # z /\ InTable(y) /\ x = zones[y].parent /\ x # z
      BY <2>4, <2>6, <2>7
    <3>2. x \in ZoneIds /\ InTable(x) /\ IsAbove(x, y) /\ zones[x].pool = zones[y].pool
      BY <3>1, TreeRowTypes DEF TreeInv, ParentsAreAbove
    <3> QED
      BY <2>4, <2>7, <3>1, <3>2 DEF IsAbove
  <2>10. /\ \A q \in Threads \ {p} : thread'[q] = thread[q]
         /\ thread' \in [Threads -> {Resting} \union Creation \union Deletion \union Purge]
         /\ Doing(p)' \in {"none", "purge"}
         /\ Doing(p)' = "purge" =>
               /\ thread'[p].at = "reparent" /\ thread'[p].left = th.left
               /\ thread'[p].batch = th.batch /\ thread'[p].parents = th.parents
    <3>1. CASE Return(p)
      BY <3>1, ReturnFacts
    <3>2. CASE Goto(p, "reparent")
      <4> DEFINE next == [th EXCEPT !.at = "reparent"]
      <4>1. Proceed(p, next)
        BY <3>2 DEF Goto
      <4>2. next \in Purge /\ next.op = "purge" /\ next.at = "reparent"
            /\ next.left = th.left /\ next.batch = th.batch /\ next.parents = th.parents
        BY <1>2 DEF Purge
      <4> HIDE DEF next
      <4> QED
        BY <4>1, <4>2, ProceedFacts DEF Doing
    <3> QED
      BY <1>5, <3>1, <3>2
  <2>11. ASSUME Doing(p)' = "purge" PROVE PurgingWell(p)'
    BY <1>1, <1>2, <2>8, <2>10, <2>11, PurgingStays
  <2>12. \A q \in Threads : Doing(q)' = "create" => thread'[q] = thread[q]
    BY <2>10
  <2>13. OneCreator' /\ \A q \in Threads : Doing(q)' = "create" => CreatingWell(q)'
    BY <2>8, <2>12, CreationsStay
  <2>14. \A q \in Threads : Doing(q)' = "purge" => PurgingWell(q)'
    BY <2>8, <2>10, <2>11, PurgesStay
  <2>15. TenantsAreApart'
    BY <2>8, ApartStays DEF TreeInv
  <2> QED
    BY <1>1, <2>5, <2>9, <2>10, <2>13, <2>14, <2>15 DEF TreeTyped, TreeInv
<1>6. CASE Return(p) /\ UNCHANGED zones
  <2>1. /\ \A q \in Threads : Doing(q)' \in {"create", "purge"} => thread'[q] = thread[q]
        /\ thread' \in [Threads -> {Resting} \union Creation \union Deletion \union Purge]
    BY <1>6, ReturnFacts
  <2>2. TreeInv'
    BY <1>1, <1>6, <2>1, NothingMoves, OthersGoOn
  <2> QED
    BY <1>1, <1>6, <2>1, <2>2 DEF TreeTyped
<1> QED
  BY <1>4, <1>5, <1>6

-----------------------------------------------------------------------------
(* The theorems.                                                           *)

LEMMA TreeInitInv == TreeInit => TreeTyped /\ TreeInv
<1> SUFFICES ASSUME TreeInit PROVE TreeTyped /\ TreeInv
  OBVIOUS
<1>1. /\ zones = [z \in ZoneIds |-> NoZone] /\ thread = [p \in Threads |-> Resting]
      /\ upsets = 0 /\ transferred = {}
  BY DEF TreeInit
<1>2. TreeTyped
  BY <1>1, TreeAssumption DEF TreeTyped
<1>3. \A z \in ZoneIds : ~InTable(z) /\ ~Live(z)
  BY <1>1 DEF InTable, Live, NoZone
<1>4. \A p \in Threads : Doing(p) = "none"
  BY <1>1 DEF Doing, Resting
<1> QED
  BY <1>2, <1>3, <1>4 DEF TreeInv, OneCreator, TenantsAreApart, ParentsAreAbove, LiveZones

LEMMA TreeNextInv ==
    ASSUME TreeTyped, TreeInv, [TreeNext]_treeVars
    PROVE  TreeTyped' /\ TreeInv'
<1>1. ASSUME NEW p \in Threads, CreateZone(p) PROVE TreeTyped' /\ TreeInv'
  <2>1. ASSUME NEW place \in Places, NEW t \in Tenants, BeginCreate(p, place[1], t, place[2])
        PROVE  TreeTyped' /\ TreeInv'
    <3>1. place[1] \in ZoneNames /\ place[2] \in PoolIds
      BY TreeAssumption
    <3> QED
      BY <2>1, <3>1, BeginCreateInv
  <2>2. ASSUME NEW z \in ZoneIds, InsertZone(p, z) \/ Reparent(p, z)
        PROVE  TreeTyped' /\ TreeInv'
    BY <2>2, InsertZoneInv, ReparentInv
  <2> QED
    BY <1>1, <2>1, <2>2 DEF CreateZone
<1>2. ASSUME NEW p \in Threads, DeleteZone(p) PROVE TreeTyped' /\ TreeInv'
  BY <1>2, DeleteZoneInv
<1>3. ASSUME NEW p \in Threads, PurgeZones(p) PROVE TreeTyped' /\ TreeInv'
  BY <1>3, BeginPurgeInv, ReparentChildrenInv, RemoveRowInv DEF PurgeZones
<1>4. ASSUME NEW p \in Threads, ThreadDies(p) PROVE TreeTyped' /\ TreeInv'
  BY <1>4, ThreadDiesInv
<1>5. ASSUME NEW z \in ZoneIds, ConfirmDeleted(z) \/ \E t \in Tenants : Transfer(z, t)
      PROVE  TreeTyped' /\ TreeInv'
  BY <1>5, ConfirmDeletedInv, TransferInv
<1>6. CASE UNCHANGED treeVars
  <2>1. UNCHANGED <<zones, thread, upsets, transferred>>
    BY <1>6 DEF treeVars
  <2>2. TreeInv'
    BY <2>1, NothingMoves, OthersGoOn
  <2> QED
    BY <2>1, <2>2 DEF TreeTyped
<1> QED
  BY <1>1, <1>2, <1>3, <1>4, <1>5, <1>6 DEF TreeNext

LEMMA AlwaysTreeInv == TreeSpec => [](TreeTyped /\ TreeInv)
<1>1. (TreeTyped /\ TreeInv) /\ [TreeNext]_treeVars => (TreeTyped /\ TreeInv)'
  BY TreeNextInv
<1> QED
  BY <1>1, TreeInitInv, PTL DEF TreeSpec

(* Zones, the threads of central and the names of transferred zones are of *)
(* their types.                                                            *)
THEOREM TreeIsTyped == TreeSpec => []TreeTypeOK
<1>1. TreeTyped => TreeTypeOK
  <2> SUFFICES ASSUME TreeTyped PROVE TreeTypeOK
    OBVIOUS
  <2>1. \A z \in ZoneIds : IsZone(zones[z])
    BY DEF TreeTyped, IsZone, TreeRow, PurgedRow
  <2>2. \A p \in Threads : Doing(p) \in {"none", "create", "delete", "purge"}
    BY DEF TreeTyped, Doing, Resting, Creation, Deletion, Purge
  <2> QED
    BY <2>1, <2>2 DEF TreeTyped, TreeTypeOK
<1> QED
  BY <1>1, AlwaysTreeInv, PTL

(* No tenant owns a zone above or below that of another, or of its name,   *)
(* unless a zone of one of these names or between them was transferred     *)
(* (central service.py, create_zone): for any names, tenants, pools and    *)
(* threads, and whatever is created, deleted and purged.                   *)
THEOREM TenantsStayApart == TreeSpec => []TenantsAreApart
<1>1. TreeTyped /\ TreeInv => TenantsAreApart
  BY DEF TreeInv
<1> QED
  BY <1>1, AlwaysTreeInv, PTL

(* The parent of a zone in the table is in the table, in the same pool and *)
(* above it by its name, through every way of reparenting: creation of a   *)
(* zone in between, and purge of any set of zones (storage,                *)
(* _walk_up_zones).                                                        *)
THEOREM ParentsStayAbove == TreeSpec => []ParentsAreAbove
<1>1. TreeTyped /\ TreeInv => ParentsAreAbove
  BY DEF TreeInv
<1> QED
  BY <1>1, AlwaysTreeInv, PTL

-----------------------------------------------------------------------------
(* Placement.                                                              *)

Inserts == {NoInsert, TheChild} \union {TheRR(rr) : rr \in RRs}

InsertersTyped ==
    /\ present \in SUBSET RRs
    /\ child \in BOOLEAN
    /\ inserter \in [Inserters -> Inserts]
    /\ crossed \in BOOLEAN

Standing(rr) == ~(rr.type = "CNAME" /\ rr.name = Apex)

\* No two recordsets collide that are there or about to be: neither two in the zone,
\* nor one in the zone and one that a thread has looked around for, nor two of those.
AloneInv ==
    /\ \A rr \in present : Standing(rr)
    /\ \A rr, s \in present : rr # s => ~Collide(rr, s)

AheadInv ==
    \A i \in Inserters, rr \in RRs : inserter[i] = TheRR(rr) =>
        /\ Standing(rr)
        /\ \A s \in present : ~Collide(rr, s)
        /\ \A j \in Inserters, s \in RRs : i # j /\ inserter[j] = TheRR(s) => ~Collide(rr, s)

PlacementInv == InsertersTyped /\ (~crossed => AloneInv /\ AheadInv)

-----------------------------------------------------------------------------

LEMMA WhatIsInserted ==
    /\ NoInsert \in Inserts /\ TheChild \in Inserts
    /\ \A rr \in RRs : TheRR(rr) \in Inserts
    /\ \A rr \in RRs : TheRR(rr).what = "recordset" /\ TheRR(rr).rr = rr
    /\ \A rr \in RRs : TheRR(rr) # NoInsert /\ TheRR(rr) # TheChild
    /\ \A m \in Inserts : m.what = "recordset" => m.rr \in RRs /\ m = TheRR(m.rr)
<1>1. NoInsert.what = "none" /\ TheChild.what = "child"
  BY DEF NoInsert, TheChild
<1>2. \A rr : TheRR(rr).what = "recordset" /\ TheRR(rr).rr = rr
  BY DEF TheRR
<1> QED
  BY <1>1, <1>2 DEF Inserts

LEMMA CollideIsSymmetric == \A rr, s : Collide(rr, s) <=> Collide(s, rr)
  BY DEF Collide

\* Recordsets that would collide cross.
LEMMA CollidingCross ==
    \A rr, s \in RRs : Collide(rr, s) => Cross(TheRR(rr), TheRR(s))
  BY WhatIsInserted DEF Cross

LEMMA PlacementInitInv == PlacementInit => PlacementInv
<1> SUFFICES ASSUME PlacementInit PROVE PlacementInv
  OBVIOUS
<1>1. present = {} /\ child = FALSE /\ crossed = FALSE /\ \A i \in Inserters : inserter[i] = NoInsert
  BY DEF PlacementInit
<1>2. InsertersTyped
  BY WhatIsInserted DEF PlacementInit, InsertersTyped
<1>3. AloneInv
  BY <1>1 DEF AloneInv
<1>4. AheadInv
  BY <1>1, WhatIsInserted DEF AheadInv
<1> QED
  BY <1>2, <1>3, <1>4 DEF PlacementInv

LEMMA PlacementNextInv == PlacementInv /\ [PlacementNext]_placementVars => PlacementInv'
<1> SUFFICES ASSUME PlacementInv, [PlacementNext]_placementVars PROVE PlacementInv'
  OBVIOUS
<1>1. InsertersTyped /\ (~crossed => AloneInv /\ AheadInv)
  BY DEF PlacementInv
<1>2. CASE UNCHANGED placementVars
  BY <1>1, <1>2 DEF placementVars, PlacementInv, InsertersTyped, AloneInv, AheadInv
<1>3. ASSUME NEW i \in Inserters, NEW rr \in RRs, LookToInsert(i, rr) PROVE PlacementInv'
  <2>1. /\ ValidPlacement(rr)
        /\ inserter' = [inserter EXCEPT ![i] = TheRR(rr)]
        /\ crossed' = (crossed \/ \E j \in Inserters : Cross(inserter[j], TheRR(rr)))
        /\ UNCHANGED <<present, child>>
    BY <1>3 DEF LookToInsert, LookAround
  <2>2. InsertersTyped'
    <3>1. crossed' \in BOOLEAN
      BY <1>1, <2>1 DEF InsertersTyped
    <3> QED
      BY <1>1, <2>1, <3>1, WhatIsInserted DEF InsertersTyped
  <2>3. ASSUME ~crossed' PROVE AloneInv' /\ AheadInv'
    <3>1. AloneInv /\ AheadInv /\ \A j \in Inserters : ~Cross(inserter[j], TheRR(rr))
      BY <1>1, <2>1, <2>3 DEF InsertersTyped
    <3>2. AloneInv'
      BY <2>1, <3>1 DEF AloneInv
    <3>3. ASSUME NEW j \in Inserters, NEW s \in RRs, j # i, inserter[j] = TheRR(s)
          PROVE  ~Collide(s, rr) /\ ~Collide(rr, s)
      BY <3>1, <3>3, CollidingCross, CollideIsSymmetric
    <3>4. ASSUME NEW j \in Inserters, NEW r \in RRs, inserter'[j] = TheRR(r)
          PROVE  /\ Standing(r)
                 /\ \A s \in present' : ~Collide(r, s)
                 /\ \A k \in Inserters, s \in RRs :
                        j # k /\ inserter'[k] = TheRR(s) => ~Collide(r, s)
      <4>1. CASE j = i
        <5>1. r = rr
          BY <1>1, <2>1, <3>4, <4>1, WhatIsInserted DEF InsertersTyped
        <5>2. Standing(rr) /\ \A s \in present : ~Collide(rr, s)
          BY <2>1 DEF ValidPlacement, Standing
        <5>3. \A k \in Inserters, s \in RRs : k # i /\ inserter'[k] = TheRR(s) => ~Collide(rr, s)
          BY <1>1, <2>1, <3>3 DEF InsertersTyped
        <5> QED
          BY <2>1, <4>1, <5>1, <5>2, <5>3
      <4>2. CASE j # i
        <5>1. inserter[j] = TheRR(r)
          BY <1>1, <2>1, <3>4, <4>2 DEF InsertersTyped
        <5>2. Standing(r) /\ \A s \in present : ~Collide(r, s)
          BY <3>1, <5>1 DEF AheadInv
        <5>3. ASSUME NEW k \in Inserters, NEW s \in RRs, j # k, inserter'[k] = TheRR(s)
              PROVE  ~Collide(r, s)
          <6>1. CASE k = i
            <7>1. s = rr
              BY <1>1, <2>1, <5>3, <6>1, WhatIsInserted DEF InsertersTyped
            <7> QED
              BY <3>3, <4>2, <5>1, <7>1
          <6>2. CASE k # i
            <7>1. inserter[k] = TheRR(s)
              BY <1>1, <2>1, <5>3, <6>2 DEF InsertersTyped
            <7> QED
              BY <3>1, <5>1, <5>3, <7>1 DEF AheadInv
          <6> QED
            BY <6>1, <6>2
        <5> QED
          BY <2>1, <5>2, <5>3
      <4> QED
        BY <4>1, <4>2
    <3>5. AheadInv'
      BY <3>4 DEF AheadInv
    <3> QED
      BY <3>2, <3>5
  <2> QED
    BY <2>2, <2>3 DEF PlacementInv
<1>4. ASSUME NEW i \in Inserters, NEW next \in {NoInsert, TheChild},
             InsertersTyped', inserter' = [inserter EXCEPT ![i] = next],
             present' \subseteq present, crossed' = FALSE => crossed = FALSE
      PROVE  PlacementInv'
  <2>1. ASSUME ~crossed' PROVE AloneInv' /\ AheadInv'
    <3>1. AloneInv /\ AheadInv
      BY <1>1, <1>4, <2>1 DEF InsertersTyped
    <3>2. AloneInv'
      BY <1>4, <3>1 DEF AloneInv
    <3>3. \A j \in Inserters, r \in RRs : inserter'[j] = TheRR(r) => inserter[j] = TheRR(r)
      BY <1>1, <1>4, WhatIsInserted DEF InsertersTyped
    <3>4. AheadInv'
      BY <1>4, <3>1, <3>3 DEF AheadInv
    <3> QED
      BY <3>2, <3>4
  <2> QED
    BY <1>4, <2>1 DEF PlacementInv
<1>5. ASSUME NEW i \in Inserters, LookToCreateChild(i) PROVE PlacementInv'
  <2>1. /\ inserter' = [inserter EXCEPT ![i] = TheChild]
        /\ crossed' = (crossed \/ \E j \in Inserters : Cross(inserter[j], TheChild))
        /\ UNCHANGED <<present, child>>
    BY <1>5 DEF LookToCreateChild, LookAround
  <2>2. crossed' \in BOOLEAN /\ (crossed' = FALSE => crossed = FALSE)
    BY <1>1, <2>1 DEF InsertersTyped
  <2>3. InsertersTyped'
    BY <1>1, <2>1, <2>2, WhatIsInserted DEF InsertersTyped
  <2> QED
    BY <1>4, <2>1, <2>2, <2>3
<1>6. ASSUME NEW i \in Inserters, InsertRecordSet(i) PROVE PlacementInv'
  <2> DEFINE rr == inserter[i].rr
  <2>1. /\ inserter[i].what = "recordset" /\ present' = present \union {rr}
        /\ inserter' = [inserter EXCEPT ![i] = NoInsert]
        /\ UNCHANGED <<child, crossed>>
    BY <1>6 DEF InsertRecordSet, EndInsert
  <2>2. rr \in RRs /\ inserter[i] = TheRR(rr)
    BY <1>1, <2>1, WhatIsInserted DEF InsertersTyped
  <2> HIDE DEF rr
  <2>3. InsertersTyped'
    BY <1>1, <2>1, <2>2, WhatIsInserted DEF InsertersTyped
  <2>4. ASSUME ~crossed' PROVE AloneInv' /\ AheadInv'
    <3>1. AloneInv /\ AheadInv
      BY <1>1, <2>1, <2>4
    <3>2. Standing(rr) /\ \A s \in present : ~Collide(rr, s) /\ ~Collide(s, rr)
      BY <2>2, <3>1, CollideIsSymmetric DEF AheadInv
    <3>3. AloneInv'
      BY <2>1, <3>1, <3>2 DEF AloneInv
    <3>4. ASSUME NEW j \in Inserters, NEW r \in RRs, inserter'[j] = TheRR(r)
          PROVE  j # i /\ inserter[j] = TheRR(r)
      BY <1>1, <2>1, <3>4, WhatIsInserted DEF InsertersTyped
    <3>5. ASSUME NEW j \in Inserters, NEW r \in RRs, inserter'[j] = TheRR(r)
          PROVE  /\ Standing(r)
                 /\ \A s \in present' : ~Collide(r, s)
                 /\ \A k \in Inserters, s \in RRs :
                        j # k /\ inserter'[k] = TheRR(s) => ~Collide(r, s)
      BY <2>1, <2>2, <3>1, <3>4, <3>5 DEF AheadInv
    <3>6. AheadInv'
      BY <3>5 DEF AheadInv
    <3> QED
      BY <3>3, <3>6
  <2> QED
    BY <2>3, <2>4 DEF PlacementInv
<1>7. ASSUME NEW i \in Inserters, CreateChild(i) PROVE PlacementInv'
  <2>1. /\ inserter' = [inserter EXCEPT ![i] = NoInsert]
        /\ child' = TRUE /\ UNCHANGED <<present, crossed>>
    BY <1>7 DEF CreateChild, EndInsert
  <2>2. InsertersTyped'
    BY <1>1, <2>1, WhatIsInserted DEF InsertersTyped
  <2> QED
    BY <1>4, <2>1, <2>2
<1>8. ASSUME NEW rr \in RRs, RemoveRecordSet(rr) PROVE PlacementInv'
  BY <1>1, <1>8 DEF RemoveRecordSet, PlacementInv, InsertersTyped, AloneInv, AheadInv
<1>9. CASE DeleteChild
  BY <1>1, <1>9 DEF DeleteChild, PlacementInv, InsertersTyped, AloneInv, AheadInv
<1> QED
  BY <1>2, <1>3, <1>5, <1>6, <1>7, <1>8, <1>9 DEF PlacementNext

-----------------------------------------------------------------------------
(* The theorems.                                                           *)

LEMMA PlacementAlwaysInv == PlacementSpec => []PlacementInv
<1>1. PlacementInit => PlacementInv
  BY PlacementInitInv
<1>2. PlacementInv /\ [PlacementNext]_placementVars => PlacementInv'
  BY PlacementNextInv
<1> QED
  BY <1>1, <1>2, PTL DEF PlacementSpec

(* What is there and what is about to be are recordsets of the zone.       *)
THEOREM PlacementTyped == PlacementSpec => []PlacementTypeOK
<1>1. PlacementInv => PlacementTypeOK
  BY DEF PlacementInv, InsertersTyped, PlacementTypeOK, Inserts
<1> QED
  BY <1>1, PlacementAlwaysInv, PTL

(* A CNAME is alone at its name and not at the apex, however many calls    *)
(* there are, as long as no two that look before the other inserts would   *)
(* refuse each other.                                                      *)
THEOREM PlacementCnamesStandAlone == PlacementSpec => []CnamesStandAlone
<1>1. PlacementInv => CnamesStandAlone
  BY DEF PlacementInv, InsertersTyped, AloneInv, Standing, Collide, CnamesStandAlone
<1> QED
  BY <1>1, PlacementAlwaysInv, PTL

-----------------------------------------------------------------------------
(* ZoneOwners.                                                             *)

(* No user is an administrator or acts for all projects.  Policy lets an   *)
(* administrator create a recordset or offer a zone as whatever project he *)
(* names, so the properties of ZoneOwners are about the calls of others.   *)
NoAdministrators == \A u \in Users : ~u.all_tenants /\ "admin" \notin u.roles

\* A call that has looked at the zone and is yet to write.
CallRecord ==
    {NoCall}
    \union [kind : {"share", "unshare"}, share : Accounts \X Accounts]
    \union [kind : {"recordset"}, by : Accounts]
    \union [kind : {"offer"}, by : Accounts, to : Accounts \union {Nobody}]
    \union [kind : {"accept"}, by : Accounts, offer : OfferIds]
    \union [kind : {"rewrite", "remove"}, rrset : RecordSetIds]
    \union [kind : {"update"}, of : SUBSET Accounts]
    \union [kind : {"delete"}, state : {"deleting", "gone"}, shared : BOOLEAN,
            of : SUBSET Accounts]

OfferRecord ==
    {NoOffer} \union [status : {"ACTIVE", "COMPLETE"}, by : Accounts,
                      to : Accounts \union {Nobody}]

OwnersTyped ==
    /\ OwnersTypeOK
    /\ offers \in [OfferIds -> OfferRecord]
    /\ call \in [Calls -> CallRecord]

\* The calls of a kind that are under way, and the offers that are open.
Under(kind) == {c \in Calls : call[c].kind = kind}

Active == {o \in OfferIds : offers[o].status = "ACTIVE"}

\* The project may have recordsets in the zone.
AtHome(p) == p \in {Nobody, hosted.owner} \/ SharedWith(p)

\* Every recordset is of the owner or of a project that shares the zone.
RecordSetsInv ==
    hosted.state = "live" /\ Under("delete") = {}
          => \A r \in RecordSetIds : AtHome(rrsets[r])

\* Whoever is about to create a recordset still may, and no call takes that away.
CreatingInv ==
    \A c \in Under("recordset") :
        /\ hosted.state = "live"
        /\ AtHome(call[c].by)
        /\ Under("unshare") = {} /\ Under("accept") = {} /\ Under("delete") = {}

\* A project that is about to lose its share has no recordsets, unless it is the owner.
UnsharingInv ==
    \A c \in Under("unshare"), r \in RecordSetIds :
        rrsets[r] = call[c].share[2] => rrsets[r] \in {hosted.owner, Nobody}

\* At most one offer is open, and it is the owner's.
OffersInv ==
    /\ \A o \in Active : offers[o].by = hosted.owner
    /\ \A o, p \in Active : o = p

\* Who is about to offer the zone is its owner, alone in this, and has offered nothing.
OfferingInv ==
    /\ \A c \in Under("offer") : call[c].by = hosted.owner /\ Active = {}
    /\ \A c, d \in Under("offer") : c = d

\* Who is about to accept an offer is alone in this, and the offer is open or gone.
AcceptingInv ==
    /\ \A c \in Under("accept") :
          offers[call[c].offer] = NoOffer \/ call[c].offer \in Active
    /\ \A c, d \in Under("accept") : c = d

OwnersInv ==
    ~clashed =>
        /\ RecordSetsInv /\ CreatingInv /\ UnsharingInv
        /\ OffersInv /\ OfferingInv /\ AcceptingInv

\* While a call is about to write to the zone, nobody deletes it.
RevivingInv ==
    \A kind \in {"rewrite", "remove", "update"} :
        Under(kind) # {} => hosted.state = "live" /\ Under("delete") = {}

\* Who is about to delete the zone owns it, or it was taken over with all that is in it.
DeletingInv ==
    \A c \in Under("delete") :
        \/ hosted.owner \in call[c].of
        \/ \A r \in RecordSetIds : rrsets[r] \in {hosted.owner, Nobody}

DeletionsInv == ~clashed => RevivingInv /\ DeletingInv

LEMMA RulesOfTheOwner ==
    ASSUME NEW rules \in Rules,
           NEW rule \in {"create_zone_transfer_request", "delete_zone", "abandon_zone"},
           rule \in DOMAIN rules
    PROVE  rules[rule] \subseteq {"admin", "member"}
<1>1. CASE rules \in UNION {BlacklistRules, ContextRules, PoolRules, QuotaRules,
                            RecordRules,
                            RecordSetRules, ServiceStatusRules, SharedZoneRules}
  BY <1>1 DEF BlacklistRules, ContextRules, PoolRules, QuotaRules, RecordRules,
              RecordSetRules,
              ServiceStatusRules, SharedZoneRules
<1>2. CASE rules \in UNION {TenantRules, TldRules, TsigKeyRules, ZoneExportRules,
                            ZoneImportRules, ZoneTransferAcceptRules}
  BY <1>2 DEF TenantRules, TldRules, TsigKeyRules, ZoneExportRules, ZoneImportRules,
              ZoneTransferAcceptRules
<1>3. CASE rules \in ZoneRules
  BY <1>3 DEF ZoneRules, ADMIN_OR_PROJECT_MEMBER, ADMIN
<1>4. CASE rules \in ZoneTransferRequestRules
  BY <1>4 DEF ZoneTransferRequestRules, ADMIN_OR_PROJECT_MEMBER
<1> QED
  BY <1>1, <1>2, <1>3, <1>4 DEF Rules

LEMMA OnlyForTheOwner ==
    ASSUME NEW u \in Users, "admin" \notin u.roles,
           NEW rule \in {"create_zone_transfer_request", "delete_zone", "abandon_zone"},
           Allowed(rule, u, ZoneTarget(u))
    PROVE  u.project = hosted.owner
<1>1. PICK reason \in {"admin", "member"} : Applies(reason, u, ZoneTarget(u))
  BY RulesOfTheOwner DEF Allowed
<1>2. reason # "admin"
  BY <1>1 DEF Applies
<1> QED
  BY <1>1, <1>2 DEF Applies, ZoneTarget

-----------------------------------------------------------------------------
(* Types.                                                                  *)

LEMMA CallTypes ==
    ASSUME OwnersTyped, NEW c \in Calls
    PROVE  /\ call[c].kind \in {"share", "unshare"}
                 => call[c].share \in Accounts \X Accounts
           /\ call[c].kind \in {"recordset", "offer", "accept"} => call[c].by \in Accounts
           /\ call[c].kind = "offer" => call[c].to \in Accounts \union {Nobody}
           /\ call[c].kind = "accept" => call[c].offer \in OfferIds
           /\ call[c].kind \in {"rewrite", "remove"} => call[c].rrset \in RecordSetIds
           /\ call[c].kind = "delete" => /\ call[c].state \in {"deleting", "gone"}
                                         /\ call[c].shared \in BOOLEAN
<1> DEFINE k == call[c]
<1>1. k \in CallRecord
  BY DEF OwnersTyped
<1> HIDE DEF k
<1>2. /\ k.kind \in {"share", "unshare"} => k.share \in Accounts \X Accounts
      /\ k.kind \in {"recordset", "offer", "accept"} => k.by \in Accounts
      /\ k.kind = "offer" => k.to \in Accounts \union {Nobody}
      /\ k.kind = "accept" => k.offer \in OfferIds
      /\ k.kind \in {"rewrite", "remove"} => k.rrset \in RecordSetIds
      /\ k.kind = "delete" => k.state \in {"deleting", "gone"} /\ k.shared \in BOOLEAN
  BY <1>1 DEF CallRecord, NoCall
<1> QED
  BY <1>2 DEF k

LEMMA CallRecords ==
    /\ NoCall \in CallRecord
    /\ \A share \in Accounts \X Accounts : /\ [kind |-> "share", share |-> share] \in CallRecord
                                           /\ [kind |-> "unshare", share |-> share] \in CallRecord
    /\ \A p \in Accounts : [kind |-> "recordset", by |-> p] \in CallRecord
    /\ \A p \in Accounts, q \in Accounts \union {Nobody} :
          [kind |-> "offer", by |-> p, to |-> q] \in CallRecord
    /\ \A p \in Accounts, o \in OfferIds :
          [kind |-> "accept", by |-> p, offer |-> o] \in CallRecord
    /\ \A r \in RecordSetIds : /\ [kind |-> "rewrite", rrset |-> r] \in CallRecord
                               /\ [kind |-> "remove", rrset |-> r] \in CallRecord
    /\ \A u \in Users : [kind |-> "update", of |-> Scope(u)] \in CallRecord
    /\ \A state \in {"deleting", "gone"}, shared \in BOOLEAN, u \in Users :
          [kind |-> "delete", state |-> state, shared |-> shared, of |-> Scope(u)]
              \in CallRecord
    /\ \A k \in CallRecord : k.kind = "delete" => [k EXCEPT !.shared = FALSE] \in CallRecord
<1>2. \A u \in Users : Scope(u) \in SUBSET Accounts
  BY DEF Scope, Accounts
<1>1. ASSUME NEW k \in CallRecord, k.kind = "delete"
      PROVE  [k EXCEPT !.shared = FALSE] \in CallRecord
  <2>1. k \in [kind : {"delete"}, state : {"deleting", "gone"}, shared : BOOLEAN,
                of : SUBSET Accounts]
    BY <1>1 DEF CallRecord, NoCall
  <2> QED
    BY <2>1 DEF CallRecord
<1> QED
  BY <1>1, <1>2 DEF CallRecord

LEMMA OfferRecords ==
    /\ NoOffer \in OfferRecord
    /\ \A p \in Accounts, q \in Accounts \union {Nobody} :
          [status |-> "ACTIVE", by |-> p, to |-> q] \in OfferRecord
    /\ \A offer \in OfferRecord \ {NoOffer} :
          /\ offer.by \in Accounts
          /\ offer.status \in {"ACTIVE", "COMPLETE"}
          /\ \A q \in Accounts \union {Nobody} : [offer EXCEPT !.to = q] \in OfferRecord
          /\ [offer EXCEPT !.status = "COMPLETE"] \in OfferRecord
  BY DEF OfferRecord

LEMMA ProjectsOfUsers == \A u \in Users : u.project \in Accounts
  BY DEF Accounts

\* A look changes nothing but the calls.
LEMMA LookTyped ==
    ASSUME OwnersTyped, NEW c \in Calls, NEW next \in CallRecord, Look(c, next)
    PROVE  OwnersTyped'
  BY DEF OwnersTyped, OwnersTypeOK, Look

LEMMA LookingTyped ==
    ASSUME OwnersTyped, NEW u \in Users, NEW c \in Calls, LookingBy(u, c)
    PROVE  OwnersTyped'
<1>1. ASSUME NEW to \in Accounts, LookToShare(c, u, to) PROVE OwnersTyped'
  BY <1>1, LookTyped, CallRecords, ProjectsOfUsers DEF LookToShare
<1>2. ASSUME NEW share \in shares, LookToUnshare(c, u, share) PROVE OwnersTyped'
  BY <1>2, LookTyped, CallRecords DEF LookToUnshare, OwnersTyped, OwnersTypeOK
<1>3. ASSUME LookToCreate(c, u) PROVE OwnersTyped'
  BY <1>3, LookTyped, CallRecords, ProjectsOfUsers DEF LookToCreate
<1>4. ASSUME NEW to \in (Accounts \ {u.project}) \union {Nobody}, LookToOffer(c, u, to)
      PROVE  OwnersTyped'
  BY <1>4, LookTyped, CallRecords, ProjectsOfUsers DEF LookToOffer
<1>5. ASSUME NEW o \in OfferIds, LookToAccept(c, u, o) PROVE OwnersTyped'
  BY <1>5, LookTyped, CallRecords, ProjectsOfUsers DEF LookToAccept
<1>6. ASSUME NEW delete_shares \in BOOLEAN, NEW state \in {"deleting", "gone"},
             LookToDelete(c, u, delete_shares, state)
      PROVE  OwnersTyped'
  BY <1>6, LookTyped, CallRecords DEF LookToDelete
<1>7. ASSUME NEW r \in RecordSetIds, LookToRewrite(c, u, r) \/ LookToRemove(c, u, r)
      PROVE  OwnersTyped'
  BY <1>7, LookTyped, CallRecords DEF LookToRewrite, LookToRemove
<1>8. ASSUME LookToUpdate(c, u) PROVE OwnersTyped'
  BY <1>8, LookTyped, CallRecords DEF LookToUpdate
<1> QED
  BY <1>1, <1>2, <1>3, <1>4, <1>5, <1>6, <1>7, <1>8 DEF LookingBy

LEMMA WritingTyped ==
    ASSUME OwnersTyped, NEW c \in Calls, WritingBy(c)
    PROVE  OwnersTyped'
<1> USE CallTypes, CallRecords DEF OwnersTyped, OwnersTypeOK, Finish
<1>1. ASSUME Share(c) PROVE OwnersTyped'
  BY <1>1 DEF Share
<1>2. ASSUME Unshare(c) PROVE OwnersTyped'
  BY <1>2 DEF Unshare
<1>3. ASSUME Accept(c) PROVE OwnersTyped'
  BY <1>3, OfferRecords DEF Accept
<1>4. ASSUME DeleteShares(c) PROVE OwnersTyped'
  BY <1>4 DEF DeleteShares
<1>5. ASSUME MarkAsDeleted(c) PROVE OwnersTyped'
  BY <1>5 DEF MarkAsDeleted
<1>6. ASSUME NEW r \in RecordSetIds, CreateRecordSet(c, r) PROVE OwnersTyped'
  BY <1>6 DEF CreateRecordSet
<1>7. ASSUME NEW o \in OfferIds, Offer(c, o) PROVE OwnersTyped'
  BY <1>7, OfferRecords DEF Offer
<1>8. ASSUME WriteRecordSet(c) PROVE OwnersTyped'
  BY <1>8 DEF WriteRecordSet
<1>9. ASSUME UpdateZone(c) PROVE OwnersTyped'
  BY <1>9 DEF UpdateZone
<1> QED
  BY <1>1, <1>2, <1>3, <1>4, <1>5, <1>6, <1>7, <1>8, <1>9 DEF WritingBy

LEMMA AtOnceTyped ==
    ASSUME OwnersTyped, NEW u \in Users, AtOnce(u)
    PROVE  OwnersTyped'
<1> USE DEF OwnersTyped, OwnersTypeOK
<1>1. ASSUME NEW o \in OfferIds, Withdraw(u, o) PROVE OwnersTyped'
  BY <1>1, OfferRecords DEF Withdraw
<1>2. ASSUME NEW o \in OfferIds, NEW to \in (Accounts \ {u.project}) \union {Nobody},
             ChangeOffer(u, o, to)
      PROVE  OwnersTyped'
  BY <1>2, OfferRecords DEF ChangeOffer
<1> QED
  BY <1>1, <1>2 DEF AtOnce

LEMMA OwnersNextTyped == OwnersTyped /\ [OwnersNext]_ownersVars => OwnersTyped'
<1> SUFFICES ASSUME OwnersTyped, [OwnersNext]_ownersVars PROVE OwnersTyped'
  OBVIOUS
<1>1. ASSUME ConfirmGone PROVE OwnersTyped'
  BY <1>1 DEF ConfirmGone, OwnersTyped, OwnersTypeOK
<1>2. ASSUME PurgeRow PROVE OwnersTyped'
  BY <1>2, OfferRecords DEF PurgeRow, OwnersTyped, OwnersTypeOK
<1>3. CASE UNCHANGED ownersVars
  BY <1>3 DEF ownersVars, OwnersTyped, OwnersTypeOK
<1> QED
  BY <1>1, <1>2, <1>3, LookingTyped, WritingTyped, AtOnceTyped DEF OwnersNext

LEMMA OwnersInitTyped == OwnersInit => OwnersTyped
  BY CallRecords, OfferRecords DEF OwnersInit, OwnersTyped, OwnersTypeOK

LEMMA OwnersAlwaysTyped == OwnersSpec => []OwnersTyped
  BY OwnersInitTyped, OwnersNextTyped, PTL DEF OwnersSpec

(* The zone, its shares, recordsets, offers and the calls under way are of *)
(* their types, whoever calls what (central service.py, share_zone and     *)
(* unshare_zone, and the calls about recordsets and zone transfers).       *)
THEOREM OwnersAreTyped == OwnersSpec => []OwnersTypeOK
<1>1. OwnersTyped => OwnersTypeOK
  BY DEF OwnersTyped
<1> QED
  BY <1>1, OwnersAlwaysTyped, PTL

-----------------------------------------------------------------------------
(* The invariant.                                                          *)

LEMMA CallsAfterLook ==
    ASSUME OwnersTyped, NEW c \in Calls, NEW next \in CallRecord, Look(c, next)
    PROVE  /\ next.kind # "none" => Under(next.kind)' = Under(next.kind) \union {c}
           /\ \A kind : kind \notin {"none", next.kind} => Under(kind)' = Under(kind)
           /\ \A d \in Calls \ {c} : call'[d] = call[d]
           /\ call'[c] = next
           /\ UNCHANGED <<hosted, shares, rrsets, offers>>
           /\ ~clashed' => /\ ~clashed
                           /\ \A kind : {kind, next.kind} \in Clashing => Under(kind) = {}
<1>1. call[c].kind = "none" /\ call' = [call EXCEPT ![c] = next]
  BY DEF Look, NoCall
<1>2. /\ \A d \in Calls \ {c} : call'[d] = call[d]
      /\ call'[c] = next
      /\ UNCHANGED <<hosted, shares, rrsets, offers>>
  BY <1>1 DEF Look, OwnersTyped
<1>3. /\ next.kind # "none" => Under(next.kind)' = Under(next.kind) \union {c}
      /\ \A kind : kind \notin {"none", next.kind} => Under(kind)' = Under(kind)
  BY <1>1, <1>2 DEF Under
<1>4. ~clashed' => ~clashed /\ \A d \in Calls : {call[d].kind, next.kind} \notin Clashing
  BY DEF Look
<1> QED
  BY <1>2, <1>3, <1>4 DEF Under

LEMMA CallsAfterWrite ==
    ASSUME OwnersTyped, NEW c \in Calls, Finish(c)
    PROVE  /\ \A kind : kind # "none" => Under(kind)' = Under(kind) \ {c}
           /\ \A d \in Calls \ {c} : call'[d] = call[d]
           /\ clashed' = clashed
<1>1. call'[c].kind = "none"
  BY DEF Finish, NoCall, OwnersTyped
<1>2. \A d \in Calls \ {c} : call'[d] = call[d]
  BY DEF Finish, OwnersTyped
<1>3. \A kind : kind # "none" => Under(kind)' = Under(kind) \ {c}
  BY <1>1, <1>2 DEF Under
<1> QED
  BY <1>2, <1>3 DEF Finish

LEMMA OnlyTheirOwn ==
    ASSUME NEW u \in Users, ~u.all_tenants, Visible(u)
    PROVE  AtHome(u.project)
  BY DEF Visible, AtHome

LEMMA LookingInv ==
    ASSUME NoAdministrators, OwnersTyped, OwnersInv, ~clashed', NEW u \in Users,
           NEW c \in Calls,
           LookingBy(u, c)
    PROVE  OwnersInv'
<1> USE DEF OwnersInv, RecordSetsInv, CreatingInv, UnsharingInv, OffersInv, OfferingInv,
            AcceptingInv, AtHome, SharedWith, Active
<1>1. ASSUME NEW to \in Accounts, LookToShare(c, u, to) PROVE OwnersInv'
  <2> DEFINE next == [kind |-> "share", share |-> <<u.project, to>>]
  <2>1. next \in CallRecord /\ Look(c, next) /\ next.kind = "share"
    BY <1>1, CallRecords, ProjectsOfUsers DEF LookToShare
  <2> HIDE DEF next
  <2> QED
    BY <2>1, CallsAfterLook DEF Under
<1>2. ASSUME NEW share \in shares, LookToUnshare(c, u, share) PROVE OwnersInv'
  <2> DEFINE next == [kind |-> "unshare", share |-> share]
  <2>1. next \in CallRecord /\ Look(c, next) /\ next.kind = "unshare" /\ next.share = share
    BY <1>2, CallRecords DEF LookToUnshare, OwnersTyped, OwnersTypeOK
  <2>2. \A r \in RecordSetIds : rrsets[r] # share[2]
    BY <1>2 DEF LookToUnshare
  <2>3. {"recordset", next.kind} \in Clashing
    BY <2>1 DEF Clashing
  <2> HIDE DEF next
  <2>5. Under("recordset") = {}
    BY <2>1, <2>3, CallsAfterLook
  <2>4. /\ Under("recordset")' = {} /\ Under("unshare")' = Under("unshare") \union {c}
        /\ \A k \in {"delete", "offer", "accept"} : Under(k)' = Under(k)
        /\ call'[c] = next /\ \A d \in Calls \ {c} : call'[d] = call[d]
        /\ UNCHANGED <<hosted, shares, rrsets, offers>>
    BY <2>1, <2>5, CallsAfterLook
  <2> QED
    BY <2>1, <2>2, <2>4, CallsAfterLook DEF Under
<1>3. ASSUME LookToCreate(c, u) PROVE OwnersInv'
  <2> DEFINE next == [kind |-> "recordset", by |-> u.project]
  <2>1. next \in CallRecord /\ Look(c, next) /\ next.kind = "recordset"
        /\ next.by = u.project
    BY <1>3, CallRecords, ProjectsOfUsers DEF LookToCreate
  <2>2. {"unshare", next.kind} \in Clashing /\ {"accept", next.kind} \in Clashing
        /\ {"delete", next.kind} \in Clashing
    BY <2>1 DEF Clashing
  <2>3. AtHome(u.project) /\ hosted.state = "live"
    BY <1>3, OnlyTheirOwn DEF LookToCreate, NoAdministrators
  <2> HIDE DEF next
  <2>5. Under("unshare") = {} /\ Under("accept") = {} /\ Under("delete") = {}
    BY <2>1, <2>2, CallsAfterLook
  <2>4. /\ Under("recordset")' = Under("recordset") \union {c}
        /\ \A k \in {"unshare", "delete", "accept"} : Under(k) = {} /\ Under(k)' = {}
        /\ Under("offer")' = Under("offer")
        /\ call'[c] = next /\ \A d \in Calls \ {c} : call'[d] = call[d]
        /\ UNCHANGED <<hosted, shares, rrsets, offers>>
    BY <2>1, <2>5, CallsAfterLook
  <2> QED
    BY <2>1, <2>3, <2>4, CallsAfterLook DEF Under
<1>4. ASSUME NEW to \in (Accounts \ {u.project}) \union {Nobody}, LookToOffer(c, u, to)
      PROVE  OwnersInv'
  <2> DEFINE next == [kind |-> "offer", by |-> u.project, to |-> to]
  <2>1. next \in CallRecord /\ Look(c, next) /\ next.kind = "offer" /\ next.by = u.project
    BY <1>4, CallRecords, ProjectsOfUsers DEF LookToOffer
  <2>2. {"offer", next.kind} \in Clashing
    BY <2>1 DEF Clashing
  <2>3. u.project = hosted.owner
    BY <1>4, OnlyForTheOwner DEF LookToOffer, NoAdministrators
  <2>4. Active = {}
    BY <1>4, <2>3, CallsAfterLook, <2>1 DEF LookToOffer, SeesAnOffer
  <2> HIDE DEF next
  <2>5. Under("offer") = {}
    BY <2>1, <2>2, CallsAfterLook
  <2>6. /\ Under("offer")' = {c}
        /\ \A k \in {"unshare", "delete", "accept", "recordset"} : Under(k)' = Under(k)
        /\ call'[c] = next /\ \A d \in Calls \ {c} : call'[d] = call[d]
        /\ UNCHANGED <<hosted, shares, rrsets, offers>>
    BY <2>1, <2>5, CallsAfterLook
  <2> QED
    BY <2>1, <2>3, <2>4, <2>6, CallsAfterLook DEF Under
<1>5. ASSUME NEW o \in OfferIds, LookToAccept(c, u, o) PROVE OwnersInv'
  <2> DEFINE next == [kind |-> "accept", by |-> u.project, offer |-> o]
  <2>1. next \in CallRecord /\ Look(c, next) /\ next.kind = "accept" /\ next.offer = o
    BY <1>5, CallRecords, ProjectsOfUsers DEF LookToAccept
  <2>2. {"accept", next.kind} \in Clashing /\ {"recordset", next.kind} \in Clashing
    BY <2>1 DEF Clashing
  <2>3. o \in Active
    BY <1>5 DEF LookToAccept
  <2> HIDE DEF next
  <2>5. Under("accept") = {} /\ Under("recordset") = {}
    BY <2>1, <2>2, CallsAfterLook
  <2>4. /\ Under("accept")' = {c} /\ Under("recordset")' = {}
        /\ \A k \in {"unshare", "delete", "offer"} : Under(k)' = Under(k)
        /\ call'[c] = next /\ \A d \in Calls \ {c} : call'[d] = call[d]
        /\ UNCHANGED <<hosted, shares, rrsets, offers>>
    BY <2>1, <2>5, CallsAfterLook
  <2> QED
    BY <2>1, <2>3, <2>4, CallsAfterLook DEF Under
<1>6. ASSUME NEW delete_shares \in BOOLEAN, NEW state \in {"deleting", "gone"},
             LookToDelete(c, u, delete_shares, state)
      PROVE  OwnersInv'
  <2> DEFINE next == [kind |-> "delete", state |-> state, shared |-> shares # {},
                      of |-> Scope(u)]
  <2>1. next \in CallRecord /\ Look(c, next) /\ next.kind = "delete"
    BY <1>6, CallRecords DEF LookToDelete
  <2>2. {"recordset", next.kind} \in Clashing
    BY <2>1 DEF Clashing
  <2> HIDE DEF next
  <2> QED
    BY <2>1, <2>2, CallsAfterLook DEF Under
<1>7. ASSUME NEW next \in CallRecord, Look(c, next),
             next.kind \in {"rewrite", "remove", "update"}
      PROVE  OwnersInv'
  BY <1>7, CallsAfterLook DEF Under
<1>8. ASSUME NEW r \in RecordSetIds, LookToRewrite(c, u, r) \/ LookToRemove(c, u, r)
      PROVE  OwnersInv'
  BY <1>7, <1>8, CallRecords DEF LookToRewrite, LookToRemove
<1>9. ASSUME LookToUpdate(c, u) PROVE OwnersInv'
  BY <1>7, <1>9, CallRecords DEF LookToUpdate
<1> QED
  BY <1>1, <1>2, <1>3, <1>4, <1>5, <1>6, <1>8, <1>9 DEF LookingBy

\* A write to a recordset or to the zone takes nothing from a zone that is live.
LEMMA RevivingKeeps ==
    ASSUME OwnersTyped, OwnersInv, ~clashed, NEW c \in Calls, Finish(c),
           call[c].kind \in {"rewrite", "remove", "update"},
           hosted'.owner = hosted.owner, hosted.state = "live", hosted'.state = "live",
           \A r \in RecordSetIds : rrsets'[r] \in {rrsets[r], Nobody},
           UNCHANGED <<shares, offers>>
    PROVE  OwnersInv'
<1>1. /\ \A k \in {"recordset", "unshare", "delete", "offer", "accept"} :
            Under(k)' = Under(k) /\ c \notin Under(k)
      /\ \A d \in Calls \ {c} : call'[d] = call[d]
  BY CallsAfterWrite DEF Under
<1>2. /\ RecordSetsInv /\ CreatingInv /\ UnsharingInv
      /\ OffersInv /\ OfferingInv /\ AcceptingInv
  BY DEF OwnersInv
<1>3. \A q : AtHome(q) => AtHome(q)'
  BY DEF AtHome, SharedWith
<1>4. AtHome(Nobody)'
  BY DEF AtHome
<1>5. RecordSetsInv'
  BY <1>1, <1>2, <1>3, <1>4 DEF RecordSetsInv
<1>6. CreatingInv'
  BY <1>1, <1>2, <1>3 DEF CreatingInv, Under
<1>7. UnsharingInv'
  BY <1>1, <1>2 DEF UnsharingInv, Under
<1>8. OffersInv' /\ OfferingInv' /\ AcceptingInv'
  BY <1>1, <1>2 DEF OffersInv, OfferingInv, AcceptingInv, Active, Under
<1> QED
  BY <1>5, <1>6, <1>7, <1>8 DEF OwnersInv

LEMMA WritingInv ==
    ASSUME OwnersTyped, OwnersInv, DeletionsInv, ~clashed', NEW c \in Calls, WritingBy(c)
    PROVE  OwnersInv'
<1>0. /\ RecordSetsInv /\ CreatingInv /\ UnsharingInv
      /\ OffersInv /\ OfferingInv /\ AcceptingInv
      /\ RevivingInv /\ DeletingInv /\ ~clashed
  BY CallsAfterWrite
     DEF OwnersInv, DeletionsInv, WritingBy, Share, Unshare, Accept, DeleteShares,
         MarkAsDeleted, CreateRecordSet, WriteRecordSet, UpdateZone, Offer
<1> USE <1>0, CallTypes
<1>1. ASSUME Share(c) PROVE OwnersInv'
  <2>1. RecordSetsInv' /\ CreatingInv'
    <3>1. \A p : AtHome(p) => AtHome(p)'
      BY <1>1 DEF Share, AtHome, SharedWith
    <3>2. /\ UNCHANGED <<hosted, rrsets>> /\ Under("recordset")' = Under("recordset")
          /\ \A k \in {"unshare", "delete", "accept"} : Under(k)' = Under(k)
          /\ \A d \in Under("recordset") : call'[d] = call[d]
      <4>1. \A k \in {"recordset", "unshare", "delete", "accept"} : c \notin Under(k)
        BY <1>1 DEF Share, Under
      <4>2. Finish(c) /\ UNCHANGED <<hosted, rrsets>>
        BY <1>1 DEF Share
      <4>3. \A k \in {"recordset", "unshare", "delete", "accept"} : Under(k)' = Under(k)
        <5>1. \A k \in {"recordset", "unshare", "delete", "accept"} :
              Under(k)' = Under(k) \ {c}
          BY <4>2, CallsAfterWrite
        <5>2. \A S : c \notin S => S \ {c} = S
          OBVIOUS
        <5> QED
          BY <4>1, <5>1, <5>2
      <4>4. \A d \in Under("recordset") : d \in Calls /\ d # c
        BY <4>1 DEF Under
      <4> QED
        BY <4>2, <4>3, <4>4, CallsAfterWrite
    <3>3. RecordSetsInv'
      BY <3>1, <3>2 DEF RecordSetsInv
    <3> QED
      BY <3>1, <3>2, <3>3 DEF CreatingInv
  <2>2. UnsharingInv'
    BY <1>1, CallsAfterWrite DEF Share, Under, UnsharingInv
  <2>3. OffersInv' /\ OfferingInv' /\ AcceptingInv'
    <3>1. /\ \A k \in {"offer", "accept"} : Under(k)' = Under(k)
          /\ \A d \in Calls \ {c} : call'[d] = call[d]
          /\ UNCHANGED <<hosted, offers>> /\ c \notin Under("offer") /\ c \notin Under("accept")
      BY <1>1, CallsAfterWrite DEF Share, Under
    <3> QED
      BY <3>1 DEF OffersInv, OfferingInv, AcceptingInv, Active, Under
  <2> QED
    BY <2>1, <2>2, <2>3 DEF OwnersInv
<1>2. ASSUME Unshare(c) PROVE OwnersInv'
  <2>1. c \in Under("unshare") /\ Under("recordset") = {}
        /\ shares' = shares \ {call[c].share}
        /\ UNCHANGED <<hosted, rrsets, offers>>
    BY <1>2 DEF Unshare, Under, CreatingInv
  <2>2. \A k \in {"recordset", "unshare", "delete", "offer", "accept"} :
           Under(k)' = Under(k) \ {c}
    BY <1>2, CallsAfterWrite DEF Unshare
  <2>3. \A r \in RecordSetIds : AtHome(rrsets[r]) => AtHome(rrsets[r])'
    BY <2>1 DEF UnsharingInv, AtHome, SharedWith
  <2>4. RecordSetsInv'
    <3>1. Under("delete")' = Under("delete")
      BY <2>1, <2>2 DEF Under
    <3> QED
      BY <2>1, <2>3, <3>1 DEF RecordSetsInv
  <2>5. CreatingInv'
    BY <2>1, <2>2 DEF CreatingInv
  <2>6. UnsharingInv'
    BY <1>2, <2>1, <2>2, CallsAfterWrite DEF UnsharingInv, Unshare, Under
  <2>7. OffersInv' /\ OfferingInv' /\ AcceptingInv'
    BY <1>2, CallsAfterWrite DEF Unshare, Under, OffersInv, OfferingInv, AcceptingInv,
                                 Active
  <2> QED
    BY <2>4, <2>5, <2>6, <2>7 DEF OwnersInv
<1>3. ASSUME Accept(c) PROVE OwnersInv'
  <2> DEFINE o == call[c].offer
  <2>1. c \in Under("accept") /\ Under("recordset") = {} /\ o \in OfferIds
        /\ (offers[o] = NoOffer \/ o \in Active)
    BY <1>3 DEF Accept, Under, CreatingInv, AcceptingInv
  <2>2. /\ \A k \in {"recordset", "unshare", "delete", "offer", "accept"} :
              Under(k)' = Under(k) \ {c}
        /\ \A d \in Calls \ {c} : call'[d] = call[d]
    BY <1>3, CallsAfterWrite DEF Accept
  <2>3. Under("recordset")' = {} /\ Under("accept")' = {}
    BY <2>1, <2>2 DEF AcceptingInv
  <2>4. CASE InUse /\ offers[o] # NoOffer
    <3>1. /\ hosted'.owner = call[c].by /\ hosted'.state = hosted.state
          /\ \A r \in RecordSetIds : rrsets'[r] \in {hosted'.owner, Nobody}
      BY <1>3, <2>4 DEF Accept, OwnersTyped, OwnersTypeOK
    <3>2. offers'[o].status = "COMPLETE" /\ \A p \in OfferIds \ {o} : offers'[p] = offers[p]
      BY <1>3, <2>1, <2>4, OfferRecords DEF Accept, OwnersTyped, OfferRecord
    <3>3. Active' = {}
      <4>1. Active' = Active \ {o}
        BY <3>2 DEF Active
      <4> QED
        BY <2>1, <2>4, <4>1 DEF OffersInv
    <3>4. Under("offer")' = {}
      BY <2>1, <2>2, <2>4 DEF OfferingInv
    <3>5. RecordSetsInv' /\ CreatingInv' /\ UnsharingInv'
      BY <2>3, <3>1 DEF RecordSetsInv, CreatingInv, UnsharingInv, AtHome
    <3>6. OffersInv' /\ OfferingInv' /\ AcceptingInv'
      BY <2>3, <3>3, <3>4 DEF OffersInv, OfferingInv, AcceptingInv
    <3> QED
      BY <3>5, <3>6 DEF OwnersInv
  <2>5. CASE ~(InUse /\ offers[o] # NoOffer)
    <3>1. UNCHANGED <<hosted, rrsets, offers, shares>>
      BY <1>3, <2>5 DEF Accept
    <3>2. Under("delete")' = Under("delete") /\ Under("unshare")' = Under("unshare")
          /\ Under("offer")' = Under("offer")
      BY <2>1, <2>2 DEF Under
    <3>3. RecordSetsInv' /\ CreatingInv'
      BY <2>3, <3>1, <3>2 DEF RecordSetsInv, CreatingInv, AtHome, SharedWith
    <3>4. UnsharingInv'
      BY <2>2, <3>1, <3>2, <2>1 DEF UnsharingInv, Under
    <3>5. OffersInv' /\ OfferingInv' /\ AcceptingInv'
      BY <2>1, <2>2, <2>3, <3>1, <3>2 DEF OffersInv, OfferingInv, AcceptingInv, Active,
                                          Under
    <3> QED
      BY <3>3, <3>4, <3>5 DEF OwnersInv
  <2> QED
    BY <2>4, <2>5
<1>4. ASSUME DeleteShares(c) PROVE OwnersInv'
  <2>1. RecordSetsInv' /\ CreatingInv' /\ UnsharingInv'
    BY <1>4 DEF DeleteShares, Under, RecordSetsInv, CreatingInv, UnsharingInv, OwnersTyped
  <2>2. OffersInv' /\ OfferingInv' /\ AcceptingInv'
    BY <1>4 DEF DeleteShares, Under, OffersInv, OfferingInv, AcceptingInv, Active,
                OwnersTyped
  <2> QED
    BY <2>1, <2>2 DEF OwnersInv
<1>5. ASSUME MarkAsDeleted(c) PROVE OwnersInv'
  <2>2. hosted'.owner = hosted.owner
    BY <1>5 DEF MarkAsDeleted, OwnersTyped, OwnersTypeOK
  <2>5. RecordSetsInv'
    <3>1. CASE hosted'.state = "live"
      <4>1. ~(InUse /\ hosted.owner \in call[c].of) /\ InUse
        BY <1>5, <3>1 DEF MarkAsDeleted, InUse, OwnersTyped, OwnersTypeOK
      <4>2. c \in Under("delete")
        BY <1>5 DEF MarkAsDeleted, Under
      <4>3. \A r \in RecordSetIds : rrsets[r] \in {hosted.owner, Nobody}
        BY <4>1, <4>2 DEF DeletingInv
      <4> QED
        BY <1>5, <2>2, <4>3 DEF MarkAsDeleted, RecordSetsInv, AtHome
    <3> QED
      BY <3>1 DEF RecordSetsInv
  <2>1. CreatingInv'
    BY <1>5, CallsAfterWrite DEF MarkAsDeleted, Under, CreatingInv
  <2>3. UnsharingInv'
    BY <1>5, <2>2, CallsAfterWrite DEF MarkAsDeleted, Under, UnsharingInv
  <2>4. /\ OffersInv'
        /\ OfferingInv'
        /\ AcceptingInv'
    <3>1. /\ \A k \in {"offer", "accept"} : Under(k)' = Under(k)
          /\ \A d \in Calls \ {c} : call'[d] = call[d]
          /\ UNCHANGED offers /\ c \notin Under("offer") /\ c \notin Under("accept")
      BY <1>5, CallsAfterWrite DEF MarkAsDeleted, Under
    <3> QED
      BY <2>2, <3>1 DEF OffersInv, OfferingInv, AcceptingInv, Active, Under
  <2> QED
    BY <2>1, <2>3, <2>4, <2>5 DEF OwnersInv
<1>6. ASSUME NEW r \in RecordSetIds, CreateRecordSet(c, r) PROVE OwnersInv'
  <2>1. c \in Under("recordset") /\ hosted.state = "live" /\ AtHome(call[c].by)
        /\ Under("unshare") = {} /\ Under("accept") = {} /\ Under("delete") = {}
    BY <1>6 DEF CreateRecordSet, Under, CreatingInv
  <2>2. hosted'.state = "live" /\ hosted'.owner = hosted.owner
        /\ UNCHANGED <<shares, offers>>
    BY <1>6, <2>1 DEF CreateRecordSet, InUse, OwnersTyped, OwnersTypeOK
  <2>3. rrsets'[r] = call[c].by /\ \A q \in RecordSetIds \ {r} : rrsets'[q] = rrsets[q]
    BY <1>6, <2>1 DEF CreateRecordSet, InUse, OwnersTyped, OwnersTypeOK
  <2>4. /\ \A k \in {"recordset", "unshare", "delete", "offer", "accept"} :
              Under(k)' = Under(k) \ {c}
        /\ \A d \in Calls \ {c} : call'[d] = call[d]
    BY <1>6, CallsAfterWrite DEF CreateRecordSet
  <2>5. \A p : AtHome(p) => AtHome(p)'
    BY <2>2 DEF AtHome, SharedWith
  <2>6. RecordSetsInv'
    BY <2>1, <2>3, <2>5 DEF RecordSetsInv
  <2>7. CreatingInv'
    BY <2>1, <2>2, <2>4, <2>5 DEF CreatingInv, Under
  <2>8. UnsharingInv'
    BY <2>1, <2>4 DEF UnsharingInv
  <2>9. OffersInv' /\ OfferingInv' /\ AcceptingInv'
    BY <2>1, <2>2, <2>4 DEF OffersInv, OfferingInv, AcceptingInv, Active, Under
  <2> QED
    BY <2>6, <2>7, <2>8, <2>9 DEF OwnersInv
<1>7. ASSUME NEW o \in OfferIds, Offer(c, o) PROVE OwnersInv'
  <2>1. c \in Under("offer") /\ call[c].by = hosted.owner /\ Active = {}
        /\ UNCHANGED <<hosted, shares, rrsets>>
    BY <1>7 DEF Offer, Under, OfferingInv
  <2>2. /\ \A k \in {"recordset", "unshare", "delete", "offer", "accept"} :
              Under(k)' = Under(k) \ {c}
        /\ \A d \in Calls \ {c} : call'[d] = call[d]
    BY <1>7, CallsAfterWrite DEF Offer
  <2>3. /\ offers[o] = NoOffer
        /\ \/ UNCHANGED offers
           \/ offers'[o].status = "ACTIVE" /\ offers'[o].by = call[c].by
        /\ \A p \in OfferIds \ {o} : offers'[p] = offers[p]
    BY <1>7 DEF Offer, OwnersTyped
  <2>4. Under("offer")' = {}
    BY <2>1, <2>2 DEF OfferingInv
  <2>5. RecordSetsInv' /\ CreatingInv'
    BY <2>1, <2>2 DEF RecordSetsInv, CreatingInv, AtHome, SharedWith, Under
  <2>6. UnsharingInv'
    BY <2>1, <2>2 DEF UnsharingInv, Under
  <2>7. OffersInv'
    BY <2>1, <2>3 DEF OffersInv, Active
  <2>8. OfferingInv'
    BY <2>4 DEF OfferingInv
  <2>9. AcceptingInv'
    BY <2>1, <2>2, <2>3 DEF AcceptingInv, Active, Under
  <2> QED
    BY <2>5, <2>6, <2>7, <2>8, <2>9 DEF OwnersInv
<1>8. ASSUME WriteRecordSet(c) PROVE OwnersInv'
  <2>1. hosted.state = "live"
    BY <1>8 DEF WriteRecordSet, RevivingInv, Under
  <2>2. /\ hosted'.owner = hosted.owner /\ hosted'.state = "live"
        /\ \A r \in RecordSetIds : rrsets'[r] \in {rrsets[r], Nobody}
    BY <1>8, <2>1 DEF WriteRecordSet, OwnersTyped, OwnersTypeOK
  <2> QED
    BY <1>8, <2>1, <2>2, RevivingKeeps DEF WriteRecordSet
<1>9. ASSUME UpdateZone(c) PROVE OwnersInv'
  <2>1. hosted.state = "live"
    BY <1>9 DEF UpdateZone, RevivingInv, Under
  <2>2. hosted'.owner = hosted.owner /\ hosted'.state = "live"
    BY <1>9, <2>1 DEF UpdateZone, OwnersTyped, OwnersTypeOK
  <2> QED
    BY <1>9, <2>1, <2>2, RevivingKeeps DEF UpdateZone
<1> QED
  BY <1>1, <1>2, <1>3, <1>4, <1>5, <1>6, <1>7, <1>8, <1>9 DEF WritingBy

LEMMA AtOnceInv ==
    ASSUME OwnersTyped, OwnersInv, ~clashed', NEW u \in Users, AtOnce(u)
    PROVE  OwnersInv'
<1>0. /\ RecordSetsInv /\ CreatingInv /\ UnsharingInv
      /\ OffersInv /\ OfferingInv /\ AcceptingInv
  BY DEF OwnersInv, AtOnce, Withdraw, ChangeOffer
<1> USE <1>0
<1>1. ASSUME NEW o \in OfferIds, UNCHANGED <<hosted, shares, rrsets, call, clashed>>,
             \A p \in OfferIds \ {o} : offers'[p] = offers[p],
             \/ offers'[o] = NoOffer
             \/ offers'[o].status = offers[o].status /\ offers'[o].by = offers[o].by
                /\ offers[o] # NoOffer
      PROVE  OwnersInv'
  <2>1. RecordSetsInv' /\ CreatingInv' /\ UnsharingInv'
    BY <1>1 DEF RecordSetsInv, CreatingInv, UnsharingInv, AtHome, SharedWith, Under
  <2>2. Active' \subseteq Active /\ \A p \in Active' : offers'[p].by = offers[p].by
    BY <1>1 DEF Active, NoOffer
  <2>3. OffersInv' /\ OfferingInv'
    BY <1>1, <2>2 DEF OffersInv, OfferingInv, Under
  <2>4. \A p \in OfferIds : offers[p] = NoOffer \/ p \in Active =>
                              offers'[p] = NoOffer \/ p \in Active'
    BY <1>1 DEF Active
  <2>5. Under("accept")' = Under("accept") /\ UNCHANGED call
    BY <1>1 DEF Under
  <2>6. AcceptingInv'
    BY <2>4, <2>5, CallTypes DEF AcceptingInv, Under
  <2> QED
    BY <2>1, <2>3, <2>6 DEF OwnersInv
<1>2. ASSUME NEW o \in OfferIds, Withdraw(u, o) PROVE OwnersInv'
  BY <1>1, <1>2 DEF Withdraw, OwnersTyped
<1>3. ASSUME NEW o \in OfferIds, NEW to \in (Accounts \ {u.project}) \union {Nobody},
             ChangeOffer(u, o, to)
      PROVE  OwnersInv'
  <2>1. offers[o] \in [status : {"ACTIVE", "COMPLETE"}, by : Accounts,
                       to : Accounts \union {Nobody}]
    BY <1>3 DEF ChangeOffer, OwnersTyped, OfferRecord
  <2>2. /\ offers'[o].status = offers[o].status /\ offers'[o].by = offers[o].by
        /\ \A p \in OfferIds \ {o} : offers'[p] = offers[p]
    BY <1>3, <2>1 DEF ChangeOffer, OwnersTyped
  <2> QED
    BY <1>1, <1>3, <2>2 DEF ChangeOffer
<1> QED
  BY <1>2, <1>3 DEF AtOnce

LEMMA DeletionsLooking ==
    ASSUME NoAdministrators, OwnersTyped, DeletionsInv, ~clashed', NEW u \in Users,
           NEW c \in Calls, LookingBy(u, c)
    PROVE  DeletionsInv'
<1> USE DEF DeletionsInv, RevivingInv, DeletingInv
<1>1. ASSUME NEW next \in CallRecord, Look(c, next),
             next.kind \in {"share", "unshare", "recordset", "offer", "accept"}
      PROVE  DeletionsInv'
  BY <1>1, CallsAfterLook DEF Under
<1>2. ASSUME NEW next \in CallRecord, Look(c, next),
             next.kind \in {"rewrite", "remove", "update"}, hosted.state = "live"
      PROVE  DeletionsInv'
  <2>1. {"delete", next.kind} \in Clashing
    BY <1>2 DEF Clashing
  <2>2. Under("delete") = {}
    BY <1>2, <2>1, CallsAfterLook
  <2>3. Under("delete")' = {} /\ UNCHANGED hosted
    BY <1>2, <2>2, CallsAfterLook
  <2> QED
    BY <1>2, <2>3
<1>3. ASSUME NEW delete_shares \in BOOLEAN, NEW state \in {"deleting", "gone"},
             LookToDelete(c, u, delete_shares, state)
      PROVE  DeletionsInv'
  <2> DEFINE next == [kind |-> "delete", state |-> state, shared |-> shares # {},
                      of |-> Scope(u)]
  <2>1. next \in CallRecord /\ Look(c, next) /\ next.kind = "delete" /\ next.of = Scope(u)
    BY <1>3, CallRecords DEF LookToDelete
  <2>2. \A k \in {"rewrite", "remove", "update"} : {k, next.kind} \in Clashing
    BY <2>1 DEF Clashing
  <2>3. hosted.owner \in next.of
    <3>1. u.project = hosted.owner
      BY <1>3, OnlyForTheOwner DEF LookToDelete, NoAdministrators
    <3> QED
      BY <2>1, <3>1 DEF Scope, NoAdministrators
  <2> HIDE DEF next
  <2>4. \A k \in {"rewrite", "remove", "update"} : Under(k)' = {}
    BY <2>1, <2>2, CallsAfterLook
  <2>5. Under("delete")' = Under("delete") \union {c} /\ UNCHANGED <<hosted, rrsets>>
        /\ call'[c] = next /\ \A d \in Calls \ {c} : call'[d] = call[d]
    BY <2>1, CallsAfterLook
  <2>6. ~clashed /\ Under("delete") \subseteq Calls
    BY <2>1, CallsAfterLook DEF Under
  <2> QED
    BY <2>3, <2>4, <2>5, <2>6
<1>4. ASSUME NEW to \in Accounts, LookToShare(c, u, to) PROVE DeletionsInv'
  BY <1>1, <1>4, CallRecords, ProjectsOfUsers DEF LookToShare
<1>5. ASSUME NEW share \in shares, LookToUnshare(c, u, share) PROVE DeletionsInv'
  BY <1>1, <1>5, CallRecords DEF LookToUnshare, OwnersTyped, OwnersTypeOK
<1>6. ASSUME LookToCreate(c, u) PROVE DeletionsInv'
  BY <1>1, <1>6, CallRecords, ProjectsOfUsers DEF LookToCreate
<1>7. ASSUME NEW to \in (Accounts \ {u.project}) \union {Nobody}, LookToOffer(c, u, to)
      PROVE  DeletionsInv'
  BY <1>1, <1>7, CallRecords, ProjectsOfUsers DEF LookToOffer
<1>8. ASSUME NEW o \in OfferIds, LookToAccept(c, u, o) PROVE DeletionsInv'
  BY <1>1, <1>8, CallRecords, ProjectsOfUsers DEF LookToAccept
<1>9. ASSUME NEW r \in RecordSetIds, LookToRewrite(c, u, r) \/ LookToRemove(c, u, r)
      PROVE  DeletionsInv'
  BY <1>2, <1>9, CallRecords DEF LookToRewrite, LookToRemove
<1>10. ASSUME LookToUpdate(c, u) PROVE DeletionsInv'
  BY <1>2, <1>10, CallRecords DEF LookToUpdate
<1> QED
  BY <1>3, <1>4, <1>5, <1>6, <1>7, <1>8, <1>9, <1>10 DEF LookingBy

\* Each write leaves the zone live, or deletes it while nobody else writes to it.
LEMMA DeletionsWriting ==
    ASSUME OwnersTyped, OwnersInv, DeletionsInv, ~clashed', NEW c \in Calls, WritingBy(c)
    PROVE  DeletionsInv'
<1>1. /\ RevivingInv /\ DeletingInv /\ CreatingInv /\ ~clashed
      /\ \A k : k # "none" => Under(k)' \subseteq Under(k)
      /\ \A d \in Under("delete")' : call'[d].of = call[d].of
  <2>1. CASE DeleteShares(c)
    <3>1. /\ call'[c].kind = call[c].kind /\ call'[c].of = call[c].of
          /\ \A d \in Calls \ {c} : call'[d] = call[d]
      BY <2>1 DEF DeleteShares, OwnersTyped
    <3> QED
      BY <2>1, <3>1 DEF DeleteShares, Under, OwnersInv, DeletionsInv
  <2>2. CASE Finish(c)
    <3>1. \A k : k # "none" => Under(k)' = Under(k) \ {c}
      BY <2>2, CallsAfterWrite
    <3>2. \A d \in Under("delete")' : d \in Calls \ {c}
      BY <3>1 DEF Under
    <3> QED
      BY <2>2, <3>1, <3>2, CallsAfterWrite DEF OwnersInv, DeletionsInv
  <2> QED
    BY <2>1, <2>2 DEF WritingBy, Share, Unshare, Accept, MarkAsDeleted, CreateRecordSet,
                      WriteRecordSet, UpdateZone, Offer
<1>2. ASSUME hosted'.state # "live",
             \A k \in {"rewrite", "remove", "update"} : Under(k) = {}
      PROVE  RevivingInv'
  BY <1>1, <1>2 DEF RevivingInv
<1>3. ASSUME hosted'.state = hosted.state \/ hosted'.state = "live" PROVE RevivingInv'
  BY <1>1, <1>3 DEF RevivingInv
<1>4. ASSUME hosted'.owner = hosted.owner,
             \/ Under("delete") = {}
             \/ UNCHANGED rrsets
      PROVE  DeletingInv'
  BY <1>1, <1>4 DEF DeletingInv
<1>5. CASE Share(c) \/ Unshare(c) \/ DeleteShares(c) \/ \E o \in OfferIds : Offer(c, o)
  <2>1. UNCHANGED <<hosted, rrsets>>
    BY <1>5 DEF Share, Unshare, DeleteShares, Offer
  <2> QED
    BY <1>3, <1>4, <2>1 DEF DeletionsInv
<1>6. CASE Accept(c)
  <2>1. hosted'.state = hosted.state
    BY <1>6 DEF Accept, OwnersTyped, OwnersTypeOK
  <2>2. \/ UNCHANGED <<hosted, rrsets>>
        \/ \A r \in RecordSetIds : rrsets'[r] \in {hosted'.owner, Nobody}
    BY <1>6 DEF Accept, OwnersTyped, OwnersTypeOK
  <2>3. DeletingInv'
    BY <1>4, <2>2 DEF DeletingInv
  <2> QED
    BY <1>3, <2>1, <2>3 DEF DeletionsInv
<1>7. CASE MarkAsDeleted(c)
  <2>1. c \in Under("delete") /\ hosted'.owner = hosted.owner /\ UNCHANGED rrsets
        /\ (hosted'.state = hosted.state \/ hosted'.state # "live")
    BY <1>7, CallTypes DEF MarkAsDeleted, Under, OwnersTyped, OwnersTypeOK
  <2>2. \A k \in {"rewrite", "remove", "update"} : Under(k) = {}
    BY <1>1, <2>1 DEF RevivingInv
  <2> QED
    BY <1>2, <1>3, <1>4, <2>1, <2>2 DEF DeletionsInv
<1>8. CASE WriteRecordSet(c) \/ UpdateZone(c) \/ \E r \in RecordSetIds : CreateRecordSet(c, r)
  <2>1. Under("delete") = {}
    BY <1>1, <1>8 DEF WriteRecordSet, UpdateZone, CreateRecordSet, RevivingInv, CreatingInv,
                      Under
  <2>2. hosted'.owner = hosted.owner /\ (hosted'.state = hosted.state \/ hosted'.state = "live")
    BY <1>8 DEF WriteRecordSet, UpdateZone, CreateRecordSet, OwnersTyped, OwnersTypeOK
  <2> QED
    BY <1>3, <1>4, <2>1, <2>2 DEF DeletionsInv
<1> QED
  BY <1>5, <1>6, <1>7, <1>8 DEF WritingBy

LEMMA DeletionsNext ==
    ASSUME NoAdministrators, OwnersTyped, OwnersInv, DeletionsInv, [OwnersNext]_ownersVars
    PROVE  DeletionsInv'
<1> SUFFICES ASSUME ~clashed' PROVE DeletionsInv'
  BY DEF DeletionsInv
<1>1. CASE ConfirmGone \/ PurgeRow
  <2>1. /\ hosted'.owner = hosted.owner /\ hosted.state # "live" /\ UNCHANGED <<call, clashed>>
        /\ \A r \in RecordSetIds : rrsets'[r] \in {rrsets[r], Nobody}
    BY <1>1 DEF ConfirmGone, PurgeRow, OwnersTyped, OwnersTypeOK
  <2> QED
    BY <2>1 DEF DeletionsInv, RevivingInv, DeletingInv, Under
<1>2. CASE UNCHANGED ownersVars \/ \E u \in Users : AtOnce(u)
  <2>1. UNCHANGED <<hosted, rrsets, call, clashed>>
    BY <1>2 DEF ownersVars, AtOnce, Withdraw, ChangeOffer
  <2> QED
    BY <2>1 DEF DeletionsInv, RevivingInv, DeletingInv, Under
<1> QED
  BY <1>1, <1>2, DeletionsLooking, DeletionsWriting DEF OwnersNext

LEMMA OwnersNextInv ==
    ASSUME NoAdministrators, OwnersTyped, OwnersInv, DeletionsInv, [OwnersNext]_ownersVars
    PROVE  OwnersInv'
<1> SUFFICES ASSUME ~clashed' PROVE OwnersInv'
  BY DEF OwnersInv
<1>1. ASSUME ConfirmGone PROVE OwnersInv'
  <2>1. hosted'.owner = hosted.owner /\ hosted'.state = "gone"
        /\ UNCHANGED <<shares, rrsets, offers, call, clashed>> /\ hosted.state # "live"
    BY <1>1 DEF ConfirmGone, OwnersTyped, OwnersTypeOK
  <2> QED
    BY <2>1 DEF OwnersInv, RecordSetsInv, CreatingInv, UnsharingInv, OffersInv, OfferingInv,
                AcceptingInv, Active, Under
<1>2. ASSUME PurgeRow PROVE OwnersInv'
  <2>1. /\ hosted'.owner = hosted.owner /\ hosted'.state = "purged" /\ hosted.state # "live"
        /\ \A r \in RecordSetIds : rrsets'[r] = Nobody
        /\ \A o \in OfferIds : offers'[o] = NoOffer
        /\ UNCHANGED <<call, clashed>>
    BY <1>2 DEF PurgeRow, OwnersTyped, OwnersTypeOK
  <2>2. \A k \in {"recordset", "unshare", "offer", "accept"} : Under(k)' = Under(k)
    BY <2>1 DEF Under
  <2>3. Active' = {}
    BY <2>1 DEF Active, NoOffer
  <2>4. RecordSetsInv' /\ CreatingInv' /\ UnsharingInv'
    BY <2>1, <2>2 DEF OwnersInv, RecordSetsInv, CreatingInv, UnsharingInv
  <2>5. OffersInv' /\ OfferingInv' /\ AcceptingInv'
    BY <2>1, <2>2, <2>3, CallTypes
       DEF OwnersInv, OffersInv, OfferingInv, AcceptingInv, Under
  <2> QED
    BY <2>4, <2>5 DEF OwnersInv
<1>3. CASE UNCHANGED ownersVars
  BY <1>3 DEF ownersVars, OwnersInv, RecordSetsInv, CreatingInv, UnsharingInv, OffersInv,
              OfferingInv, AcceptingInv, AtHome, SharedWith, Active, Under
<1> QED
  BY <1>1, <1>2, <1>3, LookingInv, WritingInv, AtOnceInv DEF OwnersNext

LEMMA OwnersInitInv == OwnersInit => OwnersInv /\ DeletionsInv
<1> SUFFICES ASSUME OwnersInit PROVE OwnersInv /\ DeletionsInv
  OBVIOUS
<1>1. \A c \in Calls : call[c].kind = "none"
  BY DEF OwnersInit, NoCall
<1>2. \A o \in OfferIds : offers[o].status = "none"
  BY DEF OwnersInit, NoOffer
<1>3. \A r \in RecordSetIds : rrsets[r] = Nobody
  BY DEF OwnersInit
<1> QED
  BY <1>1, <1>2, <1>3 DEF OwnersInv, RecordSetsInv, CreatingInv, UnsharingInv, OffersInv,
              OfferingInv, AcceptingInv, AtHome, Active, Under, DeletionsInv, RevivingInv,
              DeletingInv

\* What holds between the calls that have looked and those that have written.
LEMMA AlwaysOwnersInv == ASSUME NoAdministrators PROVE OwnersSpec => [](OwnersInv /\ DeletionsInv)
  BY OwnersInitInv, OwnersNextInv, DeletionsNext, OwnersAlwaysTyped, PTL DEF OwnersSpec

(* Unless two calls clash, no project but the owner and those the zone is  *)
(* shared with has a recordset in a zone, and at most one offer of it is   *)
(* open, its owner's: for any projects, roles of users who administer      *)
(* nothing, recordsets, offers and calls at once.                          *)
THEOREM NoStrangersInvade == ASSUME NoAdministrators PROVE OwnersSpec => []NoStrangers
<1>1. OwnersTyped /\ OwnersInv => NoStrangers
  BY DEF OwnersTyped, OwnersInv, NoStrangers, RecordSetsInv, OffersInv, AtHome, Active,
         Under
<1> QED
  BY <1>1, OwnersAlwaysTyped, AlwaysOwnersInv, PTL

(* Unless two calls clash, a zone changes hands only while its owner       *)
(* offers it (central service.py, create_zone_transfer_accept).            *)
THEOREM TakenOnlyFromWhoOffers ==
    ASSUME NoAdministrators PROVE OwnersSpec => TakenFromWhoOffers
<1>1. ASSUME OwnersTyped, OwnersInv, ~clashed, [OwnersNext]_ownersVars,
             hosted'.owner # hosted.owner
      PROVE  \E o \in OfferIds : offers[o].status = "ACTIVE" /\ offers[o].by = hosted.owner
  <2>1. \A c \in Calls, u \in Users : ~LookingBy(u, c)
    BY <1>1 DEF LookingBy, LookToShare, LookToUnshare, LookToCreate, LookToOffer,
                LookToAccept, LookToDelete, LookToRewrite, LookToRemove, LookToUpdate, Look
  <2>2. \A u \in Users : ~AtOnce(u)
    BY <1>1 DEF AtOnce, Withdraw, ChangeOffer
  <2>3. ~ConfirmGone /\ ~PurgeRow /\ ~UNCHANGED ownersVars
    BY <1>1 DEF ConfirmGone, PurgeRow, ownersVars, OwnersTyped, OwnersTypeOK
  <2>4. PICK c \in Calls : WritingBy(c)
    BY <1>1, <2>1, <2>2, <2>3 DEF OwnersNext
  <2>5. ~Share(c) /\ ~Unshare(c) /\ ~DeleteShares(c) /\ ~MarkAsDeleted(c)
        /\ ~WriteRecordSet(c) /\ ~UpdateZone(c)
        /\ (\A r \in RecordSetIds : ~CreateRecordSet(c, r))
              /\ (\A o \in OfferIds : ~Offer(c, o))
    BY <1>1 DEF Share, Unshare, DeleteShares, MarkAsDeleted, CreateRecordSet, Offer,
                WriteRecordSet, UpdateZone,
                OwnersTyped, OwnersTypeOK
  <2>6. Accept(c) /\ offers[call[c].offer] # NoOffer /\ call[c].kind = "accept"
    BY <1>1, <2>4, <2>5 DEF WritingBy, Accept
  <2> QED
    BY <1>1, <2>6, CallTypes DEF OwnersInv, AcceptingInv, OffersInv, Active, Under
<1>2. OwnersTyped /\ OwnersInv /\ [OwnersNext]_ownersVars =>
        [hosted'.owner # hosted.owner /\ ~clashed =>
          \E o \in OfferIds : offers[o].status = "ACTIVE"
                /\ offers[o].by = hosted.owner]_ownersVars
  BY <1>1
<1> QED
  BY <1>2, OwnersAlwaysTyped, AlwaysOwnersInv, PTL DEF OwnersSpec, TakenFromWhoOffers

-----------------------------------------------------------------------------
(* Quotas.                                                                 *)

Row == {NoRowYet} \union [set : {TRUE}, limit : Limits]
SetterState == [at : {"idle"}] \union [at : {"update"}, limit : Limits]

QuotaTyped ==
    /\ resource \in Resources
    /\ used \in 0..MaxUsed
    /\ row \in Row
    /\ adder \in [Adders -> 0..MaxItems]
    /\ setter \in [Setters -> SetterState]
    /\ top \in Limits \union {DefaultLimit, 0 - 1}

\* The limit is never above the largest one there was.
TopInv == top >= 0 => Limit(row) >= 0 /\ Limit(row) <= top

\* Those who have counted and not yet added, and what all but a of them may add.
Pending(f) == {a \in Adders : f[a] > 0}
Owed(f, a) == MaxItems * Cardinality(Pending(f) \ {a})

\* The last to count, a, saw a sum within the limit.
Spare == MaxItems * (Cardinality(Adders) - 1)
Fits(a) == used + adder[a] + Owed(adder, a) <= top + Spare

BudgetInv == top >= 0 => \E a \in Adders : Fits(a)

QuotaInv == QuotaTyped /\ TopInv /\ BudgetInv

-----------------------------------------------------------------------------
(* What is owed.                                                           *)

Amounts == [Adders -> 0..MaxItems]

LEMMA Products ==
    ASSUME NEW m \in Nat, NEW i \in Int, NEW j \in Int, i <= j
    PROVE  m * i \in Int /\ m * i <= m * j /\ m * (i + 1) = m * i + m
  OBVIOUS

LEMMA SpareType == Spare \in Int
<1>1. Cardinality(Adders) \in Nat
  BY QuotaAssumption, FS_CardinalityType
<1> QED
  BY <1>1, QuotaAssumption DEF Spare

LEMMA OthersPending ==
    ASSUME NEW f \in Amounts, NEW a \in Adders
    PROVE  /\ IsFiniteSet(Pending(f) \ {a})
           /\ Cardinality(Pending(f) \ {a}) \in Nat
           /\ Cardinality(Pending(f) \ {a}) <= Cardinality(Adders) - 1
<1>1. IsFiniteSet(Adders \ {a}) /\ Cardinality(Adders \ {a}) = Cardinality(Adders) - 1
  BY QuotaAssumption, FS_RemoveElement
<1>2. Pending(f) \ {a} \subseteq Adders \ {a}
  BY DEF Pending
<1>3. /\ IsFiniteSet(Pending(f) \ {a})
      /\ Cardinality(Pending(f) \ {a}) <= Cardinality(Adders \ {a})
  BY <1>1, <1>2, FS_Subset
<1> QED
  BY <1>1, <1>3, FS_CardinalityType

\* All but one of the callers owe what they all may add, at most.
LEMMA OwedAtMost ==
    ASSUME NEW f \in Amounts, NEW a \in Adders
    PROVE  Owed(f, a) \in Nat /\ Owed(f, a) <= Spare
<1> DEFINE n == Cardinality(Pending(f) \ {a})
           N == Cardinality(Adders)
<1>1. n \in Nat /\ n <= N - 1 /\ N \in Nat /\ MaxItems \in Nat
  BY OthersPending, QuotaAssumption, FS_CardinalityType
<1> HIDE DEF n, N
<1>2. MaxItems * n \in Nat /\ MaxItems * n <= MaxItems * (N - 1)
  BY <1>1, Products
<1> QED
  BY <1>2 DEF Owed, Spare, n, N

\* What a may add itself is not among it.
LEMMA OwedByOthers ==
    ASSUME NEW f \in Amounts, NEW a \in Adders, NEW n \in 0..MaxItems
    PROVE  Owed([f EXCEPT ![a] = n], a) = Owed(f, a)
<1>1. Pending([f EXCEPT ![a] = n]) \ {a} = Pending(f) \ {a}
  BY DEF Pending, Amounts
<1> QED
  BY <1>1 DEF Owed

\* One of the others is done.
LEMMA OwedLess ==
    ASSUME NEW f \in Amounts, NEW a \in Adders, NEW b \in Adders \ {a}, f[b] > 0
    PROVE  Owed(f, a) = Owed([f EXCEPT ![b] = 0], a) + MaxItems
<1> DEFINE S == Pending(f) \ {a}
           T == Pending([f EXCEPT ![b] = 0]) \ {a}
<1>1. IsFiniteSet(S) /\ Cardinality(S) \in Nat /\ b \in S
  BY OthersPending DEF Pending
<1>2. T = S \ {b}
  BY DEF Pending, Amounts
<1> HIDE DEF S, T
<1>3. IsFiniteSet(T) /\ Cardinality(T) = Cardinality(S) - 1
  BY <1>1, <1>2, FS_RemoveElement
<1>4. Cardinality(T) \in Int /\ Cardinality(S) = Cardinality(T) + 1
  BY <1>1, <1>3
<1>5. MaxItems * (Cardinality(T) + 1) = MaxItems * Cardinality(T) + MaxItems
  BY <1>4, Products, QuotaAssumption
<1> QED
  BY <1>4, <1>5 DEF Owed, S, T

-----------------------------------------------------------------------------
(* The limit.                                                              *)

LEMMA LimitOf ==
    /\ Limit(NoRowYet) = DefaultLimit
    /\ \A limit : Limit(RowOf(limit)) = limit
  BY DEF Limit, NoRowYet, RowOf

LEMMA QuotaRowTypes == NoRowYet \in Row /\ \A limit \in Limits : RowOf(limit) \in Row
  BY DEF Row, RowOf

LEMMA LimitType == QuotaTyped => Limit(row) \in Limits \union {DefaultLimit}
<1> SUFFICES ASSUME row \in Row PROVE Limit(row) \in Limits \union {DefaultLimit}
  BY DEF QuotaTyped
<1>1. CASE row = NoRowYet
  BY <1>1, LimitOf
<1>2. CASE row \in [set : {TRUE}, limit : Limits]
  BY <1>2 DEF Limit
<1> QED
  BY <1>1, <1>2 DEF Row

LEMMA SetterTypes ==
    ASSUME QuotaTyped, NEW s \in Setters
    PROVE  /\ [at |-> "idle"] \in SetterState
           /\ \A limit \in Limits : [at |-> "update", limit |-> limit] \in SetterState
           /\ setter[s].at = "update" => setter[s].limit \in Limits
<1>1. [at |-> "idle"] \in SetterState
  BY DEF SetterState
<1>2. \A limit \in Limits : [at |-> "update", limit |-> limit] \in SetterState
  BY DEF SetterState
<1>3. setter[s] \in SetterState
  BY DEF QuotaTyped
<1>4. setter[s].at = "update" => setter[s].limit \in Limits
  BY <1>3 DEF SetterState
<1> QED
  BY <1>1, <1>2, <1>4

\* The limit is set.
LEMMA SetRowKeeps ==
    ASSUME QuotaTyped, TopInv, NEW limit \in Limits, SetRow(limit)
    PROVE  /\ row' \in Row
           /\ top' \in Limits \union {DefaultLimit, 0 - 1}
           /\ TopInv'
           /\ top' >= 0 => top >= 0 /\ top <= top'
<1>1. /\ limit \in Int /\ top \in Int /\ DefaultLimit \in Int
      /\ row' = RowOf(limit) /\ top' = Larger(top, limit)
  BY QuotaAssumption DEF QuotaTyped, SetRow
<1>2. row' \in Row
  BY <1>1, QuotaRowTypes
<1>3. Limit(row') = limit
  BY <1>1, LimitOf
<1>4. /\ top' \in Limits \union {DefaultLimit, 0 - 1}
      /\ top' >= 0 => limit >= 0 /\ limit <= top' /\ top >= 0 /\ top <= top'
  BY <1>1 DEF Larger, QuotaTyped
<1> QED
  BY <1>2, <1>3, <1>4 DEF TopInv, Limit

LEMMA ResetKeeps ==
    ASSUME QuotaTyped, TopInv, NEW s \in Setters, ResetQuotas(s)
    PROVE  /\ row' \in Row
           /\ top' \in Limits \union {DefaultLimit, 0 - 1}
           /\ TopInv'
           /\ top' >= 0 => top >= 0 /\ top <= top'
<1>1. /\ top \in Int /\ DefaultLimit \in Int
      /\ row' = NoRowYet /\ top' = Larger(top, DefaultLimit)
  BY QuotaAssumption DEF QuotaTyped, ResetQuotas
<1>2. row' \in Row
  BY <1>1, QuotaRowTypes
<1>3. Limit(row') = DefaultLimit
  BY <1>1, LimitOf
<1>4. /\ top' \in Limits \union {DefaultLimit, 0 - 1}
      /\ top' >= 0 => DefaultLimit >= 0 /\ DefaultLimit <= top' /\ top >= 0 /\ top <= top'
  BY <1>1 DEF Larger, QuotaTyped
<1> QED
  BY <1>2, <1>3, <1>4 DEF TopInv, Limit

-----------------------------------------------------------------------------
(* The invariant.                                                          *)

LEMMA QuotaInitInv == QuotaInit => QuotaInv
<1> SUFFICES ASSUME QuotaInit PROVE QuotaInv
  OBVIOUS
<1>1. QuotaTyped
  <2>1. [at |-> "idle"] \in SetterState
    BY DEF SetterState
  <2> QED
    BY <2>1, QuotaRowTypes, QuotaAssumption DEF QuotaInit, QuotaTyped
<1>2. TopInv
  BY QuotaAssumption DEF QuotaInit, TopInv, Limit, NoRowYet
<1>3. BudgetInv
  <2>1. PICK a \in Adders : TRUE
    BY QuotaAssumption
  <2>2. used = 0 /\ adder[a] = 0 /\ top \in Int
    BY QuotaAssumption DEF QuotaInit
  <2>3. Owed(adder, a) <= Spare /\ Owed(adder, a) \in Nat
    BY <1>1, OwedAtMost DEF QuotaTyped, Amounts
  <2>4. top >= 0 => Fits(a)
    BY <2>2, <2>3, SpareType DEF Fits
  <2> QED
    BY <2>4 DEF BudgetInv
<1> QED
  BY <1>1, <1>2, <1>3 DEF QuotaInv

\* What a setter leaves of the budget.
LEMMA BudgetGrows ==
    ASSUME QuotaTyped, BudgetInv, UNCHANGED <<used, adder>>,
           top' >= 0 => top >= 0 /\ top <= top', top' \in Limits \union {DefaultLimit, 0 - 1}
    PROVE  BudgetInv'
<1> SUFFICES ASSUME top' >= 0 PROVE \E a \in Adders : Fits(a)'
  BY DEF BudgetInv
<1>1. PICK a \in Adders : Fits(a)
  BY DEF BudgetInv
<1>2. Owed(adder, a) \in Nat /\ adder[a] \in Nat /\ used \in Nat /\ top \in Int
  BY OwedAtMost, QuotaAssumption DEF QuotaTyped, Amounts
<1>3. top' \in Int
  BY QuotaAssumption
<1>4. Fits(a)'
  BY <1>1, <1>2, <1>3, SpareType DEF Fits
<1> QED
  BY <1>4

\* A caller adds, or gives up: the last to count is the same.
LEMMA BudgetKept ==
    ASSUME QuotaTyped, BudgetInv, NEW b \in Adders, adder[b] > 0,
           adder' = [adder EXCEPT ![b] = 0], used' \in Nat, used' <= used + adder[b],
           top' = top
    PROVE  BudgetInv'
<1> SUFFICES ASSUME top >= 0 PROVE \E a \in Adders : Fits(a)'
  BY DEF BudgetInv
<1>1. PICK a \in Adders : Fits(a)
  BY DEF BudgetInv
<1> DEFINE g == [adder EXCEPT ![b] = 0]
<1>2. adder \in Amounts /\ g \in Amounts /\ MaxItems \in Nat /\ adder[b] <= MaxItems
  <2>1. adder \in Amounts /\ MaxItems \in Nat /\ 0 \in 0..MaxItems
    BY QuotaAssumption DEF QuotaTyped, Amounts
  <2> QED
    BY <2>1 DEF Amounts
<1>3. /\ Owed(adder, a) \in Nat /\ Owed(g, a) \in Nat
      /\ adder[a] \in Nat /\ adder[b] \in Nat /\ used \in Nat /\ top \in Int
  <2>1. Owed(adder, a) \in Nat /\ Owed(g, a) \in Nat
    BY <1>2, OwedAtMost
  <2>2. adder[a] \in Nat /\ adder[b] \in Nat
    BY <1>2 DEF Amounts
  <2>3. used \in Nat /\ top \in Int
    BY QuotaAssumption DEF QuotaTyped
  <2> QED
    BY <2>1, <2>2, <2>3
<1>4. used + adder[a] + Owed(adder, a) <= top + Spare
  BY <1>1 DEF Fits
<1>5. used' + g[a] + Owed(g, a) <= top + Spare
  <2>1. CASE a = b
    <3>1. g[a] = 0 /\ Owed(g, a) = Owed(adder, a)
      BY <1>2, <2>1, OwedByOthers, QuotaAssumption DEF Amounts
    <3> QED
      BY <1>3, <1>4, <2>1, <3>1, SpareType
  <2>2. CASE a # b
    <3>1. g[a] = adder[a] /\ Owed(adder, a) = Owed(g, a) + MaxItems
      BY <1>2, <2>2, OwedLess DEF Amounts
    <3> HIDE DEF g
    <3> QED
      BY <1>2, <1>3, <1>4, <3>1, SpareType
  <2> QED
    BY <2>1, <2>2
<1> QED
  BY <1>5 DEF Fits

LEMMA QuotaNextInv == QuotaInv /\ [QuotaNext]_quotaVars => QuotaInv'
<1> SUFFICES ASSUME QuotaInv, [QuotaNext]_quotaVars PROVE QuotaInv'
  OBVIOUS
<1> USE QuotaAssumption
<1>1. QuotaTyped /\ TopInv /\ BudgetInv /\ adder \in Amounts
  BY DEF QuotaInv, QuotaTyped, Amounts
<1>2. CASE UNCHANGED quotaVars
  BY <1>2, <1>1 DEF quotaVars, QuotaInv, QuotaTyped, TopInv, BudgetInv, Fits
<1>3. ASSUME NEW a \in Adders, Add(a) PROVE QuotaInv'
  <2>1. /\ adder[a] > 0 /\ used' = used + adder[a] /\ adder' = [adder EXCEPT ![a] = 0]
        /\ used' <= MaxUsed /\ UNCHANGED <<resource, row, setter, top>>
    BY <1>3 DEF Add
  <2>2. adder[a] \in Nat /\ used \in Nat
    BY <1>1 DEF QuotaTyped
  <2>3. used' \in 0..MaxUsed /\ used' \in Nat /\ used' <= used + adder[a]
    BY <2>1, <2>2
  <2>4. QuotaTyped' /\ TopInv'
    BY <1>1, <2>1, <2>3 DEF QuotaTyped, TopInv
  <2>5. BudgetInv'
    BY <1>1, <2>1, <2>3, BudgetKept
  <2> QED
    BY <2>4, <2>5 DEF QuotaInv
<1>4. ASSUME NEW a \in Adders, GiveUp(a) PROVE QuotaInv'
  <2>1. /\ adder[a] > 0 /\ used' = used /\ adder' = [adder EXCEPT ![a] = 0]
        /\ UNCHANGED <<resource, row, setter, top>>
    BY <1>4 DEF GiveUp
  <2>2. adder[a] \in Nat /\ used \in Nat
    BY <1>1 DEF QuotaTyped
  <2>3. used' \in Nat /\ used' <= used + adder[a]
    BY <2>1, <2>2
  <2>4. QuotaTyped' /\ TopInv'
    BY <1>1, <2>1 DEF QuotaTyped, TopInv
  <2>5. BudgetInv'
    BY <1>1, <2>1, <2>3, BudgetKept
  <2> QED
    BY <2>4, <2>5 DEF QuotaInv
<1>5. ASSUME NEW a \in Adders, NEW n \in Additions, Count(a, n) PROVE QuotaInv'
  <2>1. n \in 1..MaxItems
    BY DEF Additions
  <2>2. /\ adder[a] = 0 /\ Within(Limit(row), used + n) /\ adder' = [adder EXCEPT ![a] = n]
        /\ UNCHANGED <<resource, used, row, setter, top>>
    BY <1>5 DEF Count
  <2>3. QuotaTyped' /\ TopInv'
    BY <1>1, <2>1, <2>2 DEF QuotaTyped, TopInv
  <2>4. BudgetInv'
    <3> SUFFICES ASSUME top >= 0 PROVE Fits(a)'
      BY <2>2 DEF BudgetInv
    <3>1. Limit(row) \in Int /\ top \in Int /\ used \in Nat
      <4>1. Limit(row) \in Limits \union {DefaultLimit}
        BY <1>1, LimitType
      <4>2. top \in Limits \union {DefaultLimit, 0 - 1} /\ used \in Nat
        BY <1>1 DEF QuotaTyped
      <4>3. DefaultLimit \in Int /\ 0 - 1 \in Int /\ \A l \in Limits : l \in Int
        BY QuotaAssumption
      <4>4. Limit(row) \in Int
        BY <4>1, <4>3
      <4>5. top \in Int
        BY <4>2, <4>3
      <4> QED
        BY <4>2, <4>4, <4>5
    <3>2. used + n <= top
      BY <1>1, <2>1, <2>2, <3>1 DEF TopInv, Within
    <3>3. Owed(adder', a) \in Nat /\ Owed(adder', a) <= Spare
      <4>1. n \in 0..MaxItems
        BY <2>1
      <4>2. Owed(adder', a) = Owed(adder, a)
        BY <1>1, <2>2, <4>1, OwedByOthers
      <4> QED
        BY <1>1, <4>2, OwedAtMost
    <3>4. adder'[a] = n
      BY <1>1, <2>2 DEF Amounts
    <3> QED
      BY <2>1, <2>2, <3>1, <3>2, <3>3, <3>4, SpareType DEF Fits
  <2> QED
    BY <2>3, <2>4 DEF QuotaInv
<1>6. ASSUME NEW n \in 1..MaxItems, Subtract(n) PROVE QuotaInv'
  <2>1. used' = used - n /\ used >= n /\ UNCHANGED <<resource, row, adder, setter, top>>
    BY <1>6 DEF Subtract
  <2>2. used \in 0..MaxUsed /\ used' \in 0..MaxUsed /\ used' <= used
    BY <1>1, <2>1 DEF QuotaTyped
  <2>3. QuotaTyped' /\ TopInv'
    BY <1>1, <2>1, <2>2 DEF QuotaTyped, TopInv
  <2>4. BudgetInv'
    <3> SUFFICES ASSUME top >= 0 PROVE \E a \in Adders : Fits(a)'
      BY <2>1 DEF BudgetInv
    <3>1. PICK a \in Adders : Fits(a)
      BY <1>1 DEF BudgetInv
    <3>2. Owed(adder, a) \in Nat /\ adder[a] \in Nat /\ top \in Int
      BY <1>1, OwedAtMost DEF Amounts, QuotaTyped
    <3> QED
      BY <2>1, <2>2, <3>1, <3>2, SpareType DEF Fits
  <2> QED
    BY <2>3, <2>4 DEF QuotaInv
<1>7. ASSUME NEW s \in Setters, NEW limit \in Limits, SetQuota(s, limit) PROVE QuotaInv'
  <2>1. UNCHANGED <<resource, used, adder>>
    BY <1>7 DEF SetQuota
  <2>2. CASE row.set
    <3>1. /\ setter' = [setter EXCEPT ![s] = [at |-> "update", limit |-> limit]]
          /\ UNCHANGED <<row, top>>
      BY <1>7, <2>2 DEF SetQuota
    <3>2. [at |-> "update", limit |-> limit] \in SetterState
      BY <1>1, SetterTypes
    <3>3. QuotaTyped' /\ TopInv'
      BY <1>1, <2>1, <3>1, <3>2 DEF QuotaTyped, TopInv
    <3>4. BudgetInv'
      BY <1>1, <2>1, <3>1 DEF BudgetInv, Fits
    <3> QED
      BY <3>3, <3>4 DEF QuotaInv
  <2>3. CASE ~row.set
    <3>1. SetRow(limit) /\ setter' = setter
      BY <1>7, <2>3 DEF SetQuota
    <3>2. /\ row' \in Row /\ top' \in Limits \union {DefaultLimit, 0 - 1} /\ TopInv'
          /\ top' >= 0 => top >= 0 /\ top <= top'
      BY <1>1, <3>1, SetRowKeeps
    <3>3. QuotaTyped'
      BY <1>1, <2>1, <3>1, <3>2 DEF QuotaTyped
    <3>4. BudgetInv'
      BY <1>1, <2>1, <3>2, BudgetGrows
    <3> QED
      BY <3>2, <3>3, <3>4 DEF QuotaInv
  <2> QED
    BY <2>2, <2>3
<1>8. ASSUME NEW s \in Setters, UpdateQuota(s) PROVE QuotaInv'
  <2>1. /\ UNCHANGED <<resource, used, adder>>
        /\ setter' = [setter EXCEPT ![s] = [at |-> "idle"]]
        /\ setter[s].limit \in Limits
    BY <1>1, <1>8, SetterTypes DEF UpdateQuota
  <2>2. setter' \in [Setters -> SetterState]
    BY <1>1, <2>1, SetterTypes DEF QuotaTyped
  <2>3. CASE row.set
    <3>1. SetRow(setter[s].limit)
      BY <1>8, <2>3 DEF UpdateQuota
    <3>2. /\ row' \in Row /\ top' \in Limits \union {DefaultLimit, 0 - 1} /\ TopInv'
          /\ top' >= 0 => top >= 0 /\ top <= top'
      BY <1>1, <2>1, <3>1, SetRowKeeps
    <3>3. QuotaTyped'
      BY <1>1, <2>1, <2>2, <3>2 DEF QuotaTyped
    <3>4. BudgetInv'
      BY <1>1, <2>1, <3>2, BudgetGrows
    <3> QED
      BY <3>2, <3>3, <3>4 DEF QuotaInv
  <2>4. CASE ~row.set
    <3>1. UNCHANGED <<row, top>>
      BY <1>8, <2>4 DEF UpdateQuota
    <3>2. QuotaTyped' /\ TopInv'
      BY <1>1, <2>1, <2>2, <3>1 DEF QuotaTyped, TopInv
    <3>3. BudgetInv'
      BY <1>1, <2>1, <3>1 DEF BudgetInv, Fits
    <3> QED
      BY <3>2, <3>3 DEF QuotaInv
  <2> QED
    BY <2>3, <2>4
<1>9. ASSUME NEW s \in Setters, ResetQuotas(s) PROVE QuotaInv'
  <2>1. UNCHANGED <<resource, used, adder, setter>>
    BY <1>9 DEF ResetQuotas
  <2>2. /\ row' \in Row /\ top' \in Limits \union {DefaultLimit, 0 - 1} /\ TopInv'
        /\ top' >= 0 => top >= 0 /\ top <= top'
    BY <1>1, <1>9, ResetKeeps
  <2>3. QuotaTyped'
    BY <1>1, <2>1, <2>2 DEF QuotaTyped
  <2>4. BudgetInv'
    BY <1>1, <2>1, <2>2, BudgetGrows
  <2> QED
    BY <2>2, <2>3, <2>4 DEF QuotaInv
<1> QED
  BY <1>2, <1>3, <1>4, <1>5, <1>6, <1>7, <1>8, <1>9 DEF QuotaNext

-----------------------------------------------------------------------------
(* The theorems.                                                           *)

LEMMA QuotaAlwaysInv == QuotaSpec => []QuotaInv
<1>1. QuotaInit => QuotaInv
  BY QuotaInitInv
<1>2. QuotaInv /\ [QuotaNext]_quotaVars => QuotaInv'
  BY QuotaNextInv
<1> QED
  BY <1>1, <1>2, PTL DEF QuotaSpec

(* What is counted never falls below nothing, and the row of the quota is  *)
(* that of a limit an administrator has set, or there is none.             *)
THEOREM QuotasTyped == QuotaSpec => []QuotaTypeOK
<1>1. QuotaInv => QuotaTypeOK
  BY DEF QuotaInv, QuotaTyped, QuotaTypeOK, Row, SetterState
<1> QED
  BY <1>1, QuotaAlwaysInv, PTL

(* However many callers count at the same time, and whatever the limit is  *)
(* set to meanwhile, they add at most what all but one of them may add at  *)
(* once above the largest limit there ever was.                            *)
THEOREM QuotasOverrunIsBounded == QuotaSpec => []OverrunIsBounded
<1>1. QuotaInv => OverrunIsBounded
  <2> SUFFICES ASSUME QuotaInv, top >= 0 PROVE used <= top + Spare
    BY DEF OverrunIsBounded, Spare
  <2>1. PICK a \in Adders : Fits(a)
    BY DEF QuotaInv, BudgetInv
  <2>2. Owed(adder, a) \in Nat /\ adder[a] \in Nat /\ used \in Nat /\ top \in Int
    BY OwedAtMost, QuotaAssumption DEF QuotaInv, QuotaTyped, Amounts
  <2> QED
    BY <2>1, <2>2, SpareType DEF Fits
<1> QED
  BY <1>1, QuotaAlwaysInv, PTL

-----------------------------------------------------------------------------
(* The parts together.                                                     *)

\* Each part is a behaviour of its own specification, whichever part moves.
LEMMA ZonesInParts == Spec => TreeSpec /\ QuotaSpec /\ PlacementSpec
<1>1. Init => TreeInit /\ QuotaInit /\ PlacementInit
  BY DEF Init
<1>2. [Next]_allVars => [TreeNext]_treeVars
  BY DEF Next, Only, Moves, allVars
<1>3. [Next]_allVars => [QuotaNext]_quotaVars
  BY DEF Next, Only, Moves, allVars
<1>4. [Next]_allVars => [PlacementNext]_placementVars
  BY DEF Next, Only, Moves, allVars
<1> QED
  BY <1>1, <1>2, <1>3, <1>4, PTL DEF Spec, TreeSpec, QuotaSpec, PlacementSpec

\* ZoneOwners, whose zone is not there while another part moves.
LEMMA OwnersInTheirPart == Spec => [](part = "owners" => OwnersTyped)
<1> DEFINE InPart == part = "owners" => OwnersTyped
<1>1. Init => InPart
  BY OwnersInitTyped DEF Init
<1>2. InPart /\ [Next]_allVars => InPart'
  <2> SUFFICES ASSUME InPart, [Next]_allVars, part' = "owners"
               PROVE  OwnersTyped'
    OBVIOUS
  <2>1. part = "owners"
    BY DEF Next, Only, allVars
  <2>2. [OwnersNext]_ownersVars
    BY DEF Next, Only, Moves, allVars
  <2> QED
    BY <2>1, <2>2, OwnersNextTyped
<1> QED
  BY <1>1, <1>2, PTL DEF Spec

=============================================================================
