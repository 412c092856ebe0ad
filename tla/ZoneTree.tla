------------------------------ MODULE ZoneTree -------------------------------
(***************************************************************************)
(* The tree of zones.  Threads of central create and delete zones and      *)
(* purge the rows of deleted ones.  A zone knows its parent, the nearest   *)
(* zone above it in its pool; no tenant may own a zone above or below the  *)
(* zone of another, in any pool.  Both are found out with queries made     *)
(* before the row is written: creations exclude each other with one lock,  *)
(* and other operations with a lock for each zone, all in a backend that   *)
(* the hosts share.                                                        *)
(***************************************************************************)
EXTENDS Integers, FiniteSets, Sequences, SequencesExt

CONSTANTS
    ZoneIds,
    ZoneNames,      \* a name is the sequence of its labels, from the top
    Tenants,
    PoolIds,
    Places,         \* the names and pools at which zones are created
    Threads,
    MaxUpsets       \* crashes of a thread, and transfers of a zone

ASSUME TreeAssumption ==
    /\ ZoneIds \subseteq Nat \ {0}
    /\ \A n \in ZoneNames : n \in Seq(Range(n))
    /\ Places \subseteq ZoneNames \X PoolIds
    /\ MaxUpsets \in Nat

VARIABLES
    zones,          \* the table of zones
    thread,         \* what each thread is about
    upsets,
    transferred     \* history: the names of zones given to another tenant

treeVars == <<zones, thread, upsets, transferred>>

NoZone == [state |-> "none"]
NoParent == 0

\* "deleting" is a row with the action DELETE, "deleted" one marked as deleted.
InTable(z) == zones[z].state \in {"live", "deleting", "deleted"}
Live(z) == zones[z].state \in {"live", "deleting"}
LiveZones == {z \in ZoneIds : Live(z)}

\* Names, and zones by their names.
Below(n, m) == IsStrictPrefix(m, n)
IsAbove(x, z) == Below(zones[z].name, zones[x].name)

Doing(p) == thread[p].op
At(p, step) == thread[p].at = step

Resting == [op |-> "none", at |-> "rest"]

\* The locks create-new-zone and zone-<id>, of a backend that all hosts share.
CreateLockIsFree == \A q \in Threads : Doing(q) # "create"
ZoneLockIsFree(z) == \A q \in Threads : ~(Doing(q) = "delete" /\ thread[q].zone = z)

Proceed(p, next) == thread' = [thread EXCEPT ![p] = next]
Return(p) == Proceed(p, Resting)
Goto(p, step) == Proceed(p, [thread[p] EXCEPT !.at = step])

-----------------------------------------------------------------------------
(* create_zone                                                             *)

\* The zones with the longest name above n.
NearestAbove(n, among) ==
    LET above == {z \in among : Below(n, zones[z].name)}
    IN  {z \in above : \A x \in above : Len(zones[x].name) <= Len(zones[z].name)}

\* The zones below are not looked at.
ConflictsAbove(t, n) ==
    \/ \E z \in LiveZones : zones[z].name = n /\ zones[z].tenant # t
    \/ \E z \in NearestAbove(n, LiveZones) : zones[z].tenant # t

\* _check_zone_ownership_conflicts
Conflicts(t, n) ==
    \/ \E z \in LiveZones : zones[z].name = n /\ zones[z].tenant # t
    \/ \E z \in NearestAbove(n, LiveZones) : zones[z].tenant # t
    \/ \E z \in LiveZones : Below(zones[z].name, n) /\ zones[z].tenant # t

InPool(pool) == {z \in LiveZones : zones[z].pool = pool}

\* The query lacks the pool.
NearestInAnyPool(n, pool) == NearestAbove(n, LiveZones)

\* _is_subzone, whose tenant then is not of another.
NearestInPool(n, pool) == NearestAbove(n, InPool(pool))

\* _is_superzone: every zone of the pool with a name that ends in this one.
AllBelow(n, pool) == {z \in InPool(pool) : Below(zones[z].name, n)}

\* The lock is taken, and the tree looked at, in several queries: no zone comes
\* between them, and one that goes might as well go after the last of them.
BeginCreate(p, n, t, pool) ==
    LET nearest == NearestInPool(n, pool)
        below == AllBelow(n, pool)
    IN  /\ Doing(p) = "none"
        /\ CreateLockIsFree
        /\ ~Conflicts(t, n)
        /\ \A x \in nearest \union below : zones[x].tenant = t
        /\ \E x \in IF nearest = {} THEN {NoParent} ELSE nearest :
              Proceed(p, [op |-> "create", at |-> "insert", name |-> n, tenant |-> t,
                          pool |-> pool, parent |-> x, zone |-> 0, subzones |-> below])
        /\ UNCHANGED <<zones, upsets, transferred>>

\* A foreign key: the parent must be in the table.
ParentExists(parent) == parent = NoParent \/ InTable(parent)

\* What is left to do once zone z is there: its subzones, or nothing.
Reparenting(p, subzones, z) ==
    IF subzones = {} THEN Return(p)
    ELSE Proceed(p, [thread[p] EXCEPT !.at = "reparent", !.subzones = subzones, !.zone = z])

\* _create_zone_in_storage: one row of a pool may have the name.
InsertZone(p, z) ==
    LET th == thread[p]
    IN  /\ Doing(p) = "create" /\ At(p, "insert")
        /\ zones[z] = NoZone /\ \A x \in ZoneIds : x < z => zones[x] # NoZone
        /\ IF ParentExists(th.parent) /\ ~\E x \in InPool(th.pool) : zones[x].name = th.name
           THEN /\ zones' = [zones EXCEPT ![z] =
                       [state |-> "live", name |-> th.name, tenant |-> th.tenant,
                        pool |-> th.pool, parent |-> th.parent]]
                /\ Reparenting(p, th.subzones, z)
           ELSE Return(p) /\ UNCHANGED zones
        /\ UNCHANGED <<upsets, transferred>>

\* update_zone of one subzone, which was read before: its action becomes UPDATE.
Reparent(p, z) ==
    LET th == thread[p]
    IN  /\ Doing(p) = "create" /\ At(p, "reparent")
        /\ z \in th.subzones
        /\ ZoneLockIsFree(z)
        /\ IF Live(z) /\ ParentExists(th.zone)
           THEN /\ zones' = [zones EXCEPT ![z].parent = th.zone, ![z].state = "live"]
                /\ Reparenting(p, th.subzones \ {z}, th.zone)
           ELSE Return(p) /\ UNCHANGED zones
        /\ UNCHANGED <<upsets, transferred>>

-----------------------------------------------------------------------------
(* delete_zone, and what becomes of the zone.                              *)

Children(z) == {x \in LiveZones : zones[x].parent = z}

\* The lock of the zone is taken, and its children are counted.
BeginDelete(p, z) ==
    /\ Doing(p) = "none"
    /\ Live(z) /\ ZoneLockIsFree(z)
    /\ Children(z) = {}
    /\ Proceed(p, [op |-> "delete", at |-> "mark", zone |-> z])
    /\ UNCHANGED <<zones, upsets, transferred>>

\* The zone is to be deleted from the nameservers, or abandoned.
MarkDeleted(p, state) ==
    LET z == thread[p].zone
    IN  /\ Doing(p) = "delete" /\ At(p, "mark")
        /\ zones' = IF Live(z) THEN [zones EXCEPT ![z].state = state] ELSE zones
        /\ Return(p)
        /\ UNCHANGED <<upsets, transferred>>

\* update_status: the zone is gone from the nameservers.
ConfirmDeleted(z) ==
    /\ zones[z].state = "deleting"
    /\ zones' = [zones EXCEPT ![z].state = "deleted"]
    /\ UNCHANGED <<thread, upsets, transferred>>

-----------------------------------------------------------------------------
(* purge_zones: without a lock, and without a transaction.                 *)

\* time_threshold, seven days, is longer than a creation that knows the zone.
LongDeleted(z) ==
    /\ zones[z].state = "deleted"
    /\ \A q \in Threads : Doing(q) = "create" => 
          z \notin thread[q].subzones \union {thread[q].parent, thread[q].zone}

\* Any of the deleted zones, in the shards of one producer, up to the limit.
BeginPurge(p, batch) ==
    /\ Doing(p) = "none"
    /\ \A q \in Threads : Doing(q) = "purge" => batch \intersect thread[q].batch = {}
    /\ batch # {} /\ \A z \in batch : LongDeleted(z)
    /\ Proceed(p, [op |-> "purge", at |-> "reparent", batch |-> batch, left |-> batch, zone |-> 0,
                parents |-> [z \in batch |-> zones[z].parent]])
    /\ UNCHANGED <<zones, upsets, transferred>>

\* _walk_up_zones: up the parents as they were read, out of the batch.
Survivor(batch, parents, z) ==
    LET Closed(way) == \A x \in way : parents[x] \in batch => parents[x] \in way
        walked == {x \in batch : \A way \in SUBSET batch : z \in way /\ Closed(way) => x \in way}
    IN  CHOOSE parent \in {parents[x] : x \in walked} : parent \notin batch

\* The children of the next zone, in the order of creation, get another parent.
ReparentChildren(p, z) ==
    LET th == thread[p]
        parent == Survivor(th.batch, th.parents, z)
        children == {x \in ZoneIds : InTable(x) /\ zones[x].parent = z}
    IN  /\ Doing(p) = "purge" /\ At(p, "reparent")
        /\ z \in th.left /\ \A x \in th.left : z <= x
        /\ IF ParentExists(parent) \/ children = {}
           THEN /\ zones' = [x \in ZoneIds |-> IF x \in children
                                THEN [zones[x] EXCEPT !.parent = parent] ELSE zones[x]]
                /\ Proceed(p, [th EXCEPT !.at = "remove", !.zone = z, !.left = @ \ {z}])
           ELSE Return(p) /\ UNCHANGED zones
        /\ UNCHANGED <<upsets, transferred>>

\* purge_zone: the row goes; a child that came since has no parent any more.
RemoveRow(p) ==
    LET th == thread[p]
    IN  /\ Doing(p) = "purge" /\ At(p, "remove")
        /\ IF InTable(th.zone)
           THEN /\ zones' = [x \in ZoneIds |->
                       IF x = th.zone THEN [state |-> "purged"]
                       ELSE IF InTable(x) /\ zones[x].parent = th.zone
                       THEN [zones[x] EXCEPT !.parent = NoParent] ELSE zones[x]]
                /\ IF th.left = {} THEN Return(p) ELSE Goto(p, "reparent")
           ELSE Return(p) /\ UNCHANGED zones
        /\ UNCHANGED <<upsets, transferred>>

-----------------------------------------------------------------------------

\* create_zone_transfer_accept: without the lock of the zone.
Transfer(z, t) ==
    /\ zones[z].state = "live" /\ zones[z].tenant # t
    /\ upsets < MaxUpsets
    /\ upsets' = upsets + 1
    /\ zones' = [zones EXCEPT ![z].tenant = t]
    /\ transferred' = transferred \union {zones[z].name}
    /\ UNCHANGED thread

\* The process of a thread ends between two writes; its locks are free again.
ThreadDies(p) ==
    /\ thread[p].at \in {"reparent", "remove"}
    /\ upsets < MaxUpsets
    /\ upsets' = upsets + 1
    /\ Return(p)
    /\ UNCHANGED <<zones, transferred>>

-----------------------------------------------------------------------------

TreeInit ==
    /\ zones = [z \in ZoneIds |-> NoZone]
    /\ thread = [p \in Threads |-> Resting]
    /\ upsets = 0
    /\ transferred = {}

CreateZone(p) ==
    \/ \E place \in Places, t \in Tenants : BeginCreate(p, place[1], t, place[2])
    \/ \E z \in ZoneIds : InsertZone(p, z) \/ Reparent(p, z)

DeleteZone(p) ==
    \/ \E z \in ZoneIds : BeginDelete(p, z)
    \/ MarkDeleted(p, "deleting") \/ MarkDeleted(p, "deleted")

PurgeZones(p) ==
    \/ \E batch \in SUBSET ZoneIds : BeginPurge(p, batch)
    \/ \E z \in ZoneIds : ReparentChildren(p, z)
    \/ RemoveRow(p)

TreeNext ==
    \/ \E p \in Threads : CreateZone(p) \/ DeleteZone(p) \/ PurgeZones(p) \/ ThreadDies(p)
    \/ \E z \in ZoneIds : ConfirmDeleted(z) \/ \E t \in Tenants : Transfer(z, t)

TreeSpec == TreeInit /\ [][TreeNext]_treeVars

-----------------------------------------------------------------------------

IsZone(r) ==
    \/ r \in {NoZone, [state |-> "purged"]}
    \/ r \in [state : {"live", "deleting", "deleted"}, name : ZoneNames, tenant : Tenants,
              pool : PoolIds, parent : ZoneIds \union {NoParent}]

TreeTypeOK ==
    /\ \A z \in ZoneIds : IsZone(zones[z])
    /\ \A p \in Threads : Doing(p) \in {"none", "create", "delete", "purge"}
    /\ upsets \in 0..MaxUpsets
    /\ transferred \subseteq ZoneNames

(* No tenant owns a zone above or below the zone of another, nor one of    *)
(* the same name, whatever the pools, unless a zone of one of the two      *)
(* names, or of one between them, has been transferred to another tenant,  *)
(* when nothing looks at the zones around it.                              *)
TenantsAreApart ==
    \A x, z \in LiveZones :
        /\ zones[x].name = zones[z].name \/ IsAbove(x, z)
        /\ ~\E n \in transferred : IsPrefix(zones[x].name, n) /\ IsPrefix(n, zones[z].name)
        => zones[x].tenant = zones[z].tenant

(* The parent of a zone is in the table, of its pool, and above it: so the *)
(* walk up the parents of purge_zones comes to an end.                     *)
ParentsAreAbove ==
    \A z \in ZoneIds :
        InTable(z) /\ zones[z].parent # NoParent =>
            LET x == zones[z].parent
            IN  InTable(x) /\ IsAbove(x, z) /\ zones[x].pool = zones[z].pool

(* A zone is deleted only when there is no zone below it.                  *)
SubzonesKeepTheirParent ==
    [][\A z \in ZoneIds :
          zones[z].state = "live" /\ zones'[z].state \in {"deleting", "deleted"} =>
              ~\E x \in LiveZones : IsAbove(z, x) /\ zones[x].pool = zones[z].pool]_treeVars

=============================================================================
