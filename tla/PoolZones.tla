------------------------------ MODULE PoolZones ------------------------------
(***************************************************************************)
(* Pools and the zones in them.  A zone has the NS records of its pool,    *)
(* which may gain and lose some, and may be moved to another pool.  A pool *)
(* may have a catalog zone, whose members are the zones of the pool.  How  *)
(* the scheduler picks a pool is in PoolScheduler; every pool is taken to  *)
(* have its TSIG key.                                                      *)
(***************************************************************************)
EXTENDS Integers, FiniteSets

CONSTANTS
    PoolNames,
    Hostnames,      \* of NS records
    MemberIds,
    Movers,         \* threads of central
    MaxCalls        \* calls of any kind

ASSUME PoolAssumption == MaxCalls \in Nat

VARIABLES
    pool,
    member,             \* the zones
    catalog,            \* of each pool: whether its serial is to be incremented, and
                        \* the members it had when it last was
    mover,              \* what each thread is about
    calls,
    upset               \* history: calls overlapped, failed halfway, undid a deletion

poolVars == <<pool, member, catalog, mover, calls, upset>>

NoMember == [state |-> "none"]
NotMoving == [op |-> "none", pools |-> {}]

StillThere(z) == member[z].state \in {"live", "deleting"}
ZonesOf(p) == {z \in MemberIds : StillThere(z) /\ member[z].pool = p}
LiveZonesOf(p) == {z \in ZonesOf(p) : member[z].state = "live"}
Primary(zs) == {z \in zs : member[z].type = "PRIMARY"}

-----------------------------------------------------------------------------
(* What the calls have in common.                                          *)

\* The calls of which two at once, about the same pool, do harm.
ClashingOps ==
    { {"create", "update"}, {"create", "delete"}, {"update"}, {"update", "move"},
      {"delete", "move"}, {"move"} }

Clash(m, n) ==
    /\ {m.op, n.op} \in ClashingOps
    /\ m.pools \intersect n.pools # {}
    /\ {m.op, n.op} = {"move"} => m.zone = n.zone

Counted == calls < MaxCalls /\ calls' = calls + 1

Begin(t, call) ==
    /\ Counted
    /\ mover[t] = NotMoving
    /\ mover' = [mover EXCEPT ![t] = call]
    /\ upset' = (upset \/ \E q \in Movers : Clash(mover[q], call))
    /\ UNCHANGED <<pool, member, catalog>>

End(t) == mover' = [mover EXCEPT ![t] = NotMoving]

\* Rolled back.
Fail(t) == End(t) /\ UNCHANGED <<pool, member, catalog, upset, calls>>

\* _ensure_catalog_zone_serial_increment
CatalogIsDue(p) ==
    catalog' = IF pool[p].catalog THEN [catalog EXCEPT ![p].due = TRUE] ELSE catalog

\* What an update of a zone or its recordsets makes of it: its action is UPDATE.
Updated(m, add, delete) ==
    [m EXCEPT !.ns = (@ \union add) \ delete, !.state = "live"]

-----------------------------------------------------------------------------
(* create_zone                                                             *)

BeginCreateIn(t, p, type) ==
    /\ pool[p].exists
    /\ pool[p].ns # {}
    /\ Begin(t, [op |-> "create", pools |-> {p}, type |-> type, ns |-> pool[p].ns])

\* Only a primary zone has an NS recordset.
CreateIn(t, z) ==
    LET m == mover[t]
        p == CHOOSE p \in m.pools : TRUE
    IN  /\ m.op = "create"
        /\ member[z] = NoMember
        /\ member' = [member EXCEPT ![z] =
                [state |-> "live", pool |-> p, moved |-> FALSE, type |-> m.type,
                 ns |-> IF m.type = "PRIMARY" THEN m.ns ELSE {}]]
        /\ CatalogIsDue(p)
        /\ End(t)
        /\ UNCHANGED <<pool, upset, calls>>

-----------------------------------------------------------------------------
(* update_pool and delete_pool, each in one transaction.                   *)

\* _delete_ns finds no NS recordset in a zone that is not primary.
CannotLoseNs(p) == pool[p].catalog \/ \E z \in ZonesOf(p) : member[z].type # "PRIMARY"

\* A zone in DELETE gains no nameserver, but loses one.
BeginUpdatePool(t, p, ns, with_catalog) ==
    LET create == ns \ pool[p].ns
        delete == pool[p].ns \ ns
    IN  /\ pool[p].exists
        /\ delete # {} => ns # {} /\ ~with_catalog /\ ~CannotLoseNs(p)
        /\ Begin(t, [op |-> "update", pools |-> {p}, ns |-> ns, catalog |-> with_catalog,
                     create |-> create, delete |-> delete,
                     gain |-> IF create = {} THEN {} ELSE Primary(LiveZonesOf(p)),
                     lose |-> IF delete = {} THEN {} ELSE ZonesOf(p)])

UpdatePool(t) ==
    LET m == mover[t]
        p == CHOOSE p \in m.pools : TRUE
        new(z) == Updated(member[z], IF z \in m.gain THEN m.create ELSE {},
                          IF z \in m.lose THEN m.delete ELSE {})
        touched == m.gain \union m.lose
    IN  /\ m.op = "update"
        /\ pool[p].exists /\ \A z \in touched : StillThere(z)
        /\ pool' = [pool EXCEPT ![p].ns = m.ns, ![p].catalog = @ \/ m.catalog]
        /\ member' = [z \in MemberIds |-> IF z \in touched THEN new(z) ELSE member[z]]
        /\ catalog' = IF m.catalog /\ ~pool[p].catalog
                      THEN [catalog EXCEPT ![p] = [due |-> FALSE, told |-> LiveZonesOf(p)]]
                      ELSE catalog
        /\ upset' = (upset \/ \E z \in touched : member[z].state = "deleting")
        /\ End(t)
        /\ UNCHANGED calls

\* PoolNotFound or ZoneNotFound.
UpdatePoolFails(t) ==
    LET m == mover[t]
    IN  /\ m.op = "update"
        /\ \/ \E p \in m.pools : ~pool[p].exists
           \/ \E z \in m.gain \union m.lose : ~StillThere(z)
        /\ Fail(t)

\* The catalog zone is one of the zones the pool must not contain.
BeginDeletePool(t, p) ==
    /\ pool[p].exists
    /\ LiveZonesOf(p) = {} /\ ~pool[p].catalog
    /\ Begin(t, [op |-> "delete", pools |-> {p}])

DeletePool(t) ==
    /\ mover[t].op = "delete"
    /\ pool' = [p \in PoolNames |-> IF p \in mover[t].pools
                    THEN [pool[p] EXCEPT !.exists = FALSE] ELSE pool[p]]
    /\ End(t)
    /\ UNCHANGED <<member, catalog, upset, calls>>

-----------------------------------------------------------------------------
(* pool_move_zone: no lock, and no transaction around its writes.          *)

BeginMove(t, z, p) ==
    LET from == member[z].pool
    IN  /\ member[z].state = "live" /\ pool[from].exists
        /\ pool[p].exists /\ pool[p].ns # {}
        /\ member[z].type = "PRIMARY" \/ pool[from].ns \subseteq pool[p].ns
        /\ Begin(t, [op |-> "move", pools |-> {from, p}, zone |-> z, to |-> p,
                     create |-> pool[p].ns \ pool[from].ns,
                     delete |-> pool[from].ns \ pool[p].ns])

\* One NS record: those to add go first.
MoveNs(t, n) ==
    LET m == mover[t]
        z == m.zone
        new == IF n \in m.create THEN Updated(member[z], {n}, {})
               ELSE Updated(member[z], {}, {n})
    IN  /\ m.op = "move"
        /\ n \in IF m.create = {} THEN m.delete ELSE m.create
        /\ StillThere(z)
        /\ member' = IF member[z].type = "PRIMARY" THEN [member EXCEPT ![z] = new]
                     ELSE member
        /\ mover' = [mover EXCEPT ![t].create = @ \ {n}, ![t].delete = @ \ {n}]
        /\ upset' = (upset \/ member[z].state = "deleting")
        /\ UNCHANGED <<pool, catalog, calls>>

\* The catalog zones of the two pools are not touched.
MoveToPool(t) ==
    LET m == mover[t]
    IN  /\ m.op = "move" /\ m.create = {} /\ m.delete = {}
        /\ StillThere(m.zone)
        /\ member' = [member EXCEPT ![m.zone] = [Updated(@, {}, {}) EXCEPT !.pool = m.to, !.moved = TRUE]]
        /\ upset' = (upset \/ member[m.zone].state = "deleting")
        /\ End(t)
        /\ UNCHANGED <<pool, catalog, calls>>

\* The zone is gone, or the process ends, and what is done stays done.
MoveEnds(t) ==
    /\ mover[t].op = "move"
    /\ upset' = TRUE
    /\ End(t)
    /\ UNCHANGED <<pool, member, catalog, calls>>

-----------------------------------------------------------------------------
(* The other operations on a zone, and the producer's on a catalog.        *)

DeleteMember(z) ==
    /\ Counted
    /\ StillThere(z) /\ pool[member[z].pool].exists
    /\ member' = [member EXCEPT ![z].state = "deleting"]
    /\ CatalogIsDue(member[z].pool)
    /\ UNCHANGED <<pool, mover, upset>>

\* A zone that is abandoned leaves at once, and the catalog is not told.
AbandonMember(z) ==
    /\ Counted
    /\ StillThere(z)
    /\ member' = [member EXCEPT ![z] = [state |-> "gone"]]
    /\ UNCHANGED <<pool, catalog, mover, upset>>

\* The worker's report about a zone in DELETE.
ConfirmMember(z) ==
    /\ member[z].state = "deleting"
    /\ member' = [member EXCEPT ![z] = [state |-> "gone"]]
    /\ UNCHANGED <<pool, catalog, mover, upset, calls>>

\* Zones in DELETE are among the members.
IncrementCatalogAll(p) ==
    /\ pool[p].catalog /\ catalog[p].due
    /\ catalog' = [catalog EXCEPT ![p] = [due |-> FALSE, told |-> ZonesOf(p)]]
    /\ UNCHANGED <<pool, member, mover, upset, calls>>

\* get_catalog_zone_records leaves out the zones in DELETE.
IncrementCatalog(p) ==
    /\ pool[p].catalog /\ catalog[p].due
    /\ catalog' = [catalog EXCEPT ![p] = [due |-> FALSE, told |-> LiveZonesOf(p)]]
    /\ UNCHANGED <<pool, member, mover, upset, calls>>

-----------------------------------------------------------------------------

PoolInit ==
    /\ pool \in [PoolNames -> [exists : {TRUE}, ns : (SUBSET Hostnames) \ {{}}, catalog : {FALSE}]]
    /\ member = [z \in MemberIds |-> NoMember]
    /\ catalog = [p \in PoolNames |-> [due |-> FALSE, told |-> {}]]
    /\ mover = [t \in Movers |-> NotMoving]
    /\ calls = 0
    /\ upset = FALSE

CallOf(t) ==
    \/ \E p \in PoolNames, type \in {"PRIMARY", "SECONDARY"} :
          BeginCreateIn(t, p, type)
    \/ \E p \in PoolNames, ns \in SUBSET Hostnames, with_catalog \in BOOLEAN :
          BeginUpdatePool(t, p, ns, with_catalog)
    \/ \E p \in PoolNames : BeginDeletePool(t, p)
    \/ \E z \in MemberIds, p \in PoolNames : StillThere(z) /\ BeginMove(t, z, p)

CommitOf(t) ==
    \/ \E z \in MemberIds : CreateIn(t, z)
    \/ UpdatePool(t) \/ UpdatePoolFails(t) \/ DeletePool(t)
    \/ \E n \in Hostnames : MoveNs(t, n)
    \/ MoveToPool(t) \/ MoveEnds(t)

PoolNext ==
    \/ \E t \in Movers : CallOf(t) \/ CommitOf(t)
    \/ \E z \in MemberIds : DeleteMember(z) \/ AbandonMember(z) \/ ConfirmMember(z)
    \/ \E p \in PoolNames : IncrementCatalog(p)

PoolSpec == PoolInit /\ [][PoolNext]_poolVars

-----------------------------------------------------------------------------

PoolTypeOK ==
    /\ \A p \in PoolNames :
          pool[p] \in [exists : BOOLEAN, ns : SUBSET Hostnames, catalog : BOOLEAN]
    /\ \A z \in MemberIds :
          \/ member[z] \in {NoMember, [state |-> "gone"]}
          \/ /\ member[z].state \in {"live", "deleting"}
             /\ member[z].pool \in PoolNames /\ member[z].ns \subseteq Hostnames
    /\ catalog \in [PoolNames -> [due : BOOLEAN, told : SUBSET MemberIds]]

BeingMoved(z) == \E t \in Movers : mover[t].op = "move" /\ mover[t].zone = z

(* A zone that is not to be deleted is in a pool that exists and, if it is *)
(* primary, has the NS records of that pool: as long as no two calls about *)
(* a pool overlap (but creations), no move fails halfway, and no update    *)
(* takes a zone out of its deletion.                                       *)
ZonesFollowTheirPool ==
    ~upset =>
        \A z \in MemberIds : member[z].state = "live" /\ ~BeingMoved(z) =>
            LET p == pool[member[z].pool]
            IN  p.exists /\ (member[z].type = "PRIMARY" => member[z].ns = p.ns)

(* Once the serial of a catalog zone is incremented, what the nameservers  *)
(* are given has every zone of the pool that was created in it and stayed, *)
(* and none of these that is to be deleted: its deletion would wait for    *)
(* itself.                                                                 *)
CatalogIsTold ==
    ~upset =>
        \A p \in PoolNames : pool[p].catalog /\ ~catalog[p].due =>
            /\ \A z \in LiveZonesOf(p) : ~member[z].moved => z \in catalog[p].told
            /\ \A z \in catalog[p].told : member[z].state = "deleting" => member[z].moved

=============================================================================
