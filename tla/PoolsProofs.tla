----------------------------- MODULE PoolsProofs ------------------------------
(***************************************************************************)
(* Proofs about pools, for any pools, nameservers, zones, filters and      *)
(* calls at once. PoolZones: the zones of a pool follow its nameservers    *)
(* and its catalog follows its zones. PoolScheduler: a zone is placed      *)
(* where it was asked for.                                                 *)
(***************************************************************************)
EXTENDS ZonesProofs, StorageProofs, TLAPS

-----------------------------------------------------------------------------
(* PoolZones.                                                              *)

MemberTypes == {"PRIMARY", "SECONDARY"}

\* A zone that is in the table.
ZoneRecord ==
    [state : {"live", "deleting"}, pool : PoolNames, moved : BOOLEAN, type : MemberTypes,
     ns : SUBSET Hostnames]
MemberRecord == {NoMember} \union [state : {"gone"}] \union ZoneRecord

PoolRecord == [exists : BOOLEAN, ns : SUBSET Hostnames, catalog : BOOLEAN]
CatalogRecord == [due : BOOLEAN, told : SUBSET MemberIds]

\* The calls that have looked at their pools and zones and are yet to write.
One == {{p} : p \in PoolNames}
CreateCall == [op : {"create"}, pools : One, type : MemberTypes, ns : SUBSET Hostnames]
UpdateCall ==
    [op : {"update"}, pools : One, ns : SUBSET Hostnames, catalog : BOOLEAN,
     create : SUBSET Hostnames, delete : SUBSET Hostnames,
     gain : SUBSET MemberIds, lose : SUBSET MemberIds]
DeleteCall == [op : {"delete"}, pools : One]
MoveCall ==
    [op : {"move"}, pools : SUBSET PoolNames, zone : MemberIds, to : PoolNames,
     create : SUBSET Hostnames, delete : SUBSET Hostnames]
MoverRecord == {NotMoving} \union CreateCall \union UpdateCall \union DeleteCall \union MoveCall

PoolTyped ==
    /\ pool \in [PoolNames -> PoolRecord]
    /\ member \in [MemberIds -> MemberRecord]
    /\ catalog \in [PoolNames -> CatalogRecord]
    /\ mover \in [Movers -> MoverRecord]
    /\ calls \in Nat /\ upset \in BOOLEAN

IsLive(z) == member[z].state = "live"

\* No two calls that are under way do each other harm.
NoClash == \A t, q \in Movers : t # q => ~Clash(mover[t], mover[q])

\* The pool of a zone to be created is as it was when it was looked at.
CreatesInv ==
    \A t \in Movers, p \in PoolNames : mover[t].op = "create" /\ p \in mover[t].pools =>
        pool[p].exists /\ mover[t].ns = pool[p].ns

\* A pool to be deleted has no zones.
DeletesInv ==
    \A t \in Movers, z \in MemberIds : mover[t].op = "delete" /\ IsLive(z) =>
        member[z].pool \notin mover[t].pools

\* The zones to be updated are those of the pool, and the update is what they lack.
UpdateOf(m, p) ==
    /\ m.create = m.ns \ pool[p].ns
    /\ m.delete = pool[p].ns \ m.ns
    /\ \A z \in m.gain \union m.lose :
          member[z] # NoMember /\ (StillThere(z) => member[z].pool = p)
    /\ \A z \in LiveZonesOf(p) : member[z].type = "PRIMARY" =>
          (m.create # {} => z \in m.gain) /\ (m.delete # {} => z \in m.lose)

\* Every update of a pool does what is still to be done.
UpdatesInv ==
    \A t \in Movers, p \in PoolNames :
        mover[t].op = "update" /\ p \in mover[t].pools => UpdateOf(mover[t], p)

\* A zone on its way to another pool lacks only what is still to be added and removed.
MoveOf(m) ==
    /\ member[m.zone] # NoMember
    /\ m.to \in m.pools
    /\ \A p \in m.pools : pool[p].exists
    /\ m.create \subseteq pool[m.to].ns /\ m.delete \intersect pool[m.to].ns = {}
    /\ IsLive(m.zone) =>
          /\ member[m.zone].pool \in m.pools
          /\ member[m.zone].type = "PRIMARY" =>
                member[m.zone].ns = (pool[m.to].ns \union m.delete) \ m.create

MovesInv == \A t \in Movers : mover[t].op = "move" => MoveOf(mover[t])

\* A zone that is not on its way is as its pool.
AsItsPool(z) ==
    /\ pool[member[z].pool].exists
    /\ member[z].type = "PRIMARY" => member[z].ns = pool[member[z].pool].ns

SettledInv == \A z \in MemberIds : IsLive(z) /\ ~BeingMoved(z) => AsItsPool(z)

\* What is told stays in the pool unless it is moved.
ToldInv ==
    \A p \in PoolNames : \A z \in catalog[p].told :
        /\ member[z] # NoMember
        /\ StillThere(z) => member[z].moved \/ member[z].pool = p

\* All of this, as long as no two calls have done each other harm.
PoolsInv ==
    ~upset =>
        /\ NoClash /\ CreatesInv /\ DeletesInv /\ UpdatesInv /\ MovesInv /\ SettledInv
        /\ ToldInv /\ CatalogIsTold

-----------------------------------------------------------------------------
(* Types.                                                                  *)

LEMMA MoverTypes ==
    ASSUME NEW m \in MoverRecord
    PROVE  /\ m.pools \subseteq PoolNames
           /\ m.op \in {"create", "update", "delete"} => m.pools \in One
           /\ m.op \in {"create", "update"} => m.ns \subseteq Hostnames
           /\ m.op = "create" => m.type \in MemberTypes
           /\ m.op = "update" => /\ m.catalog \in BOOLEAN
                                 /\ m.gain \subseteq MemberIds /\ m.lose \subseteq MemberIds
           /\ m.op \in {"update", "move"} => /\ m.create \subseteq Hostnames
                                             /\ m.delete \subseteq Hostnames
           /\ m.op = "move" => m.zone \in MemberIds /\ m.to \in PoolNames /\ m \in MoveCall
<1>1. CASE m = NotMoving
  BY <1>1 DEF NotMoving
<1>2. CASE m \in CreateCall
  BY <1>2 DEF CreateCall, One
<1>3. CASE m \in UpdateCall
  BY <1>3 DEF UpdateCall, One
<1>4. CASE m \in DeleteCall
  BY <1>4 DEF DeleteCall, One
<1>5. CASE m \in MoveCall
  BY <1>5 DEF MoveCall
<1> QED
  BY <1>1, <1>2, <1>3, <1>4, <1>5 DEF MoverRecord

LEMMA OnePool ==
    ASSUME NEW pools \in One
    PROVE  (CHOOSE p \in pools : TRUE) \in PoolNames /\ pools = {CHOOSE p \in pools : TRUE}
<1>1. PICK p \in PoolNames : pools = {p}
  BY DEF One
<1> QED
  BY <1>1

LEMMA MemberKinds ==
    ASSUME NEW m \in MemberRecord
    PROVE  m.state \in {"live", "deleting"} => m \in ZoneRecord
  BY DEF MemberRecord, NoMember

LEMMA UpdatedZone ==
    ASSUME NEW m \in ZoneRecord, NEW add, NEW delete
    PROVE  /\ Updated(m, add, delete).ns = (m.ns \union add) \ delete
           /\ Updated(m, add, delete).state = "live"
           /\ Updated(m, add, delete).pool = m.pool
           /\ Updated(m, add, delete).type = m.type
           /\ Updated(m, add, delete).moved = m.moved
           /\ add \subseteq Hostnames => Updated(m, add, delete) \in ZoneRecord
  BY DEF Updated, ZoneRecord

LEMMA UpdatedByNothing ==
    ASSUME NEW m \in ZoneRecord
    PROVE  LET n == Updated(m, {}, {})
           IN  n \in ZoneRecord /\ n.ns = m.ns /\ n.state = "live" /\ n.type = m.type
  BY DEF Updated, ZoneRecord

LEMMA MovedZone ==
    ASSUME NEW m \in ZoneRecord, NEW p \in PoolNames
    PROVE  LET n == [m EXCEPT !.pool = p, !.moved = TRUE]
           IN  /\ n.ns = m.ns /\ n.state = m.state /\ n.type = m.type
               /\ n.pool = p /\ n.moved = TRUE /\ n \in ZoneRecord
  BY DEF ZoneRecord

LEMMA MarkedZone ==
    ASSUME NEW m \in ZoneRecord
    PROVE  LET n == [m EXCEPT !.state = "deleting"]
           IN  /\ n.ns = m.ns /\ n.state = "deleting" /\ n.type = m.type
               /\ n.pool = m.pool /\ n.moved = m.moved /\ n \in ZoneRecord
  BY DEF ZoneRecord

LEMMA CallInProgress ==
    ASSUME NEW m \in MoveCall, NEW n
    PROVE  LET k == [m EXCEPT !.create = @ \ {n}, !.delete = @ \ {n}]
           IN  /\ k.op = "move" /\ k.pools = m.pools /\ k.zone = m.zone /\ k.to = m.to
               /\ k.create = m.create \ {n} /\ k.delete = m.delete \ {n} /\ k \in MoveCall
  BY DEF MoveCall

\* A thread ends its call.
LEMMA Ending ==
    ASSUME PoolTyped, NEW t \in Movers, End(t)
    PROVE  /\ mover'[t] = NotMoving
           /\ \A q \in Movers \ {t} : mover'[q] = mover[q]
           /\ mover' \in [Movers -> MoverRecord]
  BY DEF PoolTyped, End, MoverRecord

\* At most, the catalog of one pool becomes due.
LEMMA Due ==
    ASSUME PoolTyped, NEW p \in PoolNames, CatalogIsDue(p)
    PROVE  /\ catalog' \in [PoolNames -> CatalogRecord]
           /\ \A q \in PoolNames : catalog'[q].told = catalog[q].told
           /\ \A q \in PoolNames \ {p} : catalog'[q] = catalog[q]
           /\ pool[p].catalog => catalog'[p].due
           /\ ~pool[p].catalog => catalog'[p] = catalog[p]
  BY DEF PoolTyped, CatalogIsDue, CatalogRecord

LEMMA Beginning ==
    ASSUME PoolTyped, NEW t \in Movers, NEW m \in MoverRecord, Begin(t, m)
    PROVE  /\ PoolTyped'
           /\ mover[t] = NotMoving /\ mover'[t] = m
           /\ \A q \in Movers \ {t} : mover'[q] = mover[q]
           /\ UNCHANGED <<pool, member, catalog>>
           /\ ~upset' => ~upset /\ \A q \in Movers : ~Clash(mover[q], m)
<1>1. UNCHANGED <<pool, member, catalog>> /\ mover[t] = NotMoving
      /\ mover' = [mover EXCEPT ![t] = m] /\ calls' = calls + 1
  BY DEF Begin, Counted
<1>2. upset' = (upset \/ \E q \in Movers : Clash(mover[q], m))
  BY DEF Begin
<1>3. upset' \in BOOLEAN /\ (~upset' => ~upset /\ \A q \in Movers : ~Clash(mover[q], m))
  BY <1>2
<1>4. /\ mover'[t] = m /\ \A q \in Movers \ {t} : mover'[q] = mover[q]
      /\ mover' \in [Movers -> MoverRecord] /\ calls' \in Nat
  BY <1>1 DEF PoolTyped
<1> QED
  BY <1>1, <1>3, <1>4 DEF PoolTyped

LEMMA CreateFacts ==
    ASSUME PoolTyped, NEW t \in Movers, NEW z \in MemberIds, CreateIn(t, z)
    PROVE  \E p \in PoolNames :
              /\ mover[t].op = "create" /\ mover[t].pools = {p}
              /\ member[z] = NoMember /\ \A y \in MemberIds \ {z} : member'[y] = member[y]
              /\ member'[z].state = "live" /\ member'[z].pool = p /\ ~member'[z].moved
              /\ member'[z].type = mover[t].type
              /\ member'[z].type = "PRIMARY" => member'[z].ns = mover[t].ns
              /\ CatalogIsDue(p) /\ End(t)
              /\ UNCHANGED <<pool, upset, calls>>
              /\ PoolTyped'
<1> DEFINE p == CHOOSE p \in mover[t].pools : TRUE
           new == [state |-> "live", pool |-> p, moved |-> FALSE, type |-> mover[t].type,
                   ns |-> IF mover[t].type = "PRIMARY" THEN mover[t].ns ELSE {}]
<1>1. mover[t] \in MoverRecord /\ mover[t].op = "create"
  BY DEF PoolTyped, CreateIn
<1>2. /\ p \in PoolNames /\ mover[t].pools = {p}
      /\ mover[t].type \in MemberTypes /\ mover[t].ns \subseteq Hostnames
  BY <1>1, MoverTypes, OnePool
<1>3. new \in ZoneRecord
  BY <1>2 DEF ZoneRecord
<1>4. /\ member[z] = NoMember /\ member' = [member EXCEPT ![z] = new]
      /\ CatalogIsDue(p) /\ End(t)
      /\ UNCHANGED <<pool, upset, calls>>
  BY DEF CreateIn
<1>5. member'[z] = new /\ \A y \in MemberIds \ {z} : member'[y] = member[y]
  BY <1>4 DEF PoolTyped
<1>6. PoolTyped'
  <2>1. member' \in [MemberIds -> MemberRecord]
    BY <1>3, <1>4 DEF PoolTyped, MemberRecord
  <2> HIDE DEF p
  <2> QED
    BY <1>2, <1>4, <2>1, Ending, Due DEF PoolTyped
<1>7. /\ member'[z].state = "live" /\ member'[z].pool = p /\ ~member'[z].moved
      /\ member'[z].type = mover[t].type
      /\ member'[z].type = "PRIMARY" => member'[z].ns = mover[t].ns
  BY <1>5
<1> HIDE DEF p, new
<1> QED
  BY <1>1, <1>2, <1>4, <1>5, <1>6, <1>7

LEMMA UpdateFacts ==
    ASSUME PoolTyped, NEW t \in Movers, UpdatePool(t)
    PROVE  \E p \in PoolNames :
              LET m == mover[t]
                  touched == m.gain \union m.lose
              IN  /\ m.op = "update" /\ m.pools = {p} /\ pool[p].exists
                  /\ \A z \in touched : StillThere(z)
                  /\ pool'[p].ns = m.ns /\ pool'[p].exists = pool[p].exists
                  /\ pool'[p].catalog = (pool[p].catalog \/ m.catalog)
                  /\ \A q \in PoolNames \ {p} : pool'[q] = pool[q]
                  /\ \A z \in touched : member'[z] =
                        Updated(member[z], IF z \in m.gain THEN m.create ELSE {},
                                IF z \in m.lose THEN m.delete ELSE {})
                  /\ \A z \in MemberIds \ touched : member'[z] = member[z]
                  /\ \A q \in PoolNames \ {p} : catalog'[q] = catalog[q]
                  /\ IF m.catalog /\ ~pool[p].catalog
                     THEN catalog'[p].told = LiveZonesOf(p) ELSE catalog'[p] = catalog[p]
                  /\ ~upset' => ~upset /\ \A z \in touched : member[z].state # "deleting"
                  /\ End(t)
                  /\ PoolTyped'
<1> DEFINE m == mover[t]
           p == CHOOSE p \in m.pools : TRUE
           touched == m.gain \union m.lose
           new(z) == Updated(member[z], IF z \in m.gain THEN m.create ELSE {},
                             IF z \in m.lose THEN m.delete ELSE {})
<1>1. m \in MoverRecord /\ m.op = "update"
  BY DEF PoolTyped, UpdatePool
<1>2. /\ p \in PoolNames /\ m.pools = {p}
      /\ m.ns \subseteq Hostnames /\ m.catalog \in BOOLEAN
      /\ touched \subseteq MemberIds /\ m.create \subseteq Hostnames
  BY <1>1, MoverTypes, OnePool
<1>3. /\ pool[p].exists /\ \A z \in touched : StillThere(z)
      /\ pool' = [pool EXCEPT ![p].ns = m.ns, ![p].catalog = @ \/ m.catalog]
      /\ member' = [z \in MemberIds |-> IF z \in touched THEN new(z) ELSE member[z]]
      /\ catalog' = IF m.catalog /\ ~pool[p].catalog
                    THEN [catalog EXCEPT ![p] = [due |-> FALSE, told |-> LiveZonesOf(p)]]
                    ELSE catalog
      /\ upset' = (upset \/ \E z \in touched : member[z].state = "deleting")
      /\ End(t) /\ UNCHANGED calls
  BY DEF UpdatePool
<1> HIDE DEF p, m
<1>4. /\ pool'[p].ns = m.ns /\ pool'[p].exists = pool[p].exists
      /\ pool'[p].catalog = (pool[p].catalog \/ m.catalog)
      /\ \A q \in PoolNames \ {p} : pool'[q] = pool[q]
      /\ pool' \in [PoolNames -> PoolRecord]
  <2>1. pool \in [PoolNames -> PoolRecord] /\ pool[p] \in PoolRecord
    BY <1>2 DEF PoolTyped
  <2>2. pool' = [pool EXCEPT ![p].ns = m.ns, ![p].catalog = @ \/ m.catalog]
    BY <1>3
  <2>3. /\ pool'[p].ns = m.ns /\ pool'[p].exists = pool[p].exists
        /\ pool'[p].catalog = (pool[p].catalog \/ m.catalog)
    BY <1>2, <2>1, <2>2 DEF PoolRecord
  <2>4. \A q \in PoolNames \ {p} : pool'[q] = pool[q]
    BY <1>2, <2>1, <2>2
  <2>5. pool' \in [PoolNames -> PoolRecord]
    BY <1>2, <2>1, <2>2 DEF PoolRecord
  <2> QED
    BY <2>3, <2>4, <2>5
<1>5. member' \in [MemberIds -> MemberRecord]
  <2>1. ASSUME NEW z \in touched PROVE new(z) \in MemberRecord
    <3>1. member[z] \in ZoneRecord
      BY <1>2, <1>3, <2>1, MemberKinds DEF PoolTyped, StillThere
    <3> QED
      BY <1>2, <3>1, UpdatedZone DEF MemberRecord
  <2> HIDE DEF new
  <2> QED
    BY <1>3, <2>1 DEF PoolTyped
<1>6. /\ catalog' \in [PoolNames -> CatalogRecord]
      /\ \A q \in PoolNames \ {p} : catalog'[q] = catalog[q]
      /\ IF m.catalog /\ ~pool[p].catalog
         THEN catalog'[p].told = LiveZonesOf(p) ELSE catalog'[p] = catalog[p]
  <2>1. [due |-> FALSE, told |-> LiveZonesOf(p)] \in CatalogRecord
    BY DEF CatalogRecord, LiveZonesOf, ZonesOf
  <2> QED
    BY <1>2, <1>3, <2>1 DEF PoolTyped
<1>7. upset' \in BOOLEAN /\ (~upset'
                             => ~upset /\ \A z \in touched : member[z].state # "deleting")
  BY <1>3
<1>8. PoolTyped'
  BY <1>3, <1>4, <1>5, <1>6, <1>7, Ending DEF PoolTyped
<1>9. /\ \A z \in touched : member'[z] = new(z)
      /\ \A z \in MemberIds \ touched : member'[z] = member[z]
  BY <1>2, <1>3
<1> HIDE DEF touched, new
<1>10. \E q \in PoolNames : q = p /\ m.pools = {q}
  BY <1>2
<1> QED
  BY <1>1, <1>2, <1>3, <1>4, <1>6, <1>7, <1>8, <1>9 DEF m, touched, new

LEMMA DeleteFacts ==
    ASSUME PoolTyped, NEW t \in Movers, DeletePool(t)
    PROVE  /\ mover[t].op = "delete"
           /\ \A p \in PoolNames : /\ pool'[p].ns = pool[p].ns
                                   /\ pool'[p].catalog = pool[p].catalog
                                   /\ p \notin mover[t].pools
                                         => pool'[p].exists = pool[p].exists
           /\ End(t)
           /\ UNCHANGED <<member, catalog, upset, calls>>
           /\ PoolTyped'
<1>1. /\ mover[t].op = "delete"
      /\ pool' = [p \in PoolNames |-> IF p \in mover[t].pools
                    THEN [pool[p] EXCEPT !.exists = FALSE] ELSE pool[p]]
      /\ End(t) /\ UNCHANGED <<member, catalog, upset, calls>>
  BY DEF DeletePool
<1>2. \A old \in PoolRecord : LET new == [old EXCEPT !.exists = FALSE]
                              IN  /\ new \in PoolRecord
                                  /\ new.ns = old.ns /\ new.catalog = old.catalog
  BY DEF PoolRecord
<1>3. \A p \in PoolNames : /\ pool'[p].ns = pool[p].ns
                           /\ pool'[p].catalog = pool[p].catalog
                           /\ p \notin mover[t].pools => pool'[p].exists = pool[p].exists
                           /\ pool'[p] \in PoolRecord
  BY <1>1, <1>2 DEF PoolTyped
<1>4. pool' \in [PoolNames -> PoolRecord]
  BY <1>1, <1>3
<1> QED
  BY <1>1, <1>3, <1>4, Ending DEF PoolTyped

LEMMA MoveNsFacts ==
    ASSUME PoolTyped, NEW t \in Movers, NEW n \in Hostnames, MoveNs(t, n)
    PROVE  LET m == mover[t]
               z == m.zone
           IN  /\ m.op = "move" /\ z \in MemberIds
               /\ n \in m.create \/ (m.create = {} /\ n \in m.delete)
               /\ StillThere(z) /\ member[z] \in ZoneRecord
               /\ member[z].type # "PRIMARY" => member'[z] = member[z]
               /\ member[z].type = "PRIMARY" =>
                     member'[z] = IF n \in m.create THEN Updated(member[z], {n}, {})
                                  ELSE Updated(member[z], {}, {n})
               /\ \A y \in MemberIds \ {z} : member'[y] = member[y]
               /\ mover'[t].op = "move" /\ mover'[t].pools = m.pools
               /\ mover'[t].zone = z /\ mover'[t].to = m.to
               /\ mover'[t].create = m.create \ {n} /\ mover'[t].delete = m.delete \ {n}
               /\ \A q \in Movers \ {t} : mover'[q] = mover[q]
               /\ ~upset' => ~upset /\ member[z].state = "live"
               /\ UNCHANGED <<pool, catalog, calls>>
               /\ PoolTyped'
<1> DEFINE m == mover[t]
           z == m.zone
           new == IF n \in m.create THEN Updated(member[z], {n}, {})
                  ELSE Updated(member[z], {}, {n})
           next == [m EXCEPT !.create = @ \ {n}, !.delete = @ \ {n}]
<1>1. /\ m.op = "move" /\ n \in IF m.create = {} THEN m.delete ELSE m.create
      /\ StillThere(z)
      /\ member' = IF member[z].type = "PRIMARY" THEN [member EXCEPT ![z] = new] ELSE member
      /\ mover' = [mover EXCEPT ![t] = next]
      /\ upset' = (upset \/ member[z].state = "deleting")
      /\ UNCHANGED <<pool, catalog, calls>>
  BY DEF MoveNs
<1>2. m \in MoveCall /\ z \in MemberIds
  BY <1>1, MoverTypes DEF PoolTyped
<1>3. member[z] \in ZoneRecord
  BY <1>1, <1>2, MemberKinds DEF PoolTyped, StillThere
<1>4. new \in ZoneRecord
  BY <1>3, UpdatedZone
<1>5. /\ next.op = "move" /\ next.pools = m.pools /\ next.zone = z /\ next.to = m.to
      /\ next.create = m.create \ {n} /\ next.delete = m.delete \ {n}
      /\ next \in MoverRecord
  BY <1>2, CallInProgress DEF MoverRecord
<1> HIDE DEF new, next, z, m
<1>6. /\ member' \in [MemberIds -> MemberRecord]
      /\ member[z].type # "PRIMARY" => member'[z] = member[z]
      /\ member[z].type = "PRIMARY" => member'[z] = new
      /\ \A y \in MemberIds \ {z} : member'[y] = member[y]
  BY <1>1, <1>2, <1>4 DEF PoolTyped, MemberRecord
<1>7. /\ mover' \in [Movers -> MoverRecord]
      /\ mover'[t] = next /\ \A q \in Movers \ {t} : mover'[q] = mover[q]
  BY <1>1, <1>5 DEF PoolTyped
<1>8. upset' \in BOOLEAN /\ (~upset' => ~upset /\ member[z].state = "live")
  BY <1>1 DEF StillThere
<1>9. PoolTyped'
  BY <1>1, <1>6, <1>7, <1>8 DEF PoolTyped
<1>10. n \in m.create \/ (m.create = {} /\ n \in m.delete)
  BY <1>1
<1> QED
  BY <1>1, <1>2, <1>3, <1>5, <1>6, <1>7, <1>8, <1>9, <1>10 DEF new, z, m

LEMMA MoveFacts ==
    ASSUME PoolTyped, NEW t \in Movers, MoveToPool(t)
    PROVE  LET m == mover[t]
               z == m.zone
           IN  /\ m.op = "move" /\ z \in MemberIds /\ m.create = {} /\ m.delete = {}
               /\ member[z] \in ZoneRecord
               /\ member'[z].state = "live" /\ member'[z].pool = m.to /\ member'[z].moved
               /\ member'[z].type = member[z].type /\ member'[z].ns = member[z].ns
               /\ \A y \in MemberIds \ {z} : member'[y] = member[y]
               /\ ~upset' => ~upset /\ member[z].state = "live"
               /\ End(t)
               /\ UNCHANGED <<pool, catalog, calls>>
               /\ PoolTyped'
<1> DEFINE m == mover[t]
           z == m.zone
           new == [Updated(member[z], {}, {}) EXCEPT !.pool = m.to, !.moved = TRUE]
<1>1. /\ m.op = "move" /\ m.create = {} /\ m.delete = {} /\ StillThere(z)
      /\ member' = [member EXCEPT ![z] = new]
      /\ upset' = (upset \/ member[z].state = "deleting")
      /\ End(t) /\ UNCHANGED <<pool, catalog, calls>>
  BY DEF MoveToPool
<1>2. z \in MemberIds /\ m.to \in PoolNames
  BY <1>1, MoverTypes DEF PoolTyped
<1>3. member[z] \in ZoneRecord
  BY <1>1, <1>2, MemberKinds DEF PoolTyped, StillThere
<1>4. /\ new \in ZoneRecord /\ new.state = "live" /\ new.pool = m.to /\ new.moved = TRUE
      /\ new.type = member[z].type /\ new.ns = member[z].ns
  <2> DEFINE updated == Updated(member[z], {}, {})
  <2>1. /\ updated \in ZoneRecord /\ updated.ns = member[z].ns
        /\ updated.state = "live" /\ updated.type = member[z].type
    BY <1>3, UpdatedByNothing
  <2>3. new = [updated EXCEPT !.pool = m.to, !.moved = TRUE]
    OBVIOUS
  <2> HIDE DEF updated, new
  <2> QED
    BY <1>2, <2>1, <2>3, MovedZone
<1> HIDE DEF new, z, m
<1>5. /\ member' \in [MemberIds -> MemberRecord] /\ member'[z] = new
      /\ \A y \in MemberIds \ {z} : member'[y] = member[y]
  BY <1>1, <1>2, <1>4 DEF PoolTyped, MemberRecord
<1>6. upset' \in BOOLEAN /\ (~upset' => ~upset /\ member[z].state = "live")
  BY <1>1 DEF StillThere
<1>7. PoolTyped'
  BY <1>1, <1>5, <1>6, Ending DEF PoolTyped
<1> QED
  BY <1>1, <1>2, <1>3, <1>4, <1>5, <1>6, <1>7 DEF z, m

LEMMA DeleteMemberFacts ==
    ASSUME PoolTyped, NEW z \in MemberIds, DeleteMember(z)
    PROVE  /\ member[z] \in ZoneRecord
           /\ member'[z].state = "deleting" /\ member'[z].pool = member[z].pool
           /\ member'[z].moved = member[z].moved
           /\ \A y \in MemberIds \ {z} : member'[y] = member[y]
           /\ CatalogIsDue(member[z].pool)
           /\ UNCHANGED <<pool, mover, upset>>
           /\ PoolTyped'
<1>1. /\ calls' = calls + 1 /\ StillThere(z)
      /\ member' = [member EXCEPT ![z] = [member[z] EXCEPT !.state = "deleting"]]
      /\ CatalogIsDue(member[z].pool)
      /\ UNCHANGED <<pool, mover, upset>>
  BY DEF DeleteMember, Counted
<1>2. member[z] \in ZoneRecord
  BY <1>1, MemberKinds DEF PoolTyped, StillThere
<1>3. member[z].pool \in PoolNames
  BY <1>2 DEF ZoneRecord
<1>4. /\ member' \in [MemberIds -> MemberRecord]
      /\ member'[z] = [member[z] EXCEPT !.state = "deleting"]
      /\ \A y \in MemberIds \ {z} : member'[y] = member[y]
  BY <1>1, <1>2, MarkedZone DEF PoolTyped, MemberRecord
<1>5. PoolTyped'
  BY <1>1, <1>3, <1>4, Due DEF PoolTyped
<1> QED
  BY <1>1, <1>2, <1>4, <1>5, MarkedZone

LEMMA GoneFacts ==
    ASSUME PoolTyped, NEW z \in MemberIds, AbandonMember(z) \/ ConfirmMember(z)
    PROVE  /\ member'[z].state = "gone"
           /\ \A y \in MemberIds \ {z} : member'[y] = member[y]
           /\ UNCHANGED <<pool, catalog, mover, upset>>
           /\ PoolTyped'
<1>1. /\ member' = [member EXCEPT ![z] = [state |-> "gone"]]
      /\ UNCHANGED <<pool, catalog, mover, upset>>
      /\ calls' \in {calls, calls + 1}
  BY DEF AbandonMember, ConfirmMember, Counted
<1>2. member' \in [MemberIds -> MemberRecord]
  BY <1>1 DEF PoolTyped, MemberRecord
<1> QED
  BY <1>1, <1>2 DEF PoolTyped

LEMMA IncrementFacts ==
    ASSUME PoolTyped, NEW p \in PoolNames, IncrementCatalog(p)
    PROVE  /\ catalog'[p].told = LiveZonesOf(p)
           /\ \A q \in PoolNames \ {p} : catalog'[q] = catalog[q]
           /\ UNCHANGED <<pool, member, mover, upset>>
           /\ PoolTyped'
<1> DEFINE new == [due |-> FALSE, told |-> LiveZonesOf(p)]
<1>1. /\ catalog' = [catalog EXCEPT ![p] = new]
      /\ UNCHANGED <<pool, member, mover, upset, calls>>
  BY DEF IncrementCatalog
<1>2. new \in CatalogRecord
  BY DEF CatalogRecord, LiveZonesOf, ZonesOf
<1> QED
  BY <1>1, <1>2 DEF PoolTyped

-----------------------------------------------------------------------------
(* The invariant.                                                          *)

\* What two calls about one pool may be.
LEMMA Harmless ==
    ASSUME NEW m, NEW n, ~Clash(m, n), NEW p, p \in m.pools, p \in n.pools
    PROVE  /\ m.op = "create" => n.op \notin {"update", "delete"}
           /\ m.op = "delete" => n.op \notin {"create", "move"}
           /\ m.op = "update" => n.op \notin {"create", "update", "move"}
           /\ m.op = "move" => /\ n.op \notin {"update", "delete"}
                               /\ n.op = "move" => m.zone # n.zone
  BY DEF Clash, ClashingOps

LEMMA ClashSymmetric == \A m, n : Clash(m, n) <=> Clash(n, m)
  BY DEF Clash

LEMMA IdleClashesWithNone == \A m : ~Clash(m, NotMoving)
  BY DEF Clash, NotMoving

\* A call that begins does no harm as long as it has seen the truth.
LEMMA BeginKeeps ==
    ASSUME PoolTyped, PoolsInv, NEW t \in Movers, NEW m \in MoverRecord, Begin(t, m),
           ~upset',
           m.op = "create" => \A p \in m.pools : pool[p].exists /\ m.ns = pool[p].ns,
           m.op = "delete" => \A z \in MemberIds : IsLive(z)
                 => member[z].pool \notin m.pools,
           m.op = "update" => \A p \in m.pools : UpdateOf(m, p),
           m.op = "move" => MoveOf(m)
    PROVE  PoolsInv'
<1>1. /\ mover[t] = NotMoving /\ mover'[t] = m
      /\ \A q \in Movers \ {t} : mover'[q] = mover[q]
      /\ UNCHANGED <<pool, member, catalog>>
      /\ ~upset /\ \A q \in Movers : ~Clash(mover[q], m)
  BY Beginning
<1>2. NoClash'
  BY <1>1, ClashSymmetric DEF PoolsInv, NoClash
<1>3. CreatesInv' /\ DeletesInv'
  BY <1>1 DEF PoolsInv, CreatesInv, DeletesInv, IsLive
<1>4. UpdatesInv'
  <2>1. \A q \in Movers, p \in PoolNames :
           mover'[q].op = "update" /\ p \in mover'[q].pools => UpdateOf(mover'[q], p)
    BY <1>1 DEF PoolsInv, UpdatesInv
  <2>2. \A n, p : UpdateOf(n, p) => UpdateOf(n, p)'
    BY <1>1 DEF UpdateOf, StillThere, LiveZonesOf, ZonesOf
  <2> QED
    BY <1>1, <2>1, <2>2 DEF UpdatesInv, UpdateOf, StillThere, LiveZonesOf, ZonesOf
<1>5. MovesInv'
  <2>1. \A q \in Movers : mover'[q].op = "move" => MoveOf(mover'[q])
    BY <1>1 DEF PoolsInv, MovesInv
  <2> QED
    BY <1>1, <2>1 DEF MovesInv, MoveOf, IsLive
<1>6. SettledInv'
  <2>1. \A z \in MemberIds : BeingMoved(z) => BeingMoved(z)'
    BY <1>1 DEF BeingMoved, NotMoving
  <2> QED
    BY <1>1, <2>1 DEF PoolsInv, SettledInv, IsLive, AsItsPool
<1>7. ToldInv' /\ CatalogIsTold'
  BY <1>1 DEF PoolsInv, ToldInv, CatalogIsTold, StillThere, LiveZonesOf, ZonesOf
<1> QED
  BY <1>2, <1>3, <1>4, <1>5, <1>6, <1>7 DEF PoolsInv

LEMMA CallInv ==
    ASSUME PoolTyped, PoolsInv, NEW t \in Movers, CallOf(t), ~upset'
    PROVE  PoolsInv'
<1>0. ~upset
  BY DEF CallOf, BeginCreateIn, BeginUpdatePool, BeginDeletePool, BeginMove, Begin, Counted
<1>1. ASSUME NEW p \in PoolNames, NEW type \in MemberTypes, BeginCreateIn(t, p, type)
      PROVE  PoolsInv'
  <2> DEFINE m == [op |-> "create", pools |-> {p}, type |-> type, ns |-> pool[p].ns]
  <2>1. pool[p].exists /\ Begin(t, m)
    BY <1>1 DEF BeginCreateIn
  <2>2. m \in MoverRecord
    BY DEF PoolTyped, PoolRecord, MoverRecord, CreateCall, One
  <2>3. m.op = "create" /\ m.pools = {p} /\ m.ns = pool[p].ns
    OBVIOUS
  <2> HIDE DEF m
  <2> QED
    BY <2>1, <2>2, <2>3, BeginKeeps
<1>2. ASSUME NEW p \in PoolNames, NEW ns \in SUBSET Hostnames, NEW with_catalog \in BOOLEAN,
             BeginUpdatePool(t, p, ns, with_catalog)
      PROVE  PoolsInv'
  <2> DEFINE create == ns \ pool[p].ns
             delete == pool[p].ns \ ns
             gain == IF create = {} THEN {} ELSE Primary(LiveZonesOf(p))
             lose == IF delete = {} THEN {} ELSE ZonesOf(p)
             m == [op |-> "update", pools |-> {p}, ns |-> ns, catalog |-> with_catalog,
                   create |-> create, delete |-> delete, gain |-> gain, lose |-> lose]
  <2>1. Begin(t, m)
    BY <1>2 DEF BeginUpdatePool
  <2>2. gain \subseteq ZonesOf(p) /\ lose \subseteq ZonesOf(p)
        /\ ZonesOf(p) \subseteq MemberIds
    BY DEF Primary, LiveZonesOf, ZonesOf
  <2>3. create \subseteq Hostnames /\ delete \subseteq Hostnames
    BY DEF PoolTyped, PoolRecord
  <2>4. /\ create # {} => gain = Primary(LiveZonesOf(p))
        /\ delete # {} => lose = ZonesOf(p)
    OBVIOUS
  <2>5. m \in MoverRecord
    <3> HIDE DEF create, delete, gain, lose
    <3> QED
      BY <2>2, <2>3 DEF MoverRecord, UpdateCall, One
  <2>6. /\ m.op = "update" /\ m.pools = {p} /\ m.ns = ns
        /\ m.create = create /\ m.delete = delete /\ m.gain = gain /\ m.lose = lose
    OBVIOUS
  <2> HIDE DEF m, gain, lose
  <2>7. UpdateOf(m, p)
    BY <2>2, <2>4, <2>6 DEF UpdateOf, ZonesOf, LiveZonesOf, Primary, StillThere, NoMember
  <2> QED
    BY <2>1, <2>5, <2>6, <2>7, BeginKeeps
<1>3. ASSUME NEW p \in PoolNames, BeginDeletePool(t, p) PROVE PoolsInv'
  <2> DEFINE m == [op |-> "delete", pools |-> {p}]
  <2>1. LiveZonesOf(p) = {} /\ Begin(t, m)
    BY <1>3 DEF BeginDeletePool
  <2>2. m \in MoverRecord
    BY DEF MoverRecord, DeleteCall, One
  <2>3. m.op = "delete" /\ m.pools = {p}
    OBVIOUS
  <2>4. \A z \in MemberIds : IsLive(z) => member[z].pool # p
    BY <2>1 DEF LiveZonesOf, ZonesOf, StillThere, IsLive
  <2> HIDE DEF m
  <2> QED
    BY <2>1, <2>2, <2>3, <2>4, BeginKeeps
<1>4. ASSUME NEW z \in MemberIds, NEW p \in PoolNames, BeginMove(t, z, p) PROVE PoolsInv'
  <2> DEFINE from == member[z].pool
             m == [op |-> "move", pools |-> {from, p}, zone |-> z, to |-> p,
                   create |-> pool[p].ns \ pool[from].ns,
                   delete |-> pool[from].ns \ pool[p].ns]
  <2>1. member[z].state = "live" /\ pool[from].exists /\ pool[p].exists /\ Begin(t, m)
    BY <1>4 DEF BeginMove
  <2>2. from \in PoolNames
    BY <2>1, MemberKinds DEF PoolTyped, ZoneRecord
  <2>3. m \in MoverRecord
    BY <2>2 DEF PoolTyped, PoolRecord, MoverRecord, MoveCall
  <2>4. /\ m.op = "move" /\ m.pools = {from, p} /\ m.zone = z /\ m.to = p
        /\ m.create = pool[p].ns \ pool[from].ns
        /\ m.delete = pool[from].ns \ pool[p].ns
    OBVIOUS
  <2> HIDE DEF m
  <2>5. ~BeingMoved(z)
    <3> SUFFICES ASSUME NEW q \in Movers, mover[q].op = "move", mover[q].zone = z PROVE FALSE
      BY DEF BeingMoved
    <3>1. from \in mover[q].pools
      BY <1>0, <2>1 DEF PoolsInv, MovesInv, MoveOf, IsLive
    <3>2. ~Clash(mover[q], m)
      BY <2>1, <2>3, Beginning
    <3> QED
      BY <2>4, <3>1, <3>2, Harmless
  <2>6. AsItsPool(z)
    BY <1>0, <2>1, <2>5 DEF PoolsInv, SettledInv, IsLive
  <2>7. MoveOf(m)
    <3>1. member[z].type = "PRIMARY" =>
             member[z].ns = (pool[p].ns \union (pool[from].ns \ pool[p].ns))
                             \ (pool[p].ns \ pool[from].ns)
      BY <2>6 DEF AsItsPool
    <3> QED
      BY <2>1, <2>4, <3>1 DEF MoveOf, NoMember
  <2> QED
    BY <2>1, <2>3, <2>4, <2>7, BeginKeeps
<1> QED
  BY <1>1, <1>2, <1>3, <1>4 DEF CallOf, MemberTypes

\* When a call ends, the others stay as they are.
LEMMA OthersStay ==
    ASSUME PoolTyped, NEW t \in Movers, End(t)
    PROVE  /\ \A q \in Movers : mover'[q].op # "none" => q # t /\ mover'[q] = mover[q]
           /\ NoClash => NoClash'
           /\ mover[t].op # "move" => \A z : BeingMoved(z)' <=> BeingMoved(z)
           /\ \A z : z # mover[t].zone => (BeingMoved(z)' <=> BeingMoved(z))
<1>1. mover'[t] = NotMoving /\ \A q \in Movers \ {t} : mover'[q] = mover[q]
  BY Ending
<1>2. mover'[t].op = "none"
  BY <1>1 DEF NotMoving
<1>3. NoClash => NoClash'
  BY <1>1, IdleClashesWithNone, ClashSymmetric DEF NoClash
<1> QED
  BY <1>1, <1>2, <1>3 DEF BeingMoved

LEMMA CreateInv ==
    ASSUME PoolTyped, PoolsInv, ~upset', NEW t \in Movers, NEW z \in MemberIds,
           CreateIn(t, z)
    PROVE  PoolsInv'
<1>1. PICK p \in PoolNames :
         /\ mover[t].op = "create" /\ mover[t].pools = {p}
         /\ member[z] = NoMember /\ \A y \in MemberIds \ {z} : member'[y] = member[y]
         /\ member'[z].state = "live" /\ member'[z].pool = p /\ ~member'[z].moved
         /\ member'[z].type = mover[t].type
         /\ member'[z].type = "PRIMARY" => member'[z].ns = mover[t].ns
         /\ CatalogIsDue(p) /\ End(t)
         /\ UNCHANGED <<pool, upset, calls>>
  BY CreateFacts
<1>2. /\ NoClash /\ CreatesInv /\ DeletesInv /\ UpdatesInv /\ MovesInv /\ SettledInv
      /\ ToldInv /\ CatalogIsTold /\ ~upset
  BY <1>1 DEF PoolsInv
<1>3. \A q \in Movers : mover'[q].op # "none" =>
         /\ mover'[q] = mover[q]
         /\ p \in mover[q].pools => mover[q].op \notin {"update", "delete"}
  BY <1>1, <1>2, OthersStay, Harmless DEF NoClash
<1>4. ~StillThere(z) /\ ~IsLive(z)
  BY <1>1 DEF StillThere, IsLive, NoMember
<1>5. NoClash' /\ CreatesInv'
  BY <1>1, <1>2, <1>3, OthersStay DEF CreatesInv
<1>6. DeletesInv'
  BY <1>1, <1>2, <1>3 DEF DeletesInv, IsLive
<1>7. UpdatesInv'
  <2> SUFFICES ASSUME NEW q \in Movers, NEW r \in PoolNames, mover'[q].op = "update",
                      r \in mover'[q].pools
               PROVE  UpdateOf(mover[q], r)'
    BY DEF UpdatesInv
  <2>1. mover'[q] = mover[q] /\ r # p /\ UpdateOf(mover[q], r)
    BY <1>2, <1>3 DEF UpdatesInv
  <2>2. LiveZonesOf(r)' = LiveZonesOf(r)
    BY <1>1, <1>4, <2>1 DEF LiveZonesOf, ZonesOf, StillThere
  <2>3. q # t /\ mover[q] \in MoverRecord
    BY <1>1, <2>1 DEF PoolTyped
  <2>4. z \notin mover[q].gain \union mover[q].lose
    BY <1>1, <2>1 DEF UpdateOf
  <2>5. mover[q].gain \subseteq MemberIds /\ mover[q].lose \subseteq MemberIds
    BY <2>1, <2>3, MoverTypes
  <2>6. LiveZonesOf(r) \subseteq MemberIds \ {z}
    BY <1>4 DEF LiveZonesOf, ZonesOf
  <2> QED
    BY <1>1, <2>1, <2>2, <2>4, <2>5, <2>6 DEF UpdateOf, StillThere
<1>8. MovesInv'
  <2> SUFFICES ASSUME NEW q \in Movers, mover'[q].op = "move" PROVE MoveOf(mover[q])'
    BY DEF MovesInv
  <2>1. mover'[q] = mover[q] /\ MoveOf(mover[q])
    BY <1>2, <1>3 DEF MovesInv
  <2>2. mover[q].zone \in MemberIds \ {z}
    BY <1>1, <2>1, MoverTypes DEF PoolTyped, MoveOf
  <2> QED
    BY <1>1, <2>1, <2>2 DEF MoveOf, IsLive
<1>9. SettledInv'
  <2>1. AsItsPool(z)'
    BY <1>1, <1>2 DEF CreatesInv, AsItsPool
  <2>2. \A y \in MemberIds : BeingMoved(y)' <=> BeingMoved(y)
    BY <1>1, OthersStay
  <2> QED
    BY <1>1, <1>2, <2>1, <2>2 DEF SettledInv, IsLive, AsItsPool
<1>10. \A r \in PoolNames : catalog'[r].told = catalog[r].told
                            /\ z \notin catalog[r].told
                            /\ catalog[r].told \subseteq MemberIds
  BY <1>1, <1>2, Due DEF ToldInv, PoolTyped, CatalogRecord
<1>11. ToldInv'
  BY <1>1, <1>2, <1>10 DEF ToldInv, StillThere
<1>12. CatalogIsTold'
  <2>1. \A r \in PoolNames \ {p} : catalog'[r] = catalog[r]
        /\ LiveZonesOf(r)' = LiveZonesOf(r)
    BY <1>1, <1>4, Due DEF LiveZonesOf, ZonesOf, StillThere
  <2>2. pool[p].catalog => catalog'[p].due
    BY <1>1, Due
  <2>3. \A r \in PoolNames : LiveZonesOf(r) \subseteq MemberIds \ {z}
    BY <1>4 DEF LiveZonesOf, ZonesOf
  <2> QED
    BY <1>1, <1>2, <1>10, <2>1, <2>2, <2>3 DEF CatalogIsTold
<1> QED
  BY <1>5, <1>6, <1>7, <1>8, <1>9, <1>11, <1>12 DEF PoolsInv

LEMMA UpdatePoolInv ==
    ASSUME PoolTyped, PoolsInv, ~upset', NEW t \in Movers, UpdatePool(t)
    PROVE  PoolsInv'
<1> DEFINE m == mover[t]
           touched == m.gain \union m.lose
<1>1. PICK p \in PoolNames :
         /\ m.op = "update" /\ m.pools = {p} /\ pool[p].exists
         /\ \A z \in touched : StillThere(z)
         /\ pool'[p].ns = m.ns /\ pool'[p].exists = pool[p].exists
         /\ pool'[p].catalog = (pool[p].catalog \/ m.catalog)
         /\ \A q \in PoolNames \ {p} : pool'[q] = pool[q]
         /\ \A z \in touched : member'[z] =
               Updated(member[z], IF z \in m.gain THEN m.create ELSE {},
                       IF z \in m.lose THEN m.delete ELSE {})
         /\ \A z \in MemberIds \ touched : member'[z] = member[z]
         /\ \A q \in PoolNames \ {p} : catalog'[q] = catalog[q]
         /\ IF m.catalog /\ ~pool[p].catalog
            THEN catalog'[p].told = LiveZonesOf(p) ELSE catalog'[p] = catalog[p]
         /\ ~upset /\ \A z \in touched : member[z].state # "deleting"
         /\ End(t)
  BY UpdateFacts
<1>2. /\ NoClash /\ CreatesInv /\ DeletesInv /\ UpdatesInv /\ MovesInv /\ SettledInv
      /\ ToldInv /\ CatalogIsTold
  BY <1>1 DEF PoolsInv
<1>3. m \in MoverRecord /\ touched \subseteq MemberIds /\ UpdateOf(m, p)
  BY <1>1, <1>2, MoverTypes DEF PoolTyped, UpdatesInv
<1>4. \A q \in Movers : mover'[q].op # "none" =>
         /\ mover'[q] = mover[q] /\ q # t
         /\ p \in mover[q].pools => mover[q].op \notin {"create", "update", "move"}
  BY <1>1, <1>2, OthersStay, Harmless DEF NoClash
<1>5. \A z \in touched : /\ IsLive(z) /\ member[z].pool = p
                         /\ member'[z].state = "live" /\ member'[z].pool = p
                         /\ member'[z].type = member[z].type
                         /\ member'[z].moved = member[z].moved
                         /\ member'[z].ns = (member[z].ns
                                              \union (IF z \in m.gain THEN m.create ELSE {}))
                                            \ (IF z \in m.lose THEN m.delete ELSE {})
  <2> SUFFICES ASSUME NEW z \in touched
               PROVE  /\ IsLive(z) /\ member[z].pool = p
                      /\ member'[z].state = "live" /\ member'[z].pool = p
                      /\ member'[z].type = member[z].type
                      /\ member'[z].moved = member[z].moved
                      /\ member'[z].ns = (member[z].ns
                                           \union (IF z \in m.gain THEN m.create ELSE {}))
                                         \ (IF z \in m.lose THEN m.delete ELSE {})
    OBVIOUS
  <2>1. IsLive(z) /\ member[z].pool = p
    BY <1>1, <1>3 DEF UpdateOf, StillThere, IsLive
  <2>2. member[z] \in ZoneRecord
    BY <1>3, <2>1, MemberKinds DEF PoolTyped, IsLive
  <2> QED
    BY <1>1, <2>1, <2>2, UpdatedZone
<1> HIDE DEF touched
<1>6. \A z \in MemberIds : /\ IsLive(z)' <=> IsLive(z)
                           /\ StillThere(z)' <=> StillThere(z)
                           /\ member'[z].state = member[z].state
                           /\ StillThere(z) => /\ member'[z].pool = member[z].pool
                                               /\ member'[z].type = member[z].type
                                               /\ member'[z].moved = member[z].moved
                           /\ member[z] # NoMember => member'[z] # NoMember
  BY <1>1, <1>5 DEF IsLive, StillThere, NoMember
<1>7. \A r \in PoolNames : LiveZonesOf(r)' = LiveZonesOf(r)
  BY <1>6 DEF LiveZonesOf, ZonesOf
<1>8. NoClash' /\ CreatesInv'
  BY <1>1, <1>2, <1>4, OthersStay DEF CreatesInv
<1>9. DeletesInv'
  BY <1>2, <1>4, <1>6 DEF DeletesInv, IsLive, StillThere
<1>10. UpdatesInv'
  <2> SUFFICES ASSUME NEW q \in Movers, NEW r \in PoolNames, mover'[q].op = "update",
                      r \in mover'[q].pools
               PROVE  UpdateOf(mover[q], r)'
    BY DEF UpdatesInv
  <2>1. mover'[q] = mover[q] /\ r # p /\ UpdateOf(mover[q], r) /\ mover[q] \in MoverRecord
    BY <1>2, <1>4 DEF UpdatesInv, PoolTyped
  <2>2. mover[q].gain \subseteq MemberIds /\ mover[q].lose \subseteq MemberIds
        /\ LiveZonesOf(r) \subseteq {z \in MemberIds : StillThere(z)}
    BY <2>1, MoverTypes DEF LiveZonesOf, ZonesOf
  <2> QED
    BY <1>1, <1>6, <1>7, <2>1, <2>2 DEF UpdateOf
<1>11. MovesInv'
  <2> SUFFICES ASSUME NEW q \in Movers, mover'[q].op = "move" PROVE MoveOf(mover[q])'
    BY DEF MovesInv
  <2>1. /\ mover'[q] = mover[q] /\ MoveOf(mover[q]) /\ p \notin mover[q].pools
        /\ mover[q].pools \subseteq PoolNames /\ mover[q].zone \in MemberIds
    BY <1>2, <1>4, MoverTypes DEF MovesInv, PoolTyped
  <2>2. member'[mover[q].zone] = member[mover[q].zone]
    BY <1>1, <1>5, <2>1 DEF MoveOf
  <2> QED
    BY <1>1, <2>1, <2>2 DEF MoveOf, IsLive
<1>12. SettledInv'
  <2> SUFFICES ASSUME NEW z \in MemberIds, IsLive(z)', ~BeingMoved(z)' PROVE AsItsPool(z)'
    BY DEF SettledInv
  <2>1. IsLive(z) /\ ~BeingMoved(z) /\ AsItsPool(z)
    BY <1>1, <1>2, <1>6, OthersStay DEF SettledInv
  <2>2. member'[z].pool = member[z].pool /\ member'[z].type = member[z].type
        /\ member[z].pool \in PoolNames
    BY <1>6, <2>1, MemberKinds DEF IsLive, StillThere, PoolTyped, ZoneRecord
  <2>3. CASE member[z].pool # p
    <3>1. member'[z] = member[z]
      BY <1>1, <1>5, <2>3
    <3> QED
      BY <1>1, <2>1, <2>2, <2>3, <3>1 DEF AsItsPool
  <2>4. CASE member[z].pool = p /\ member[z].type = "PRIMARY"
    <3>1. z \in LiveZonesOf(p) /\ member[z].ns = pool[p].ns
      BY <2>1, <2>4 DEF LiveZonesOf, ZonesOf, StillThere, IsLive, AsItsPool
    <3>2. (m.create # {} => z \in m.gain) /\ (m.delete # {} => z \in m.lose)
          /\ m.create = m.ns \ pool[p].ns /\ m.delete = pool[p].ns \ m.ns
      BY <1>3, <2>4, <3>1 DEF UpdateOf
    <3>3. member'[z].ns = m.ns
      <4>1. CASE z \in touched
        BY <1>5, <3>1, <3>2, <4>1
      <4>2. CASE z \notin touched
        <5>1. m.create = {} /\ m.delete = {} /\ member'[z] = member[z]
          BY <1>1, <3>2, <4>2 DEF touched
        <5> QED
          BY <3>1, <3>2, <5>1
      <4> QED
        BY <4>1, <4>2
    <3> QED
      BY <1>1, <2>2, <2>4, <3>3 DEF AsItsPool
  <2>5. CASE member[z].pool = p /\ member[z].type # "PRIMARY"
    BY <1>1, <2>2, <2>5 DEF AsItsPool
  <2> QED
    BY <2>3, <2>4, <2>5
<1>13. \A r \in PoolNames : catalog[r].told \subseteq MemberIds
  BY DEF PoolTyped, CatalogRecord
<1>14. ToldInv'
  <2> SUFFICES ASSUME NEW r \in PoolNames, NEW z \in catalog'[r].told
               PROVE  /\ member'[z] # NoMember
                      /\ StillThere(z)' => member'[z].moved \/ member'[z].pool = r
    BY DEF ToldInv
  <2>1. CASE z \in catalog[r].told
    BY <1>2, <1>6, <1>13, <2>1 DEF ToldInv
  <2>2. CASE z \notin catalog[r].told
    <3>1. z \in LiveZonesOf(p) /\ r = p
      BY <1>1, <2>2
    <3>2. z \in MemberIds /\ StillThere(z) /\ member[z].pool = r /\ member[z] # NoMember
      BY <3>1 DEF LiveZonesOf, ZonesOf, StillThere, NoMember
    <3> QED
      BY <1>6, <3>2
  <2> QED
    BY <2>1, <2>2
<1>15. CatalogIsTold'
  <2> SUFFICES ASSUME NEW r \in PoolNames, pool'[r].catalog, ~catalog'[r].due
               PROVE  /\ \A z \in LiveZonesOf(r)' : ~member'[z].moved
                            => z \in catalog'[r].told
                      /\ \A z \in catalog'[r].told : member'[z].state = "deleting"
                            => member'[z].moved
    BY DEF CatalogIsTold
  <2>1. LiveZonesOf(r) \subseteq {z \in MemberIds : StillThere(z)
                                  /\ member[z].state = "live"}
    BY DEF LiveZonesOf, ZonesOf
  <2>2. CASE r = p /\ m.catalog /\ ~pool[p].catalog
    BY <1>1, <1>6, <1>7, <2>1, <2>2
  <2>3. CASE ~(r = p /\ m.catalog /\ ~pool[p].catalog)
    <3>1. catalog'[r] = catalog[r] /\ pool[r].catalog
      BY <1>1, <2>3
    <3> QED
      BY <1>1, <1>2, <1>6, <1>7, <1>13, <2>1, <3>1 DEF CatalogIsTold, StillThere
  <2> QED
    BY <2>2, <2>3
<1> QED
  BY <1>8, <1>9, <1>10, <1>11, <1>12, <1>14, <1>15 DEF PoolsInv

\* A zone leaves, or is to be deleted, and at most the catalog of its pool becomes due.
LEMMA LeaveInv ==
    ASSUME PoolTyped, PoolsInv, ~upset', NEW z \in MemberIds,
           member'[z].state \in {"deleting", "gone"},
           member'[z].state = "deleting" =>
              /\ member[z] \in ZoneRecord
              /\ member'[z].pool = member[z].pool /\ member'[z].moved = member[z].moved
              /\ pool[member[z].pool].catalog => catalog'[member[z].pool].due,
           \A y \in MemberIds \ {z} : member'[y] = member[y],
           \A r \in PoolNames : /\ catalog'[r].told = catalog[r].told
                                /\ \/ catalog'[r] = catalog[r]
                                   \/ catalog'[r].due
           , UNCHANGED <<pool, mover, upset>>
    PROVE  PoolsInv'
<1>1. /\ NoClash /\ CreatesInv /\ DeletesInv /\ UpdatesInv /\ MovesInv /\ SettledInv
      /\ ToldInv /\ CatalogIsTold /\ ~upset
  BY DEF PoolsInv
<1>2. \A y \in MemberIds : /\ IsLive(y)' => IsLive(y) /\ y # z
                           /\ StillThere(y)'
                                 => StillThere(y) /\ member'[y].pool = member[y].pool
                                                /\ member'[y].moved = member[y].moved
                           /\ member[y] # NoMember => member'[y] # NoMember
  BY DEF IsLive, StillThere, ZoneRecord, NoMember
<1>3. \A r \in PoolNames : LiveZonesOf(r)' \subseteq LiveZonesOf(r) \ {z}
  BY <1>2 DEF LiveZonesOf, ZonesOf, IsLive
<1>4. \A r : LiveZonesOf(r) \subseteq MemberIds
  BY DEF LiveZonesOf, ZonesOf
<1>5. NoClash' /\ CreatesInv' /\ DeletesInv'
  BY <1>1, <1>2 DEF NoClash, CreatesInv, DeletesInv, IsLive, StillThere
<1>6. UpdatesInv'
  <2> SUFFICES ASSUME NEW q \in Movers, NEW r \in PoolNames, mover[q].op = "update",
                      r \in mover[q].pools
               PROVE  UpdateOf(mover[q], r)'
    BY DEF UpdatesInv
  <2>1. UpdateOf(mover[q], r) /\ mover[q].gain \subseteq MemberIds
        /\ mover[q].lose \subseteq MemberIds
    BY <1>1, MoverTypes DEF UpdatesInv, PoolTyped
  <2>2. \A y \in LiveZonesOf(r)' : y \in LiveZonesOf(r) /\ member'[y] = member[y]
    BY <1>3, <1>4
  <2> QED
    BY <1>2, <2>1, <2>2 DEF UpdateOf
<1>7. MovesInv'
  <2> SUFFICES ASSUME NEW q \in Movers, mover[q].op = "move" PROVE MoveOf(mover[q])'
    BY DEF MovesInv
  <2>1. MoveOf(mover[q]) /\ mover[q].zone \in MemberIds
    BY <1>1, MoverTypes DEF MovesInv, PoolTyped
  <2> QED
    BY <1>2, <2>1 DEF MoveOf, IsLive
<1>8. SettledInv'
  BY <1>1, <1>2 DEF SettledInv, BeingMoved, AsItsPool, IsLive
<1>9. \A r \in PoolNames : catalog[r].told \subseteq MemberIds
  BY DEF PoolTyped, CatalogRecord
<1>10. ToldInv'
  BY <1>1, <1>2, <1>9 DEF ToldInv
<1>11. CatalogIsTold'
  <2> SUFFICES ASSUME NEW r \in PoolNames, pool[r].catalog, ~catalog'[r].due
               PROVE  /\ \A y \in LiveZonesOf(r)' : ~member'[y].moved
                            => y \in catalog'[r].told
                      /\ \A y \in catalog'[r].told : member'[y].state = "deleting"
                            => member'[y].moved
    BY DEF CatalogIsTold
  <2>1. catalog'[r] = catalog[r] /\ ~catalog[r].due
    OBVIOUS
  <2>2. \A y \in LiveZonesOf(r)' : y \in LiveZonesOf(r) /\ member'[y] = member[y]
    BY <1>3, <1>4
  <2>3. ASSUME z \in catalog[r].told, member'[z].state = "deleting" PROVE member'[z].moved
    <3>1. member[z].pool # r /\ StillThere(z)
      BY <2>1, <2>3 DEF StillThere, ZoneRecord
    <3> QED
      BY <1>1, <2>3, <3>1 DEF ToldInv
  <2> QED
    BY <1>1, <1>9, <2>1, <2>2, <2>3 DEF CatalogIsTold
<1> QED
  BY <1>5, <1>6, <1>7, <1>8, <1>10, <1>11 DEF PoolsInv

LEMMA DeletePoolInv ==
    ASSUME PoolTyped, PoolsInv, ~upset', NEW t \in Movers, DeletePool(t)
    PROVE  PoolsInv'
<1>1. /\ mover[t].op = "delete"
      /\ \A p \in PoolNames : /\ pool'[p].ns = pool[p].ns
                              /\ pool'[p].catalog = pool[p].catalog
                              /\ p \notin mover[t].pools => pool'[p].exists = pool[p].exists
      /\ End(t)
      /\ UNCHANGED <<member, catalog, upset, calls>>
  BY DeleteFacts
<1>2. /\ NoClash /\ CreatesInv /\ DeletesInv /\ UpdatesInv /\ MovesInv /\ SettledInv
      /\ ToldInv /\ CatalogIsTold /\ ~upset
  BY <1>1 DEF PoolsInv
<1>3. \A q \in Movers : mover'[q].op # "none" =>
         /\ mover'[q] = mover[q]
         /\ mover[q].op \in {"create", "move"}
               => mover[q].pools \intersect mover[t].pools = {}
  <2>1. \A q \in Movers : mover'[q].op # "none" => q # t /\ mover'[q] = mover[q]
    BY <1>1, OthersStay
  <2> QED
    BY <1>1, <1>2, <2>1, Harmless DEF NoClash
<1>4. \A q \in Movers : mover[q].pools \subseteq PoolNames
  BY MoverTypes DEF PoolTyped
<1>5. NoClash'
  BY <1>1, <1>2, OthersStay
<1>6. CreatesInv' /\ DeletesInv'
  BY <1>1, <1>2, <1>3 DEF CreatesInv, DeletesInv, IsLive
<1>7. UpdatesInv'
  <2> SUFFICES ASSUME NEW q \in Movers, NEW r \in PoolNames, mover'[q].op = "update",
                      r \in mover'[q].pools
               PROVE  UpdateOf(mover[q], r)'
    BY <1>3 DEF UpdatesInv
  <2>1. UpdateOf(mover[q], r) /\ mover'[q] = mover[q]
    BY <1>2, <1>3 DEF UpdatesInv
  <2> QED
    BY <1>1, <2>1 DEF UpdateOf, StillThere, LiveZonesOf, ZonesOf
<1>8. MovesInv'
  <2> SUFFICES ASSUME NEW q \in Movers, mover'[q].op = "move" PROVE MoveOf(mover[q])'
    BY <1>3 DEF MovesInv
  <2>1. MoveOf(mover[q]) /\ mover'[q] = mover[q]
        /\ mover[q].pools \intersect mover[t].pools = {}
    BY <1>2, <1>3 DEF MovesInv
  <2>2. \A p \in mover[q].pools : /\ pool'[p].ns = pool[p].ns
                                  /\ pool'[p].exists = pool[p].exists
    BY <1>1, <1>4, <2>1
  <2> QED
    BY <1>1, <2>1, <2>2 DEF MoveOf, IsLive
<1>9. SettledInv'
  <2> SUFFICES ASSUME NEW z \in MemberIds, IsLive(z), ~BeingMoved(z)' PROVE AsItsPool(z)'
    BY <1>1 DEF SettledInv, IsLive
  <2>1. AsItsPool(z) /\ member[z].pool \notin mover[t].pools
    BY <1>1, <1>2, OthersStay DEF SettledInv, DeletesInv
  <2>2. member[z].pool \in PoolNames
    BY MemberKinds DEF IsLive, PoolTyped, ZoneRecord
  <2> QED
    BY <1>1, <2>1, <2>2 DEF AsItsPool
<1>10. ToldInv' /\ CatalogIsTold'
  BY <1>1, <1>2 DEF ToldInv, CatalogIsTold, StillThere, LiveZonesOf, ZonesOf
<1> QED
  BY <1>5, <1>6, <1>7, <1>8, <1>9, <1>10 DEF PoolsInv

LEMMA UpdatePoolFailsInv ==
    ASSUME PoolTyped, PoolsInv, ~upset', NEW t \in Movers, UpdatePoolFails(t)
    PROVE  PoolsInv'
<1>1. mover[t].op = "update" /\ End(t) /\ UNCHANGED <<pool, member, catalog, upset>>
  BY DEF UpdatePoolFails, Fail
<1>2. /\ NoClash /\ CreatesInv /\ DeletesInv /\ UpdatesInv /\ MovesInv /\ SettledInv
      /\ ToldInv /\ CatalogIsTold
  BY <1>1 DEF PoolsInv
<1>3. \A q \in Movers : mover'[q].op # "none" => mover'[q] = mover[q]
  BY <1>1, OthersStay
<1>4. NoClash'
  BY <1>1, <1>2, OthersStay
<1>5. CreatesInv' /\ DeletesInv'
  BY <1>1, <1>2, <1>3 DEF CreatesInv, DeletesInv, IsLive
<1>6. UpdatesInv'
  <2> SUFFICES ASSUME NEW q \in Movers, NEW r \in PoolNames, mover'[q].op = "update",
                      r \in mover'[q].pools
               PROVE  UpdateOf(mover[q], r)'
    BY <1>3 DEF UpdatesInv
  <2>1. UpdateOf(mover[q], r) /\ mover'[q] = mover[q]
    BY <1>2, <1>3 DEF UpdatesInv
  <2> QED
    BY <1>1, <2>1 DEF UpdateOf, StillThere, LiveZonesOf, ZonesOf
<1>7. MovesInv'
  <2> SUFFICES ASSUME NEW q \in Movers, mover'[q].op = "move" PROVE MoveOf(mover[q])'
    BY <1>3 DEF MovesInv
  <2>1. MoveOf(mover[q]) /\ mover'[q] = mover[q]
    BY <1>2, <1>3 DEF MovesInv
  <2> QED
    BY <1>1, <2>1 DEF MoveOf, IsLive
<1>8. SettledInv'
  BY <1>1, <1>2, OthersStay DEF SettledInv, IsLive, AsItsPool
<1>9. ToldInv' /\ CatalogIsTold'
  BY <1>1, <1>2 DEF ToldInv, CatalogIsTold, StillThere, LiveZonesOf, ZonesOf
<1> QED
  BY <1>4, <1>5, <1>6, <1>7, <1>8, <1>9 DEF PoolsInv

\* The other moves are of other zones.
LEMMA OneMover ==
    ASSUME PoolTyped, PoolsInv, ~upset, NEW t \in Movers, NEW q \in Movers, t # q,
           mover[t].op = "move", mover[q].op = "move", IsLive(mover[t].zone)
    PROVE  mover[q].zone # mover[t].zone
<1> SUFFICES ASSUME mover[q].zone = mover[t].zone PROVE FALSE
  OBVIOUS
<1>1. /\ member[mover[t].zone].pool \in mover[t].pools
      /\ member[mover[t].zone].pool \in mover[q].pools
      /\ ~Clash(mover[t], mover[q])
  BY DEF PoolsInv, NoClash, MovesInv, MoveOf
<1> QED
  BY <1>1, Harmless

LEMMA MoveNsInv ==
    ASSUME PoolTyped, PoolsInv, ~upset', NEW t \in Movers, NEW n \in Hostnames, MoveNs(t, n)
    PROVE  PoolsInv'
<1> DEFINE m == mover[t]
           z == m.zone
<1>1. /\ m.op = "move" /\ z \in MemberIds
      /\ n \in m.create \/ (m.create = {} /\ n \in m.delete)
      /\ member[z] \in ZoneRecord
      /\ member[z].type # "PRIMARY" => member'[z] = member[z]
      /\ member[z].type = "PRIMARY" =>
            member'[z] = IF n \in m.create THEN Updated(member[z], {n}, {})
                         ELSE Updated(member[z], {}, {n})
      /\ \A y \in MemberIds \ {z} : member'[y] = member[y]
      /\ mover'[t].op = "move" /\ mover'[t].pools = m.pools
      /\ mover'[t].zone = z /\ mover'[t].to = m.to
      /\ mover'[t].create = m.create \ {n} /\ mover'[t].delete = m.delete \ {n}
      /\ \A q \in Movers \ {t} : mover'[q] = mover[q]
      /\ ~upset /\ member[z].state = "live"
      /\ UNCHANGED <<pool, catalog, calls>>
  BY MoveNsFacts
<1>2. /\ NoClash /\ CreatesInv /\ DeletesInv /\ UpdatesInv /\ MovesInv /\ SettledInv
      /\ ToldInv /\ CatalogIsTold
  BY <1>1 DEF PoolsInv
<1>3. /\ IsLive(z) /\ member'[z].state = "live" /\ member'[z].pool = member[z].pool
      /\ member'[z].type = member[z].type /\ member'[z].moved = member[z].moved
      /\ member[z].type = "PRIMARY" =>
            member'[z].ns = IF n \in m.create THEN member[z].ns \union {n}
                            ELSE member[z].ns \ {n}
  <2>1. CASE member[z].type # "PRIMARY"
    BY <1>1, <2>1 DEF IsLive
  <2>2. CASE member[z].type = "PRIMARY" /\ n \in m.create
    <3>1. member'[z] = Updated(member[z], {n}, {})
      BY <1>1, <2>2
    <3>2. \A S : (S \union {n}) \ {} = S \union {n}
      OBVIOUS
    <3> QED
      BY <1>1, <2>2, <3>1, <3>2, UpdatedZone DEF IsLive
  <2>3. CASE member[z].type = "PRIMARY" /\ n \notin m.create
    <3>1. member'[z] = Updated(member[z], {}, {n})
      BY <1>1, <2>3
    <3>2. \A S : (S \union {}) \ {n} = S \ {n}
      OBVIOUS
    <3> QED
      BY <1>1, <2>3, <3>1, <3>2, UpdatedZone DEF IsLive
  <2> QED
    BY <2>1, <2>2, <2>3
<1> HIDE DEF z
<1>4. \A y \in MemberIds : /\ IsLive(y)' <=> IsLive(y)
                           /\ StillThere(y)' <=> StillThere(y)
                           /\ member'[y].state = member[y].state
                           /\ member'[y] # NoMember <=> member[y] # NoMember
                           /\ StillThere(y) => /\ member'[y].pool = member[y].pool
                                               /\ member'[y].type = member[y].type
                                               /\ member'[y].moved = member[y].moved
  BY <1>1, <1>3 DEF IsLive, StillThere, NoMember
<1>5. \A r \in PoolNames : LiveZonesOf(r)' = LiveZonesOf(r)
  BY <1>4 DEF LiveZonesOf, ZonesOf
<1>6. \A q \in Movers : mover'[q].op # "move" => mover'[q] = mover[q]
  BY <1>1
<1>7. NoClash'
  <2>1. \A k : /\ Clash(mover'[t], k) <=> Clash(mover[t], k)
               /\ Clash(k, mover'[t]) <=> Clash(k, mover[t])
    BY <1>1 DEF Clash, z
  <2>2. \A q, r \in Movers : q # r => ~Clash(mover'[q], mover'[r])
    BY <1>1, <1>2, <2>1 DEF NoClash
  <2> QED
    BY <2>2 DEF NoClash, Clash
<1>8. CreatesInv' /\ DeletesInv'
  BY <1>1, <1>2, <1>4, <1>6 DEF CreatesInv, DeletesInv, IsLive, StillThere
<1>9. UpdatesInv'
  <2> SUFFICES ASSUME NEW q \in Movers, NEW r \in PoolNames, mover'[q].op = "update",
                      r \in mover'[q].pools
               PROVE  UpdateOf(mover[q], r)'
    BY <1>6 DEF UpdatesInv
  <2>1. mover'[q] = mover[q] /\ UpdateOf(mover[q], r) /\ mover[q] \in MoverRecord
    BY <1>2, <1>6 DEF UpdatesInv, PoolTyped
  <2>2. mover[q].gain \subseteq MemberIds /\ mover[q].lose \subseteq MemberIds
        /\ LiveZonesOf(r) \subseteq {y \in MemberIds : StillThere(y)}
    BY <2>1, MoverTypes DEF LiveZonesOf, ZonesOf
  <2> QED
    BY <1>1, <1>4, <1>5, <2>1, <2>2 DEF UpdateOf
<1>10. MovesInv'
  <2> SUFFICES ASSUME NEW q \in Movers, mover'[q].op = "move" PROVE MoveOf(mover[q])'
    BY DEF MovesInv
  <2>1. CASE q # t
    <3>1. mover'[q] = mover[q] /\ MoveOf(mover[q]) /\ mover[q].zone \in MemberIds
      BY <1>1, <1>2, <2>1, MoverTypes DEF MovesInv, PoolTyped
    <3>2. mover[q].zone # z
      BY <1>1, <1>3, <2>1, <3>1, OneMover DEF z
    <3>3. member'[mover[q].zone] = member[mover[q].zone]
      BY <1>1, <3>1, <3>2
    <3> QED
      BY <1>1, <3>1, <3>3 DEF MoveOf, IsLive
  <2>2. CASE q = t
    <3>1. MoveOf(m) /\ m.zone = z
      BY <1>1, <1>2 DEF MovesInv, z
    <3>2. member[z].type = "PRIMARY" =>
             member'[z].ns = (pool[m.to].ns \union (m.delete \ {n})) \ (m.create \ {n})
      <4> SUFFICES ASSUME member[z].type = "PRIMARY"
                   PROVE  member'[z].ns =
                             (pool[m.to].ns \union (m.delete \ {n})) \ (m.create \ {n})
        OBVIOUS
      <4>1. /\ member[z].ns = (pool[m.to].ns \union m.delete) \ m.create
            /\ m.create \subseteq pool[m.to].ns /\ m.delete \intersect pool[m.to].ns = {}
        BY <1>3, <3>1 DEF MoveOf
      <4>2. member'[z].ns = IF n \in m.create THEN member[z].ns \union {n}
                            ELSE member[z].ns \ {n}
        BY <1>3
      <4> QED
        BY <1>1, <4>1, <4>2
    <3> QED
      BY <1>1, <1>3, <1>4, <2>2, <3>1, <3>2 DEF MoveOf, IsLive
  <2> QED
    BY <2>1, <2>2
<1>11. SettledInv'
  <2> SUFFICES ASSUME NEW y \in MemberIds, IsLive(y)', ~BeingMoved(y)' PROVE AsItsPool(y)'
    BY DEF SettledInv
  <2>1. y # z /\ ~BeingMoved(y)
    BY <1>1 DEF BeingMoved, z
  <2> QED
    BY <1>1, <1>2, <1>4, <2>1 DEF SettledInv, AsItsPool
<1>12. \A r \in PoolNames : catalog[r].told \subseteq MemberIds
  BY DEF PoolTyped, CatalogRecord
<1>13. ToldInv'
  BY <1>1, <1>2, <1>4, <1>12 DEF ToldInv
<1>14. CatalogIsTold'
  <2>1. \A r : LiveZonesOf(r) \subseteq {y \in MemberIds : StillThere(y)}
    BY DEF LiveZonesOf, ZonesOf
  <2> QED
    BY <1>1, <1>2, <1>4, <1>5, <1>12, <2>1 DEF CatalogIsTold, StillThere
<1> QED
  BY <1>7, <1>8, <1>9, <1>10, <1>11, <1>13, <1>14 DEF PoolsInv

LEMMA MoveToPoolInv ==
    ASSUME PoolTyped, PoolsInv, ~upset', NEW t \in Movers, MoveToPool(t)
    PROVE  PoolsInv'
<1> DEFINE m == mover[t]
           z == m.zone
<1>1. /\ m.op = "move" /\ z \in MemberIds /\ m.create = {} /\ m.delete = {}
      /\ member[z] \in ZoneRecord
      /\ member'[z].state = "live" /\ member'[z].pool = m.to /\ member'[z].moved
      /\ member'[z].type = member[z].type /\ member'[z].ns = member[z].ns
      /\ \A y \in MemberIds \ {z} : member'[y] = member[y]
      /\ ~upset /\ IsLive(z)
      /\ End(t)
      /\ UNCHANGED <<pool, catalog, calls>>
  BY MoveFacts DEF IsLive
<1> HIDE DEF z
<1>2. /\ NoClash /\ CreatesInv /\ DeletesInv /\ UpdatesInv /\ MovesInv /\ SettledInv
      /\ ToldInv /\ CatalogIsTold
  BY <1>1 DEF PoolsInv
<1>3. MoveOf(m) /\ m.zone = z /\ member[z].pool \in m.pools /\ m.to \in m.pools
      /\ m.to \in PoolNames
  BY <1>1, <1>2, MoverTypes DEF MovesInv, MoveOf, PoolTyped, z
<1>4. \A q \in Movers : mover'[q].op # "none" =>
         /\ q # t /\ mover'[q] = mover[q]
         /\ mover[q].op \in {"update", "delete"} => mover[q].pools \intersect m.pools = {}
  <2>1. \A q \in Movers : mover'[q].op # "none" => q # t /\ mover'[q] = mover[q]
    BY <1>1, OthersStay
  <2> QED
    BY <1>1, <1>2, <2>1, Harmless DEF NoClash
<1>5. \A y \in MemberIds : /\ IsLive(y)' <=> IsLive(y)
                           /\ StillThere(y)' <=> StillThere(y)
                           /\ member'[y].state = member[y].state
                           /\ member'[y] # NoMember <=> member[y] # NoMember
  BY <1>1 DEF IsLive, StillThere, NoMember
<1>6. NoClash' /\ CreatesInv'
  BY <1>1, <1>2, <1>4, OthersStay DEF CreatesInv
<1>7. DeletesInv'
  <2> SUFFICES ASSUME NEW q \in Movers, NEW y \in MemberIds, mover'[q].op = "delete",
        IsLive(y)'
               PROVE  member'[y].pool \notin mover'[q].pools
    BY DEF DeletesInv
  <2>1. mover'[q] = mover[q] /\ mover[q].pools \intersect m.pools = {} /\ IsLive(y)
    BY <1>4, <1>5
  <2> QED
    BY <1>1, <1>2, <1>3, <2>1 DEF DeletesInv
<1>8. UpdatesInv'
  <2> SUFFICES ASSUME NEW q \in Movers, NEW r \in PoolNames, mover'[q].op = "update",
                      r \in mover'[q].pools
               PROVE  UpdateOf(mover[q], r)'
    BY DEF UpdatesInv
  <2>1. mover'[q] = mover[q] /\ UpdateOf(mover[q], r) /\ r \notin m.pools
    BY <1>2, <1>4 DEF UpdatesInv
  <2>2. mover[q].gain \subseteq MemberIds /\ mover[q].lose \subseteq MemberIds
    BY <2>1, MoverTypes DEF PoolTyped
  <2>3. StillThere(z) /\ z \notin mover[q].gain \union mover[q].lose
    BY <1>1, <1>3, <2>1 DEF UpdateOf, StillThere, IsLive
  <2>4. \A y \in LiveZonesOf(r)' : y \in LiveZonesOf(r) \ {z} /\ y \in MemberIds
    BY <1>1, <1>3, <1>5, <2>1 DEF LiveZonesOf, ZonesOf
  <2>5. /\ \A y \in mover[q].gain \union mover[q].lose : member'[y] = member[y]
        /\ \A y \in LiveZonesOf(r)' : y \in LiveZonesOf(r) /\ member'[y] = member[y]
    BY <1>1, <2>2, <2>3, <2>4
  <2> QED
    BY <1>1, <2>1, <2>5 DEF UpdateOf, StillThere
<1>9. MovesInv'
  <2> SUFFICES ASSUME NEW q \in Movers, mover'[q].op = "move" PROVE MoveOf(mover[q])'
    BY DEF MovesInv
  <2>1. mover'[q] = mover[q] /\ q # t /\ MoveOf(mover[q]) /\ mover[q].zone \in MemberIds
    BY <1>2, <1>4, MoverTypes DEF MovesInv, PoolTyped
  <2>2. mover[q].zone # z
    BY <1>1, <2>1, OneMover DEF z
  <2>3. member'[mover[q].zone] = member[mover[q].zone]
    BY <1>1, <2>1, <2>2
  <2> QED
    BY <1>1, <2>1, <2>3 DEF MoveOf, IsLive
<1>10. SettledInv'
  <2> SUFFICES ASSUME NEW y \in MemberIds, IsLive(y)', ~BeingMoved(y)' PROVE AsItsPool(y)'
    BY DEF SettledInv
  <2>1. CASE y = z
    <3>1. /\ pool[m.to].exists
          /\ member[z].type = "PRIMARY" => member[z].ns = pool[m.to].ns
      <4>1. \A S : (S \union {}) \ {} = S
        OBVIOUS
      <4> QED
        BY <1>1, <1>3, <4>1 DEF MoveOf
    <3> QED
      BY <1>1, <2>1, <3>1 DEF AsItsPool
  <2>2. CASE y # z
    BY <1>1, <1>2, <1>3, <1>5, <2>2, OthersStay DEF SettledInv, AsItsPool
  <2> QED
    BY <2>1, <2>2
<1>11. \A r \in PoolNames : catalog[r].told \subseteq MemberIds
  BY DEF PoolTyped, CatalogRecord
<1>12. ToldInv'
  BY <1>1, <1>2, <1>5, <1>11 DEF ToldInv
<1>13. CatalogIsTold'
  <2> SUFFICES ASSUME NEW r \in PoolNames, pool[r].catalog, ~catalog[r].due
               PROVE  /\ \A y \in LiveZonesOf(r)' : ~member'[y].moved
                            => y \in catalog[r].told
                      /\ \A y \in catalog[r].told : member'[y].state = "deleting"
                            => member'[y].moved
    BY <1>1 DEF CatalogIsTold
  <2>1. \A y \in LiveZonesOf(r)' : y # z => y \in LiveZonesOf(r) /\ member'[y] = member[y]
    BY <1>1, <1>5 DEF LiveZonesOf, ZonesOf
  <2> QED
    BY <1>1, <1>2, <1>11, <2>1 DEF CatalogIsTold
<1> QED
  BY <1>6, <1>7, <1>8, <1>9, <1>10, <1>12, <1>13 DEF PoolsInv

LEMMA IncrementInv ==
    ASSUME PoolTyped, PoolsInv, ~upset', NEW p \in PoolNames, IncrementCatalog(p)
    PROVE  PoolsInv'
<1>1. /\ catalog'[p].told = LiveZonesOf(p)
      /\ \A q \in PoolNames \ {p} : catalog'[q] = catalog[q]
      /\ UNCHANGED <<pool, member, mover, upset>>
  BY IncrementFacts
<1>2. /\ NoClash /\ CreatesInv /\ DeletesInv /\ UpdatesInv /\ MovesInv /\ SettledInv
      /\ ToldInv /\ CatalogIsTold
  BY <1>1 DEF PoolsInv
<1>3. NoClash' /\ CreatesInv' /\ DeletesInv' /\ UpdatesInv' /\ MovesInv' /\ SettledInv'
  BY <1>1, <1>2 DEF NoClash, CreatesInv, DeletesInv, UpdatesInv, UpdateOf, MovesInv, MoveOf,
                    SettledInv, AsItsPool, BeingMoved, IsLive, StillThere, LiveZonesOf,
                          ZonesOf
<1>4. \A z \in LiveZonesOf(p) : /\ z \in MemberIds /\ member[z].pool = p
                                /\ member[z].state = "live" /\ member[z] # NoMember
  BY DEF LiveZonesOf, ZonesOf, NoMember
<1>5. ToldInv'
  <2> SUFFICES ASSUME NEW r \in PoolNames, NEW z \in catalog'[r].told
               PROVE  member[z] # NoMember
                      /\ (StillThere(z) => member[z].moved \/ member[z].pool = r)
    BY <1>1 DEF ToldInv, StillThere
  <2>1. CASE r = p
    BY <1>1, <1>4, <2>1
  <2>2. CASE r # p
    BY <1>1, <1>2, <2>2 DEF ToldInv
  <2> QED
    BY <2>1, <2>2
<1>6. CatalogIsTold'
  <2> SUFFICES ASSUME NEW r \in PoolNames, pool[r].catalog, ~catalog'[r].due
               PROVE  /\ \A z \in LiveZonesOf(r) : ~member[z].moved
                            => z \in catalog'[r].told
                      /\ \A z \in catalog'[r].told : member[z].state = "deleting"
                            => member[z].moved
    BY <1>1 DEF CatalogIsTold, LiveZonesOf, ZonesOf, StillThere
  <2>1. CASE r = p
    BY <1>1, <1>4, <2>1
  <2>2. CASE r # p
    BY <1>1, <1>2, <2>2 DEF CatalogIsTold
  <2> QED
    BY <2>1, <2>2
<1> QED
  BY <1>3, <1>5, <1>6 DEF PoolsInv

\* The operations on one zone.
LEMMA MemberLeavesInv ==
    ASSUME PoolTyped, PoolsInv, ~upset', NEW z \in MemberIds,
           DeleteMember(z) \/ AbandonMember(z) \/ ConfirmMember(z)
    PROVE  PoolsInv'
<1>1. CASE DeleteMember(z)
  <2> DEFINE p == member[z].pool
  <2>1. /\ member[z] \in ZoneRecord
        /\ member'[z].state = "deleting" /\ member'[z].pool = p
        /\ member'[z].moved = member[z].moved
        /\ \A y \in MemberIds \ {z} : member'[y] = member[y]
        /\ CatalogIsDue(p)
        /\ UNCHANGED <<pool, mover, upset>>
    BY <1>1, DeleteMemberFacts
  <2>2. p \in PoolNames
    BY <2>1 DEF ZoneRecord
  <2>3. /\ pool[p].catalog => catalog'[p].due
        /\ \A r \in PoolNames : /\ catalog'[r].told = catalog[r].told
                                /\ catalog'[r] = catalog[r] \/ catalog'[r].due
    BY <2>1, <2>2, Due
  <2> QED
    BY <2>1, <2>3, LeaveInv
<1>2. CASE AbandonMember(z) \/ ConfirmMember(z)
  <2>1. /\ member'[z].state = "gone"
        /\ \A y \in MemberIds \ {z} : member'[y] = member[y]
        /\ UNCHANGED <<pool, catalog, mover, upset>>
    BY <1>2, GoneFacts
  <2>2. \A r \in PoolNames : /\ catalog'[r].told = catalog[r].told
                             /\ catalog'[r] = catalog[r] \/ catalog'[r].due
    BY <2>1
  <2> QED
    BY <2>1, <2>2, LeaveInv
<1> QED
  BY <1>1, <1>2

-----------------------------------------------------------------------------
(* The theorems.                                                           *)

LEMMA PoolInitInv == PoolInit => PoolTyped /\ PoolsInv
<1> SUFFICES ASSUME PoolInit PROVE PoolTyped /\ PoolsInv
  OBVIOUS
<1>1. /\ pool \in [PoolNames -> PoolRecord]
      /\ \A p \in PoolNames : ~pool[p].catalog
  BY DEF PoolInit, PoolRecord
<1>2. /\ \A z \in MemberIds : member[z] = NoMember /\ ~IsLive(z)
      /\ member \in [MemberIds -> MemberRecord]
  BY DEF PoolInit, IsLive, NoMember, MemberRecord
<1>3. /\ \A p \in PoolNames : catalog[p].told = {}
      /\ catalog \in [PoolNames -> CatalogRecord]
  BY DEF PoolInit, CatalogRecord
<1>4. /\ \A t \in Movers : mover[t] = NotMoving /\ mover[t].op = "none"
      /\ mover \in [Movers -> MoverRecord]
  BY DEF PoolInit, NotMoving, MoverRecord
<1>5. PoolTyped
  BY <1>1, <1>2, <1>3, <1>4 DEF PoolInit, PoolTyped
<1>6. PoolsInv
  BY <1>1, <1>2, <1>3, <1>4, IdleClashesWithNone
     DEF PoolsInv, NoClash, CreatesInv, DeletesInv, UpdatesInv, MovesInv, SettledInv,
         ToldInv,
         CatalogIsTold
<1> QED
  BY <1>5, <1>6

LEMMA CallTyped ==
    ASSUME PoolTyped, NEW t \in Movers, CallOf(t)
    PROVE  PoolTyped' /\ (~upset' => ~upset)
<1>1. ASSUME NEW p \in PoolNames, NEW type \in MemberTypes, BeginCreateIn(t, p, type)
      PROVE  PoolTyped' /\ (~upset' => ~upset)
  <2> DEFINE m == [op |-> "create", pools |-> {p}, type |-> type, ns |-> pool[p].ns]
  <2>1. Begin(t, m)
    BY <1>1 DEF BeginCreateIn
  <2>2. m \in MoverRecord
    BY DEF PoolTyped, PoolRecord, MoverRecord, CreateCall, One
  <2> HIDE DEF m
  <2> QED
    BY <2>1, <2>2, Beginning
<1>2. ASSUME NEW p \in PoolNames, NEW ns \in SUBSET Hostnames, NEW with_catalog \in BOOLEAN,
             BeginUpdatePool(t, p, ns, with_catalog)
      PROVE  PoolTyped' /\ (~upset' => ~upset)
  <2> DEFINE create == ns \ pool[p].ns
             delete == pool[p].ns \ ns
             gain == IF create = {} THEN {} ELSE Primary(LiveZonesOf(p))
             lose == IF delete = {} THEN {} ELSE ZonesOf(p)
             m == [op |-> "update", pools |-> {p}, ns |-> ns, catalog |-> with_catalog,
                   create |-> create, delete |-> delete, gain |-> gain, lose |-> lose]
  <2>1. Begin(t, m)
    BY <1>2 DEF BeginUpdatePool
  <2>2. gain \subseteq MemberIds /\ lose \subseteq MemberIds
    BY DEF Primary, LiveZonesOf, ZonesOf
  <2>3. create \subseteq Hostnames /\ delete \subseteq Hostnames
    BY DEF PoolTyped, PoolRecord
  <2>4. m \in MoverRecord
    <3> HIDE DEF create, delete, gain, lose
    <3> QED
      BY <2>2, <2>3 DEF MoverRecord, UpdateCall, One
  <2> HIDE DEF m
  <2> QED
    BY <2>1, <2>4, Beginning
<1>3. ASSUME NEW p \in PoolNames, BeginDeletePool(t, p) PROVE PoolTyped' /\ (~upset' => ~upset)
  <2> DEFINE m == [op |-> "delete", pools |-> {p}]
  <2>1. Begin(t, m) /\ m \in MoverRecord
    BY <1>3 DEF BeginDeletePool, MoverRecord, DeleteCall, One
  <2> HIDE DEF m
  <2> QED
    BY <2>1, Beginning
<1>4. ASSUME NEW z \in MemberIds, NEW p \in PoolNames, BeginMove(t, z, p)
      PROVE  PoolTyped' /\ (~upset' => ~upset)
  <2> DEFINE from == member[z].pool
             m == [op |-> "move", pools |-> {from, p}, zone |-> z, to |-> p,
                   create |-> pool[p].ns \ pool[from].ns,
                   delete |-> pool[from].ns \ pool[p].ns]
  <2>1. member[z].state = "live" /\ Begin(t, m)
    BY <1>4 DEF BeginMove
  <2>2. from \in PoolNames
    BY <2>1, MemberKinds DEF PoolTyped, ZoneRecord
  <2>3. m \in MoverRecord
    BY <2>2 DEF PoolTyped, PoolRecord, MoverRecord, MoveCall
  <2> HIDE DEF m
  <2> QED
    BY <2>1, <2>3, Beginning
<1> QED
  BY <1>1, <1>2, <1>3, <1>4 DEF CallOf, MemberTypes

LEMMA CommitTyped ==
    ASSUME PoolTyped, NEW t \in Movers, CommitOf(t)
    PROVE  PoolTyped' /\ (~upset' => ~upset)
<1>1. ASSUME NEW z \in MemberIds, CreateIn(t, z) PROVE PoolTyped' /\ (~upset' => ~upset)
  BY <1>1, CreateFacts
<1>2. CASE UpdatePool(t)
  BY <1>2, UpdateFacts
<1>3. CASE UpdatePoolFails(t)
  BY <1>3, Ending DEF UpdatePoolFails, Fail, PoolTyped
<1>4. CASE DeletePool(t)
  BY <1>4, DeleteFacts
<1>5. ASSUME NEW n \in Hostnames, MoveNs(t, n) PROVE PoolTyped' /\ (~upset' => ~upset)
  BY <1>5, MoveNsFacts
<1>6. CASE MoveToPool(t)
  BY <1>6, MoveFacts
<1>7. CASE MoveEnds(t)
  BY <1>7, Ending DEF MoveEnds, PoolTyped
<1> QED
  BY <1>1, <1>2, <1>3, <1>4, <1>5, <1>6, <1>7 DEF CommitOf

LEMMA PoolNextTyped ==
    ASSUME PoolTyped, [PoolNext]_poolVars
    PROVE  PoolTyped' /\ (~upset' => ~upset)
<1>1. ASSUME NEW t \in Movers, CallOf(t) \/ CommitOf(t) PROVE PoolTyped' /\ (~upset' => ~upset)
  BY <1>1, CallTyped, CommitTyped
<1>2. ASSUME NEW z \in MemberIds, DeleteMember(z) \/ AbandonMember(z) \/ ConfirmMember(z)
      PROVE  PoolTyped' /\ (~upset' => ~upset)
  BY <1>2, DeleteMemberFacts, GoneFacts
<1>3. ASSUME NEW p \in PoolNames, IncrementCatalog(p) PROVE PoolTyped' /\ (~upset' => ~upset)
  BY <1>3, IncrementFacts
<1>4. CASE UNCHANGED poolVars
  BY <1>4 DEF poolVars, PoolTyped
<1> QED
  BY <1>1, <1>2, <1>3, <1>4 DEF PoolNext

LEMMA PoolNextInv ==
    ASSUME PoolTyped, PoolsInv, [PoolNext]_poolVars
    PROVE  PoolsInv'
<1> SUFFICES ASSUME ~upset' PROVE PoolsInv'
  BY DEF PoolsInv
<1>1. ASSUME NEW t \in Movers, CallOf(t) PROVE PoolsInv'
  BY <1>1, CallInv
<1>2. ASSUME NEW t \in Movers, CommitOf(t) PROVE PoolsInv'
  <2>1. ASSUME NEW z \in MemberIds, CreateIn(t, z) PROVE PoolsInv'
    BY <2>1, CreateInv
  <2>2. CASE UpdatePool(t)
    BY <2>2, UpdatePoolInv
  <2>3. CASE UpdatePoolFails(t)
    BY <2>3, UpdatePoolFailsInv
  <2>4. CASE DeletePool(t)
    BY <2>4, DeletePoolInv
  <2>5. ASSUME NEW n \in Hostnames, MoveNs(t, n) PROVE PoolsInv'
    BY <2>5, MoveNsInv
  <2>6. CASE MoveToPool(t)
    BY <2>6, MoveToPoolInv
  <2>7. CASE MoveEnds(t)
    BY <2>7 DEF MoveEnds
  <2> QED
    BY <1>2, <2>1, <2>2, <2>3, <2>4, <2>5, <2>6, <2>7 DEF CommitOf
<1>3. ASSUME NEW z \in MemberIds, DeleteMember(z) \/ AbandonMember(z) \/ ConfirmMember(z)
      PROVE  PoolsInv'
  BY <1>3, MemberLeavesInv
<1>4. ASSUME NEW p \in PoolNames, IncrementCatalog(p) PROVE PoolsInv'
  BY <1>4, IncrementInv
<1>5. CASE UNCHANGED poolVars
  BY <1>5 DEF poolVars, PoolsInv, NoClash, CreatesInv, DeletesInv, UpdatesInv, UpdateOf,
              MovesInv,
              MoveOf, SettledInv, AsItsPool, BeingMoved, IsLive, StillThere, LiveZonesOf,
                    ZonesOf,
              ToldInv, CatalogIsTold
<1> QED
  BY <1>1, <1>2, <1>3, <1>4, <1>5 DEF PoolNext

LEMMA PoolsAlwaysTyped == PoolSpec => []PoolTyped
<1>1. PoolInit => PoolTyped
  BY PoolInitInv
<1>2. PoolTyped /\ [PoolNext]_poolVars => PoolTyped'
  BY PoolNextTyped
<1> QED
  BY <1>1, <1>2, PTL DEF PoolSpec

(* Pools, zones, catalogs and the calls under way are of their types.      *)
THEOREM PoolsAreTyped == PoolSpec => []PoolTypeOK
<1>1. PoolTyped => PoolTypeOK
  BY DEF PoolTyped, PoolTypeOK, PoolRecord, CatalogRecord, MemberRecord, ZoneRecord, NoMember
<1> QED
  BY <1>1, PoolsAlwaysTyped, PTL

LEMMA AlwaysPoolsInv == PoolSpec => [](PoolTyped /\ PoolsInv)
<1>1. PoolInit => PoolTyped /\ PoolsInv
  BY PoolInitInv
<1>2. (PoolTyped /\ PoolsInv) /\ [PoolNext]_poolVars => (PoolTyped /\ PoolsInv)'
  BY PoolNextTyped, PoolNextInv
<1> QED
  BY <1>1, <1>2, PTL DEF PoolSpec

(* Unless calls about pools upset each other, a zone that no call moves is *)
(* in a pool that exists and, if it is primary, has the NS records of it   *)
(* (central service.py, update_pool, delete_pool, pool_move_zone): for any *)
(* pools, nameservers, zones and calls at once.                            *)
THEOREM ZonesFollow == PoolSpec => []ZonesFollowTheirPool
<1>1. PoolTyped /\ PoolsInv => ZonesFollowTheirPool
  BY DEF PoolsInv, SettledInv, AsItsPool, IsLive, ZonesFollowTheirPool
<1> QED
  BY <1>1, AlwaysPoolsInv, PTL

(* Under the same condition, and once its serial is incremented, the       *)
(* catalog zone of a pool has the zones that were created in the pool and  *)
(* stayed, and none of these that is to be deleted (central service.py,    *)
(* _ensure_catalog_zone_serial_increment).                                 *)
THEOREM CatalogsAreTold == PoolSpec => []CatalogIsTold
<1>1. PoolTyped /\ PoolsInv => CatalogIsTold
  BY DEF PoolsInv, CatalogIsTold
<1> QED
  BY <1>1, AlwaysPoolsInv, PTL

-----------------------------------------------------------------------------
(* PoolScheduler.                                                          *)

\* The types, with a list of filters of any length.
SchedulerTyped ==
    /\ SchedulerTypeOK
    /\ scheduler_filters \in Seq(Filters) \ {<<>>}

\* The filters that have run.
Ran(filter) == \E n \in 1..turn : scheduler_filters[n] = filter

\* What the filters that have run say of a candidate.
RightlyLeft(p) ==
    \/ p = DefaultPool /\ (Ran("default_pool") \/ Ran("fallback"))
    \/ /\ read[p].there
       /\ Ran("attribute") =>
             read[p].attributes = {} \/ asked.attributes \subseteq read[p].attributes
       /\ steady /\ turn > 0 /\ scheduler_filters[1] = "pool_id_attribute" =>
             asked.pool_id \in {AnyPool, p}

\* The candidates are those that the filters so far have rightly left.
SchedulerInv ==
    turn >= 0 =>
        /\ \A p \in candidates : RightlyLeft(p)
        /\ turn = 0 => candidates = {p \in PoolRows : read[p].there}
        /\ steady => \A p \in PoolRows : offered[p] = read[p]

LEMMA LeftBy ==
    /\ Left("attribute") = {{p \in candidates : Suits(p)}}
    /\ Left("pool_id_attribute") = {Forced}
    /\ Left("default_pool") = {{DefaultPool}}
    /\ Left("in_doubt_default_pool") = {InDoubtDefault}
    /\ Left("fallback") = {IF candidates = {} THEN {DefaultPool} ELSE candidates}
    /\ Left("random") = IF candidates = {} THEN {{}} ELSE {{p} : p \in candidates}
  BY Zenon DEF Left

LEMMA ForcedIs ==
    ASSUME SchedulerTyped
    PROVE  /\ Forced \subseteq candidates
           /\ asked.pool_id # AnyPool /\ candidates = {p \in PoolRows : read[p].there}
              /\ (\A p \in PoolRows : offered[p] = read[p])
                    => Forced \subseteq {asked.pool_id}
  BY DEF Forced, StillCandidate, SchedulerTyped, SchedulerTypeOK, Requests

\* But for the default pool, a filter only takes candidates away.
LEMMA OnlyFewerLeft ==
    ASSUME SchedulerTyped, NEW filter \in Filters, NEW rest \in Left(filter)
    PROVE  \/ rest \subseteq candidates
           \/ rest = {DefaultPool} /\ filter \in {"default_pool", "fallback"}
<1>1. CASE filter = "attribute"
  BY <1>1, LeftBy
<1>2. CASE filter = "pool_id_attribute"
  BY <1>2, LeftBy, ForcedIs
<1>3. CASE filter = "default_pool"
  BY <1>3, LeftBy
<1>4. CASE filter = "in_doubt_default_pool"
  BY <1>4, LeftBy DEF InDoubtDefault, StillCandidate
<1>5. CASE filter = "fallback"
  BY <1>5, LeftBy
<1>6. CASE filter = "random"
  BY <1>6, LeftBy
<1> QED
  BY <1>1, <1>2, <1>3, <1>4, <1>5, <1>6 DEF Filters

LEMMA SchedulerNextTyped == SchedulerTyped /\ [SchedulerNext]_schedulerVars
      => SchedulerTyped'
<1> SUFFICES ASSUME SchedulerTyped, [SchedulerNext]_schedulerVars PROVE SchedulerTyped'
  OBVIOUS
<1> USE DEF SchedulerTyped, SchedulerTypeOK
<1>0. Len(scheduler_filters) \in Nat
  OBVIOUS
<1>1. ASSUME NEW request \in Requests, BeginSchedule(request) PROVE SchedulerTyped'
  BY <1>0, <1>1 DEF BeginSchedule, NotStarted
<1>2. ASSUME RunFilter PROVE SchedulerTyped'
  <2>1. scheduler_filters[turn + 1] \in Filters /\ turn' \in 0..Len(scheduler_filters)
    BY <1>0, <1>2 DEF RunFilter, Running, NotStarted
  <2>2. candidates' \subseteq PoolRows
    BY <1>2, <2>1, OnlyFewerLeft, SchedulerAssumption DEF RunFilter
  <2> QED
    BY <1>2, <2>1, <2>2 DEF RunFilter
<1>3. ASSUME NEW p \in PoolRows, NEW state \in PoolStates, ChangePool(p, state)
      PROVE  SchedulerTyped'
  <2>1. \A q \in PoolRows : offered'[q] \in PoolStates
    BY <1>3 DEF ChangePool
  <2> QED
    BY <1>3, <2>1 DEF ChangePool
<1>4. CASE UNCHANGED schedulerVars
  BY <1>4 DEF schedulerVars
<1> QED
  BY <1>1, <1>2, <1>3, <1>4 DEF SchedulerNext

LEMMA SchedulerInitTyped == SchedulerInit => SchedulerTyped
<1> SUFFICES ASSUME SchedulerInit PROVE SchedulerTyped
  OBVIOUS
<1>1. scheduler_filters \in Seq(Filters) \ {<<>>}
  BY SchedulerAssumption DEF SchedulerInit
<1>2. \A p \in PoolRows : offered[p] \in PoolStates
  BY DEF SchedulerInit, PoolStates
<1>3. asked \in Requests
  BY DEF SchedulerInit, NotAsked, Requests
<1> QED
  BY <1>1, <1>2, <1>3 DEF SchedulerInit, SchedulerTyped, SchedulerTypeOK

\* What a filter says of a candidate that it leaves.
LEMMA RunFilterInv ==
    ASSUME SchedulerTyped, SchedulerInv, RunFilter
    PROVE  SchedulerInv'
<1> DEFINE filter == scheduler_filters[turn + 1]
<1>1. /\ turn \in Nat /\ turn' = turn + 1 /\ filter \in Filters
      /\ candidates' \in Left(filter)
      /\ UNCHANGED <<scheduler_filters, offered, asked, read, steady>>
  BY DEF RunFilter, Running, SchedulerTyped, SchedulerTypeOK, NotStarted
<1>2. \A f : Ran(f)' <=> Ran(f) \/ f = filter
  BY <1>1 DEF Ran
<1>3. ASSUME NEW p \in candidates', p \notin candidates PROVE RightlyLeft(p)'
  BY <1>1, <1>2, <1>3, OnlyFewerLeft DEF RightlyLeft
<1>4. ASSUME NEW p \in candidates', p \in candidates PROVE RightlyLeft(p)'
  <2>1. RightlyLeft(p)
    BY <1>1, <1>4 DEF SchedulerInv
  <2>2. CASE p = DefaultPool /\ (Ran("default_pool") \/ Ran("fallback"))
    BY <1>2, <2>2 DEF RightlyLeft
  <2>3. CASE read[p].there /\ ~(p = DefaultPool /\ (Ran("default_pool") \/ Ran("fallback")))
    <3>1. filter = "attribute" => Suits(p)
      BY <1>1, <1>4, LeftBy
    <3>2. Ran("attribute")' =>
             read[p].attributes = {} \/ asked.attributes \subseteq read[p].attributes
      BY <1>2, <2>1, <2>3, <3>1 DEF RightlyLeft, Suits
    <3>3. turn = 0 /\ steady /\ filter = "pool_id_attribute"
          => asked.pool_id \in {AnyPool, p}
      BY <1>1, <1>4, LeftBy, ForcedIs DEF SchedulerInv
    <3>4. steady /\ scheduler_filters[1] = "pool_id_attribute"
          => asked.pool_id \in {AnyPool, p}
      BY <1>1, <2>1, <2>3, <3>3 DEF RightlyLeft
    <3> QED
      BY <1>1, <2>3, <3>2, <3>4 DEF RightlyLeft
  <2> QED
    BY <2>1, <2>2, <2>3 DEF RightlyLeft
<1>5. \A p \in candidates' : RightlyLeft(p)'
  BY <1>3, <1>4
<1> QED
  BY <1>1, <1>5 DEF SchedulerInv

LEMMA SchedulerNextInv ==
    SchedulerTyped /\ SchedulerInv /\ [SchedulerNext]_schedulerVars => SchedulerInv'
<1> SUFFICES ASSUME SchedulerTyped, SchedulerInv, [SchedulerNext]_schedulerVars
             PROVE  SchedulerInv'
  OBVIOUS
<1>1. ASSUME NEW request \in Requests, BeginSchedule(request) PROVE SchedulerInv'
  <2>1. turn' = 0 /\ read' = offered /\ offered' = offered
        /\ candidates' = {p \in PoolRows : offered[p].there}
    BY <1>1 DEF BeginSchedule
  <2>2. \A f : ~Ran(f)'
    BY <2>1 DEF Ran
  <2> QED
    BY <2>1, <2>2 DEF SchedulerInv, RightlyLeft
<1>2. ASSUME NEW p \in PoolRows, NEW state \in PoolStates, ChangePool(p, state)
      PROVE  SchedulerInv'
  <2>1. ~steady' /\ UNCHANGED <<scheduler_filters, asked, candidates, turn, read>>
    BY <1>2 DEF ChangePool
  <2>2. \A f : Ran(f)' <=> Ran(f)
    BY <2>1 DEF Ran
  <2> QED
    BY <2>1, <2>2 DEF SchedulerInv, RightlyLeft
<1>3. CASE UNCHANGED schedulerVars
  BY <1>3 DEF schedulerVars, SchedulerInv, RightlyLeft, Ran
<1> QED
  BY <1>1, <1>2, <1>3, RunFilterInv DEF SchedulerNext

LEMMA SchedulerAlwaysTyped == SchedulerSpec => []SchedulerTyped
  BY SchedulerInitTyped, SchedulerNextTyped, PTL DEF SchedulerSpec

(* The candidates and the pool that was picked are pools, and the filters  *)
(* are those of the configuration (scheduler/base.py).                     *)
THEOREM SchedulerIsTyped == SchedulerSpec => []SchedulerTypeOK
<1>1. SchedulerTyped => SchedulerTypeOK
  BY DEF SchedulerTyped
<1> QED
  BY <1>1, SchedulerAlwaysTyped, PTL

(* The pool of a new zone was there when the filters started, and has the  *)
(* attributes asked for or none, unless it is the default pool that a      *)
(* filter brings in; a pool asked for by its id is not passed over as long *)
(* as no pool changes: for any list of filters, pools, attributes and      *)
(* requests.                                                               *)
THEOREM PlacedWhereAsked == SchedulerSpec => []PlacedAsAsked
<1>1. SchedulerInit => SchedulerInv
  BY DEF SchedulerInit, SchedulerInv, NotStarted
<1>2. SchedulerTyped /\ SchedulerInv => PlacedAsAsked
  <2> SUFFICES ASSUME SchedulerTyped, SchedulerInv, Done, NEW p \in candidates
               PROVE  \/ p = DefaultPool /\ BringsInDefault
                      \/ /\ read[p].there
                         /\ Uses("attribute") =>
                               \/ read[p].attributes = {}
                               \/ asked.attributes \subseteq read[p].attributes
                         /\ steady /\ scheduler_filters[1] = "pool_id_attribute" =>
                               asked.pool_id \in {AnyPool, p}
    BY DEF PlacedAsAsked
  <2>1. turn = Len(scheduler_filters) /\ turn \in Nat /\ turn > 0
        /\ DOMAIN scheduler_filters = 1..turn
    BY DEF Done, SchedulerTyped
  <2>2. \A f : Ran(f) <=> Uses(f)
    BY <2>1 DEF Ran, Uses
  <2>3. RightlyLeft(p)
    BY <2>1 DEF SchedulerInv
  <2> QED
    BY <2>1, <2>2, <2>3 DEF RightlyLeft, BringsInDefault
<1> QED
  BY <1>1, <1>2, SchedulerAlwaysTyped, SchedulerNextInv, PTL DEF SchedulerSpec

-----------------------------------------------------------------------------
(* The parts together.                                                     *)

\* Each part is a behaviour of its own specification, whichever part moves.
LEMMA PoolsInParts == Spec => PoolSpec /\ SchedulerSpec
<1>1. Init => PoolInit /\ SchedulerInit
  BY DEF Init
<1>2. [Next]_allVars => [PoolNext]_poolVars
  BY DEF Next, Only, Moves, allVars
<1>3. [Next]_allVars => [SchedulerNext]_schedulerVars
  BY DEF Next, Only, Moves, allVars
<1> QED
  BY <1>1, <1>2, <1>3, PTL DEF Spec, PoolSpec, SchedulerSpec

(* Whatever the calls about pools do, the zones of a pool have its         *)
(* nameservers and its catalog zone tells of its members (PoolZones).      *)
THEOREM PoolsAreTheirs == PoolSpec => []PoolsAreFollowed
  BY ZonesFollow, CatalogsAreTold, PTL DEF PoolsAreFollowed

(* Whatever the calls of central do, in any order and number: the rows of  *)
(* the tree and the threads at work on it, shares, offers, recordsets,     *)
(* quotas, pools, candidates, rows, requests and pages are what the code   *)
(* makes of them; no usage falls below zero, a member that is gone has no  *)
(* pool, and no call is tried more often than its decorator allows.        *)
THEOREM CentralIsTyped == Spec => []CentralTypeOK
<1>1. OwnersTyped => OwnersTypeOK
  BY DEF OwnersTyped
<1>2. TreeTypeOK /\ QuotaTypeOK /\ PlacementTypeOK /\ PoolTypeOK /\ SchedulerTypeOK
      /\ StoreTypeOK /\ RequestsTypeOK /\ PagingTypeOK /\ (part = "owners" => OwnersTyped)
      => CentralTypeOK
  BY <1>1 DEF CentralTypeOK
<1> QED
  BY <1>2, ZonesInParts, OwnersInTheirPart, PoolsInParts, StorageInParts, TreeIsTyped,
     QuotasTyped, PlacementTyped, PoolsAreTyped, SchedulerIsTyped, StorageTyped,
     TransactionsTyped, PagingIsTyped, PTL

=============================================================================
