---------------------------- MODULE PoolScheduler ----------------------------
(***************************************************************************)
(* How a pool is picked for a new zone: the pools are read, each of the    *)
(* configured filters makes its choice among those left, and exactly one   *)
(* must remain.  Pools come and go meanwhile.                              *)
(***************************************************************************)
EXTENDS Integers, Sequences, FiniteSets

CONSTANTS
    PoolRows,
    DefaultPool,    \* default_pool_id
    Attributes,     \* keys with their values
    FilterChains,   \* what scheduler_filters may be
    MaxPoolChanges

Filters == {"attribute", "pool_id_attribute", "default_pool", "in_doubt_default_pool",
            "fallback", "random"}

ASSUME SchedulerAssumption ==
    /\ DefaultPool \in PoolRows
    /\ FilterChains \subseteq Seq(Filters) \ {<<>>}
    /\ MaxPoolChanges \in Nat

VARIABLES
    scheduler_filters,  \* never changes
    offered,            \* the attributes of each pool, or that it is not there
    asked,              \* what the attributes of the zone ask for
    candidates,
    turn,               \* how many filters have run
    poolChanges,
    read,               \* the pools as they were read
    steady              \* history: no pool has changed since

schedulerVars ==
    <<scheduler_filters, offered, asked, candidates, turn, poolChanges, read,
      steady>>

NoPool == [there |-> FALSE, attributes |-> {}]
PoolWith(attributes) == [there |-> TRUE, attributes |-> attributes]

\* A zone may ask for attributes, and for a pool by its id.
AnyPool == "any"
Requests == [attributes : SUBSET Attributes, pool_id : PoolRows \union {AnyPool}]
NotAsked == [attributes |-> {}, pool_id |-> AnyPool]

NotStarted == 0 - 1
Running == turn \in 0..(Len(scheduler_filters) - 1)
Done == turn = Len(scheduler_filters)

-----------------------------------------------------------------------------
(* The filters.                                                            *)

\* One of the attributes is enough.
SuitsInPart(p) ==
    \/ read[p].attributes = {}
    \/ asked.pool_id = AnyPool /\ (asked.attributes = {} \/ asked.attributes \intersect read[p].attributes # {})

\* AttributeFilter: a pool without attributes takes anything; pool_id counts as
\* an attribute of the zone, but never as one of a pool.
Suits(p) ==
    \/ read[p].attributes = {}
    \/ asked.pool_id = AnyPool /\ asked.attributes \subseteq read[p].attributes

\* Is pool p, as it is now, one of the candidates?
StillCandidate(p) == p \in candidates /\ offered[p] = read[p]

\* PoolIDAttributeFilter, of a user who may: a pool already removed stays so.
Forced ==
    LET p == asked.pool_id
    IN  IF p = AnyPool THEN candidates
        ELSE IF ~offered[p].there THEN {}
        ELSE IF StillCandidate(p) THEN {p} ELSE candidates

InDoubtDefault ==
    IF Cardinality(candidates) > 1 /\ StillCandidate(DefaultPool)
    THEN {DefaultPool} ELSE candidates

\* What the filter may leave of the candidates.
Left(filter) ==
    CASE filter = "attribute" -> {{p \in candidates : Suits(p)}}
      [] filter = "pool_id_attribute" -> {Forced}
      [] filter = "default_pool" -> {{DefaultPool}}
      [] filter = "in_doubt_default_pool" -> {InDoubtDefault}
      [] filter = "fallback" -> {IF candidates = {} THEN {DefaultPool} ELSE candidates}
      [] filter = "random" ->
            IF candidates = {} THEN {{}} ELSE {{p} : p \in candidates}

-----------------------------------------------------------------------------

\* schedule_zone
BeginSchedule(request) ==
    /\ turn = NotStarted
    /\ turn' = 0
    /\ asked' = request
    /\ read' = offered
    /\ steady' = TRUE
    /\ candidates' = {p \in PoolRows : offered[p].there}
    /\ UNCHANGED <<scheduler_filters, offered, poolChanges>>

RunFilter ==
    /\ Running
    /\ candidates' \in Left(scheduler_filters[turn + 1])
    /\ turn' = turn + 1
    /\ UNCHANGED <<scheduler_filters, offered, asked, poolChanges, read, steady>>

ChangePool(p, state) ==
    /\ poolChanges < MaxPoolChanges
    /\ poolChanges' = poolChanges + 1
    /\ offered' = [offered EXCEPT ![p] = state]
    /\ steady' = FALSE
    /\ UNCHANGED <<scheduler_filters, asked, candidates, turn, read>>

SchedulerInit ==
    /\ scheduler_filters \in FilterChains
    /\ offered = [p \in PoolRows |-> IF p = DefaultPool THEN PoolWith({}) ELSE NoPool]
    /\ asked = NotAsked
    /\ candidates = {}
    /\ turn = NotStarted
    /\ poolChanges = 0
    /\ read = offered
    /\ steady = TRUE

PoolStates == {NoPool} \union {PoolWith(attributes) : attributes \in SUBSET Attributes}

SchedulerNext ==
    \/ \E request \in Requests : BeginSchedule(request)
    \/ RunFilter
    \/ \E p \in PoolRows, state \in PoolStates : ChangePool(p, state)

SchedulerSpec == SchedulerInit /\ [][SchedulerNext]_schedulerVars

-----------------------------------------------------------------------------

SchedulerTypeOK ==
    /\ \A p \in PoolRows : offered[p] \in PoolStates /\ read[p] \in PoolStates
    /\ asked \in Requests
    /\ candidates \subseteq PoolRows
    /\ turn \in {NotStarted} \union (0..Len(scheduler_filters))

Uses(filter) == \E n \in DOMAIN scheduler_filters : scheduler_filters[n] = filter

\* The filters that may bring in a pool that no other has left.
BringsInDefault == Uses("default_pool") \/ Uses("fallback")

(* The one pool that is left when all filters have run was there when they *)
(* started, unless it is the default pool and a filter brings it in; where *)
(* attributes are looked at, it has all that are asked for, or none at     *)
(* all; and as long as no pool changes, a pool asked for by its id is not  *)
(* passed over by the filter that looks at it when it comes first.         *)
PlacedAsAsked ==
    Done /\ Cardinality(candidates) = 1 =>
        \A p \in candidates : (p = DefaultPool /\ BringsInDefault) \/
            /\ read[p].there
            /\ Uses("attribute") =>
                  read[p].attributes = {} \/ asked.attributes \subseteq read[p].attributes
            /\ steady /\ scheduler_filters[1] = "pool_id_attribute" =>
                  asked.pool_id \in {AnyPool, p}

=============================================================================
