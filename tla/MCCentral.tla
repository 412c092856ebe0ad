------------------------------ MODULE MCCentral ------------------------------
(***************************************************************************)
(* What central decides and what it does with its storage: zones (their    *)
(* tree, ZoneTree, who owns them, ZoneOwners, how many there may be,       *)
(* Quotas, which recordsets stand together, Placement), pools (PoolZones,  *)
(* PoolScheduler), and storage (the session that writes rows, Storage, the *)
(* wrappers of a call, Transactions, the pages of a list, Paging).  They   *)
(* share no state in the models; a behaviour is one of one part, and the   *)
(* others rest in an initial state.  The tree is checked on two instances: *)
(* one of three levels in one pool, where no zone is transferred, and the  *)
(* forest, of two levels in two pools.  A behaviour of the owners ends     *)
(* before two calls clash, since nothing is claimed of what comes after.   *)
(***************************************************************************)
EXTENDS
    ZoneTree, ZoneOwners, Quotas, Placement, PoolZones, PoolScheduler,
    Storage, Transactions, Paging, TLC

CONSTANTS tenant1, tenant2, pool1, pool2

VARIABLE part       \* the part that moves; never changes

Parts ==
    {"tree", "forest", "owners", "quota", "placement", "pools", "scheduler", "rows",
     "requests", "pages"}

Top == <<"x">>
Mid == <<"x", "y">>
Low == <<"x", "y", "z">>
MCNames == {Top, Mid, Low}
MCPlaces == {<<Top, pool1>>, <<Mid, pool1>>, <<Low, pool1>>, <<Mid, pool2>>}

CreatedAt(places) ==
    \A p \in Threads : Doing(p) = "create" => <<thread[p].name, thread[p].pool>> \in places

\* A bound: a zone that has offers has room for another recordset.
Roomy ==
    (\A r \in RecordSetIds : rrsets[r] # Nobody) => \A o \in OfferIds : offers[o] = NoOffer

Roles == {{"reader", "member"}, {"reader"}}
MCUsers == [project : {tenant1, tenant2}, roles : Roles, all_tenants : {FALSE}]

MCLimits == {0 - 1, 0, 2}

MCChains ==
    { <<"default_pool">>,
      <<"attribute", "in_doubt_default_pool">>,
      <<"pool_id_attribute", "attribute", "fallback">>,
      <<"attribute", "pool_id_attribute", "random">> }

Symmetry ==
    Permutations(Tenants) \union Permutations(Threads) \union Permutations(OfferIds)

\* The zone of ZoneOwners is not there in the other parts.
NoOwners ==
    /\ hosted = [state |-> "absent", owner |-> Nobody]
    /\ shares = {} /\ rrsets = <<>> /\ offers = <<>> /\ call = <<>> /\ clashed = FALSE

Init ==
    /\ part \in Parts
    /\ TreeInit
    /\ IF part = "owners" THEN OwnersInit ELSE NoOwners
    /\ QuotaInit /\ (part # "quota" => resource = "zones")
    /\ PlacementInit
    /\ PoolInit /\ (part # "pools" => \A p \in PoolNames : pool[p].ns = Hostnames)
    /\ SchedulerInit /\ (part # "scheduler" => scheduler_filters = <<"default_pool">>)
    /\ StoreInit /\ (part # "rows" => table = Owned)
    /\ RequestsInit
    /\ part # "requests" => plan = [r \in RequestIds |-> CHOOSE p \in Plans : TRUE]
    /\ PagingInit

Moves(moving, vars) == IF moving THEN TRUE ELSE UNCHANGED vars

\* Only the variables of part p may change.
Only(p) ==
    /\ part = p /\ UNCHANGED part
    /\ Moves(p \in {"tree", "forest"}, treeVars) /\ Moves(p = "owners", ownersVars)
    /\ Moves(p = "quota", quotaVars) /\ Moves(p = "placement", placementVars)
    /\ Moves(p = "pools", poolVars) /\ Moves(p = "scheduler", schedulerVars)
    /\ Moves(p = "rows", storeVars) /\ Moves(p = "requests", requestVars)
    /\ Moves(p = "pages", pagingVars)

Next ==
    \/ /\ Only("tree") /\ TreeNext /\ UNCHANGED transferred
       /\ CreatedAt({<<Top, pool1>>, <<Mid, pool1>>, <<Low, pool1>>})'
    \/ Only("forest") /\ TreeNext /\ CreatedAt({<<Top, pool1>>, <<Mid, pool2>>})'
    \/ Only("owners") /\ OwnersNext /\ ~clashed' /\ Roomy'
    \/ Only("quota") /\ QuotaNext
    \/ Only("placement") /\ PlacementNext
    \/ Only("pools") /\ PoolNext
    \/ Only("scheduler") /\ SchedulerNext
    \/ Only("rows") /\ StoreNext
    \/ Only("requests") /\ RequestsNext
    \/ Only("pages") /\ PagingNext

allVars ==
    <<part, treeVars, ownersVars, quotaVars, placementVars, poolVars, schedulerVars,
      storeVars, requestVars, pagingVars>>

Spec == Init /\ [][Next]_allVars

(* The part that moves is of its type: rows, threads, offers, calls and   *)
(* pages are what the code makes of them, no usage is counted below zero,  *)
(* and no call is tried more often than its decorator allows.              *)
CentralTypeOK ==
    /\ part \in {"tree", "forest"} => TreeTypeOK
    /\ part = "owners" => OwnersTypeOK
    /\ part = "quota" => QuotaTypeOK
    /\ part = "placement" => PlacementTypeOK
    /\ part = "pools" => PoolTypeOK
    /\ part = "scheduler" => SchedulerTypeOK
    /\ part = "rows" => StoreTypeOK
    /\ part = "requests" => RequestsTypeOK
    /\ part = "pages" => PagingTypeOK

(* What belongs to a pool follows it: its zones have its nameservers, and  *)
(* its catalog zone tells of its members.                                  *)
PoolsAreFollowed == ZonesFollowTheirPool /\ CatalogIsTold

=============================================================================
