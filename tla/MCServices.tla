------------------------------ MODULE MCServices ------------------------------
(***************************************************************************)
(* The services and protocols around the zones that share no state with    *)
(* each other in the models, each on a small instance.  A behaviour is one *)
(* of one part.  The others rest in a state in which nothing is left to do *)
(* for them, so that their fairness asks for nothing.  Of the secondary    *)
(* zone nothing is claimed once a serial of its masters went down, and a   *)
(* behaviour ends where one does.                                          *)
(***************************************************************************)
EXTENDS
    SecondaryZone, ServiceStatus, Backends, WorkerPools, FloatingIps, SinkEvents,
    ZoneTasks, MdnsTransfers, DnsServer

CONSTANTS i1, i2     \* instances

VARIABLE part       \* the part that moves; never changes

Parts == {"secondary", "status", "backend", "pools", "fip", "sink", "tasks", "axfr", "dns"}

\* One client may send two queries, the other keeps silent.
MCMaxBytes == [one |-> 6, two |-> 0]

SecondaryAtRest ==
    /\ master = [m \in Masters |-> 1]
    /\ copy = [serial |-> FirstSerial, transferred |-> FALSE, status |-> "ACTIVE"]
    /\ masters = Masters
    /\ notifies = {} /\ asking = [who \in {"notify", "refresh"} |-> NotAsking]
    /\ jobs = [j \in JobIds |-> NoXfr]
    /\ served = 0 /\ mishaps = 0 /\ fell = FALSE

StatusAtRest ==
    /\ running = FALSE /\ row = NoStatus
    /\ update = [who \in Updaters |-> NoUpdate] /\ cleaner = NoUpdate
    /\ starts = 0 /\ losses = 0

BackendsAtRest ==
    /\ backend = "bind9" /\ remote = "serving" /\ want = "CREATE"
    /\ job = [j \in 1..2 |-> NoJob]
    /\ report = "SUCCESS" /\ failures = 0 /\ crossed = FALSE

\* The instances have one name or two; a user may have taken the first one.
NamedOnce == hostname[i1] = "n" /\ ~rrset["m"].there

Init ==
    /\ part \in Parts
    /\ IF part = "secondary" THEN SecondaryInit ELSE SecondaryAtRest
    /\ IF part = "status" THEN StatusInit ELSE StatusAtRest
    /\ IF part = "backend" THEN BackendsInit ELSE BackendsAtRest
    /\ PoolsInit /\ (part # "pools" => \A p \in Pools : targets[p] = 1)
    /\ FipInit /\ (part # "fip" => holder = CHOOSE t \in Holders : TRUE)
    /\ SinkInit /\ NamedOnce
    /\ (part # "sink" => hostname[i2] = "n" /\ ~rrset["n"].there)
    /\ ZoneTasksInit
    /\ TransfersInit
    /\ DnsInit

Moves(moving, vars) == IF moving THEN TRUE ELSE UNCHANGED vars

\* Only the variables of part p may change.
Only(p) ==
    /\ part = p /\ UNCHANGED part
    /\ Moves(p = "secondary", secondaryVars) /\ Moves(p = "status", statusVars)
    /\ Moves(p = "backend", backendVars) /\ Moves(p = "pools", poolVars)
    /\ Moves(p = "fip", fipVars) /\ Moves(p = "sink", sinkVars)
    /\ Moves(p = "tasks", taskVars)
    /\ Moves(p = "axfr", transferVars) /\ Moves(p = "dns", dnsVars)

\* A second mishap is a change of the masters to other ones, or follows one.
SecondIsOfMasters == mishaps' > 1 => masters' # Masters

Next ==
    \/ Only("secondary") /\ SecondaryNext /\ ~fell /\ SecondIsOfMasters
    \/ Only("status") /\ StatusNext
    \/ Only("backend") /\ BackendsNext
    \/ Only("pools") /\ PoolsNext
    \/ Only("fip") /\ FipNext
    \/ Only("sink") /\ SinkNext
    \/ Only("tasks") /\ ZoneTasksNext
    \/ Only("axfr") /\ TransfersNext
    \/ Only("dns") /\ DnsNext

allVars ==
    <<part, secondaryVars, statusVars, backendVars, poolVars, fipVars, sinkVars, taskVars,
      transferVars, dnsVars>>

Spec ==
    /\ Init /\ [][Next]_allVars
    /\ SecondaryFairness /\ StatusFairness /\ BackendsFairness /\ PoolsFairness
    /\ FipFairness /\ SinkFairness /\ ZoneTasksFairness
    /\ TransfersFairness /\ DnsFairness

(* Each part is of its type.                                               *)
ServicesTypeOK ==
    /\ SecondaryTypeOK /\ StatusTypeOK /\ BackendsTypeOK /\ PoolsTypeOK
    /\ FipTypeOK /\ SinkTypeOK /\ ZoneTasksTypeOK
    /\ TransfersTypeOK /\ DnsTypeOK

(* What the services and the work say of the world holds when they say it: *)
(* a service is DOWN, a zone is created or deleted, an import is the       *)
(* origin of a zone.                                                       *)
WhatIsSaidHolds == DownMeansNoBeat /\ SuccessIsTrue /\ OriginsDiffer

(* mDNS gives what it was asked for, whole: every query that came whole is *)
(* handled, and a nameserver with the serial of a zone has all of it.      *)
AnswersAreWhole == SerialsAreWhole /\ QueriesAreHandled

(* The periodic tasks put right what calls and messages that were lost     *)
(* have left: the copies of secondary zones, and the list of services.     *)
PeriodicTasksSettle == SecondaryCatchesUp /\ StatusSettles


(* mDNS answers whoever asks in time, and with a zone that is whole.       *)
MdnsServes == DnsIsServed /\ TransfersAreWhole

(* The records that central keeps for the resources of other services are  *)
(* those of their holders in the end: the PTR record of a floating IP, and *)
(* the records that sink makes for instances.                              *)
ManagedRecordsFollow == StrangersGo /\ RecordsFollowInstances

=============================================================================
