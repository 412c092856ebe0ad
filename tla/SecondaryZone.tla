---------------------------- MODULE SecondaryZone ----------------------------
(***************************************************************************)
(* A secondary zone, copied from its masters.  A master's NOTIFY, the      *)
(* producer's refresh, and a change of the masters make a job, which       *)
(* transfers the zone from some master and stores it.  A stored copy waits *)
(* for the recovery to be announced to the pool's nameservers.  What a     *)
(* master serves is known by its serial.  Deletion is in ZoneLifecycle.    *)
(***************************************************************************)
EXTENDS Integers, FiniteSets

CONSTANTS
    Masters,
    FirstSerial,    \* of the zone, when it is created
    LastSerial,     \* bound of the masters' serials
    FutureSerials,  \* above the time in seconds, as serials made of a date are
    MaxXfrMishaps,  \* messages and transfers that fail, masters that fall back, PATCHes
    MaxJobs         \* bound of the jobs under way

ASSUME SecondaryAssumption ==
    /\ IsFiniteSet(Masters) /\ Masters # {}
    /\ LastSerial \in Nat \ {0} /\ FirstSerial \in 0..LastSerial
    /\ MaxXfrMishaps \in Nat /\ MaxJobs \in Nat \ {0}

VARIABLES
    master,         \* the serial of each master
    copy,           \* the zone in the database
    masters,        \* its masters, as configured
    notifies,       \* the NOTIFYs on their way, by master
    asking,         \* the NOTIFY handler and the refresh, waiting for a serial
    jobs,           \* of perform_zone_xfr
    served,         \* the serial of the pool's nameservers
    mishaps,
    fell            \* history: the serial of a master went down

secondaryVars ==
    <<master, copy, masters, notifies, asking, jobs, served, mishaps, fell>>

Serials == 0..LastSerial
NotAsking == [at |-> "idle"]

\* jobs is a set of numbered jobs: the same job may be under way twice.
JobIds == 1..MaxJobs
NoXfr == [at |-> "none"]
IsFree(j) == jobs[j] = NoXfr

\* perform_zone_xfr; without a bound on the jobs it always succeeds.
Schedule(servers) ==
    \E j \in JobIds :
        /\ IsFree(j) /\ \A i \in JobIds : i < j => ~IsFree(i)
        /\ jobs' = [jobs EXCEPT ![j] = [at |-> "queued", servers |-> servers]]

\* The later ones move up.
EndJob(j) ==
    jobs' = [i \in JobIds |-> IF i < j THEN jobs[i]
                             ELSE IF i < MaxJobs THEN jobs[i + 1] ELSE NoXfr]

XfrMishap == mishaps < MaxXfrMishaps /\ mishaps' = mishaps + 1

-----------------------------------------------------------------------------
(* The masters.                                                            *)

Newest == CHOOSE s \in Serials : (\E m \in masters : master[m] = s)
                              /\ \A m \in masters : master[m] <= s

\* One master changes the zone; the others follow.
Publish(m) ==
    /\ master[m] < LastSerial
    /\ master' = [master EXCEPT ![m] = @ + 1]
    /\ notifies' = notifies \union {m}
    /\ UNCHANGED <<copy, masters, asking, jobs, served, mishaps, fell>>

Follow(m) ==
    /\ \E n \in Masters : master[n] > master[m]
    /\ \E n \in Masters : master[n] > master[m] /\ master' = [master EXCEPT ![m] = master[n]]
    /\ notifies' = notifies \union {m}
    /\ UNCHANGED <<copy, masters, asking, jobs, served, mishaps, fell>>

\* The serials of all masters are reset, or wrap around.
FallBack ==
    /\ XfrMishap
    /\ \E m \in Masters : master[m] > 1
    /\ master' = [m \in Masters |-> 1]
    /\ fell' = TRUE
    /\ UNCHANGED <<copy, masters, notifies, asking, jobs, served>>

LoseNotify(m) ==
    /\ m \in notifies
    /\ notifies' = notifies \ {m}
    /\ XfrMishap
    /\ UNCHANGED <<master, copy, masters, asking, jobs, served, fell>>

-----------------------------------------------------------------------------
(* NOTIFY and refresh: the zone is read, a master is asked for its serial, *)
(* and the answer is compared with what was read.                          *)

Ask(who, m) ==
    /\ asking[who] = NotAsking
    /\ asking' = [asking EXCEPT ![who] = [at |-> "asking", of |-> m, seen |-> copy.serial]]

\* _handle_notify: refused unless it comes from a master of the zone.
TakeNotify(m) ==
    /\ m \in notifies
    /\ notifies' = notifies \ {m}
    /\ IF m \in masters THEN Ask("notify", m) ELSE UNCHANGED asking
    /\ UNCHANGED <<master, copy, masters, jobs, served, mishaps, fell>>

\* The refresh leaves out a zone that has not been transferred.
StartRefresh(m) ==
    /\ copy.transferred
    /\ m \in masters
    /\ Ask("refresh", m)
    /\ UNCHANGED <<master, copy, masters, notifies, jobs, served, mishaps, fell>>

\* A NOTIFY asks for any other serial, from its sender; the refresh for a larger
\* one, from any master.
Due(who, serial, seen) == IF who = "notify" THEN serial # seen ELSE serial > seen

Answer(who) ==
    LET ask == asking[who]
    IN  /\ ask.at = "asking"
        /\ asking' = [asking EXCEPT ![who] = NotAsking]
        /\ IF Due(who, master[ask.of], ask.seen)
           THEN Schedule(IF who = "notify" THEN {ask.of} ELSE masters)
           ELSE UNCHANGED jobs
        /\ UNCHANGED <<master, copy, masters, notifies, served, mishaps, fell>>

\* No answer, or an error.
NoAnswer(who) ==
    /\ asking[who].at = "asking"
    /\ asking' = [asking EXCEPT ![who] = NotAsking]
    /\ XfrMishap
    /\ UNCHANGED <<master, copy, masters, notifies, jobs, served, fell>>

-----------------------------------------------------------------------------
(* ZoneXfr                                                                 *)

\* do_axfr: from any of the servers, in any order.
Transfer(j) ==
    /\ jobs[j].at = "queued"
    /\ \E m \in jobs[j].servers :
          jobs' = [jobs EXCEPT ![j] = [at |-> "transferred", serial |-> master[m]]]
    /\ UNCHANGED <<master, copy, masters, notifies, asking, served, mishaps, fell>>

\* The job is lost, the transfer fails with all servers, or the update does.
LoseJob(j) ==
    /\ ~IsFree(j)
    /\ EndJob(j)
    /\ XfrMishap
    /\ UNCHANGED <<master, copy, masters, notifies, asking, served, fell>>

\* The status of the zone stays what it was.
StoreQuietly(j) ==
    /\ jobs[j].at = "transferred"
    /\ copy' = [copy EXCEPT !.serial = jobs[j].serial, !.transferred = TRUE]
    /\ EndJob(j)
    /\ UNCHANGED <<master, masters, notifies, asking, served, mishaps, fell>>

\* update_zone: whatever the serial is by now.
Store(j) ==
    /\ jobs[j].at = "transferred"
    /\ copy' = [serial |-> jobs[j].serial, transferred |-> TRUE, status |-> "PENDING"]
    /\ EndJob(j)
    /\ UNCHANGED <<master, masters, notifies, asking, served, mishaps, fell>>

\* patch_one of the zone and update_zone: what is copied stays, and so does the time
\* of the transfer, whatever the masters are now; they are asked for a copy.
ChangeMasters(set) ==
    /\ XfrMishap
    /\ masters' = set
    /\ copy' = [copy EXCEPT !.status = "PENDING"]
    /\ Schedule(set)
    /\ UNCHANGED <<master, notifies, asking, served, fell>>

\* A PATCH of the attributes resets the time instead, and asks for no copy.
ChangeAttributes ==
    /\ XfrMishap
    /\ copy' = [copy EXCEPT !.transferred = FALSE, !.status = "PENDING"]
    /\ UNCHANGED <<master, masters, notifies, asking, jobs, served, fell>>

-----------------------------------------------------------------------------

\* RecoverShard, the update on the targets, and the poll that follows it.
Announce ==
    /\ copy.status = "PENDING"
    /\ copy.serial \notin FutureSerials
    /\ served' = copy.serial
    /\ copy' = [copy EXCEPT !.status = "ACTIVE"]
    /\ UNCHANGED <<master, masters, notifies, asking, jobs, mishaps, fell>>

SecondaryInit ==
    /\ master = [m \in Masters |-> 1]
    /\ copy = [serial |-> FirstSerial, transferred |-> FALSE, status |-> "PENDING"]
    /\ masters = Masters
    /\ notifies = {}
    /\ asking = [who \in {"notify", "refresh"} |-> NotAsking]
    /\ jobs = [j \in JobIds |-> IF j = 1 THEN [at |-> "queued", servers |-> Masters] ELSE NoXfr]
    /\ served = 0
    /\ mishaps = 0
    /\ fell = FALSE

Asking == \E who \in {"notify", "refresh"} : Answer(who)

Refreshing == \E m \in Masters : StartRefresh(m)

Working == \E j \in JobIds : Transfer(j) \/ Store(j)

SecondaryNext ==
    \/ \E m \in Masters : Publish(m) \/ Follow(m) \/ LoseNotify(m) \/ TakeNotify(m)
    \/ FallBack
    \/ \E who \in {"notify", "refresh"} : NoAnswer(who)
    \/ \E j \in JobIds : LoseJob(j)
    \/ ChangeAttributes \/ \E set \in (SUBSET Masters) \ {{}} : ChangeMasters(set)
    \/ Asking \/ Refreshing \/ Working \/ Announce

\* The refresh and the recovery are periodic; what they and a worker have begun
\* goes on, and the masters come to agree.
SecondaryFairness ==
    /\ WF_secondaryVars(Answer("notify"))
    /\ WF_secondaryVars(Refreshing \/ Answer("refresh"))
    /\ \A j \in JobIds : WF_secondaryVars(Transfer(j) \/ Store(j))
    /\ WF_secondaryVars(Announce)
    /\ \A m \in Masters : WF_secondaryVars(Follow(m))

SecondarySpec == SecondaryInit /\ [][SecondaryNext]_secondaryVars /\ SecondaryFairness

-----------------------------------------------------------------------------

SecondaryTypeOK ==
    /\ master \in [Masters -> Serials]
    /\ copy \in [serial : Serials, transferred : BOOLEAN, status : {"PENDING", "ACTIVE"}]
    /\ masters \in (SUBSET Masters) \ {{}}
    /\ served \in Serials

(* Once a zone has been transferred, and whatever NOTIFYs, jobs and        *)
(* answers are lost, late or out of order, it comes to have the serial     *)
(* its masters end with, and then the nameservers of its pool have it too; *)
(* but not when a serial went down, which the refresh takes for an old     *)
(* one, nor, as to the nameservers, when the serial is one that the        *)
(* recovery takes for recent for ever.                                     *)
SecondaryCatchesUp ==
    <>[](copy.transferred /\ ~fell =>
            /\ copy.serial = Newest
            /\ copy.serial \notin FutureSerials => served = copy.serial)

=============================================================================
