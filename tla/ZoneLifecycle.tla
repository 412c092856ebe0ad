----------------------------- MODULE ZoneLifecycle -----------------------------
(***************************************************************************)
(* One zone of Designate from its creation to its removal: the row and the *)
(* records that designate-central writes, the periodic tasks of the        *)
(* designate-producer, the tasks of the designate-workers and the          *)
(* nameservers of the zone's pool.                                         *)
(*                                                                         *)
(* A request of central reads the zone in one step and commits in a later  *)
(* one; nothing keeps other writers of the same row out in between: the    *)
(* recordset calls take no zone lock, and update_status opens its          *)
(* transaction outside the lock, so that the lock is gone before the       *)
(* commit.  What is committed are the columns that were assigned.          *)
(***************************************************************************)
EXTENDS ZoneStatus, PollRules, FiniteSets

CONSTANTS
    Recs,           \* recordsets of the zone (with their one record each)
    Nameservers,    \* the pool's nameservers, each also a target of the pool
    Clients,        \* concurrent requests that change the zone or its records
    Jobs,           \* zone actions queued for or run by the workers
    Coordination,   \* a coordination backend is configured
    UpdateCreates,  \* the backend's update_zone creates a missing zone (bind9)
    MaxClock,       \* bound: seconds of the clock
    MaxChanges,     \* bound: requests of users
    MaxFaults       \* bound: lost messages, crashes, failing targets, timeouts

ASSUME LifecycleAssumption ==
    /\ Recs # {}
    /\ IsFiniteSet(Nameservers)
    /\ Nameservers # {}
    /\ Coordination \in BOOLEAN
    /\ UpdateCreates \in BOOLEAN
    /\ MaxClock \in Nat
    /\ MaxChanges \in Nat
    /\ MaxFaults \in Nat

VARIABLES
    clock,          \* timeutils.utcnow_ts(), the source of every serial
    zone,           \* the row of the zone
    recs,           \* the rows of its records
    requests,       \* what each client's request has read and wants to write
    serialTask,     \* producer: PeriodicIncrementSerialTask
    notifyTask,     \* producer: PeriodicGenerateDelayedNotifyTask
    jobs,           \* worker: messages, ZoneAction tasks and their reports
    hosts,          \* nameservers configured to serve the zone
    nsSerial,       \* the SOA serial each nameserver answers with, 0 for none
    changes,        \* how many requests were started
    faults,         \* how many faults happened
    deleteRequested \* history: delete_zone or abandon was called

central  == <<zone, recs, requests, changes, deleteRequested>>
producer == <<serialTask, notifyTask>>
dns      == <<hosts, nsSerial>>
vars     == <<central, producer, dns, clock, jobs, faults>>

-----------------------------------------------------------------------------
(* The rows.                                                               *)

Zone == [live : BOOLEAN, action : Action, status : Status, serial : Nat,
         increment_serial : BOOLEAN, delayed_notify : BOOLEAN]

Record == [live : BOOLEAN, action : Action, status : Status, serial : Nat]

NoRecord == [live |-> FALSE, action |-> "NONE", status |-> "DELETED",
             serial |-> 0]

\* DEFECT: the flag for the producer is forgotten.
UpdateZoneWithoutIncrement(z, incrementSerial, setDelayedNotify) ==
    [z EXCEPT !.action = "UPDATE",
              !.status = "PENDING",
              !.delayed_notify = @ \/ setDelayedNotify]

\* Central.Service._update_zone_in_storage
UpdateZoneInStorage(z, incrementSerial, setDelayedNotify) ==
    [z EXCEPT !.action = "UPDATE",
              !.status = "PENDING",
              !.increment_serial = @ \/ incrementSerial,
              !.delayed_notify = @ \/ setDelayedNotify]

\* The soft delete of storage._delete.
SoftDelete(z) ==
    [z EXCEPT !.live = FALSE, !.action = "NONE", !.status = "DELETED"]

-----------------------------------------------------------------------------
(* The messages and tasks of the workers.                                  *)

Effect == [zone : Assignment, recs : [Recs -> Assignment]]

NoEffect == [zone |-> Unassigned, recs |-> [r \in Recs |-> Unassigned]]

JobPc == {"idle", "queued", "poll", "report", "commit"}

\* The zone snapshot a message carries, the result to report, and the columns
\* that the transaction of update_status is about to commit.
Job == [pc : JobPc, action : Action, serial : Nat, status : Report,
        effect : Effect]

Idle == [pc |-> "idle", action |-> "NONE", serial |-> 0, status |-> "SUCCESS",
         effect |-> NoEffect]

\* WorkerAPI.create_zone, update_zone and delete_zone: a cast, taken up by any
\* worker, in any order.
Cast(action, serial) ==
    \E j \in Jobs :
        /\ jobs[j].pc = "idle"
        /\ jobs' = [jobs EXCEPT ![j] = [Idle EXCEPT !.pc = "queued",
                                                    !.action = action,
                                                    !.serial = serial]]

\* @lock.synchronized_zone.  With a coordination backend it excludes the other
\* processes of central.  delete_zone and update_zone hold the lock around their
\* transaction: they cannot write between the reads and the writes of an
\* update_status.  update_status and increment_zone_serial hold it inside theirs,
\* and commit when it is gone; the calls on recordsets do not take it at all.
ZoneUnlocked == Coordination => \A j \in Jobs : jobs[j].pc # "commit"

-----------------------------------------------------------------------------
(* Requests to central.                                                    *)

\* What the request of a client is about: a recordset, the zone itself, or an NS
\* record that update_pool adds to the zone or removes from it.
Kind == {"create", "update", "delete", "zone", "addns", "delns"}

RequestPc == {"idle", "checked"}

Request == [pc : RequestPc, kind : Kind, rec : Recs]

NoRequest == [pc |-> "idle", kind |-> "zone", rec |-> CHOOSE r \in Recs : TRUE]

\* Every request starts with reads and checks, outside of the transaction.
BeginRequest(c, kind, r) ==
    /\ requests[c].pc = "idle"
    /\ changes < MaxChanges
    /\ zone.live
    /\ requests' = [requests EXCEPT ![c] =
                       [pc |-> "checked", kind |-> kind, rec |-> r]]
    /\ changes' = changes + 1
    /\ UNCHANGED <<zone, recs, deleteRequested, producer, dns, clock, jobs,
                   faults>>

CreateRecordset(c, r) ==
    /\ zone.action # "DELETE"
    /\ BeginRequest(c, "create", r)

UpdateRecordset(c, r) ==
    /\ zone.action # "DELETE"
    /\ recs[r].live
    /\ BeginRequest(c, "update", r)

DeleteRecordset(c, r) ==
    /\ zone.action # "DELETE"
    /\ recs[r].live
    /\ BeginRequest(c, "delete", r)

\* The PATCH of a zone: the API refuses a deleting zone, central does not look.
UpdateZone(c) ==
    /\ zone.action # "DELETE"
    /\ BeginRequest(c, "zone", NoRequest.rec)

\* update_pool selects the zones that get a new nameserver by their action, and
\* those that lose one only by their pool.
AddNs(c, r) ==
    /\ zone.action # "DELETE"
    /\ recs[r].live
    /\ BeginRequest(c, "addns", r)

DeleteNs(c, r) ==
    /\ recs[r].live
    /\ BeginRequest(c, "delns", r)

\* The transaction: record and zone together, or, when a row it needs is gone
\* (ZoneNotFound, RecordSetNotFound) or already there, neither.
Transaction(c, possible, record, delayedNotify) ==
    /\ requests[c].pc = "checked"
    /\ requests' = [requests EXCEPT ![c] = NoRequest]
    /\ \/ /\ zone.live
          /\ possible
          /\ recs' = [recs EXCEPT ![requests[c].rec] = record]
          /\ zone' = UpdateZoneInStorage(zone, TRUE, delayedNotify)
       \/ /\ ~(zone.live /\ possible)
          /\ UNCHANGED <<zone, recs>>
    /\ UNCHANGED <<changes, deleteRequested, producer, dns, clock, jobs, faults>>

PendingRecord(action) ==
    [live |-> TRUE, action |-> action, status |-> "PENDING", serial |-> clock]

CreateRecordsetInStorage(c) ==
    /\ requests[c].kind = "create"
    /\ Transaction(c, ~recs[requests[c].rec].live, PendingRecord("CREATE"), FALSE)

UpdateRecordsetInStorage(c) ==
    /\ requests[c].kind \in {"update", "addns", "delns"}
    /\ Transaction(c, recs[requests[c].rec].live, PendingRecord("UPDATE"),
                   requests[c].kind # "update")

\* The record goes at once; that the zone must be sent out again is all that is
\* left of it.
DeleteRecordsetInStorage(c) ==
    /\ requests[c].kind = "delete"
    /\ Transaction(c, recs[requests[c].rec].live, NoRecord, FALSE)

CommitZone(c) ==
    /\ requests[c].kind = "zone"
    /\ ZoneUnlocked
    /\ Transaction(c, TRUE, recs[requests[c].rec], FALSE)

CommitRequest(c) ==
    \/ CreateRecordsetInStorage(c)
    \/ UpdateRecordsetInStorage(c)
    \/ DeleteRecordsetInStorage(c)
    \/ CommitZone(c)

\* A quota, a validation or a policy refuses the request, or central stops.
AbortRequest(c) ==
    /\ requests[c].pc = "checked"
    /\ requests' = [requests EXCEPT ![c] = NoRequest]
    /\ UNCHANGED <<zone, recs, changes, deleteRequested, producer, dns, clock,
                   jobs, faults>>

\* delete_zone.  The columns it writes do not depend on what it read, and the
\* message it casts carries the row as refetched after the write.
DeleteZone ==
    /\ zone.live
    /\ ZoneUnlocked
    /\ changes < MaxChanges
    /\ changes' = changes + 1
    /\ deleteRequested' = TRUE
    /\ zone' = [zone EXCEPT !.action = "DELETE", !.status = "PENDING"]
    /\ Cast("DELETE", zone.serial)
    /\ UNCHANGED <<recs, requests, producer, dns, clock, faults>>

\* delete_zone with the abandon flag: the row only, no nameserver is told.
AbandonZone ==
    /\ zone.live
    /\ ZoneUnlocked
    /\ changes < MaxChanges
    /\ changes' = changes + 1
    /\ deleteRequested' = TRUE
    /\ zone' = SoftDelete(zone)
    /\ UNCHANGED <<recs, requests, producer, dns, clock, jobs, faults>>

-----------------------------------------------------------------------------
(* The producer.  Its tasks work on the zones they have read.              *)

SerialPc == {"idle", "read", "incremented"}
NotifyPc == {"idle", "read", "cast"}

SerialTask == [pc : SerialPc, action : Action, serial : Nat,
               delayed_notify : BOOLEAN]
NotifyTask == [pc : NotifyPc, action : Action, serial : Nat]

NoSerialTask == [pc |-> "idle", action |-> "NONE", serial |-> 0,
                 delayed_notify |-> FALSE]
NoNotifyTask == [pc |-> "idle", action |-> "NONE", serial |-> 0]

\* A task that found the zone ACTIVE sends it as a pending UPDATE.
SentAction(action) == IF action = "NONE" THEN "UPDATE" ELSE action

ReadForIncrement ==
    /\ serialTask.pc = "idle"
    /\ zone.live
    /\ zone.increment_serial
    /\ zone.action # "DELETE"
    /\ serialTask' = [pc |-> "read", action |-> zone.action,
                      serial |-> zone.serial,
                      delayed_notify |-> zone.delayed_notify]
    /\ UNCHANGED <<central, notifyTask, dns, clock, jobs, faults>>

\* DEFECT: the row is written without a look at its deletion, as the UPDATE
\* statement of increment_serial does; _update_soa takes it back.
IncrementSerialUnchecked ==
    /\ serialTask.pc = "read"
    /\ zone' = [zone EXCEPT !.serial = clock, !.increment_serial = FALSE]
    /\ serialTask' = IF serialTask.delayed_notify
                     THEN NoSerialTask
                     ELSE [serialTask EXCEPT !.pc = "incremented"]
    /\ UNCHANGED <<recs, requests, changes, deleteRequested, notifyTask, dns,
                   clock, jobs, faults>>

\* Central's increment_zone_serial: one UPDATE statement on the live row.  The
\* new serial goes back to the producer as a number; the zone object that the
\* producer goes on with keeps the serial it was read with.
IncrementSerial ==
    /\ serialTask.pc = "read"
    /\ \/ /\ zone.live
          /\ zone' = [zone EXCEPT !.serial = clock, !.increment_serial = FALSE]
          /\ serialTask' = IF serialTask.delayed_notify
                           THEN NoSerialTask
                           ELSE [serialTask EXCEPT !.pc = "incremented"]
       \/ /\ ~zone.live
          /\ zone' = zone
          /\ serialTask' = NoSerialTask
    /\ UNCHANGED <<recs, requests, changes, deleteRequested, notifyTask, dns,
                   clock, jobs, faults>>

NotifyAfterIncrement ==
    /\ serialTask.pc = "incremented"
    /\ Cast(SentAction(serialTask.action), serialTask.serial)
    /\ serialTask' = NoSerialTask
    /\ UNCHANGED <<central, notifyTask, dns, clock, faults>>

ReadForNotify ==
    /\ notifyTask.pc = "idle"
    /\ zone.live
    /\ zone.delayed_notify
    /\ ~zone.increment_serial
    /\ zone.action # "DELETE"
    /\ notifyTask' = [pc |-> "read", action |-> zone.action,
                      serial |-> zone.serial]
    /\ UNCHANGED <<central, serialTask, dns, clock, jobs, faults>>

DelayedNotify ==
    /\ notifyTask.pc = "read"
    /\ Cast(SentAction(notifyTask.action), notifyTask.serial)
    /\ notifyTask' = [notifyTask EXCEPT !.pc = "cast"]
    /\ UNCHANGED <<central, serialTask, dns, clock, faults>>

\* DEFECT: the whole snapshot is written back, its serial included.
ResetDelayedNotifyWholeRow ==
    /\ notifyTask.pc = "cast"
    /\ ZoneUnlocked
    /\ notifyTask' = NoNotifyTask
    /\ zone' = IF zone.live
               THEN [UpdateZoneInStorage(zone, TRUE, FALSE)
                        EXCEPT !.delayed_notify = FALSE,
                               !.serial = notifyTask.serial]
               ELSE zone
    /\ UNCHANGED <<recs, requests, changes, deleteRequested, serialTask, dns,
                   clock, jobs, faults>>

\* zone.delayed_notify = False, then central's update_zone of that zone.
ResetDelayedNotify ==
    /\ notifyTask.pc = "cast"
    /\ ZoneUnlocked
    /\ notifyTask' = NoNotifyTask
    /\ zone' = IF zone.live
               THEN [UpdateZoneInStorage(zone, TRUE, FALSE)
                        EXCEPT !.delayed_notify = FALSE]
               ELSE zone
    /\ UNCHANGED <<recs, requests, changes, deleteRequested, serialTask, dns,
                   clock, jobs, faults>>

\* The producer stops between two calls of a task.
ProducerCrash ==
    /\ serialTask # NoSerialTask \/ notifyTask # NoNotifyTask
    /\ faults < MaxFaults
    /\ faults' = faults + 1
    /\ serialTask' = NoSerialTask
    /\ notifyTask' = NoNotifyTask
    /\ UNCHANGED <<central, dns, clock, jobs>>

-----------------------------------------------------------------------------
(* The workers.                                                            *)

\* DEFECT: only zones in ERROR are recovered.
RecoverShardErrorsOnly ==
    /\ zone.live
    /\ zone.status = "ERROR"
    /\ zone.action \in {"CREATE", "UPDATE", "DELETE"}
    /\ Cast(zone.action, zone.serial)
    /\ UNCHANGED <<central, producer, dns, clock, faults>>

\* RecoverShard, on the WorkerPeriodicRecovery of the producer: zones in ERROR
\* and zones PENDING for longer than a change should take.  How long that is
\* depends on the configuration; here it may be at any time.
RecoverShard ==
    /\ zone.live
    /\ zone.status \in {"ERROR", "PENDING"}
    /\ zone.action \in {"CREATE", "UPDATE", "DELETE"}
    /\ Cast(zone.action, zone.serial)
    /\ UNCHANGED <<central, producer, dns, clock, faults>>

\* ZoneActor: the action on every target of the pool.  "done" are the targets
\* that report success; a target may carry the action out and still fail (its
\* NOTIFY times out).  The backend's update_zone and the NOTIFY that follows
\* leave a server alone that does not have the zone, unless UpdateCreates.
ActOnTargets(j) ==
    \E done, reached \in SUBSET Nameservers :
        /\ jobs[j].pc = "queued"
        /\ done \subseteq reached
        /\ IF done = Nameservers
           THEN faults' = faults
           ELSE faults < MaxFaults /\ faults' = faults + 1
        /\ hosts' = CASE jobs[j].action = "DELETE" -> hosts \ reached
                      [] jobs[j].action = "CREATE" -> hosts \union reached
                      [] OTHER -> IF UpdateCreates THEN hosts \union reached
                                                   ELSE hosts
        /\ nsSerial' = [n \in Nameservers |->
                           IF jobs[j].action = "DELETE" /\ n \in reached
                           THEN 0 ELSE nsSerial[n]]
        /\ IF CompareThreshold(Cardinality(done), Cardinality(Nameservers))
           THEN jobs' = [jobs EXCEPT
                           ![j].pc = "poll",
                           ![j].serial = IF jobs[j].action = "DELETE"
                                         THEN 0 ELSE @]
           ELSE jobs' = [jobs EXCEPT ![j].pc = "report", ![j].status = "ERROR"]
        /\ UNCHANGED <<central, producer, clock>>

\* DEFECT: the highest of the serials is reported.
ConsensusSerialsHighest(action, answers, positive) ==
    IF action = "DELETE" \/ positive = {}
    THEN {0}
    ELSE {answers[n] : n \in {p \in positive :
                                \A q \in positive : answers[p] >= answers[q]}}

\* The consensus serial of parse_query_results: the lowest serial that counts.
ConsensusSerials(action, answers, positive) ==
    IF action = "DELETE" \/ positive = {}
    THEN {0}
    ELSE {answers[n] : n \in {p \in positive :
                                \A q \in positive : answers[p] <= answers[q]}}

\* ZonePoller: the last of its polls.  It stops at the first poll that meets
\* the threshold, and otherwise when its retries are used up or the zone's
\* action has changed meanwhile, which here may be at any time.
PollNameservers(j) ==
    \E answered \in SUBSET Nameservers :
        LET action   == jobs[j].action
            serial   == jobs[j].serial
            answers  == [n \in Nameservers |->
                            IF n \in answered THEN nsSerial[n] ELSE NoAnswer]
            positive == {n \in Nameservers :
                            CountsPositive(action, serial, answers[n])}
            noZone   == {n \in Nameservers :
                            CountsNoZone(action, serial, answers[n])}
            verdict  == ThresholdMet(action, Cardinality(positive),
                                     Cardinality(noZone),
                                     Cardinality(Nameservers))
        IN  /\ jobs[j].pc = "poll"
            /\ IF answered = Nameservers
               THEN faults' = faults
               ELSE faults < MaxFaults /\ faults' = faults + 1
            /\ \E consensus \in ConsensusSerials(action, answers, positive) :
                 jobs' = [jobs EXCEPT
                    ![j].pc = "report",
                    ![j].status = verdict,
                    ![j].serial = IF verdict = "SUCCESS" THEN consensus ELSE @,
                    ![j].action = IF verdict = "NO_ZONE" THEN "CREATE" ELSE @]
            /\ UNCHANGED <<central, producer, dns, clock>>

-----------------------------------------------------------------------------
(* Central's update_status, called by the report of a job.                 *)

StatusEffect(status, serial, action) ==
    LET report == EffectiveReport(zone, status, action)
    IN  [zone |-> IF zone.action = action
                  THEN UpdateZoneOrRecordStatus(zone, report, serial)
                  ELSE Unassigned,
         recs |-> [r \in Recs |->
                      IF recs[r].live /\ RecordMatches(recs[r], report, serial)
                      THEN UpdateZoneOrRecordStatus(recs[r], report, serial)
                      ELSE Unassigned]]

\* The reads of the transaction; a zone that is gone raises ZoneNotFound.
ReadForStatus(j) ==
    /\ jobs[j].pc = "report"
    /\ jobs' = [jobs EXCEPT ![j] =
                   IF zone.live
                   THEN [Idle EXCEPT
                            !.pc = "commit",
                            !.effect = StatusEffect(jobs[j].status,
                                                    jobs[j].serial,
                                                    jobs[j].action)]
                   ELSE Idle]
    /\ UNCHANGED <<central, producer, dns, clock, faults>>

\* Its writes; one that finds its row gone takes the whole transaction back.
CommitStatus(j) ==
    LET effect == jobs[j].effect
        possible == /\ zone.live
                    /\ \A r \in Recs : effect.recs[r] # Unassigned
                                          => recs[r].live
    IN  /\ jobs[j].pc = "commit"
        /\ jobs' = [jobs EXCEPT ![j] = Idle]
        /\ \/ /\ possible
              /\ zone' = IF effect.zone.status = "DELETED"
                         THEN SoftDelete(zone)
                         ELSE WriteColumns(zone, effect.zone)
              /\ recs' = [r \in Recs |-> WriteColumns(recs[r], effect.recs[r])]
           \/ /\ ~possible
              /\ UNCHANGED <<zone, recs>>
        /\ UNCHANGED <<requests, changes, deleteRequested, producer, dns,
                       clock, faults>>

\* A message is lost, or the worker or central stops while it handles it.
LoseJob(j) ==
    /\ jobs[j].pc # "idle"
    /\ faults < MaxFaults
    /\ faults' = faults + 1
    /\ jobs' = [jobs EXCEPT ![j] = Idle]
    /\ UNCHANGED <<central, producer, dns, clock>>

-----------------------------------------------------------------------------
(* The nameservers and the clock.                                          *)

\* A transfer from designate-mdns, after a NOTIFY or on the SOA refresh timer;
\* mdns answers for zones that are not deleted.
Transfer(n) ==
    /\ n \in hosts
    /\ zone.live
    /\ nsSerial[n] < zone.serial
    /\ nsSerial' = [nsSerial EXCEPT ![n] = zone.serial]
    /\ UNCHANGED <<central, producer, hosts, clock, jobs, faults>>

Tick ==
    /\ clock < MaxClock
    /\ clock' = clock + 1
    /\ UNCHANGED <<central, producer, dns, jobs, faults>>

-----------------------------------------------------------------------------

\* The zone has just been committed by create_zone, its message is on its way.
Fresh ==
    /\ zone = [live |-> TRUE, action |-> "CREATE", status |-> "PENDING",
               serial |-> clock, increment_serial |-> FALSE,
               delayed_notify |-> FALSE]
    /\ recs = [r \in Recs |-> NoRecord]
    /\ \E j \in Jobs :
          jobs = [i \in Jobs |->
                    IF i = j THEN [Idle EXCEPT !.pc = "queued",
                                               !.action = "CREATE",
                                               !.serial = clock]
                             ELSE Idle]
    /\ hosts = {}
    /\ nsSerial = [n \in Nameservers |-> 0]

\* The zone has been served for a while.
Settled ==
    /\ zone = [live |-> TRUE, action |-> "NONE", status |-> "ACTIVE",
               serial |-> clock, increment_serial |-> FALSE,
               delayed_notify |-> FALSE]
    /\ recs = [r \in Recs |-> [live |-> TRUE, action |-> "NONE",
                               status |-> "ACTIVE", serial |-> clock]]
    /\ jobs = [j \in Jobs |-> Idle]
    /\ hosts = Nameservers
    /\ nsSerial = [n \in Nameservers |-> clock]

Init ==
    /\ clock = 1
    /\ requests = [c \in Clients |-> NoRequest]
    /\ serialTask = NoSerialTask
    /\ notifyTask = NoNotifyTask
    /\ changes = 0
    /\ faults = 0
    /\ deleteRequested = FALSE
    /\ Fresh \/ Settled

Next ==
    \/ \E c \in Clients, r \in Recs : CreateRecordset(c, r)
    \/ \E c \in Clients, r \in Recs : UpdateRecordset(c, r)
    \/ \E c \in Clients, r \in Recs : DeleteRecordset(c, r)
    \/ \E c \in Clients : UpdateZone(c)
    \/ \E c \in Clients, r \in Recs : AddNs(c, r)
    \/ \E c \in Clients, r \in Recs : DeleteNs(c, r)
    \/ \E c \in Clients : CommitRequest(c)
    \/ \E c \in Clients : AbortRequest(c)
    \/ DeleteZone
    \/ AbandonZone
    \/ ReadForIncrement
    \/ IncrementSerial
    \/ NotifyAfterIncrement
    \/ ReadForNotify
    \/ DelayedNotify
    \/ ResetDelayedNotify
    \/ ProducerCrash
    \/ RecoverShard
    \/ \E j \in Jobs : ActOnTargets(j)
    \/ \E j \in Jobs : PollNameservers(j)
    \/ \E j \in Jobs : ReadForStatus(j)
    \/ \E j \in Jobs : CommitStatus(j)
    \/ \E j \in Jobs : LoseJob(j)
    \/ \E n \in Nameservers : Transfer(n)
    \/ Tick

Spec == Init /\ [][Next]_vars

-----------------------------------------------------------------------------
(* Fairness.  The producer's tasks are periodic and the recovery retries    *)
(* for ever; central and the workers finish what they start; nameservers    *)
(* refresh.  Users need not do anything.  The steps that need a free job    *)
(* are strongly fair because the number of jobs is a bound of the model.    *)

Fairness ==
    /\ \A c \in Clients : WF_vars(CommitRequest(c) \/ AbortRequest(c))
    /\ WF_vars(ReadForIncrement)
    /\ WF_vars(IncrementSerial)
    /\ SF_vars(NotifyAfterIncrement)
    /\ WF_vars(ReadForNotify)
    /\ SF_vars(DelayedNotify)
    /\ WF_vars(ResetDelayedNotify)
    /\ SF_vars(RecoverShard)
    /\ \A j \in Jobs : /\ WF_vars(ActOnTargets(j))
                       /\ WF_vars(PollNameservers(j))
                       /\ WF_vars(ReadForStatus(j))
                       /\ WF_vars(CommitStatus(j))
    /\ \A n \in Nameservers : WF_vars(Transfer(n))

FairSpec == Spec /\ Fairness

-----------------------------------------------------------------------------
(* Properties.                                                             *)

\* Every row, task, message and nameserver holds values of its type.
TypeOK ==
    /\ clock \in Nat
    /\ zone \in Zone
    /\ recs \in [Recs -> Record]
    /\ requests \in [Clients -> Request]
    /\ serialTask \in SerialTask
    /\ notifyTask \in NotifyTask
    /\ jobs \in [Jobs -> Job]
    /\ hosts \in SUBSET Nameservers
    /\ nsSerial \in [Nameservers -> Nat]
    /\ changes \in Nat
    /\ faults \in Nat
    /\ deleteRequested \in BOOLEAN

\* No committed change of a record is forgotten: a record of a live zone is
\* either covered by the serial that the nameservers will be asked for, or the
\* zone is still flagged for its serial to be incremented.  Central writes record
\* and flag in one transaction; the producer clears the flag and sets the serial
\* in another, in any order with it.
ChangeTracked ==
    zone.live =>
        \A r \in Recs : recs[r].live => \/ recs[r].serial <= zone.serial
                                       \/ zone.increment_serial

\* A zone leaves the database only if somebody asked for its deletion, whatever
\* the workers report, in whatever order the reports arrive: update_status
\* removes the row on the strength of what it has read.
RemovedOnlyIfRequested == ~zone.live => deleteRequested

\* A SUCCESS that a worker reports for a create or an update names a serial that
\* enough nameservers of the pool hold now, and not only when they were polled;
\* central marks every older record ACTIVE on account of it.
ReportIsHonest ==
    \A j \in Jobs :
        /\ jobs[j].pc = "report"
        /\ jobs[j].status = "SUCCESS"
        /\ jobs[j].action # "DELETE"
        => deleteRequested
           \/ CompareThreshold(
                 Cardinality({n \in Nameservers : nsSerial[n] >= jobs[j].serial}),
                 Cardinality(Nameservers))

\* The serial of a zone never falls, although the producer, the worker and
\* central's callers write the zone back from snapshots with older serials.
SerialNeverFalls == [][zone'.serial >= zone.serial]_zone

\* A deleted zone stays as it is: none of the requests and reports that had read
\* it before can bring the row back or change it.
DeletedStaysDeleted == [][zone.live]_zone

\* Once the users are done, the zone comes to rest: it is gone, or no action is
\* pending on it, in spite of lost messages, crashes and failing targets.
EventuallySettled == <>[](~zone.live \/ zone.action = "NONE")

\* Unless a deletion was requested, every nameserver of the pool ends up with
\* the serial that the zone ends up with.
EventuallyServed ==
    <>[](deleteRequested \/ \A n \in Nameservers : nsSerial[n] = zone.serial)

\* What the documentation says of the status ACTIVE: the zone has propagated.
ActiveMeansPropagated ==
    zone.live /\ zone.status = "ACTIVE" /\ ~deleteRequested
        => \A n \in Nameservers : nsSerial[n] >= zone.serial

\* What the comments in central say of a zone that is being deleted: it is not
\* updated any more.
DeletingIsNotUpdated ==
    [][zone.live /\ zone.action = "DELETE" => zone'.action \in {"DELETE", "NONE"}]_zone

\* What the documentation says of a zone that was deleted: its row is flagged once
\* the deletion has succeeded, so enough of the nameservers have dropped the zone
\* when a worker's report (and not an abandon) removes the row.
DeletedMeansGone ==
    [][zone.live /\ ~zone'.live /\ jobs' # jobs
          => CompareThreshold(
                Cardinality({n \in Nameservers : nsSerial[n] = 0}),
                Cardinality(Nameservers))]_zone

=============================================================================
