------------------------- MODULE ZoneLifecycleProofs -------------------------
(***************************************************************************)
(* Proofs about ZoneLifecycle, for any number of records, nameservers,     *)
(* clients and worker jobs, any threshold and any of the bounds.           *)
(***************************************************************************)
EXTENDS ZoneLifecycle, FiniteSetTheorems, TLAPS

\* Serials are taken from the clock, so none lies ahead of it.
SerialsPast ==
    /\ zone.serial <= clock
    /\ \A r \in Recs : recs[r].serial <= clock

\* Whatever speaks of a deletion goes back to a request for one: the row, the
\* messages to the workers, and the commits that reports have prepared.
DeletionKnown ==
    /\ zone.action = "DELETE" => deleteRequested
    /\ ~zone.live => deleteRequested
    /\ serialTask.action # "DELETE"
    /\ notifyTask.action # "DELETE"
    /\ \A j \in Jobs :
          /\ jobs[j].action = "DELETE" => deleteRequested
          /\ jobs[j].effect.zone.status = "DELETED" => deleteRequested
          /\ jobs[j].effect.zone.action # "DELETE"

IInv ==
    /\ TypeOK
    /\ SerialsPast
    /\ DeletionKnown
    /\ ChangeTracked
    /\ ReportIsHonest

-----------------------------------------------------------------------------
(* The operators of the status algebra.                                    *)

\* What is assigned is an action and a status, and only what was to be deleted
\* is ever declared deleted.
LEMMA AssignmentOfReport ==
    ASSUME NEW x, NEW status, NEW serial
    PROVE  LET a == UpdateZoneOrRecordStatus(x, status, serial)
           IN  /\ a \in Assignment
               /\ a.action # "DELETE"
               /\ a.status = "DELETED" => x.action = "DELETE"
BY DEF UpdateZoneOrRecordStatus, Assignment, Assign, Unassigned, Keep, Action,
       Status

\* The columns that are not assigned keep what they hold.
LEMMA WriteColumnsZone ==
    ASSUME NEW z \in Zone, NEW a \in Assignment
    PROVE  LET w == WriteColumns(z, a)
           IN  /\ w \in Zone
               /\ w.live = z.live
               /\ w.serial = z.serial
               /\ w.increment_serial = z.increment_serial
               /\ w.action \in {z.action, a.action}
BY DEF WriteColumns, Zone, Assignment, Keep

\* Writing the columns of a record keeps its type, its presence and its serial.
LEMMA WriteColumnsRecord ==
    ASSUME NEW x \in Record, NEW a \in Assignment
    PROVE  LET w == WriteColumns(x, a)
           IN  /\ w \in Record
               /\ w.live = x.live
               /\ w.serial = x.serial
BY DEF WriteColumns, Record, Assignment, Keep

\* Every update of a zone leaves a pending UPDATE, and a flag once set stays set.
LEMMA UpdateZoneType ==
    ASSUME NEW z \in Zone, NEW i \in BOOLEAN, NEW d \in BOOLEAN
    PROVE  LET u == UpdateZoneInStorage(z, i, d)
           IN  /\ u \in Zone
               /\ u.live = z.live
               /\ u.action = "UPDATE"
               /\ u.serial = z.serial
               /\ u.increment_serial = (z.increment_serial \/ i)
BY DEF UpdateZoneInStorage, Zone, Action, Status

\* A soft delete leaves a row of the zone's type that is not live any more.
LEMMA SoftDeleteType ==
    ASSUME NEW z \in Zone
    PROVE  /\ SoftDelete(z) \in Zone
           /\ ~SoftDelete(z).live
           /\ SoftDelete(z).action = "NONE"
           /\ SoftDelete(z).serial = z.serial
BY DEF SoftDelete, Zone, Action, Status

\* A free job is a job.
LEMMA IdleType == Idle \in Job /\ NoEffect \in Effect
BY DEF Idle, NoEffect, Effect, Job, JobPc, Assignment, Unassigned, Action,
       Report, Keep

\* A queued message of the right types is a job of the right type.
LEMMA CastType ==
    ASSUME NEW a \in Action, NEW n \in Nat, jobs \in [Jobs -> Job], Cast(a, n)
    PROVE  /\ jobs' \in [Jobs -> Job]
           /\ \A j \in Jobs : \/ jobs'[j] = jobs[j]
                             \/ jobs'[j] = [Idle EXCEPT !.pc = "queued",
                                                       !.action = a,
                                                       !.serial = n]
<1>1. [Idle EXCEPT !.pc = "queued", !.action = a, !.serial = n] \in Job
  BY IdleType DEF Idle, Job, JobPc
<1>2. QED
  BY <1>1 DEF Cast

\* What update_status prepares to commit has its type, requests no deletion, and
\* deletes only a zone whose row said DELETE when it was read.
LEMMA StatusEffectType ==
    ASSUME TypeOK, NEW status, NEW serial, NEW action
    PROVE  LET e == StatusEffect(status, serial, action)
           IN  /\ e \in Effect
               /\ e.zone.action # "DELETE"
               /\ e.zone.status = "DELETED" => zone.action = "DELETE"
<1>1. Unassigned \in Assignment /\ Unassigned.action # "DELETE"
         /\ Unassigned.status # "DELETED"
  BY DEF Unassigned, Assignment, Keep
<1>2. QED
  BY <1>1, AssignmentOfReport DEF StatusEffect, Effect

\* What a request of a client leaves behind: its one record and the row of the
\* zone, or nothing.
Committed(c, record, d) ==
    /\ \/ UNCHANGED <<zone, recs>>
       \/ /\ zone.live
          /\ recs' = [recs EXCEPT ![requests[c].rec] = record]
          /\ zone' = UpdateZoneInStorage(zone, TRUE, d)
    /\ record = recs[requests[c].rec] \/ record.serial \in {0, clock}
    /\ requests' = [requests EXCEPT ![c] = NoRequest]
    /\ UNCHANGED <<changes, deleteRequested, producer, dns, clock, jobs, faults>>

\* The four kinds of transactions are alike in that.
LEMMA CommitShape ==
    ASSUME TypeOK, NEW c \in Clients, CommitRequest(c)
    PROVE  \E record \in Record, d \in BOOLEAN : Committed(c, record, d)
<1>1. requests[c].rec \in Recs /\ recs[requests[c].rec] \in Record
  BY DEF TypeOK, Request
<1>2. /\ NoRecord \in Record /\ NoRecord.serial = 0
      /\ \A a \in {"CREATE", "UPDATE"} : /\ PendingRecord(a) \in Record
                                         /\ PendingRecord(a).serial = clock
  BY DEF NoRecord, PendingRecord, Record, Action, Status, TypeOK
<1>3. ASSUME NEW possible, NEW record \in Record, NEW d \in BOOLEAN,
             Transaction(c, possible, record, d),
             record = recs[requests[c].rec] \/ record.serial \in {0, clock}
      PROVE  Committed(c, record, d)
  BY <1>3 DEF Transaction, Committed
<1>4. CASE CreateRecordsetInStorage(c)
  BY <1>2, <1>3, <1>4 DEF CreateRecordsetInStorage
<1>5. CASE UpdateRecordsetInStorage(c)
  <2>1. (requests[c].kind # "update") \in BOOLEAN
    OBVIOUS
  <2>2. QED
    BY <1>2, <1>3, <1>5, <2>1 DEF UpdateRecordsetInStorage
<1>6. CASE DeleteRecordsetInStorage(c)
  BY <1>2, <1>3, <1>6 DEF DeleteRecordsetInStorage
<1>7. CASE CommitZone(c)
  BY <1>1, <1>3, <1>7 DEF CommitZone
<1>8. QED
  BY <1>4, <1>5, <1>6, <1>7 DEF CommitRequest

\* The threshold is met by any number at least as large as one that meets it.
LEMMA ThresholdMonotone ==
    ASSUME NEW m \in Nat, NEW n \in Nat, NEW total \in Nat, m <= n,
           CompareThreshold(m, total)
    PROVE  CompareThreshold(n, total)
BY ThresholdAssumption DEF CompareThreshold

\* What a finished poll leaves in its job: values of the right types and, when
\* it reports that something was created or updated, a serial that enough of the
\* nameservers have.
PolledJob(j, verdict, serial, action) ==
    /\ jobs' = [jobs EXCEPT ![j].pc = "report", ![j].status = verdict,
                            ![j].serial = serial, ![j].action = action]
    /\ action \in {jobs[j].action, "CREATE"}
    /\ verdict = "SUCCESS" /\ action # "DELETE" =>
          CompareThreshold(
             Cardinality({n \in Nameservers : nsSerial[n] >= serial}),
             Cardinality(Nameservers))

\* Every poll ends in such a job.
LEMMA PollVerdict ==
    ASSUME TypeOK, NEW j \in Jobs, PollNameservers(j)
    PROVE  \E verdict \in Report, serial \in Nat, action \in Action :
              PolledJob(j, verdict, serial, action)
<1> DEFINE act == jobs[j].action
           ser == jobs[j].serial
<1>1. act \in Action /\ ser \in Nat
  BY DEF TypeOK, Job
<1>2. PICK answered \in SUBSET Nameservers :
        LET answers  == [n \in Nameservers |->
                            IF n \in answered THEN nsSerial[n] ELSE NoAnswer]
            positive == {n \in Nameservers : CountsPositive(act, ser, answers[n])}
            noZone   == {n \in Nameservers : CountsNoZone(act, ser, answers[n])}
            verdict  == ThresholdMet(act, Cardinality(positive),
                                     Cardinality(noZone),
                                     Cardinality(Nameservers))
        IN  \E consensus \in ConsensusSerials(act, answers, positive) :
                 jobs' = [jobs EXCEPT
                    ![j].pc = "report",
                    ![j].status = verdict,
                    ![j].serial = IF verdict = "SUCCESS" THEN consensus ELSE @,
                    ![j].action = IF verdict = "NO_ZONE" THEN "CREATE" ELSE @]
  BY DEF PollNameservers
<1> DEFINE answers  == [n \in Nameservers |->
                           IF n \in answered THEN nsSerial[n] ELSE NoAnswer]
           positive == {n \in Nameservers : CountsPositive(act, ser, answers[n])}
           noZone   == {n \in Nameservers : CountsNoZone(act, ser, answers[n])}
           total    == Cardinality(Nameservers)
           verdict  == ThresholdMet(act, Cardinality(positive),
                                    Cardinality(noZone), total)
<1>3. PICK consensus \in ConsensusSerials(act, answers, positive) :
        jobs' = [jobs EXCEPT
                    ![j].pc = "report",
                    ![j].status = verdict,
                    ![j].serial = IF verdict = "SUCCESS" THEN consensus ELSE @,
                    ![j].action = IF verdict = "NO_ZONE" THEN "CREATE" ELSE @]
  BY <1>2
<1> DEFINE serial == IF verdict = "SUCCESS" THEN consensus ELSE ser
           action == IF verdict = "NO_ZONE" THEN "CREATE" ELSE act
           served == {n \in Nameservers : nsSerial[n] >= serial}
<1>4. verdict \in Report
  BY DEF ThresholdMet, Report
<1>5. \A n \in positive : answers[n] = nsSerial[n] /\ nsSerial[n] \in Nat
  BY DEF CountsPositive, TypeOK, NoAnswer
<1>6. consensus \in Nat
      /\ (act # "DELETE" => \A n \in positive : nsSerial[n] >= consensus)
  BY <1>5 DEF ConsensusSerials
<1>7. ASSUME verdict = "SUCCESS", action # "DELETE"
      PROVE  CompareThreshold(Cardinality(served), total)
  <2>1. act # "DELETE"
    BY <1>7
  <2>2. positive \subseteq served
    BY <2>1, <1>6, <1>7
  <2>3. /\ Cardinality(positive) \in Nat
        /\ Cardinality(served) \in Nat
        /\ Cardinality(positive) <= Cardinality(served)
        /\ total \in Nat
    <3>1. IsFiniteSet(Nameservers) /\ served \subseteq Nameservers
      BY LifecycleAssumption
    <3>2. IsFiniteSet(served)
      BY <3>1, FS_Subset
    <3>3. QED
      BY <3>1, <3>2, <2>2, FS_Subset, FS_CardinalityType
  <2>4. CompareThreshold(Cardinality(positive), total)
    BY <1>7 DEF ThresholdMet
  <2>5. QED
    BY <2>3, <2>4, ThresholdMonotone
<1> HIDE DEF verdict, served
<1>8. jobs' = [jobs EXCEPT ![j].pc = "report", ![j].status = verdict,
                           ![j].serial = serial, ![j].action = action]
  BY <1>3 DEF TypeOK
<1>9. serial \in Nat /\ action \in Action /\ action \in {act, "CREATE"}
  BY <1>1, <1>6 DEF Action
<1>10. QED
  <2>1. PolledJob(j, verdict, serial, action)
    BY <1>7, <1>8, <1>9 DEF PolledJob, served
  <2>2. QED
    BY <2>1, <1>4, <1>9, Zenon

\* A poll changes nothing but its job and, when a server is silent, the faults.
LEMMA PollFrame ==
    ASSUME NEW j \in Jobs, PollNameservers(j)
    PROVE  /\ UNCHANGED <<central, producer, dns, clock>>
           /\ faults' = faults \/ faults' = faults + 1
BY Zenon DEF PollNameservers

-----------------------------------------------------------------------------
(* Type correctness.                                                       *)

\* The initial states have their types.
LEMMA TypeInit == Init => TypeOK
<1> SUFFICES ASSUME Init PROVE TypeOK
  OBVIOUS
<1> USE LifecycleAssumption
<1>1. NoRecord \in Record
  BY DEF NoRecord, Record, Action, Status
<1>2. NoRequest \in Request
  BY DEF NoRequest, Request, RequestPc, Kind
<1>3. NoSerialTask \in SerialTask /\ NoNotifyTask \in NotifyTask
  BY DEF NoSerialTask, NoNotifyTask, SerialTask, NotifyTask, SerialPc, NotifyPc,
         Action
<1>4. [Idle EXCEPT !.pc = "queued", !.action = "CREATE", !.serial = clock] \in Job
  BY IdleType DEF Init, Idle, Job, JobPc, Action
<1>5. zone \in Zone /\ recs \in [Recs -> Record] /\ jobs \in [Jobs -> Job]
      /\ hosts \in SUBSET Nameservers /\ nsSerial \in [Nameservers -> Nat]
  <2>1. CASE Fresh
    BY <2>1, <1>1, <1>4, IdleType DEF Init, Fresh, Zone, Action, Status
  <2>2. CASE Settled
    BY <2>2, IdleType DEF Init, Settled, Zone, Record, Action, Status
  <2>3. QED
    BY <2>1, <2>2 DEF Init
<1>6. QED
  BY <1>2, <1>3, <1>5 DEF Init, TypeOK

\* Every step keeps the types.
LEMMA TypeStep == TypeOK /\ [Next]_vars => TypeOK'
<1> SUFFICES ASSUME TypeOK, [Next]_vars PROVE TypeOK'
  OBVIOUS
<1> USE LifecycleAssumption
<1>1. NoRequest \in Request
  BY DEF NoRequest, Request, RequestPc, Kind
<1>2. NoSerialTask \in SerialTask /\ NoNotifyTask \in NotifyTask
  BY DEF NoSerialTask, NoNotifyTask, SerialTask, NotifyTask, SerialPc, NotifyPc,
         Action
<1>3. ASSUME NEW c \in Clients, NEW r \in Recs,
             \/ CreateRecordset(c, r) \/ UpdateRecordset(c, r)
             \/ DeleteRecordset(c, r) \/ UpdateZone(c)
             \/ AddNs(c, r) \/ DeleteNs(c, r)
      PROVE  TypeOK'
  <2>1. PICK kind \in Kind, rec \in Recs : BeginRequest(c, kind, rec)
    BY <1>1, <1>3 DEF CreateRecordset, UpdateRecordset, DeleteRecordset,
                      UpdateZone, AddNs, DeleteNs, Kind, Request
  <2>2. QED
    BY <2>1 DEF BeginRequest, TypeOK, Request, RequestPc, dns, producer
<1>4. ASSUME NEW c \in Clients, CommitRequest(c) PROVE TypeOK'
  <2>1. PICK record \in Record, d \in BOOLEAN : Committed(c, record, d)
    BY <1>4, CommitShape
  <2>2. UpdateZoneInStorage(zone, TRUE, d) \in Zone
    BY UpdateZoneType DEF TypeOK
  <2>3. zone' \in Zone
    BY <2>1, <2>2 DEF Committed, TypeOK
  <2>4. recs' \in [Recs -> Record]
    BY <2>1 DEF Committed, TypeOK
  <2>5. requests' \in [Clients -> Request]
    BY <2>1, <1>1 DEF Committed, TypeOK
  <2>6. QED
    BY <2>1, <2>3, <2>4, <2>5 DEF Committed, TypeOK, dns, producer
<1>5. ASSUME NEW c \in Clients, AbortRequest(c) PROVE TypeOK'
  BY <1>5, <1>1 DEF AbortRequest, TypeOK, dns, producer
<1>6. CASE DeleteZone
  <2>1. zone.serial \in Nat /\ "DELETE" \in Action
    BY DEF TypeOK, Zone, Action
  <2>2. jobs' \in [Jobs -> Job]
    BY <1>6, <2>1, CastType DEF DeleteZone, TypeOK
  <2>3. zone' \in Zone
    BY <1>6 DEF DeleteZone, TypeOK, Zone, Action, Status
  <2>4. QED
    BY <1>6, <2>2, <2>3 DEF DeleteZone, TypeOK, dns, producer
<1>7. CASE AbandonZone
  BY <1>7, SoftDeleteType DEF AbandonZone, TypeOK, dns, producer
<1>8. CASE ReadForIncrement
  BY <1>8 DEF ReadForIncrement, TypeOK, SerialTask, SerialPc, Zone, central, dns
<1>9. CASE IncrementSerial
  BY <1>9, <1>2 DEF IncrementSerial, TypeOK, SerialTask, SerialPc, Zone, dns
<1>10. CASE NotifyAfterIncrement
  <2>1. SentAction(serialTask.action) \in Action /\ serialTask.serial \in Nat
    BY DEF SentAction, TypeOK, SerialTask, Action
  <2>2. jobs' \in [Jobs -> Job]
    BY <1>10, <2>1, CastType DEF NotifyAfterIncrement, TypeOK
  <2>3. QED
    BY <1>10, <1>2, <2>2 DEF NotifyAfterIncrement, TypeOK, central, dns
<1>11. CASE ReadForNotify
  BY <1>11 DEF ReadForNotify, TypeOK, NotifyTask, NotifyPc, Zone, central, dns
<1>12. CASE DelayedNotify
  <2>1. SentAction(notifyTask.action) \in Action /\ notifyTask.serial \in Nat
    BY DEF SentAction, TypeOK, NotifyTask, Action
  <2>2. jobs' \in [Jobs -> Job]
    BY <1>12, <2>1, CastType DEF DelayedNotify, TypeOK
  <2>3. notifyTask' \in NotifyTask
    BY <1>12 DEF DelayedNotify, TypeOK, NotifyTask, NotifyPc
  <2>4. QED
    BY <1>12, <2>2, <2>3 DEF DelayedNotify, TypeOK, central, dns
<1>13. CASE ResetDelayedNotify
  <2>1. UpdateZoneInStorage(zone, TRUE, FALSE) \in Zone
    BY UpdateZoneType DEF TypeOK
  <2>2. zone' \in Zone
    BY <1>13, <2>1 DEF ResetDelayedNotify, TypeOK, Zone
  <2>3. QED
    BY <1>13, <1>2, <2>2 DEF ResetDelayedNotify, TypeOK, dns
<1>14. CASE ProducerCrash
  BY <1>14, <1>2 DEF ProducerCrash, TypeOK, central, dns
<1>15. CASE RecoverShard
  <2>1. zone.action \in Action /\ zone.serial \in Nat
    BY DEF TypeOK, Zone
  <2>2. jobs' \in [Jobs -> Job]
    BY <1>15, <2>1, CastType DEF RecoverShard, TypeOK
  <2>3. QED
    BY <1>15, <2>2 DEF RecoverShard, TypeOK, central, dns, producer
<1>16. ASSUME NEW j \in Jobs, ActOnTargets(j) PROVE TypeOK'
  BY <1>16 DEF ActOnTargets, TypeOK, Job, JobPc, Report, central, producer
<1>17. ASSUME NEW j \in Jobs, PollNameservers(j) PROVE TypeOK'
  <2>1. PICK verdict \in Report, serial \in Nat, action \in Action :
           PolledJob(j, verdict, serial, action)
    BY <1>17, PollVerdict
  <2>2. jobs[j] \in Job /\ "report" \in JobPc
    BY DEF TypeOK, JobPc
  <2>3. jobs' \in [Jobs -> Job]
    BY <2>1, <2>2 DEF PolledJob, TypeOK, Job
  <2>4. QED
    BY <1>17, <2>3, PollFrame DEF TypeOK, central, producer, dns
<1>18. ASSUME NEW j \in Jobs, ReadForStatus(j) PROVE TypeOK'
  <2> DEFINE e == StatusEffect(jobs[j].status, jobs[j].serial, jobs[j].action)
  <2>1. e \in Effect
    BY StatusEffectType
  <2>2. [Idle EXCEPT !.pc = "commit", !.effect = e] \in Job
    BY <2>1, IdleType DEF Idle, Job, JobPc
  <2> HIDE DEF e
  <2>3. jobs' \in [Jobs -> Job]
    BY <1>18, <2>2, IdleType DEF ReadForStatus, TypeOK, e
  <2>4. QED
    BY <1>18, <2>3 DEF ReadForStatus, TypeOK, central, producer, dns
<1>19. ASSUME NEW j \in Jobs, CommitStatus(j) PROVE TypeOK'
  <2>1. jobs[j].effect.zone \in Assignment
        /\ jobs[j].effect.recs \in [Recs -> Assignment]
    BY DEF TypeOK, Job, Effect
  <2>2. zone' \in Zone
    BY <1>19, <2>1, WriteColumnsZone, SoftDeleteType DEF CommitStatus, TypeOK
  <2>3. recs' \in [Recs -> Record]
    <3>1. \A r \in Recs : WriteColumns(recs[r], jobs[j].effect.recs[r]) \in Record
      BY <2>1, WriteColumnsRecord DEF TypeOK
    <3>2. QED
      BY <1>19, <3>1 DEF CommitStatus, TypeOK
  <2>4. QED
    BY <1>19, <2>2, <2>3, IdleType DEF CommitStatus, TypeOK, producer, dns
<1>20. ASSUME NEW j \in Jobs, LoseJob(j) PROVE TypeOK'
  BY <1>20, IdleType DEF LoseJob, TypeOK, central, producer, dns
<1>21. ASSUME NEW n \in Nameservers, Transfer(n) PROVE TypeOK'
  BY <1>21 DEF Transfer, TypeOK, Zone, central, producer
<1>22. CASE Tick
  BY <1>22 DEF Tick, TypeOK, central, producer, dns
<1>23. CASE UNCHANGED vars
  BY <1>23 DEF TypeOK, vars, central, producer, dns
<1>24. QED
  BY <1>3, <1>4, <1>5, <1>6, <1>7, <1>8, <1>9, <1>10, <1>11, <1>12, <1>13,
     <1>14, <1>15, <1>16, <1>17, <1>18, <1>19, <1>20, <1>21, <1>22, <1>23
     DEF Next

-----------------------------------------------------------------------------
(* The rows.                                                               *)

\* All that a step of anybody can do to the rows: leave them alone; write records
\* at the present time and flag the zone for its serial to be incremented; set
\* the serial to the present time; or touch neither serials nor the flag.
\* The last three happen to live zones only.
RowStep ==
    \/ UNCHANGED <<zone, recs>>
    \/ /\ zone.live
       /\ zone'.serial = zone.serial
       /\ zone'.increment_serial
       /\ \A r \in Recs : recs'[r] = recs[r] \/ recs'[r].serial \in {0, clock}
    \/ /\ zone.live
       /\ zone'.serial = clock
       /\ recs' = recs
    \/ /\ zone.live
       /\ zone'.serial = zone.serial
       /\ zone'.increment_serial = zone.increment_serial
       /\ \A r \in Recs : /\ recs'[r].live = recs[r].live
                          /\ recs'[r].serial = recs[r].serial

\* Every step moves the rows in one of these ways.
LEMMA RowSteps == TypeOK /\ [Next]_vars => RowStep
<1> SUFFICES ASSUME TypeOK, [Next]_vars PROVE RowStep
  OBVIOUS
<1>1. ASSUME NEW c \in Clients, CommitRequest(c) PROVE RowStep
  <2>1. PICK record \in Record, d \in BOOLEAN : Committed(c, record, d)
    BY <1>1, CommitShape
  <2> DEFINE z == UpdateZoneInStorage(zone, TRUE, d)
  <2>2. z.serial = zone.serial /\ z.increment_serial
    BY UpdateZoneType DEF UpdateZoneInStorage, TypeOK, Zone
  <2>3. requests[c].rec \in Recs
    BY DEF TypeOK, Request
  <2>4. CASE UNCHANGED <<zone, recs>>
    BY <2>4 DEF RowStep
  <2>5. CASE /\ zone.live
             /\ recs' = [recs EXCEPT ![requests[c].rec] = record]
             /\ zone' = z
    <3> HIDE DEF z
    <3>1. \A r \in Recs : recs'[r] = recs[r] \/ recs'[r].serial \in {0, clock}
      BY <2>1, <2>3, <2>5 DEF Committed, TypeOK
    <3>2. QED
      BY <3>1, <2>2, <2>5 DEF RowStep
  <2>6. QED
    BY <2>1, <2>4, <2>5 DEF Committed
<1>2. CASE DeleteZone
  <2>1. /\ zone'.serial = zone.serial
        /\ zone'.increment_serial = zone.increment_serial
        /\ zone'.live = zone.live
    BY <1>2 DEF DeleteZone, TypeOK, Zone
  <2>2. zone.live /\ recs' = recs
    BY <1>2 DEF DeleteZone
  <2>3. QED
    BY <2>1, <2>2 DEF RowStep
<1>3. CASE AbandonZone
  <2>1. /\ zone'.serial = zone.serial
        /\ zone'.increment_serial = zone.increment_serial
    BY <1>3 DEF AbandonZone, SoftDelete, TypeOK, Zone
  <2>2. zone.live /\ recs' = recs
    BY <1>3 DEF AbandonZone
  <2>3. QED
    BY <2>1, <2>2 DEF RowStep
<1>4. CASE IncrementSerial
  <2>1. CASE zone' = zone
    BY <1>4, <2>1 DEF IncrementSerial, RowStep
  <2>2. CASE zone.live /\ zone' = [zone EXCEPT !.serial = clock,
                                             !.increment_serial = FALSE]
    <3>1. zone'.serial = clock
      BY <2>2 DEF TypeOK, Zone
    <3>2. QED
      BY <1>4, <2>2, <3>1 DEF IncrementSerial, RowStep
  <2>3. QED
    BY <1>4, <2>1, <2>2 DEF IncrementSerial
<1>5. CASE ResetDelayedNotify
  <2>1. CASE ~zone.live
    BY <1>5, <2>1 DEF ResetDelayedNotify, RowStep
  <2>2. CASE zone.live
    <3>1. zone'.serial = zone.serial /\ zone'.increment_serial
      BY <1>5, <2>2 DEF ResetDelayedNotify, UpdateZoneInStorage, TypeOK, Zone
    <3>2. QED
      BY <1>5, <2>2, <3>1 DEF ResetDelayedNotify, RowStep
  <2>3. QED
    BY <2>1, <2>2
<1>6. ASSUME NEW j \in Jobs, CommitStatus(j) PROVE RowStep
  <2> DEFINE e == jobs[j].effect
  <2>1. e.zone \in Assignment /\ e.recs \in [Recs -> Assignment]
    BY DEF TypeOK, Job, Effect
  <2>2. CASE UNCHANGED <<zone, recs>>
    BY <2>2 DEF RowStep
  <2>3. CASE /\ zone.live
             /\ zone' = IF e.zone.status = "DELETED" THEN SoftDelete(zone)
                                                    ELSE WriteColumns(zone, e.zone)
             /\ recs' = [r \in Recs |-> WriteColumns(recs[r], e.recs[r])]
    <3>1. /\ zone'.serial = zone.serial
          /\ zone'.increment_serial = zone.increment_serial
      <4>1. CASE e.zone.status = "DELETED"
        BY <2>3, <4>1 DEF SoftDelete, TypeOK, Zone
      <4>2. CASE e.zone.status # "DELETED"
        BY <2>3, <4>2, <2>1, WriteColumnsZone DEF TypeOK
      <4>3. QED
        BY <4>1, <4>2
    <3>2. \A r \in Recs : /\ recs'[r].live = recs[r].live
                          /\ recs'[r].serial = recs[r].serial
      <4>1. \A r \in Recs :
               /\ WriteColumns(recs[r], e.recs[r]).live = recs[r].live
               /\ WriteColumns(recs[r], e.recs[r]).serial = recs[r].serial
        BY <2>1, WriteColumnsRecord DEF TypeOK
      <4>2. QED
        BY <2>3, <4>1
    <3>3. QED
      BY <2>3, <3>1, <3>2 DEF RowStep
  <2>4. QED
    BY <1>6, <2>2, <2>3 DEF CommitStatus
<1>7. CASE UNCHANGED <<zone, recs>>
  BY <1>7 DEF RowStep
<1>8. ASSUME NEW j \in Jobs, PollNameservers(j) PROVE UNCHANGED <<zone, recs>>
  BY <1>8, PollFrame DEF central
<1>9. QED
  BY <1>1, <1>2, <1>3, <1>4, <1>5, <1>6, <1>7, <1>8
     DEF Next, vars, central, CreateRecordset, UpdateRecordset, DeleteRecordset,
         UpdateZone, AddNs, DeleteNs, BeginRequest, AbortRequest, ReadForIncrement,
         NotifyAfterIncrement, ReadForNotify, DelayedNotify, ProducerCrash,
         RecoverShard, ActOnTargets, ReadForStatus, LoseJob, Transfer, Tick

\* Time does not run backwards.
LEMMA ClockStep == TypeOK /\ [Next]_vars => clock' >= clock
<1> SUFFICES ASSUME TypeOK, [Next]_vars PROVE clock' >= clock
  OBVIOUS
<1>1. clock \in Nat
  BY DEF TypeOK
<1>2. CASE Tick
  BY <1>1, <1>2 DEF Tick
<1>3. ASSUME NEW j \in Jobs, PollNameservers(j) PROVE clock' = clock
  BY <1>3, PollFrame
<1>4. CASE clock' = clock
  BY <1>1, <1>4
<1>5. QED
  BY <1>2, <1>3, <1>4
     DEF Next, vars, CreateRecordset, UpdateRecordset, DeleteRecordset,
         UpdateZone, AddNs, DeleteNs, BeginRequest,
         CommitRequest, CreateRecordsetInStorage, UpdateRecordsetInStorage,
         DeleteRecordsetInStorage, CommitZone, Transaction, AbortRequest, DeleteZone,
         AbandonZone, ReadForIncrement, IncrementSerial, NotifyAfterIncrement,
         ReadForNotify, DelayedNotify, ResetDelayedNotify, ProducerCrash,
         RecoverShard, ActOnTargets, ReadForStatus, CommitStatus, LoseJob,
         Transfer

\* No serial gets ahead of the clock, and no change is forgotten.
LEMMA TrackedStep ==
    TypeOK /\ SerialsPast /\ ChangeTracked /\ [Next]_vars
        => SerialsPast' /\ ChangeTracked'
<1> SUFFICES ASSUME TypeOK, SerialsPast, ChangeTracked, [Next]_vars
             PROVE  SerialsPast' /\ ChangeTracked'
  OBVIOUS
<1>1. TypeOK' /\ RowStep /\ clock' >= clock
  BY TypeStep, RowSteps, ClockStep
<1>2. /\ clock \in Nat /\ clock' \in Nat
      /\ zone.serial \in Nat /\ zone'.serial \in Nat
      /\ \A r \in Recs : recs[r].serial \in Nat /\ recs'[r].serial \in Nat
  BY <1>1 DEF TypeOK, Zone, Record
<1>3. SerialsPast'
  BY <1>1, <1>2 DEF SerialsPast, RowStep
<1>4. ChangeTracked'
  BY <1>1, <1>2 DEF SerialsPast, ChangeTracked, RowStep
<1>5. QED
  BY <1>3, <1>4

-----------------------------------------------------------------------------
(* Deletions and reports.                                                  *)

\* A new job is made of what is known already, and none reports a success.
LEMMA CastKnown ==
    ASSUME NEW a \in Action, NEW n \in Nat, TypeOK, DeletionKnown, Cast(a, n),
           a = "DELETE" => deleteRequested'
    PROVE  \A j \in Jobs :
              \/ jobs'[j] = jobs[j]
              \/ /\ jobs'[j].action = "DELETE" => deleteRequested'
                 /\ jobs'[j].pc = "queued"
                 /\ jobs'[j].effect.zone = Unassigned
<1>1. LET q == [Idle EXCEPT !.pc = "queued", !.action = a, !.serial = n]
      IN  q.action = a /\ q.effect.zone = Unassigned /\ q.pc = "queued"
  BY DEF Idle, NoEffect
<1>2. QED
  BY <1>1, CastType DEF TypeOK

\* What a step can do to a job, as far as deletions and reports go.
JobStep(j) ==
    \/ jobs'[j] = jobs[j]
    \/ /\ jobs'[j].action = "DELETE" => \/ deleteRequested'
                                         \/ jobs[j].action = "DELETE"
       /\ \/ jobs'[j].effect = jobs[j].effect
          \/ jobs'[j].effect.zone = Unassigned
          \/ /\ jobs'[j].effect.zone.action # "DELETE"
             /\ jobs'[j].effect.zone.status = "DELETED" => zone.action = "DELETE"
       /\ \/ jobs'[j].pc # "report"
          \/ jobs'[j].status = "ERROR"
          \/ /\ nsSerial' = nsSerial
             /\ jobs'[j].status = "SUCCESS" /\ jobs'[j].action # "DELETE" =>
                   CompareThreshold(
                      Cardinality({n \in Nameservers :
                                      nsSerial[n] >= jobs'[j].serial}),
                      Cardinality(Nameservers))

\* Every step changes a job, if at all, in one of these ways.
LEMMA JobSteps ==
    TypeOK /\ DeletionKnown /\ [Next]_vars => \A j \in Jobs : JobStep(j)
<1> SUFFICES ASSUME TypeOK, DeletionKnown, [Next]_vars, NEW i \in Jobs
             PROVE  JobStep(i)
  OBVIOUS
<1>1. Idle.action = "NONE" /\ Idle.pc = "idle" /\ Idle.effect.zone = Unassigned
  BY DEF Idle, NoEffect
<1>2. CASE DeleteZone
  <2>1. "DELETE" \in Action /\ zone.serial \in Nat
    BY DEF Action, TypeOK, Zone
  <2>2. QED
    BY <1>2, <2>1, CastKnown DEF DeleteZone, JobStep
<1>3. CASE NotifyAfterIncrement
  <2>1. SentAction(serialTask.action) \in Action \ {"DELETE"}
        /\ serialTask.serial \in Nat
    BY DEF SentAction, TypeOK, SerialTask, Action, DeletionKnown
  <2>2. QED
    BY <1>3, <2>1, CastKnown DEF NotifyAfterIncrement, JobStep
<1>4. CASE DelayedNotify
  <2>1. SentAction(notifyTask.action) \in Action \ {"DELETE"}
        /\ notifyTask.serial \in Nat
    BY DEF SentAction, TypeOK, NotifyTask, Action, DeletionKnown
  <2>2. QED
    BY <1>4, <2>1, CastKnown DEF DelayedNotify, JobStep
<1>5. CASE RecoverShard
  <2>1. zone.action \in Action /\ zone.serial \in Nat
    BY DEF TypeOK, Zone
  <2>2. zone.action = "DELETE" => deleteRequested'
    BY <1>5 DEF DeletionKnown, RecoverShard, central
  <2>3. QED
    BY <1>5, <2>1, <2>2, CastKnown DEF RecoverShard, JobStep
<1>6. ASSUME NEW j \in Jobs, ActOnTargets(j) PROVE JobStep(i)
  BY <1>6 DEF ActOnTargets, JobStep, TypeOK, Job
<1>7. ASSUME NEW j \in Jobs, PollNameservers(j) PROVE JobStep(i)
  <2>1. PICK verdict \in Report, serial \in Nat, action \in Action :
           PolledJob(j, verdict, serial, action)
    BY <1>7, PollVerdict
  <2>2. CASE i # j
    BY <2>1, <2>2 DEF PolledJob, JobStep, TypeOK
  <2>3. CASE i = j
    <3>1. /\ jobs'[i].pc = "report" /\ jobs'[i].status = verdict
          /\ jobs'[i].serial = serial /\ jobs'[i].action = action
          /\ jobs'[i].effect = jobs[i].effect
      BY <2>1, <2>3 DEF PolledJob, TypeOK, Job
    <3>2. nsSerial' = nsSerial
      BY <1>7, PollFrame DEF dns
    <3>3. QED
      BY <2>1, <2>3, <3>1, <3>2 DEF PolledJob, JobStep
  <2>4. QED
    BY <2>2, <2>3
<1>8. ASSUME NEW j \in Jobs, ReadForStatus(j) PROVE JobStep(i)
  <2> DEFINE e == StatusEffect(jobs[j].status, jobs[j].serial, jobs[j].action)
             new == [Idle EXCEPT !.pc = "commit", !.effect = e]
  <2>1. /\ e.zone.action # "DELETE"
        /\ e.zone.status = "DELETED" => zone.action = "DELETE"
    BY StatusEffectType
  <2>2. new.action = "NONE" /\ new.pc = "commit" /\ new.effect = e
    BY DEF Idle
  <2> HIDE DEF e
  <2>3. jobs'[i] \in {jobs[i], new, Idle}
    BY <1>8 DEF ReadForStatus, TypeOK, e
  <2> HIDE DEF new
  <2>4. QED
    BY <1>1, <2>1, <2>2, <2>3 DEF JobStep
<1>9. ASSUME NEW j \in Jobs, CommitStatus(j) \/ LoseJob(j) PROVE JobStep(i)
  <2>1. jobs'[i] \in {jobs[i], Idle}
    BY <1>9 DEF CommitStatus, LoseJob, TypeOK
  <2>2. QED
    BY <1>1, <2>1 DEF JobStep
<1>10. CASE jobs' = jobs
  BY <1>10 DEF JobStep
<1>11. QED
  BY <1>2, <1>3, <1>4, <1>5, <1>6, <1>7, <1>8, <1>9, <1>10
     DEF Next, vars, CreateRecordset, UpdateRecordset, DeleteRecordset,
         UpdateZone, AddNs, DeleteNs, BeginRequest,
         CommitRequest, CreateRecordsetInStorage, UpdateRecordsetInStorage,
         DeleteRecordsetInStorage, CommitZone, Transaction, AbortRequest, AbandonZone,
         ReadForIncrement, IncrementSerial, ReadForNotify, ResetDelayedNotify,
         ProducerCrash, Transfer, Tick

\* What a step can do to the action of the zone and of the producer's tasks.
LEMMA ActionSteps ==
    TypeOK /\ DeletionKnown /\ [Next]_vars =>
       /\ zone'.action = "DELETE" => zone.action = "DELETE" \/ deleteRequested'
       /\ ~zone'.live => ~zone.live \/ deleteRequested'
       /\ serialTask'.action # "DELETE"
       /\ notifyTask'.action # "DELETE"
       /\ deleteRequested => deleteRequested'
<1> SUFFICES ASSUME TypeOK, DeletionKnown, [Next]_vars
             PROVE  /\ zone'.action = "DELETE" => zone.action = "DELETE"
                                                 \/ deleteRequested'
                    /\ ~zone'.live => ~zone.live \/ deleteRequested'
                    /\ serialTask'.action # "DELETE"
                    /\ notifyTask'.action # "DELETE"
                    /\ deleteRequested => deleteRequested'
  OBVIOUS
<1> DEFINE Zone1 ==
       /\ zone'.action = "DELETE" => zone.action = "DELETE" \/ deleteRequested'
       /\ ~zone'.live => ~zone.live \/ deleteRequested'
           Tasks1 ==
       /\ serialTask'.action # "DELETE"
       /\ notifyTask'.action # "DELETE"
<1>1. NoSerialTask.action # "DELETE" /\ NoNotifyTask.action # "DELETE"
  BY DEF NoSerialTask, NoNotifyTask
<1>2. ASSUME NEW c \in Clients, CommitRequest(c) PROVE Zone1 /\ Tasks1
  <2>1. PICK record \in Record, d \in BOOLEAN : Committed(c, record, d)
    BY <1>2, CommitShape
  <2>2. LET z == UpdateZoneInStorage(zone, TRUE, d)
        IN  z.action = "UPDATE" /\ z.live = zone.live
    BY DEF UpdateZoneInStorage, TypeOK, Zone
  <2>3. QED
    BY <2>1, <2>2 DEF Committed, producer, DeletionKnown
<1>3. CASE DeleteZone \/ AbandonZone
  BY <1>3 DEF DeleteZone, AbandonZone, producer, DeletionKnown
<1>4. CASE IncrementSerial
  BY <1>1, <1>4 DEF IncrementSerial, DeletionKnown, TypeOK, Zone, SerialTask
<1>5. CASE ResetDelayedNotify
  <2>1. LET z == [UpdateZoneInStorage(zone, TRUE, FALSE)
                     EXCEPT !.delayed_notify = FALSE]
        IN  z.action = "UPDATE" /\ z.live = zone.live
    BY DEF UpdateZoneInStorage, TypeOK, Zone
  <2>2. QED
    BY <1>1, <1>5, <2>1 DEF ResetDelayedNotify, DeletionKnown
<1>6. ASSUME NEW j \in Jobs, CommitStatus(j) PROVE Zone1 /\ Tasks1
  <2> DEFINE e == jobs[j].effect
  <2>1. e.zone \in Assignment /\ e.zone.action # "DELETE"
        /\ (e.zone.status = "DELETED" => deleteRequested)
    BY DEF TypeOK, Job, Effect, DeletionKnown
  <2>2. CASE zone' = zone
    BY <1>6, <2>2 DEF CommitStatus, producer, DeletionKnown
  <2>3. CASE e.zone.status = "DELETED" /\ zone' = SoftDelete(zone)
    BY <1>6, <2>1, <2>3 DEF CommitStatus, producer, DeletionKnown
  <2>4. CASE zone' = WriteColumns(zone, e.zone)
    <3>1. zone'.live = zone.live /\ zone'.action \in {zone.action, e.zone.action}
      BY <2>1, <2>4, WriteColumnsZone DEF TypeOK
    <3>2. QED
      BY <1>6, <2>1, <3>1 DEF CommitStatus, producer, DeletionKnown
  <2>5. QED
    BY <1>6, <2>2, <2>3, <2>4 DEF CommitStatus
<1>7. ASSUME NEW j \in Jobs, PollNameservers(j) PROVE Zone1 /\ Tasks1
  BY <1>7, PollFrame DEF central, producer, DeletionKnown
<1>8. CASE NotifyAfterIncrement \/ DelayedNotify \/ ProducerCrash
  BY <1>1, <1>8 DEF NotifyAfterIncrement, DelayedNotify, ProducerCrash, central,
                    DeletionKnown, TypeOK, NotifyTask
<1>9. CASE ReadForIncrement \/ ReadForNotify
  <2>1. zone' = zone /\ deleteRequested' = deleteRequested
    BY <1>9 DEF ReadForIncrement, ReadForNotify, central
  <2>2. CASE ReadForIncrement
    BY <2>1, <2>2 DEF ReadForIncrement, DeletionKnown
  <2>3. CASE ReadForNotify
    BY <2>1, <2>3 DEF ReadForNotify, DeletionKnown
  <2>4. QED
    BY <1>9, <2>1, <2>2, <2>3
<1>10. ASSUME UNCHANGED <<zone, serialTask, notifyTask>> PROVE Zone1 /\ Tasks1
  BY <1>10 DEF DeletionKnown
<1>11. Zone1 /\ Tasks1
  BY <1>2, <1>3, <1>4, <1>5, <1>6, <1>7, <1>8, <1>9, <1>10
     DEF Next, vars, central, producer, CreateRecordset, UpdateRecordset, DeleteRecordset,
         UpdateZone, AddNs, DeleteNs, BeginRequest, AbortRequest, RecoverShard,
         ActOnTargets, ReadForStatus, LoseJob, Transfer, Tick
<1>12. deleteRequested => deleteRequested'
  <2>1. ASSUME NEW j \in Jobs, PollNameservers(j)
        PROVE  deleteRequested' = deleteRequested
    BY <2>1, PollFrame DEF central
  <2>2. QED
    BY <2>1 DEF Next, vars, central, CreateRecordset, UpdateRecordset, DeleteRecordset,
         UpdateZone, AddNs, DeleteNs, BeginRequest,
         CommitRequest, CreateRecordsetInStorage, UpdateRecordsetInStorage,
         DeleteRecordsetInStorage, CommitZone, Transaction, AbortRequest,
         DeleteZone, AbandonZone, ReadForIncrement, IncrementSerial,
         NotifyAfterIncrement, ReadForNotify, DelayedNotify, ResetDelayedNotify,
         ProducerCrash, RecoverShard, ActOnTargets, ReadForStatus, CommitStatus,
         LoseJob, Transfer, Tick
<1>13. QED
  BY <1>11, <1>12

\* What is known of deletions stays known.
LEMMA DeletionStep == TypeOK /\ DeletionKnown /\ [Next]_vars => DeletionKnown'
<1> SUFFICES ASSUME TypeOK, DeletionKnown, [Next]_vars PROVE DeletionKnown'
  OBVIOUS
<1>1. Unassigned.status # "DELETED" /\ Unassigned.action # "DELETE"
  BY DEF Unassigned, Keep
<1>2. QED
  BY <1>1, ActionSteps, JobSteps DEF DeletionKnown, JobStep

\* No nameserver loses its serial before a deletion is requested.
LEMMA NameserverStep ==
    TypeOK /\ DeletionKnown /\ [Next]_vars =>
       deleteRequested' \/ \A n \in Nameservers : nsSerial'[n] >= nsSerial[n]
<1> SUFFICES ASSUME TypeOK, DeletionKnown, [Next]_vars
             PROVE  \/ deleteRequested'
                    \/ \A n \in Nameservers : nsSerial'[n] >= nsSerial[n]
  OBVIOUS
<1>1. \A n \in Nameservers : nsSerial[n] \in Nat
  BY DEF TypeOK
<1>2. ASSUME NEW j \in Jobs, ActOnTargets(j)
      PROVE  deleteRequested' \/ nsSerial' = nsSerial
  BY <1>2 DEF ActOnTargets, DeletionKnown, TypeOK, central
<1>3. ASSUME NEW n \in Nameservers, Transfer(n)
      PROVE  \A m \in Nameservers : nsSerial'[m] >= nsSerial[m]
  BY <1>1, <1>3 DEF Transfer, TypeOK, Zone
<1>4. ASSUME NEW j \in Jobs, PollNameservers(j) PROVE nsSerial' = nsSerial
  BY <1>4, PollFrame DEF dns
<1>5. CASE nsSerial' = nsSerial
  BY <1>1, <1>5
<1>6. QED
  BY <1>2, <1>3, <1>4, <1>5
     DEF Next, vars, dns, CreateRecordset, UpdateRecordset, DeleteRecordset,
         UpdateZone, AddNs, DeleteNs, BeginRequest,
         CommitRequest, CreateRecordsetInStorage, UpdateRecordsetInStorage,
         DeleteRecordsetInStorage, CommitZone, Transaction, AbortRequest, DeleteZone,
         AbandonZone, ReadForIncrement, IncrementSerial, NotifyAfterIncrement,
         ReadForNotify, DelayedNotify, ResetDelayedNotify, ProducerCrash,
         RecoverShard, ReadForStatus, CommitStatus, LoseJob, Tick

\* An honest report stays honest until it is delivered.
LEMMA HonestStep ==
    TypeOK /\ DeletionKnown /\ ReportIsHonest /\ [Next]_vars => ReportIsHonest'
<1> SUFFICES ASSUME TypeOK, DeletionKnown, ReportIsHonest, [Next]_vars,
                    ~deleteRequested', NEW j \in Jobs,
                    jobs'[j].pc = "report", jobs'[j].status = "SUCCESS",
                    jobs'[j].action # "DELETE"
             PROVE  CompareThreshold(
                       Cardinality({n \in Nameservers :
                                       nsSerial'[n] >= jobs'[j].serial}),
                       Cardinality(Nameservers))
  BY DEF ReportIsHonest
<1> DEFINE s      == jobs'[j].serial
           before == {n \in Nameservers : nsSerial[n] >= s}
           after  == {n \in Nameservers : nsSerial'[n] >= s}
           total  == Cardinality(Nameservers)
<1>1. TypeOK' /\ JobStep(j) /\ ~deleteRequested
  BY TypeStep, JobSteps, ActionSteps
<1>2. \A n \in Nameservers : nsSerial'[n] >= nsSerial[n]
  BY NameserverStep
<1>3. s \in Nat /\ \A n \in Nameservers : nsSerial[n] \in Nat /\ nsSerial'[n] \in Nat
  BY <1>1 DEF TypeOK, Job
<1>4. CompareThreshold(Cardinality(before), total)
  BY <1>1 DEF JobStep, ReportIsHonest
<1>5. before \subseteq after
  BY <1>2, <1>3
<1>6. /\ Cardinality(before) \in Nat
      /\ Cardinality(after) \in Nat
      /\ Cardinality(before) <= Cardinality(after)
      /\ total \in Nat
  <2>1. IsFiniteSet(Nameservers) /\ after \subseteq Nameservers
    BY LifecycleAssumption
  <2>2. IsFiniteSet(after)
    BY <2>1, FS_Subset
  <2>3. QED
    BY <2>1, <2>2, <1>5, FS_Subset, FS_CardinalityType
<1>7. QED
  BY <1>4, <1>6, ThresholdMonotone

-----------------------------------------------------------------------------
(* The inductive invariant and what follows from it.                       *)

\* The invariant holds initially.
LEMMA InitIInv == Init => IInv
<1> SUFFICES ASSUME Init PROVE IInv
  OBVIOUS
<1>1. TypeOK
  BY TypeInit
<1>2. SerialsPast /\ ChangeTracked
  <2>1. CASE Fresh
    BY <2>1 DEF Init, Fresh, SerialsPast, ChangeTracked, NoRecord
  <2>2. CASE Settled
    BY <2>2 DEF Init, Settled, SerialsPast, ChangeTracked
  <2>3. QED
    BY <2>1, <2>2 DEF Init
<1>3. Idle.action = "NONE" /\ Idle.pc = "idle" /\ Idle.effect.zone = Unassigned
      /\ LET q == [Idle EXCEPT !.pc = "queued", !.action = "CREATE",
                               !.serial = clock]
         IN  q.action = "CREATE" /\ q.pc = "queued" /\ q.effect.zone = Unassigned
  BY DEF Idle, NoEffect
<1>4. Unassigned.status # "DELETED" /\ Unassigned.action # "DELETE"
  BY DEF Unassigned, Keep
<1>5. /\ zone.live /\ zone.action # "DELETE"
      /\ \A j \in Jobs : /\ jobs[j].action # "DELETE"
                         /\ jobs[j].pc # "report"
                         /\ jobs[j].effect.zone = Unassigned
  <2>1. CASE Fresh
    BY <2>1, <1>3 DEF Init, Fresh
  <2>2. CASE Settled
    BY <2>2, <1>3 DEF Init, Settled
  <2>3. QED
    BY <2>1, <2>2 DEF Init
<1>6. DeletionKnown
  BY <1>4, <1>5 DEF DeletionKnown, Init, NoSerialTask, NoNotifyTask
<1>7. ReportIsHonest
  BY <1>5 DEF ReportIsHonest
<1>8. QED
  BY <1>1, <1>2, <1>6, <1>7 DEF IInv

\* Every step preserves the invariant.
LEMMA NextIInv == IInv /\ [Next]_vars => IInv'
BY TypeStep, TrackedStep, DeletionStep, HonestStep DEF IInv

\* The inductive invariant of central, producer, workers and nameservers.
THEOREM Inductive == Spec => []IInv
BY InitIInv, NextIInv, PTL DEF Spec

\* Rows, tasks, messages and nameservers always hold values of their types.
THEOREM TypeCorrect == Spec => []TypeOK
<1>1. IInv => TypeOK
  BY DEF IInv
<1>2. QED
  BY <1>1, Inductive, PTL

\* No committed change of a record is forgotten by the producer.
THEOREM ChangesTracked == Spec => []ChangeTracked
<1>1. IInv => ChangeTracked
  BY DEF IInv
<1>2. QED
  BY <1>1, Inductive, PTL

\* No report, in whatever order, removes a zone that nobody wanted to delete.
THEOREM RemovalRequested == Spec => []RemovedOnlyIfRequested
<1>1. IInv => RemovedOnlyIfRequested
  BY DEF IInv, DeletionKnown, RemovedOnlyIfRequested
<1>2. QED
  BY <1>1, Inductive, PTL

\* A success that is reported is true when it is delivered.
THEOREM ReportsHonest == Spec => []ReportIsHonest
<1>1. IInv => ReportIsHonest
  BY DEF IInv
<1>2. QED
  BY <1>1, Inductive, PTL

\* The serial of a zone never falls.
THEOREM SerialMonotone == Spec => SerialNeverFalls
<1>1. IInv /\ [Next]_vars => [zone'.serial >= zone.serial]_zone
  <2> SUFFICES ASSUME IInv, [Next]_vars PROVE zone'.serial >= zone.serial
    OBVIOUS
  <2>1. RowStep /\ zone.serial \in Nat /\ clock \in Nat /\ zone.serial <= clock
    BY RowSteps DEF IInv, TypeOK, Zone, SerialsPast
  <2>2. QED
    BY <2>1 DEF RowStep
<1>2. QED
  BY <1>1, Inductive, PTL DEF Spec, SerialNeverFalls

\* Nothing is written to the row of a zone that has been deleted.
THEOREM DeletedForGood == Spec => DeletedStaysDeleted
<1>1. IInv /\ [Next]_vars => [zone.live]_zone
  BY RowSteps DEF IInv, RowStep
<1>2. QED
  BY <1>1, Inductive, PTL DEF Spec, DeletedStaysDeleted

=============================================================================
