---------------------------- MODULE ServicesProofs ----------------------------
(***************************************************************************)
(* Proofs about the services around the zones, for any number of servers,  *)
(* jobs, threads, instances, nameservers and clients, any limits and any   *)
(* number of failures.  The invariant of a part that makes a promise says, *)
(* beyond the promise, what each step under way knows of the state it read *)
(* and has still to write.                                                 *)
(***************************************************************************)
EXTENDS MCServices, FiniteSetTheorems, TLAPS

-----------------------------------------------------------------------------
(* SecondaryZone.                                                          *)

Queued == [at : {"queued"}, servers : SUBSET Masters]
Transferred == [at : {"transferred"}, serial : Serials]
Xfrs == {NoXfr} \union Queued \union Transferred

Asks == {NotAsking} \union [at : {"asking"}, of : Masters, seen : Serials]

SecondaryTyped ==
    /\ SecondaryTypeOK
    /\ asking \in [{"notify", "refresh"} -> Asks]
    /\ jobs \in [JobIds -> Xfrs]

LEMMA SecondaryStarts == SecondaryInit \/ SecondaryAtRest => SecondaryTyped
<1>1. 1 \in Serials /\ FirstSerial \in Serials /\ 0 \in Serials
  BY SecondaryAssumption DEF Serials
<1>2. Masters # {} /\ NoXfr \in Xfrs
  BY SecondaryAssumption DEF Xfrs
<1>3. [at |-> "queued", servers |-> Masters] \in Xfrs
  BY DEF Xfrs, Queued
<1> SUFFICES ASSUME SecondaryInit \/ SecondaryAtRest PROVE SecondaryTyped
  OBVIOUS
<1>4. SecondaryTypeOK
  <2>1. PICK status \in {"PENDING", "ACTIVE"} :
            copy = [serial |-> FirstSerial, transferred |-> FALSE, status |-> status]
    BY DEF SecondaryInit, SecondaryAtRest
  <2>2. copy \in [serial : Serials, transferred : BOOLEAN, status : {"PENDING", "ACTIVE"}]
    BY <1>1, <2>1
  <2>3. master \in [Masters -> Serials] /\ served \in Serials
    BY <1>1 DEF SecondaryInit, SecondaryAtRest
  <2>4. masters \in (SUBSET Masters) \ {{}}
    <3>1. masters = Masters
      BY DEF SecondaryInit, SecondaryAtRest
    <3> QED
      BY <1>2, <3>1
  <2> QED
    BY <1>2, <2>2, <2>3, <2>4 DEF SecondaryTypeOK
<1>5. asking \in [{"notify", "refresh"} -> Asks]
  BY DEF SecondaryInit, SecondaryAtRest, Asks
<1>6. jobs \in [JobIds -> Xfrs]
  BY <1>2, <1>3 DEF SecondaryInit, SecondaryAtRest
<1> QED
  BY <1>4, <1>5, <1>6 DEF SecondaryTyped

\* Jobs are numbered without gaps; they stay jobs as one comes and one ends.
LEMMA JobsStayTyped ==
    ASSUME SecondaryTyped
    PROVE  /\ \A servers \in SUBSET Masters : Schedule(servers) => jobs' \in [JobIds -> Xfrs]
           /\ \A j \in JobIds : EndJob(j) => jobs' \in [JobIds -> Xfrs]
<1>1. ASSUME NEW servers \in SUBSET Masters, Schedule(servers) PROVE jobs' \in [JobIds -> Xfrs]
  <2>1. [at |-> "queued", servers |-> servers] \in Xfrs
    BY DEF Xfrs, Queued
  <2> QED
    BY <1>1, <2>1 DEF Schedule, SecondaryTyped
<1>2. ASSUME NEW j \in JobIds, EndJob(j) PROVE jobs' \in [JobIds -> Xfrs]
  <2>1. NoXfr \in Xfrs
    BY DEF Xfrs
  <2>2. MaxJobs \in Nat
    BY SecondaryAssumption
  <2>3. \A i \in JobIds : i < MaxJobs => i + 1 \in JobIds
    BY <2>2 DEF JobIds
  <2> QED
    BY <1>2, <2>1, <2>3 DEF EndJob, SecondaryTyped
<1> QED
  BY <1>1, <1>2

LEMMA SecondaryMoves == SecondaryTyped /\ [SecondaryNext]_secondaryVars => SecondaryTyped'
<1> SUFFICES ASSUME SecondaryTyped, [SecondaryNext]_secondaryVars
             PROVE  SecondaryTyped'
  OBVIOUS
<1> DEFINE Who == {"notify", "refresh"}
<1>1. /\ LastSerial \in Nat \ {0} /\ 1 \in Serials
      /\ \A m \in Masters : master[m] \in Serials
    BY SecondaryAssumption DEF Serials, SecondaryTyped, SecondaryTypeOK
<1>2. ASSUME NEW m \in Masters, Publish(m) \/ Follow(m) \/ LoseNotify(m) \/ FallBack
      PROVE  SecondaryTyped'
  <2>1. master' \in [Masters -> Serials]
    BY <1>1, <1>2
    DEF Publish, Follow, LoseNotify, FallBack, Serials, SecondaryTyped, SecondaryTypeOK
  <2>2. UNCHANGED <<copy, masters, asking, jobs, served>>
    BY <1>2 DEF Publish, Follow, LoseNotify, FallBack
  <2> QED
    BY <2>1, <2>2 DEF SecondaryTyped, SecondaryTypeOK
<1>3. ASSUME NEW m \in Masters, TakeNotify(m) \/ StartRefresh(m) PROVE SecondaryTyped'
  <2>1. [at |-> "asking", of |-> m, seen |-> copy.serial] \in Asks
    BY DEF Asks, SecondaryTyped, SecondaryTypeOK
  <2>2. asking' \in [Who -> Asks]
    BY <1>3, <2>1 DEF TakeNotify, StartRefresh, Ask, SecondaryTyped
  <2> QED
    BY <1>3, <2>2 DEF TakeNotify, StartRefresh, SecondaryTyped, SecondaryTypeOK
<1>4. ASSUME NEW who \in Who, Answer(who) \/ NoAnswer(who) PROVE SecondaryTyped'
  <2>1. NotAsking \in Asks
    BY DEF Asks
  <2>2. asking' \in [Who -> Asks]
    BY <1>4, <2>1 DEF Answer, NoAnswer, SecondaryTyped
  <2>3. asking[who].of \in Masters
    BY <1>4 DEF Answer, NoAnswer, SecondaryTyped, Asks, NotAsking
  <2>4. masters \in SUBSET Masters
    BY DEF SecondaryTyped, SecondaryTypeOK
  <2>5. jobs' \in [JobIds -> Xfrs]
    BY <1>4, <2>3, <2>4, JobsStayTyped DEF Answer, NoAnswer, SecondaryTyped
  <2> QED
    BY <1>4, <2>2, <2>5 DEF Answer, NoAnswer, SecondaryTyped, SecondaryTypeOK
<1>5. ASSUME NEW j \in JobIds, Transfer(j) PROVE SecondaryTyped'
  <2>1. PICK m \in jobs[j].servers :
            jobs' = [jobs EXCEPT ![j] = [at |-> "transferred", serial |-> master[m]]]
    BY <1>5 DEF Transfer
  <2>2. m \in Masters
    BY <1>5, <2>1 DEF Transfer, SecondaryTyped, Xfrs, NoXfr, Queued, Transferred
  <2>3. [at |-> "transferred", serial |-> master[m]] \in Xfrs
    BY <1>1, <2>2 DEF Xfrs, Transferred
  <2> QED
    BY <1>5, <2>1, <2>3 DEF Transfer, SecondaryTyped, SecondaryTypeOK
<1>6. ASSUME NEW j \in JobIds, Store(j) \/ LoseJob(j) PROVE SecondaryTyped'
  <2>1. jobs' \in [JobIds -> Xfrs]
    BY <1>6, JobsStayTyped DEF Store, LoseJob
  <2>2. Store(j) => jobs[j].serial \in Serials
    BY DEF Store, SecondaryTyped, Xfrs, NoXfr, Queued, Transferred
  <2>3. copy' \in [serial : Serials, transferred : BOOLEAN, status : {"PENDING", "ACTIVE"}]
    <3>1. CASE Store(j)
      BY <2>2, <3>1 DEF Store
    <3>2. CASE LoseJob(j)
      BY <3>2 DEF LoseJob, SecondaryTyped, SecondaryTypeOK
    <3> QED
      BY <1>6, <3>1, <3>2
  <2> QED
    BY <1>6, <2>1, <2>3 DEF Store, LoseJob, SecondaryTyped, SecondaryTypeOK
<1>7. ASSUME NEW set \in (SUBSET Masters) \ {{}}, ChangeMasters(set) PROVE SecondaryTyped'
  <2>1. jobs' \in [JobIds -> Xfrs]
    BY <1>7, JobsStayTyped DEF ChangeMasters
  <2> QED
    BY <1>7, <2>1 DEF ChangeMasters, SecondaryTyped, SecondaryTypeOK
<1>8. ASSUME Announce \/ ChangeAttributes PROVE SecondaryTyped'
  BY <1>8 DEF Announce, ChangeAttributes, SecondaryTyped, SecondaryTypeOK
<1>9. CASE UNCHANGED secondaryVars
  BY <1>9 DEF secondaryVars, SecondaryTyped, SecondaryTypeOK
<1>10. Masters # {}
  BY SecondaryAssumption
<1> QED
  BY <1>2, <1>3, <1>4, <1>5, <1>6, <1>7, <1>8, <1>9, <1>10
  DEF SecondaryNext, Asking, Refreshing, Working

-----------------------------------------------------------------------------
(* ServiceStatus.                                                          *)

Statuses == {"UP", "DOWN", "STOPPED"}
StatusRows == [there : {TRUE}, status : Statuses, age : Ages]
Calling ==
    [at : {"read", "sent", "found", "create"}, status : Statuses, age : Ages, same : BOOLEAN]

StatusTyped ==
    /\ row = NoStatus \/ row \in StatusRows
    /\ update \in [Updaters -> {NoUpdate} \union Calling]
    /\ starts \in 0..MaxStarts /\ losses \in 0..MaxLosses

\* A verdict under way is about a row without a recent heartbeat.
DownIsOld ==
    \A who \in Updaters :
        update[who] # NoUpdate /\ update[who].status = "DOWN" => update[who].age # "fresh"

StatusInv == StatusTyped /\ DownIsOld /\ DownMeansNoBeat

LEMMA StatusInvSuffices == StatusInv => StatusTypeOK /\ DownMeansNoBeat
<1> SUFFICES ASSUME StatusInv PROVE StatusTypeOK
  BY DEF StatusInv
<1>1. \A who \in Updaters : update[who].at \in {"idle", "read", "sent", "found", "create"}
  BY DEF StatusInv, StatusTyped, Calling, NoUpdate
<1> QED
  BY <1>1 DEF StatusInv, StatusTyped, StatusTypeOK, StatusRows, Statuses

LEMMA StatusStarts == StatusInit \/ StatusAtRest => StatusInv
  BY StatusAssumption
  DEF StatusInit, StatusAtRest, StatusInv, StatusTyped, DownIsOld, DownMeansNoBeat, NoStatus

\* A call is replaced by another one, or ends.
LEMMA OneCallChanges ==
    ASSUME StatusInv, NEW who \in Updaters, NEW to \in {NoUpdate} \union Calling,
           update' = [update EXCEPT ![who] = to],
           to # NoUpdate /\ to.status = "DOWN" => to.age # "fresh"
    PROVE  update' \in [Updaters -> {NoUpdate} \union Calling] /\ DownIsOld'
  BY DEF StatusInv, StatusTyped, DownIsOld

LEMMA StatusRowIs ==
    /\ \A call \in Calling :
          /\ StatusRow(call.status, call.age) \in StatusRows
          /\ StatusRow(call.status, call.age).status = call.status
          /\ StatusRow(call.status, call.age).age = call.age
    /\ StatusTyped /\ row.there => row \in StatusRows
<1>1. ASSUME NEW call \in Calling
      PROVE  /\ StatusRow(call.status, call.age) \in StatusRows
             /\ StatusRow(call.status, call.age).status = call.status
             /\ StatusRow(call.status, call.age).age = call.age
  <2>1. call.status \in Statuses /\ call.age \in Ages
    BY DEF Calling
  <2> QED
    BY <2>1 DEF StatusRow, StatusRows
<1>2. ~NoStatus.there
  BY DEF NoStatus
<1> QED
  BY <1>1, <1>2 DEF StatusTyped

LEMMA StatusMoves == StatusInv /\ [StatusNext]_statusVars => StatusInv'
<1> SUFFICES ASSUME StatusInv, [StatusNext]_statusVars PROVE StatusInv'
  OBVIOUS
<1>1. /\ StatusTyped /\ DownIsOld /\ DownMeansNoBeat
      /\ MaxStarts \in Nat /\ MaxLosses \in Nat
  BY StatusAssumption DEF StatusInv
<1>2. \A who \in Updaters : update[who] # NoUpdate => update[who] \in Calling
  BY <1>1 DEF StatusTyped
<1>3. ASSUME Beat \/ Stop PROVE StatusInv'
  <2>1. Sent("UP", "fresh") \in Calling /\ Sent("STOPPED", "fresh") \in Calling
    BY DEF Sent, Calling, Statuses, Ages
  <2>2. PICK who \in Updaters, status \in {"UP", "STOPPED"} :
            update' = [update EXCEPT ![who] = Sent(status, "fresh")]
    BY <1>3 DEF Beat, Stop, Updaters
  <2>3. Sent(status, "fresh").status # "DOWN"
    BY DEF Sent
  <2>4. update' \in [Updaters -> {NoUpdate} \union Calling] /\ DownIsOld'
    BY <2>1, <2>2, <2>3, OneCallChanges
  <2> QED
    BY <1>1, <1>3, <2>4 DEF Beat, Stop, StatusInv, StatusTyped, DownMeansNoBeat
<1>4. ASSUME CrashService \/ Start \/ ReadStopped PROVE StatusInv'
  BY <1>1, <1>4
  DEF CrashService, Start, ReadStopped, StatusInv, StatusTyped, DownIsOld, DownMeansNoBeat
<1>5. ASSUME NEW who \in Updaters, Find(who) PROVE StatusInv'
  <2>1. update[who] \in Calling
    BY <1>2, <1>5 DEF Find, NoUpdate
  <2> DEFINE found == [update[who] EXCEPT !.at = "found", !.same = TRUE]
             create == [update[who] EXCEPT !.at = "create"]
  <2>2. found \in Calling /\ create \in Calling
    BY <2>1 DEF Calling
  <2>3. found.status = update[who].status /\ found.age = update[who].age
        /\ create.status = update[who].status /\ create.age = update[who].age
    BY <2>1 DEF Calling
  <2>4. update' = [update EXCEPT ![who] = found] \/ update' = [update EXCEPT ![who] = create]
    BY <1>1, <1>5, <2>1 DEF Find, Step, Calling, StatusTyped
  <2>5. update[who].status = "DOWN" => update[who].age # "fresh"
    BY <1>1, <1>5 DEF Find, NoUpdate, DownIsOld
  <2> HIDE DEF found, create
  <2>6. update' \in [Updaters -> {NoUpdate} \union Calling] /\ DownIsOld'
    BY <2>2, <2>3, <2>4, <2>5, OneCallChanges
  <2> QED
    BY <1>1, <1>5, <2>6 DEF Find, StatusInv, StatusTyped, DownMeansNoBeat
<1>6. ASSUME NEW who \in Updaters, Write(who) PROVE StatusInv'
  <2>1. update[who] \in Calling /\ update[who] # NoUpdate
    BY <1>2, <1>6 DEF Write, NoUpdate
  <2> DEFINE create == [update[who] EXCEPT !.at = "create"]
  <2>2. create \in Calling
    BY <2>1 DEF Calling
  <2>3. create.status = update[who].status /\ create.age = update[who].age
    BY <2>1 DEF Calling
  <2>4. \/ update' = [update EXCEPT ![who] = NoUpdate]
        \/ update' = [update EXCEPT ![who] = create]
    BY <1>6 DEF Write, Return, Step
  <2>5. update[who].status = "DOWN" => update[who].age # "fresh"
    BY <1>1, <2>1 DEF DownIsOld
  <2> HIDE DEF create
  <2>6. update' \in [Updaters -> {NoUpdate} \union Calling] /\ DownIsOld'
    BY <2>2, <2>3, <2>4, <2>5, OneCallChanges
  <2>7. row' = row \/ row' = StatusRow(update[who].status, update[who].age)
    BY <1>6 DEF Write
  <2>8. (row' = NoStatus \/ row' \in StatusRows) /\ DownMeansNoBeat'
    BY <1>1, <2>1, <2>5, <2>7, StatusRowIs DEF StatusTyped, DownMeansNoBeat
  <2> QED
    BY <1>1, <1>6, <2>6, <2>8 DEF Write, StatusInv, StatusTyped
<1>7. ASSUME NEW who \in Updaters, Create(who) \/ Lose(who) PROVE StatusInv'
  <2>1. update[who] \in Calling /\ update[who] # NoUpdate
    BY <1>2, <1>7 DEF Create, Lose, NoUpdate
  <2>2. update' = [update EXCEPT ![who] = NoUpdate]
    BY <1>7 DEF Create, Lose, Return
  <2>3. update' \in [Updaters -> {NoUpdate} \union Calling] /\ DownIsOld'
    BY <2>2, OneCallChanges
  <2>4. update[who].status = "DOWN" => update[who].age # "fresh"
    BY <1>1, <2>1 DEF DownIsOld
  <2>5. row' = row \/ row' = StatusRow(update[who].status, update[who].age)
    BY <1>7 DEF Create, Lose
  <2>6. (row' = NoStatus \/ row' \in StatusRows) /\ DownMeansNoBeat'
    BY <1>1, <2>1, <2>4, <2>5, StatusRowIs DEF StatusTyped, DownMeansNoBeat
  <2> QED
    BY <1>1, <1>7, <2>3, <2>6 DEF Create, Lose, StatusInv, StatusTyped
<1>8. ASSUME ReadUp PROVE StatusInv'
  <2> DEFINE to == [Sent("UP", row.age) EXCEPT !.at = "read"]
  <2>1. row.age \in Ages
    BY <1>1, <1>8, StatusRowIs DEF ReadUp, StatusRows
  <2>2. to \in Calling /\ to.status = "UP"
    BY <2>1 DEF Sent, Calling, Statuses
  <2>3. update' = [update EXCEPT !["check"] = to] /\ "check" \in Updaters
    BY <1>8 DEF ReadUp, Updaters
  <2> HIDE DEF to
  <2>4. update' \in [Updaters -> {NoUpdate} \union Calling] /\ DownIsOld'
    BY <2>2, <2>3, OneCallChanges
  <2> QED
    BY <1>1, <1>8, <2>4 DEF ReadUp, StatusInv, StatusTyped, DownMeansNoBeat
<1>9. ASSUME MarkDown PROVE StatusInv'
  <2> DEFINE check == update["check"]
             to == IF check.age = "fresh" THEN NoUpdate
                   ELSE [check EXCEPT !.at = "sent", !.status = "DOWN"]
  <2>1. "check" \in Updaters /\ check \in Calling
    BY <1>2, <1>9 DEF MarkDown, NoUpdate, Updaters
  <2>2. /\ to \in {NoUpdate} \union Calling
        /\ to # NoUpdate => to.age # "fresh"
    BY <2>1 DEF Calling, Statuses
  <2>3. update' = [update EXCEPT !["check"] = to]
    BY <1>9 DEF MarkDown
  <2> HIDE DEF to
  <2>4. update' \in [Updaters -> {NoUpdate} \union Calling] /\ DownIsOld'
    BY <2>1, <2>2, <2>3, OneCallChanges
  <2> QED
    BY <1>1, <1>9, <2>4 DEF MarkDown, StatusInv, StatusTyped, DownMeansNoBeat
<1>10. ASSUME DeleteStatus PROVE StatusInv'
  <2>1. \A who \in Updaters : update[who] # NoUpdate =>
            /\ [update[who] EXCEPT !.same = FALSE] \in Calling
            /\ [update[who] EXCEPT !.same = FALSE].status = update[who].status
            /\ [update[who] EXCEPT !.same = FALSE].age = update[who].age
    BY <1>2 DEF Calling
  <2>2. update' \in [Updaters -> {NoUpdate} \union Calling] /\ DownIsOld'
    BY <1>1, <1>10, <2>1 DEF DeleteStatus, StatusTyped, DownIsOld
  <2>3. row' \in {row, NoStatus}
    BY <1>10 DEF DeleteStatus
  <2> QED
    BY <1>1, <1>10, <2>2, <2>3
    DEF DeleteStatus, StatusInv, StatusTyped, DownMeansNoBeat, NoStatus
<1>11. ASSUME Age PROVE StatusInv'
  <2>1. \A age \in Ages : Older(age) \in Ages /\ Older(age) # "fresh"
    BY DEF Older, Ages
  <2>2. \A who \in Updaters : update[who] # NoUpdate =>
            /\ [update[who] EXCEPT !.age = Older(@)] \in Calling
            /\ [update[who] EXCEPT !.age = Older(@)].age # "fresh"
    BY <1>2, <2>1 DEF Calling
  <2>3. update' \in [Updaters -> {NoUpdate} \union Calling] /\ DownIsOld'
    BY <1>11, <2>2 DEF Age, DownIsOld
  <2>4. row \in StatusRows /\ row' = [row EXCEPT !.age = Older(@)]
    BY <1>1, <1>11, StatusRowIs DEF Age
  <2>5. row' \in StatusRows /\ row'.age # "fresh"
    BY <2>1, <2>4 DEF StatusRows
  <2> QED
    BY <1>1, <1>11, <2>3, <2>5 DEF Age, StatusInv, StatusTyped, DownMeansNoBeat
<1>12. CASE UNCHANGED statusVars
  BY <1>1, <1>12 DEF statusVars, StatusInv, StatusTyped, DownIsOld, DownMeansNoBeat
<1> QED
  BY <1>3, <1>4, <1>5, <1>6, <1>7, <1>8, <1>9, <1>10, <1>11, <1>12 DEF StatusNext, Handle

-----------------------------------------------------------------------------
(* Backends.                                                               *)

JobSteps ==
    {"login", "check", "clear?", "clear", "add", "undo?", "undo", "activate", "logout",
     "notify", "remove", "soft", "poll", "seen", "failed"}

JobsOnTarget == [at : JobSteps, does : {"CREATE", "DELETE"}, tries : 0..MaxAttempts]

\* The steps that take a zone off a target, and those that lead there.
Undoing == {"check", "clear?", "clear", "undo?", "undo", "remove", "soft"}

Remotes == {"none", "added", "serving"}

BackendsTyped ==
    /\ backend \in BackendNames /\ remote \in Remotes /\ want \in {"CREATE", "DELETE"}
    /\ job \in [1..2 -> {NoJob} \union JobsOnTarget]
    /\ report \in {"none", "SUCCESS", "ERROR"} /\ crossed \in BOOLEAN

\* What a job is for.
Purpose(does) == IF does = "CREATE" THEN "serving" ELSE "none"

\* A job that has crossed no other is the only one, and what its poll saw holds.
Alone ==
    \A j \in 1..2 :
        job[j] # NoJob =>
            /\ job[3 - j] = NoJob
            /\ job[j].does = want /\ report # "SUCCESS"
            /\ job[j].at = "seen" => remote = Purpose(want)

\* Creations that do not look first never take the zone off the target.
CreationsAgree ==
    /\ \A j \in 1..2 :
          job[j] # NoJob =>
              /\ job[j].does = "CREATE" /\ job[j].at \notin Undoing
              /\ job[j].at = "seen" => remote = "serving"
    /\ report = "SUCCESS" => remote = "serving"

BackendsInv ==
    /\ BackendsTyped
    /\ ~crossed => Alone
    /\ want = "CREATE" /\ backend \notin Lookers => CreationsAgree
    /\ SuccessIsTrue

LEMMA BackendsInvSuffices == BackendsInv => BackendsTypeOK /\ SuccessIsTrue
<1> SUFFICES ASSUME BackendsInv PROVE BackendsTypeOK
  BY DEF BackendsInv
<1>1. \A j \in 1..2 : job[j] = NoJob \/ job[j] \in JobsOnTarget
  BY DEF BackendsInv, BackendsTyped
<1>2. \A r \in JobsOnTarget : r.does \in {"CREATE", "DELETE"} /\ r.tries \in 0..MaxAttempts
  BY DEF JobsOnTarget
<1> QED
  BY <1>1, <1>2 DEF BackendsInv, BackendsTyped, BackendsTypeOK, Remotes

LEMMA BackendsStart == BackendsInit \/ BackendsAtRest => BackendsInv
<1> SUFFICES ASSUME BackendsInit \/ BackendsAtRest PROVE BackendsInv
  OBVIOUS
<1>1. /\ backend \in BackendNames /\ want = "CREATE" /\ crossed = FALSE
      /\ job = [j \in 1..2 |-> NoJob] /\ remote \in Remotes
      /\ report \in {"none", "SUCCESS"} /\ (report = "SUCCESS" => remote = "serving")
  BY DEF BackendsInit, BackendsAtRest, BackendNames, Lenient, Remotes
<1>2. \A j \in 1..2 : job[j] = NoJob
  BY <1>1
<1>3. BackendsTyped
  BY <1>1 DEF BackendsTyped
<1>4. Alone /\ CreationsAgree /\ SuccessIsTrue
  BY <1>1, <1>2 DEF Alone, CreationsAgree, SuccessIsTrue
<1> QED
  BY <1>3, <1>4 DEF BackendsInv

\* Job j comes to a step, the other job stays.
Comes(j, step) ==
    \E new \in JobsOnTarget :
        job' = [job EXCEPT ![j] = new] /\ new.does = job[j].does /\ new.at = step

LEMMA ComesTyped ==
    ASSUME BackendsTyped, NEW j \in 1..2, NEW step, Comes(j, step)
    PROVE  /\ job' \in [1..2 -> {NoJob} \union JobsOnTarget]
           /\ job'[j].at = step /\ job'[j].does = job[j].does /\ job'[3 - j] = job[3 - j]
  BY DEF Comes, BackendsTyped

LEMMA NoJobIsNone == NoJob \notin JobsOnTarget /\ NoJob.at = "none"
  BY DEF NoJob, JobsOnTarget, JobSteps

LEMMA GoComes ==
    ASSUME NEW j \in 1..2, job[j] \in JobsOnTarget, NEW step \in JobSteps, Go(j, step)
    PROVE  Comes(j, step)
<1> DEFINE new == [job[j] EXCEPT !.at = step]
<1>1. new \in JobsOnTarget /\ new.does = job[j].does /\ new.at = step
  BY DEF JobsOnTarget
<1>2. job' = [job EXCEPT ![j] = new]
  BY DEF Go
<1> QED
  BY <1>1, <1>2 DEF Comes

\* The first step of a job is one of its own, and none that a creation without a
\* look takes a zone away with.
LEMMA FirstStepIs ==
    ASSUME BackendsTyped, NEW does \in {"CREATE", "DELETE"}
    PROVE  /\ FirstStep(does) \in {"login", "check", "add", "remove"}
           /\ does = "CREATE" /\ backend \notin Lookers => FirstStep(does) \in {"login", "add"}
           /\ NewJob(does) \in JobsOnTarget
           /\ NewJob(does).at = FirstStep(does) /\ NewJob(does).does = does
<1>1. /\ FirstStep(does) \in {"login", "check", "add", "remove"}
      /\ does = "CREATE" /\ backend \notin Lookers => FirstStep(does) \in {"login", "add"}
  BY DEF FirstStep
<1>2. 0 \in 0..MaxAttempts
  BY BackendsAssumption
<1> QED
  BY <1>1, <1>2 DEF NewJob, JobsOnTarget, JobSteps

LEMMA FailComes ==
    ASSUME BackendsTyped, NEW j \in 1..2, job[j] \in JobsOnTarget, Fail(j)
    PROVE  Comes(j, "failed") \/ Comes(j, FirstStep(job[j].does))
<1>1. job[j].does \in {"CREATE", "DELETE"} /\ job[j].tries \in 0..MaxAttempts
  BY DEF JobsOnTarget
<1>2. MaxAttempts \in Nat
  BY BackendsAssumption
<1> DEFINE last_one == [job[j] EXCEPT !.at = "failed"]
           again == [NewJob(job[j].does) EXCEPT !.tries = job[j].tries + 1]
<1>3. last_one \in JobsOnTarget /\ last_one.does = job[j].does /\ last_one.at = "failed"
  BY DEF JobsOnTarget, JobSteps
<1>4. /\ NewJob(job[j].does) \in JobsOnTarget
      /\ NewJob(job[j].does).at = FirstStep(job[j].does)
      /\ NewJob(job[j].does).does = job[j].does
  BY <1>1, FirstStepIs
<1>5. job[j].tries + 1 < MaxAttempts =>
          again \in JobsOnTarget /\ again.does = job[j].does
          /\ again.at = FirstStep(job[j].does)
  <2> DEFINE first == NewJob(job[j].does)
  <2> HIDE DEF first
  <2>1. first \in JobsOnTarget /\ job[j].tries + 1 < MaxAttempts =>
            /\ [first EXCEPT !.tries = job[j].tries + 1] \in JobsOnTarget
            /\ [first EXCEPT !.tries = job[j].tries + 1].does = first.does
            /\ [first EXCEPT !.tries = job[j].tries + 1].at = first.at
    BY <1>1, <1>2 DEF JobsOnTarget
  <2> QED
    BY <1>4, <2>1 DEF first
<1>6. job' = [job EXCEPT ![j] = IF job[j].tries + 1 < MaxAttempts THEN again ELSE last_one]
  BY DEF Fail
<1> HIDE DEF again, last_one
<1> QED
  BY <1>3, <1>5, <1>6 DEF Comes

\* A step of a job: a creation that does not look first never takes a zone that is
\* served away, and a poll sees what is there.
Goes(j) ==
    \E step \in JobSteps :
        /\ Comes(j, step)
        /\ UNCHANGED <<backend, want, report, crossed>> /\ remote' \in Remotes
        /\ step = "seen" => remote' = remote /\ remote = Purpose(job[j].does)
        /\ job[j].does = "CREATE" /\ backend \notin Lookers /\ job[j].at \notin Undoing =>
              step \notin Undoing /\ (remote = "serving" => remote' = "serving")

LEMMA GoGoes ==
    ASSUME BackendsTyped, NEW j \in 1..2, job[j] \in JobsOnTarget, Rest,
           NEW step \in JobSteps, Go(j, step), remote' \in Remotes,
           step = "seen" => remote' = remote /\ remote = Purpose(job[j].does),
           job[j].does = "CREATE" /\ backend \notin Lookers /\ job[j].at \notin Undoing =>
               step \notin Undoing /\ (remote = "serving" => remote' = "serving")
    PROVE  Goes(j)
  BY GoComes DEF Goes, Rest

LEMMA FailGoes ==
    ASSUME BackendsTyped, NEW j \in 1..2, job[j] \in JobsOnTarget, Rest,
           Fail(j), remote' \in Remotes,
           job[j].does = "CREATE" /\ backend \notin Lookers /\ job[j].at \notin Undoing =>
               (remote = "serving" => remote' = "serving")
    PROVE  Goes(j)
<1>1. job[j].does \in {"CREATE", "DELETE"}
  BY DEF JobsOnTarget
<1>2. /\ FirstStep(job[j].does) \in {"login", "check", "add", "remove"}
      /\ job[j].does = "CREATE" /\ backend \notin Lookers =>
            FirstStep(job[j].does) \in {"login", "add"}
  BY <1>1, FirstStepIs
<1>3. PICK step \in {"failed", FirstStep(job[j].does)} : Comes(j, step)
  BY FailComes
<1>4. step \in JobSteps /\ step # "seen"
      /\ (job[j].does = "CREATE" /\ backend \notin Lookers => step \notin Undoing)
  BY <1>2, <1>3 DEF JobSteps, Undoing
<1> QED
  BY <1>3, <1>4 DEF Goes, Rest

LEMMA RequestGoes ==
    ASSUME BackendsTyped, NEW j \in 1..2, job[j] \in JobsOnTarget, Rest,
           NEW effect \in Remotes, NEW step \in JobSteps \ {"seen"}, Request(j, effect, step),
           job[j].does = "CREATE" /\ backend \notin Lookers /\ job[j].at \notin Undoing =>
               step \notin Undoing /\ (remote = "serving" => effect = "serving")
    PROVE  Goes(j)
<1>1. CASE remote' = effect /\ Go(j, step)
  BY <1>1, GoGoes
<1>2. CASE remote' \in {remote, effect} /\ Fail(j)
  <2>1. remote \in Remotes
    BY DEF BackendsTyped
  <2> QED
    BY <1>2, <2>1, FailGoes
<1> QED
  BY <1>1, <1>2 DEF Request

LEMMA CheckGoes ==
    ASSUME BackendsTyped, NEW j \in 1..2, job[j] \in JobsOnTarget, job[j].at \in Undoing,
           NEW here \in JobSteps \ {"seen"}, NEW gone \in JobSteps \ {"seen"},
           Check(j, Go(j, here), Go(j, gone)) \/ Check(j, Go(j, here), Fail(j))
    PROVE  Goes(j)
<1>1. Rest /\ remote' = remote /\ remote \in Remotes
  BY DEF Check, Rest, BackendsTyped
<1>2. Go(j, here) \/ Go(j, gone) \/ Fail(j)
  BY DEF Check
<1> QED
  BY <1>1, <1>2, GoGoes, FailGoes

LEMMA AdvanceGoes ==
    ASSUME BackendsTyped, NEW j \in 1..2, Advance(j)
    PROVE  Goes(j) \/ Report(j)
<1>1. remote \in Remotes /\ (job[j] = NoJob \/ job[j] \in JobsOnTarget)
  BY DEF BackendsTyped
<1>2. job[j].at # "none" => job[j] \in JobsOnTarget
  BY <1>1, NoJobIsNone
<1>3. \A step \in JobSteps : step # "none"
  BY DEF JobSteps
<1>4. ASSUME Login(j) PROVE Goes(j)
  <2>1. job[j] \in JobsOnTarget
    BY <1>2, <1>4 DEF Login, Is
  <2> DEFINE step == IF job[j].does = "CREATE" THEN "add" ELSE "remove"
  <2>2. step \in JobSteps \ {"seen"} /\ (job[j].does = "CREATE" => step \notin Undoing)
    BY DEF JobSteps, Undoing
  <2>3. Request(j, remote, step) /\ Rest
    BY <1>4 DEF Login
  <2> HIDE DEF step
  <2> QED
    BY <1>1, <2>1, <2>2, <2>3, RequestGoes
<1>5. ASSUME CheckToCreate(j) \/ CheckToClear(j) \/ CheckToUndo(j) \/ CheckToDelete(j)
      PROVE  Goes(j)
  <2>1. job[j] \in JobsOnTarget /\ job[j].at \in Undoing
    BY <1>2, <1>5 DEF CheckToCreate, CheckToClear, CheckToUndo, CheckToDelete, Is, Undoing
  <2>2. PICK here \in {"clear?", "notify", "clear", "undo", "remove"}, gone \in {"add", "poll"} :
            Check(j, Go(j, here), Go(j, gone)) \/ Check(j, Go(j, here), Fail(j))
    BY <1>5 DEF CheckToCreate, CheckToClear, CheckToUndo, CheckToDelete
  <2>3. here \in JobSteps \ {"seen"} /\ gone \in JobSteps \ {"seen"}
    BY DEF JobSteps
  <2> QED
    BY <2>1, <2>2, <2>3, CheckGoes
<1>6. ASSUME Clear(j) \/ Remove(j) \/ RemoveSoftly(j) PROVE Goes(j)
  <2>1. job[j] \in JobsOnTarget /\ job[j].at \in Undoing
    BY <1>2, <1>6 DEF Clear, Remove, RemoveSoftly, Is, Undoing
  <2>2. Rest
    BY <1>6 DEF Clear, Remove, RemoveSoftly
  <2>3. \/ \E step \in {"add", "logout", "poll"} : Request(j, "none", step)
        \/ Go(j, "soft") /\ remote' = remote
    BY <1>6 DEF Clear, Remove, RemoveSoftly
  <2>4. {"add", "logout", "poll"} \subseteq JobSteps \ {"seen"} /\ "none" \in Remotes
        /\ "soft" \in JobSteps /\ "soft" # "seen"
    BY DEF JobSteps, Remotes
  <2> QED
    BY <1>1, <2>1, <2>2, <2>3, <2>4, RequestGoes, GoGoes
<1>7. ASSUME Add(j) PROVE Goes(j)
  <2>1. job[j] \in JobsOnTarget /\ remote # "serving" /\ Rest
    BY <1>2, <1>7 DEF Add, Is
  <2>2. \/ \E effect \in {"added", "serving"}, step \in {"activate", "notify"} :
              Request(j, effect, step)
        \/ backend \in Lookers /\ remote' \in {"none", "serving"} /\ Go(j, "undo?")
    BY <1>7 DEF Add
  <2>3. /\ {"added", "serving", "none"} \subseteq Remotes /\ "undo?" \in JobSteps
        /\ {"activate", "notify"} \subseteq JobSteps \ ({"seen"} \union Undoing)
    BY DEF JobSteps, Remotes, Undoing
  <2> QED
    BY <2>1, <2>2, <2>3, RequestGoes, GoGoes
<1>8. ASSUME AddAgain(j) PROVE Goes(j)
  <2>1. job[j] \in JobsOnTarget /\ Rest
    BY <1>2, <1>8 DEF AddAgain, Is
  <2>2. \/ \E step \in {"activate", "notify"} : Request(j, remote, step)
        \/ backend \in Lookers /\ Go(j, "undo?") /\ remote' = remote
        \/ Fail(j) /\ remote' = remote
    BY <1>8 DEF AddAgain
  <2>3. /\ {"activate", "notify"} \subseteq JobSteps \ ({"seen"} \union Undoing)
        /\ "undo?" \in JobSteps /\ "undo?" # "seen"
    BY DEF JobSteps, Undoing
  <2> QED
    BY <1>1, <2>1, <2>2, <2>3, RequestGoes, GoGoes, FailGoes
<1>9. ASSUME Undo(j) PROVE Goes(j)
  <2>1. job[j] \in JobsOnTarget /\ job[j].at \in Undoing
    BY <1>2, <1>9 DEF Undo, Is, Undoing
  <2>2. Rest /\ Fail(j) /\ remote' \in {"none", remote}
    BY <1>9 DEF Undo
  <2> QED
    BY <1>1, <2>1, <2>2, FailGoes DEF Remotes
<1>10. ASSUME Activate(j) PROVE Goes(j)
  <2>1. job[j] \in JobsOnTarget /\ Rest
    BY <1>2, <1>10 DEF Activate, Is
  <2>2. Request(j, "serving", "logout") \/ (Fail(j) /\ remote' = remote)
    BY <1>10 DEF Activate
  <2>3. "serving" \in Remotes /\ "logout" \in JobSteps \ ({"seen"} \union Undoing)
    BY DEF JobSteps, Remotes, Undoing
  <2> QED
    BY <1>1, <2>1, <2>2, <2>3, RequestGoes, FailGoes
<1>11. ASSUME Logout(j) \/ Notify(j) PROVE Goes(j)
  <2>1. job[j] \in JobsOnTarget /\ Rest
    BY <1>2, <1>11 DEF Logout, Notify, Is
  <2>2. \E step \in {"notify", "poll"} : Request(j, remote, step)
    BY <1>11 DEF Logout, Notify
  <2>3. {"notify", "poll"} \subseteq JobSteps \ ({"seen"} \union Undoing)
    BY DEF JobSteps, Undoing
  <2> QED
    BY <1>1, <2>1, <2>2, <2>3, RequestGoes
<1>12. ASSUME Poll(j) PROVE Goes(j)
  <2>1. job[j] \in JobsOnTarget /\ Rest /\ remote' = remote
    BY <1>2, <1>12 DEF Poll, Is
  <2>2. PICK step \in {"seen", "failed"} :
            Go(j, step) /\ (step = "seen" => remote = Purpose(job[j].does))
    BY <1>12 DEF Poll, Purpose
  <2>3. step \in JobSteps /\ step \notin Undoing
    BY <2>2 DEF JobSteps, Undoing
  <2> QED
    BY <1>1, <2>1, <2>2, <2>3, GoGoes
<1> QED
  BY <1>4, <1>5, <1>6, <1>7, <1>8, <1>9, <1>10, <1>11, <1>12 DEF Advance

LEMMA GoesKeeps ==
    ASSUME BackendsInv, NEW j \in 1..2, job[j] # NoJob, Goes(j)
    PROVE  BackendsInv'
<1>1. BackendsTyped
  BY DEF BackendsInv
<1>2. PICK step \in JobSteps :
          /\ Comes(j, step)
          /\ UNCHANGED <<backend, want, report, crossed>> /\ remote' \in Remotes
          /\ step = "seen" => remote' = remote /\ remote = Purpose(job[j].does)
          /\ job[j].does = "CREATE" /\ backend \notin Lookers /\ job[j].at \notin Undoing =>
                step \notin Undoing /\ (remote = "serving" => remote' = "serving")
  BY DEF Goes
<1>3. /\ job' \in [1..2 -> {NoJob} \union JobsOnTarget]
      /\ job'[j].at = step /\ job'[j].does = job[j].does /\ job'[3 - j] = job[3 - j]
  BY <1>1, <1>2, ComesTyped
<1>4. \A i \in 1..2 : i = j \/ i = 3 - j
  OBVIOUS
<1>5. BackendsTyped'
  BY <1>1, <1>2, <1>3 DEF BackendsTyped
<1>6. ASSUME ~crossed' PROVE Alone'
  <2>1. Alone
    BY <1>2, <1>6 DEF BackendsInv
  <2>2. job[3 - j] = NoJob /\ job[j].does = want /\ report # "SUCCESS"
    BY <2>1 DEF Alone
  <2>3. job'[3 - j] = NoJob /\ job'[j].does = want' /\ report' # "SUCCESS"
        /\ (job'[j].at = "seen" => remote' = Purpose(want'))
    BY <1>2, <1>3, <2>2
  <2> QED
    BY <1>4, <2>3 DEF Alone
<1>7. ASSUME want' = "CREATE", backend' \notin Lookers PROVE CreationsAgree'
  <2>1. CreationsAgree
    BY <1>2, <1>7 DEF BackendsInv
  <2>2. job[j].does = "CREATE" /\ job[j].at \notin Undoing
    BY <2>1 DEF CreationsAgree
  <2>3. step \notin Undoing /\ (remote = "serving" => remote' = "serving")
    BY <1>2, <1>7, <2>2
  <2>4. job'[j].does = "CREATE" /\ job'[j].at \notin Undoing
        /\ (job'[j].at = "seen" => remote' = "serving")
    BY <1>2, <1>3, <2>2, <2>3 DEF Purpose
  <2>5. job[3 - j] # NoJob => job[3 - j].does = "CREATE" /\ job[3 - j].at \notin Undoing
                              /\ (job[3 - j].at = "seen" => remote = "serving")
    BY <2>1 DEF CreationsAgree
  <2>6. job'[3 - j] # NoJob => job'[3 - j].does = "CREATE" /\ job'[3 - j].at \notin Undoing
                               /\ (job'[3 - j].at = "seen" => remote' = "serving")
    BY <1>3, <2>3, <2>5
  <2>7. report' = "SUCCESS" => remote' = "serving"
    BY <1>2, <2>1, <2>3 DEF CreationsAgree
  <2> QED
    BY <1>4, <2>4, <2>6, <2>7 DEF CreationsAgree
<1>8. SuccessIsTrue'
  <2>1. ~crossed => report # "SUCCESS"
    BY DEF BackendsInv, Alone
  <2> QED
    BY <1>2, <1>7, <2>1 DEF SuccessIsTrue, CreationsAgree
<1> QED
  BY <1>5, <1>6, <1>7, <1>8 DEF BackendsInv

LEMMA ReportKeeps ==
    ASSUME BackendsInv, NEW j \in 1..2, Report(j)
    PROVE  BackendsInv'
<1>1. BackendsTyped
  BY DEF BackendsInv
<1>2. /\ job[j] # NoJob /\ job[j].at \in {"seen", "failed"}
      /\ UNCHANGED <<backend, remote, want, crossed>>
      /\ report' = IF job[j].does # want THEN report
                   ELSE IF job[j].at = "seen" THEN "SUCCESS" ELSE "ERROR"
  BY NoJobIsNone DEF Report
<1>3. job' = [job EXCEPT ![j] = NoJob] /\ job'[j] = NoJob /\ job'[3 - j] = job[3 - j]
  BY <1>1 DEF Report, BackendsTyped
<1>4. \A i \in 1..2 : i = j \/ i = 3 - j
  OBVIOUS
<1>5. BackendsTyped'
  BY <1>1, <1>2, <1>3 DEF BackendsTyped
<1>6. ASSUME ~crossed' PROVE Alone' /\ (report' = "SUCCESS" => remote' = Purpose(want'))
  <2>1. Alone
    BY <1>2, <1>6 DEF BackendsInv
  <2>2. job[3 - j] = NoJob /\ job[j].does = want
        /\ (job[j].at = "seen" => remote = Purpose(want))
    BY <1>2, <2>1 DEF Alone
  <2>3. \A i \in 1..2 : job'[i] = NoJob
    BY <1>3, <1>4, <2>2
  <2> QED
    BY <1>2, <2>2, <2>3 DEF Alone
<1>7. ASSUME want' = "CREATE", backend' \notin Lookers PROVE CreationsAgree'
  <2>1. CreationsAgree
    BY <1>2, <1>7 DEF BackendsInv
  <2>2. report' = "SUCCESS" => remote' = "serving"
    BY <1>2, <2>1 DEF CreationsAgree
  <2>3. \A i \in 1..2 : job'[i] = NoJob \/ job'[i] = job[i]
    BY <1>3, <1>4
  <2> QED
    BY <1>2, <2>1, <2>2, <2>3 DEF CreationsAgree
<1>8. SuccessIsTrue'
  BY <1>6, <1>7 DEF SuccessIsTrue, CreationsAgree, Purpose
<1> QED
  BY <1>5, <1>6, <1>7, <1>8 DEF BackendsInv

LEMMA RecoverKeeps ==
    ASSUME BackendsInv, NEW j \in 1..2, Recover(j) \/ RecoverTooEarly(j)
    PROVE  BackendsInv'
<1>1. BackendsTyped /\ want \in {"CREATE", "DELETE"}
  BY DEF BackendsInv, BackendsTyped
<1>2. /\ report # "SUCCESS" /\ UNCHANGED <<backend, remote, want, report>>
      /\ job' = [job EXCEPT ![j] = NewJob(want)]
      /\ crossed' \in BOOLEAN /\ (~crossed' => ~crossed /\ Idle)
  BY <1>1 DEF Recover, RecoverTooEarly, BackendsTyped
<1>3. /\ NewJob(want) \in JobsOnTarget /\ NewJob(want).does = want
      /\ NewJob(want).at # "seen"
      /\ want = "CREATE" /\ backend \notin Lookers => NewJob(want).at \notin Undoing
  BY <1>1, FirstStepIs DEF Undoing
<1>4. job'[j] = NewJob(want) /\ job'[3 - j] = job[3 - j]
  BY <1>1, <1>2 DEF BackendsTyped
<1>5. \A i \in 1..2 : i = j \/ i = 3 - j
  OBVIOUS
<1>6. BackendsTyped'
  BY <1>1, <1>2, <1>3 DEF BackendsTyped
<1>7. ASSUME ~crossed' PROVE Alone'
  <2>1. job[3 - j] = NoJob
    BY <1>1, <1>2, <1>7 DEF Idle, BackendsTyped
  <2> QED
    BY <1>2, <1>3, <1>4, <1>5, <2>1 DEF Alone
<1>8. ASSUME want' = "CREATE", backend' \notin Lookers PROVE CreationsAgree'
  <2>1. want = "CREATE" /\ CreationsAgree
    BY <1>2, <1>8 DEF BackendsInv
  <2>2. \A i \in 1..2 : job'[i] = NewJob(want) \/ job'[i] = job[i]
    BY <1>4, <1>5
  <2> QED
    BY <1>2, <1>3, <1>8, <2>1, <2>2 DEF CreationsAgree
<1>9. SuccessIsTrue'
  BY <1>2 DEF SuccessIsTrue
<1> QED
  BY <1>6, <1>7, <1>8, <1>9 DEF BackendsInv

LEMMA AskToDeleteKeeps ==
    ASSUME BackendsInv, NEW j \in 1..2, AskToDelete(j)
    PROVE  BackendsInv'
<1>1. BackendsTyped /\ "DELETE" \in {"CREATE", "DELETE"}
  BY DEF BackendsInv
<1>2. /\ want' = "DELETE" /\ report' = "none" /\ UNCHANGED <<backend, remote>>
      /\ job' = [job EXCEPT ![j] = NewJob("DELETE")]
      /\ crossed' \in BOOLEAN /\ (~crossed' => Idle)
  BY DEF AskToDelete
<1>3. /\ NewJob("DELETE") \in JobsOnTarget /\ NewJob("DELETE").does = "DELETE"
      /\ NewJob("DELETE").at # "seen"
  BY <1>1, FirstStepIs
<1>4. job'[j] = NewJob("DELETE") /\ job'[3 - j] = job[3 - j]
  BY <1>1, <1>2 DEF BackendsTyped
<1>5. \A i \in 1..2 : i = j \/ i = 3 - j
  OBVIOUS
<1>6. BackendsTyped'
  BY <1>1, <1>2, <1>3 DEF BackendsTyped
<1>7. ASSUME ~crossed' PROVE Alone'
  <2>1. job[3 - j] = NoJob
    BY <1>1, <1>2, <1>7 DEF Idle, BackendsTyped
  <2> QED
    BY <1>2, <1>3, <1>4, <1>5, <2>1 DEF Alone
<1> QED
  BY <1>2, <1>6, <1>7 DEF BackendsInv, SuccessIsTrue

LEMMA BackendsMove == BackendsInv /\ [BackendsNext]_backendVars => BackendsInv'
<1> SUFFICES ASSUME BackendsInv, [BackendsNext]_backendVars PROVE BackendsInv'
  OBVIOUS
<1>1. BackendsTyped
  BY DEF BackendsInv
<1>2. ASSUME NEW j \in 1..2, Advance(j) PROVE BackendsInv'
  <2>1. job[j] # NoJob
    BY <1>2, NoJobIsNone
    DEF Advance, Login, CheckToCreate, CheckToClear, Clear, Add, AddAgain, CheckToUndo, Undo,
        Activate, Logout, Notify, CheckToDelete, Remove, RemoveSoftly, Poll, Report, Is
  <2> QED
    BY <1>1, <1>2, <2>1, AdvanceGoes, GoesKeeps, ReportKeeps
<1>3. CASE UNCHANGED backendVars
  BY <1>3
  DEF backendVars, BackendsInv, BackendsTyped, Alone, CreationsAgree, SuccessIsTrue
<1> QED
  BY <1>2, <1>3, RecoverKeeps, AskToDeleteKeeps DEF BackendsNext

-----------------------------------------------------------------------------
(* WorkerPools.                                                            *)

OnPool == [at : {"load", "keep", "act"}, pool : Pools, got : 0..2]

PoolsTyped ==
    /\ targets \in [Pools -> 0..2]
    /\ pools_map \in [PoolWorkers -> [Pools -> 0..2]]
    /\ thread \in [PoolWorkers -> [Threads -> {Free} \union OnPool]]
    /\ waiting \in [Pools -> Nat]
    /\ \A p \in Pools : waiting[p] <= asked
    /\ asked \in 0..MaxPoolJobs /\ changes \in 0..MaxPoolChanges

LEMMA PoolsTypedSuffices == PoolsTyped => PoolsTypeOK
<1> SUFFICES ASSUME PoolsTyped PROVE PoolsTypeOK
  OBVIOUS
<1>1. waiting \in [Pools -> 0..MaxPoolJobs]
  BY PoolsAssumption DEF PoolsTyped
<1>2. \A w \in PoolWorkers, t \in Threads : thread[w][t] = Free \/ thread[w][t] \in OnPool
  BY DEF PoolsTyped
<1> QED
  BY <1>1, <1>2 DEF PoolsTyped, PoolsTypeOK, OnPool

LEMMA PoolsStart == PoolsInit => PoolsTyped
<1> SUFFICES ASSUME PoolsInit PROVE PoolsTyped
  OBVIOUS
<1>1. thread \in [PoolWorkers -> [Threads -> {Free} \union OnPool]]
  BY DEF PoolsInit
<1>2. targets \in [Pools -> 0..2]
  BY DEF PoolsInit
<1>3. pools_map \in [PoolWorkers -> [Pools -> 0..2]]
  BY DEF PoolsInit
<1>4. waiting \in [Pools -> Nat] /\ \A p \in Pools : waiting[p] = 0
  BY DEF PoolsInit
<1> QED
  BY <1>1, <1>2, <1>3, <1>4, PoolsAssumption DEF PoolsInit, PoolsTyped

\* A thread takes a job, goes on with one, or is free.
LEMMA ThreadStaysTyped ==
    ASSUME PoolsTyped, NEW w \in PoolWorkers, NEW t \in Threads,
           NEW to \in {Free} \union OnPool, GoTo(w, t, to)
    PROVE  thread' \in [PoolWorkers -> [Threads -> {Free} \union OnPool]]
<1>1. thread[w] \in [Threads -> {Free} \union OnPool]
  BY DEF PoolsTyped
<1>2. [thread[w] EXCEPT ![t] = to] \in [Threads -> {Free} \union OnPool]
  BY <1>1
<1>3. thread' = [thread EXCEPT ![w] = [thread[w] EXCEPT ![t] = to]]
  BY DEF GoTo
<1> QED
  BY <1>2, <1>3 DEF PoolsTyped

LEMMA PoolsMove == PoolsTyped /\ [PoolsNext]_poolVars => PoolsTyped'
<1> SUFFICES ASSUME PoolsTyped, [PoolsNext]_poolVars PROVE PoolsTyped'
  OBVIOUS
<1>1. MaxPoolJobs \in Nat /\ MaxPoolChanges \in Nat
  BY PoolsAssumption
<1>2. \A w \in PoolWorkers, t \in Threads :
          thread[w][t].at \in {"load", "keep", "act"} =>
              /\ thread[w][t].pool \in Pools /\ thread[w][t].got \in 0..2
              /\ thread[w][t] \in OnPool
  BY DEF PoolsTyped, OnPool, Free
<1>3. \A p \in Pools, got \in 0..2, step \in {"load", "keep", "act"} : At(step, p, got) \in OnPool
  BY DEF At, OnPool
<1>4. \A w \in PoolWorkers, p \in Pools : pools_map[w][p] \in 0..2
  BY DEF PoolsTyped
<1>5. ASSUME NEW p \in Pools, AskFor(p) PROVE PoolsTyped'
  <2>1. waiting[p] \in Nat /\ asked \in Nat /\ waiting[p] <= asked
    BY DEF PoolsTyped
  <2>2. waiting' \in [Pools -> Nat] /\ asked' \in 0..MaxPoolJobs
        /\ \A r \in Pools : waiting'[r] <= asked'
    BY <1>1, <1>5, <2>1 DEF AskFor, PoolsTyped
  <2> QED
    BY <1>5, <2>2 DEF AskFor, PoolsTyped
<1>6. ASSUME NEW w \in PoolWorkers, NEW t \in Threads, NEW p \in Pools, TakeJob(w, t, p)
      PROVE  PoolsTyped'
  <2>1. waiting[p] \in Nat /\ waiting[p] > 0 /\ asked \in Nat /\ waiting[p] <= asked
    BY <1>6 DEF TakeJob, PoolsTyped
  <2>2. waiting' \in [Pools -> Nat] /\ \A r \in Pools : waiting'[r] <= asked
    BY <1>6, <2>1 DEF TakeJob, PoolsTyped
  <2>3. PICK step \in {"load", "act"} : GoTo(w, t, At(step, p, pools_map[w][p]))
    BY <1>6 DEF TakeJob
  <2>4. thread' \in [PoolWorkers -> [Threads -> {Free} \union OnPool]]
    BY <1>3, <1>4, <2>3, ThreadStaysTyped
  <2> QED
    BY <1>6, <2>2, <2>4 DEF TakeJob, PoolsTyped
<1>7. ASSUME NEW w \in PoolWorkers, NEW t \in Threads, LoadPool(w, t) PROVE PoolsTyped'
  <2>1. thread[w][t].pool \in Pools /\ targets[thread[w][t].pool] \in 0..2
    BY <1>2, <1>7 DEF LoadPool, PoolsTyped
  <2>2. thread' \in [PoolWorkers -> [Threads -> {Free} \union OnPool]]
    BY <1>3, <1>7, <2>1, ThreadStaysTyped DEF LoadPool
  <2> QED
    BY <1>7, <2>2 DEF LoadPool, PoolsTyped
<1>8. ASSUME NEW w \in PoolWorkers, NEW t \in Threads, KeepPool(w, t) PROVE PoolsTyped'
  <2>1. thread[w][t] \in OnPool /\ thread[w][t].pool \in Pools /\ thread[w][t].got \in 0..2
    BY <1>2, <1>8 DEF KeepPool
  <2>2. [thread[w][t] EXCEPT !.at = "act"] \in OnPool
    BY <2>1 DEF OnPool
  <2>3. thread' \in [PoolWorkers -> [Threads -> {Free} \union OnPool]]
    BY <1>8, <2>2, ThreadStaysTyped DEF KeepPool
  <2>4. pools_map[w] \in [Pools -> 0..2]
    BY DEF PoolsTyped
  <2>5. [pools_map[w] EXCEPT ![thread[w][t].pool] = thread[w][t].got] \in [Pools -> 0..2]
    BY <2>1, <2>4
  <2>6. pools_map' = [pools_map EXCEPT ![w] =
            [pools_map[w] EXCEPT ![thread[w][t].pool] = thread[w][t].got]]
    BY <1>8 DEF KeepPool
  <2>7. pools_map' \in [PoolWorkers -> [Pools -> 0..2]]
    BY <2>5, <2>6 DEF PoolsTyped
  <2> QED
    BY <1>8, <2>3, <2>7 DEF KeepPool, PoolsTyped
<1>9. ASSUME NEW w \in PoolWorkers, NEW t \in Threads, ActOnPool(w, t) \/ FailToLoad(w, t)
      PROVE  PoolsTyped'
  <2>1. GoTo(w, t, Free)
    BY <1>9 DEF ActOnPool, FailToLoad
  <2>2. thread' \in [PoolWorkers -> [Threads -> {Free} \union OnPool]]
    BY <2>1, ThreadStaysTyped
  <2>3. changes' \in 0..MaxPoolChanges
    BY <1>1, <1>9 DEF ActOnPool, FailToLoad, PoolChange, PoolsTyped
  <2> QED
    BY <1>9, <2>2, <2>3 DEF ActOnPool, FailToLoad, PoolsTyped
<1>10. ASSUME NEW p \in Pools, NEW to \in 0..2, ChangeTargets(p, to) PROVE PoolsTyped'
  <2>1. changes' \in 0..MaxPoolChanges
    BY <1>1, <1>10 DEF ChangeTargets, PoolChange, PoolsTyped
  <2> QED
    BY <1>10, <2>1 DEF ChangeTargets, PoolsTyped
<1>11. ASSUME NEW w \in PoolWorkers, RestartWorker(w) PROVE PoolsTyped'
  <2>1. changes' \in 0..MaxPoolChanges
    BY <1>1, <1>11 DEF RestartWorker, PoolChange, PoolsTyped
  <2>2. pools_map' \in [PoolWorkers -> [Pools -> 0..2]]
    BY <1>11 DEF RestartWorker, PoolsTyped
  <2>3. thread' \in [PoolWorkers -> [Threads -> {Free} \union OnPool]]
    BY <1>11 DEF RestartWorker, PoolsTyped
  <2> QED
    BY <1>11, <2>1, <2>2, <2>3 DEF RestartWorker, PoolsTyped
<1>12. CASE UNCHANGED poolVars
  BY <1>12 DEF poolVars, PoolsTyped
<1> QED
  BY <1>5, <1>6, <1>7, <1>8, <1>9, <1>10, <1>11, <1>12 DEF PoolsNext, TakeAnyJob, GoOnWith

-----------------------------------------------------------------------------
(* FloatingIps.                                                            *)

\* A call on behalf of a tenant.
For == [at : {"zone", "set", "create", "listed"}, by : Holders]

FipTyped ==
    /\ FipTypeOK
    /\ DOMAIN fip_call = FipCallers
    /\ \A c \in FipCallers :
          /\ fip_call[c].at \in {"zone", "set", "create", "listed"} => fip_call[c] \in For
          /\ fip_call[c].at = "update" => fip_call[c].by \in Holders
          /\ fip_call[c].at \in {"set", "update", "create"} => reverse_zone

LEMMA FipStarts == FipInit => FipTyped
<1> SUFFICES ASSUME FipInit PROVE FipTyped
  OBVIOUS
<1>1. ~NoPtr.there /\ NoCall.at = "none"
  BY DEF NoPtr, NoCall
<1>2. DOMAIN fip_call = FipCallers /\ \A c \in FipCallers : fip_call[c].at = "none"
  BY <1>1 DEF FipInit
<1>3. FipTypeOK
  <2>1. reverse_zone \in BOOLEAN /\ ~ptr.there
    BY <1>1 DEF FipInit
  <2>2. holder \in Holders /\ sets \in 0..MaxSets /\ passes \in 0..MaxPasses
    BY FipAssumption DEF FipInit
  <2> QED
    BY <2>1, <2>2 DEF FipTypeOK
<1> QED
  BY <1>2, <1>3 DEF FipTyped

\* A call is replaced by another one, or ends.
LEMMA OneFipCallChanges ==
    ASSUME FipTyped, NEW c \in FipCallers, NEW to,
           fip_call' = [fip_call EXCEPT ![c] = to],
           reverse_zone => reverse_zone',
           to.at \in {"zone", "set", "create", "listed"} => to \in For,
           to.at = "update" => to.by \in Holders,
           to.at \in {"set", "update", "create"} => reverse_zone'
    PROVE  /\ DOMAIN fip_call' = FipCallers
           /\ \A d \in FipCallers :
                 /\ fip_call'[d].at \in {"zone", "set", "create", "listed"} => fip_call'[d] \in For
                 /\ fip_call'[d].at = "update" => fip_call'[d].by \in Holders
                 /\ fip_call'[d].at \in {"set", "update", "create"} => reverse_zone'
  BY DEF FipTyped

LEMMA FipMoves == FipTyped /\ [FipNext]_fipVars => FipTyped'
<1> SUFFICES ASSUME FipTyped, [FipNext]_fipVars PROVE FipTyped'
  OBVIOUS
<1>1. MaxSets \in Nat /\ MaxPasses \in Nat /\ FipTypeOK
  BY FipAssumption DEF FipTyped
<1>2. NoCall.at = "none"
  BY DEF NoCall
<1>3. ASSUME NEW c \in FipCallers, NEW t \in Holders, StartSet(c, t) PROVE FipTyped'
  <2> DEFINE to == [at |-> "zone", by |-> t]
  <2>1. to \in For /\ to.at = "zone"
    BY DEF For
  <2>2. fip_call' = [fip_call EXCEPT ![c] = to] /\ reverse_zone' = reverse_zone
    BY <1>3 DEF StartSet
  <2> HIDE DEF to
  <2>3. FipTypeOK'
    BY <1>1, <1>3 DEF StartSet, FipTypeOK
  <2> QED
    BY <2>1, <2>2, <2>3, OneFipCallChanges DEF FipTyped
<1>4. ASSUME NEW c \in FipCallers, FindOrCreateZone(c) PROVE FipTyped'
  <2> DEFINE to == [fip_call[c] EXCEPT !.at = "set"]
  <2>1. fip_call[c] \in For
    BY <1>4 DEF FindOrCreateZone, FipTyped
  <2>2. to \in For /\ to.at = "set"
    BY <2>1 DEF For
  <2>3. fip_call' = [fip_call EXCEPT ![c] = to] /\ reverse_zone'
    BY <1>4 DEF FindOrCreateZone
  <2> HIDE DEF to
  <2>4. FipTypeOK'
    BY <1>1, <1>4 DEF FindOrCreateZone, FipTypeOK
  <2> QED
    BY <2>2, <2>3, <2>4, OneFipCallChanges DEF FipTyped
<1>5. ASSUME NEW c \in FipCallers, ReadToSet(c) PROVE FipTyped'
  <2> DEFINE update_it == [at |-> "update", by |-> fip_call[c].by, read |-> ptr]
             create_it == [fip_call[c] EXCEPT !.at = "create"]
  <2>1. fip_call[c] \in For /\ reverse_zone
    BY <1>5 DEF ReadToSet, FipTyped
  <2>2. create_it \in For /\ create_it.at = "create" /\ fip_call[c].by \in Holders
    BY <2>1 DEF For
  <2>3. update_it.at = "update" /\ update_it.by \in Holders
    BY <2>2
  <2>4. \/ fip_call' = [fip_call EXCEPT ![c] = update_it]
        \/ fip_call' = [fip_call EXCEPT ![c] = create_it]
    BY <1>5 DEF ReadToSet
  <2>5. reverse_zone' = reverse_zone
    BY <1>5 DEF ReadToSet
  <2> HIDE DEF update_it, create_it
  <2>6. FipTypeOK'
    BY <1>1, <1>5 DEF ReadToSet, FipTypeOK
  <2> QED
    BY <2>1, <2>2, <2>3, <2>4, <2>5, <2>6, OneFipCallChanges DEF FipTyped
<1>6. ASSUME NEW c \in FipCallers, UpdatePtr(c) PROVE FipTyped'
  <2>1. fip_call[c].by \in Holders /\ reverse_zone
    BY <1>6 DEF UpdatePtr, FipTyped
  <2> DEFINE to == [at |-> "create", by |-> fip_call[c].by]
  <2>2. to \in For /\ to.at = "create"
    BY <2>1 DEF For
  <2>3. \/ fip_call' = [fip_call EXCEPT ![c] = to]
        \/ fip_call' = [fip_call EXCEPT ![c] = NoCall]
    BY <1>6 DEF UpdatePtr, End
  <2>4. reverse_zone' = reverse_zone
    BY <1>6 DEF UpdatePtr
  <2> HIDE DEF to
  <2>5. ptr' = ptr \/ ptr'.of = fip_call[c].by
    BY <1>6 DEF UpdatePtr, Ptr
  <2>6. FipTypeOK'
    BY <1>1, <1>6, <2>1, <2>5 DEF UpdatePtr, FipTypeOK
  <2> QED
    BY <1>2, <2>1, <2>2, <2>3, <2>4, <2>6, OneFipCallChanges DEF FipTyped
<1>7. ASSUME NEW c \in FipCallers, CreatePtr(c) PROVE FipTyped'
  <2>1. fip_call[c].by \in Holders /\ reverse_zone
    BY <1>7 DEF CreatePtr, FipTyped, For
  <2>2. fip_call' = [fip_call EXCEPT ![c] = NoCall] /\ reverse_zone' = reverse_zone
    BY <1>7 DEF CreatePtr, End
  <2>3. ptr' = ptr \/ ptr'.of = fip_call[c].by
    BY <1>7 DEF CreatePtr, Ptr
  <2>4. FipTypeOK'
    BY <1>1, <1>7, <2>1, <2>3 DEF CreatePtr, FipTypeOK
  <2> QED
    BY <1>2, <2>2, <2>4, OneFipCallChanges DEF FipTyped
<1>8. ASSUME NEW c \in FipCallers, NEW t \in Holders, StartUnset(c, t) \/ StartList(c, t)
      PROVE  FipTyped'
  <2> DEFINE unset == [at |-> "remove", found |-> ptr]
             list == [at |-> "listed", by |-> t]
  <2>1. unset.at = "remove" /\ list \in For /\ list.at = "listed"
    BY DEF For
  <2>2. \/ fip_call' = [fip_call EXCEPT ![c] = unset]
        \/ fip_call' = [fip_call EXCEPT ![c] = list]
    BY <1>8 DEF StartUnset, StartList
  <2>3. reverse_zone' = reverse_zone
    BY <1>8 DEF StartUnset, StartList
  <2> HIDE DEF unset, list
  <2>4. FipTypeOK'
    BY <1>1, <1>8 DEF StartUnset, StartList, FipTypeOK
  <2> QED
    BY <2>1, <2>2, <2>3, <2>4, OneFipCallChanges DEF FipTyped
<1>9. ASSUME NEW c \in FipCallers, FindInvalid(c) \/ ReadToRemove(c) PROVE FipTyped'
  <2> DEFINE remove == [at |-> "remove", found |-> ptr]
             removing == [at |-> "removing", read |-> ptr]
  <2>1. remove.at = "remove" /\ removing.at = "removing"
    OBVIOUS
  <2>2. \/ fip_call' = [fip_call EXCEPT ![c] = remove]
        \/ fip_call' = [fip_call EXCEPT ![c] = removing]
        \/ fip_call' = [fip_call EXCEPT ![c] = NoCall]
    BY <1>9 DEF FindInvalid, ReadToRemove
  <2>3. reverse_zone' = reverse_zone
    BY <1>9 DEF FindInvalid, ReadToRemove
  <2> HIDE DEF remove, removing
  <2>4. FipTypeOK'
    BY <1>1, <1>9 DEF FindInvalid, ReadToRemove, FipTypeOK
  <2> QED
    BY <1>2, <2>1, <2>2, <2>3, <2>4, OneFipCallChanges DEF FipTyped
<1>10. ASSUME NEW c \in FipCallers, RemovePtr(c) \/ GiveUp(c) PROVE FipTyped'
  <2>1. fip_call' = [fip_call EXCEPT ![c] = NoCall] /\ reverse_zone' = reverse_zone
    BY <1>10 DEF RemovePtr, GiveUp, End
  <2>2. ptr' \in {ptr, NoPtr}
    BY <1>10 DEF RemovePtr, GiveUp
  <2>3. FipTypeOK'
    BY <1>1, <1>10, <2>2 DEF RemovePtr, GiveUp, FipTypeOK, NoPtr
  <2> QED
    BY <1>2, <2>1, <2>3, OneFipCallChanges DEF FipTyped
<1>11. ASSUME NEW t \in Holders, Pass(t) PROVE FipTyped'
  BY <1>1, <1>11 DEF Pass, FipTyped, FipTypeOK
<1>12. CASE UNCHANGED fipVars
  BY <1>12 DEF fipVars, FipTyped, FipTypeOK
<1> QED
  BY <1>3, <1>4, <1>5, <1>6, <1>7, <1>8, <1>9, <1>10, <1>11, <1>12 DEF FipNext, Continue

-----------------------------------------------------------------------------
(* SinkEvents.                                                             *)

SinkEvent == {"create.end", "delete.start"}

RRSets == [there : {TRUE}, id : Nat, record : Nat, of : Instances \union {User}]

\* The handlers of an event, before and after they have read the record set.
ToCreate ==
    [at : {"read", "create"}, of : Instances, event : {"create.end"}, left : 1..Addresses,
     alone : BOOLEAN]
ToReplace ==
    [at : {"replace", "create"}, of : Instances, event : {"create.end"},
     left : 1..Addresses, alone : BOOLEAN, seen : RRSets]
CreateHandlers == ToCreate \union ToReplace

ToFind ==
    [at : {"find"}, of : Instances, event : {"delete.start"}, left : 1..Addresses,
     alone : BOOLEAN]
ToRemove ==
    [at : {"look", "remove"}, of : Instances, event : {"delete.start"}, alone : BOOLEAN,
     seen : RRSets]
DeleteHandlers == ToFind \union ToRemove

Handlers == {NoEvent} \union CreateHandlers \union DeleteHandlers

SinkTyped ==
    /\ hostname \in [Instances -> Names]
    /\ life \in [Instances -> {"none", "up", "gone"}]
    /\ events \subseteq Instances \X SinkEvent
    /\ handling \in [Sinks -> Handlers]
    /\ rrset \in [Names -> {NoRRSet} \union RRSets]
    /\ made \in Nat
    /\ overtaken \subseteq Instances /\ dropped \subseteq Instances
    /\ sink_faults \in 0..MaxSinkFaults

Creates(h, i) == handling[h] \in CreateHandlers /\ handling[h].of = i
Deletes(h, i) == handling[h] \in DeleteHandlers /\ handling[h].of = i
Creating(i) == <<i, "create.end">> \in events \/ \E h \in Sinks : Creates(h, i)
HasRecord(i) == rrset[hostname[i]].there /\ rrset[hostname[i]].of = i

\* An instance whose events are handled one after another.
InOrder(i) ==
    /\ (\E h \in Sinks : Deletes(h, i)) \/ <<i, "delete.start">> \in events =>
          life[i] = "gone"
    /\ Creating(i) => life[i] # "none"
    /\ i \notin overtaken =>
          /\ \A h \in Sinks : Deletes(h, i) =>
                ~Creating(i) /\ \A g \in Sinks : Deletes(g, i) => g = h
          /\ life[i] = "gone" /\ Creating(i) => <<i, "delete.start">> \in events

\* A record that is to go is going: its removal is in the queue or under way.
IsGoing(i) ==
    life[i] = "gone" /\ HasRecord(i) /\ i \notin overtaken \union dropped =>
        \/ <<i, "delete.start">> \in events
        \/ \E h \in Sinks :
              /\ Deletes(h, i)
              /\ handling[h].at # "find" => rrset[hostname[i]] = handling[h].seen

\* A record that is to come has come, or its creation is in the queue or under way.
IsComing(i) ==
    life[i] = "up" /\ Unique(i) /\ i \notin overtaken \union dropped =>
        HasRecord(i) \/ Creating(i)

Follows(i) == InOrder(i) /\ IsGoing(i) /\ IsComing(i)

SinkInv == SinkTyped /\ \A i \in Instances : Follows(i)

-----------------------------------------------------------------------------

LEMMA CreateHandlerIs ==
    ASSUME NEW r \in CreateHandlers
    PROVE  /\ r.at \in {"read", "replace", "create"} /\ r.event = "create.end"
           /\ r.of \in Instances /\ r.left \in 1..Addresses /\ r.alone \in BOOLEAN
           /\ r # NoEvent /\ r \notin DeleteHandlers
           /\ r.at = "replace" => r \in ToReplace
           /\ r.at = "read" => r \in ToCreate
<1>1. r \in ToCreate \/ r \in ToReplace
  BY DEF CreateHandlers
<1>2. r.at \in {"read", "replace", "create"} /\ r.event = "create.end"
      /\ r.of \in Instances /\ r.left \in 1..Addresses /\ r.alone \in BOOLEAN
  BY <1>1 DEF ToCreate, ToReplace
<1>3. NoEvent.at = "none" /\ \A q \in DeleteHandlers : q.event = "delete.start"
  BY DEF NoEvent, DeleteHandlers, ToFind, ToRemove
<1>4. (r.at = "replace" => r \in ToReplace) /\ (r.at = "read" => r \in ToCreate)
  BY <1>1 DEF ToCreate, ToReplace
<1> QED
  BY <1>2, <1>3, <1>4

LEMMA DeleteHandlerIs ==
    ASSUME NEW r \in DeleteHandlers
    PROVE  /\ r.at \in {"find", "look", "remove"} /\ r.event = "delete.start"
           /\ r.of \in Instances /\ r.alone \in BOOLEAN
           /\ r # NoEvent /\ r \notin CreateHandlers
           /\ r.at \in {"look", "remove"} => r \in ToRemove /\ r.seen \in RRSets
<1>1. r \in ToFind \/ r \in ToRemove
  BY DEF DeleteHandlers
<1>2. r.at \in {"find", "look", "remove"} /\ r.event = "delete.start"
      /\ r.of \in Instances /\ r.alone \in BOOLEAN
  BY <1>1 DEF ToFind, ToRemove
<1>3. NoEvent.at = "none" /\ \A q \in CreateHandlers : q.event = "create.end"
  BY DEF NoEvent, CreateHandlers, ToCreate, ToReplace
<1>4. r.at \in {"look", "remove"} => r \in ToRemove /\ r.seen \in RRSets
  BY <1>1 DEF ToFind, ToRemove
<1> QED
  BY <1>2, <1>3, <1>4

LEMMA NoEventIs ==
    NoEvent \notin CreateHandlers /\ NoEvent \notin DeleteHandlers /\ NoEvent.at = "none"
<1>1. NoEvent.at = "none"
  BY DEF NoEvent
<1>2. \A r \in CreateHandlers : r.at # "none"
  BY CreateHandlerIs
<1>3. \A r \in DeleteHandlers : r.at # "none"
  BY DeleteHandlerIs
<1> QED
  BY <1>1, <1>2, <1>3

\* What a handler of a certain step is for.
LEMMA HandlerAt ==
    ASSUME SinkTyped, NEW h \in Sinks
    PROVE  /\ handling[h].at \in {"read", "replace", "create"} => handling[h] \in CreateHandlers
           /\ handling[h].at \in {"find", "look", "remove"} => handling[h] \in DeleteHandlers
           /\ handling[h] # NoEvent =>
                 handling[h] \in CreateHandlers \/ handling[h] \in DeleteHandlers
<1>1. handling[h] = NoEvent \/ handling[h] \in CreateHandlers \/ handling[h] \in DeleteHandlers
  BY DEF SinkTyped, Handlers
<1> QED
  BY <1>1, NoEventIs, CreateHandlerIs, DeleteHandlerIs

LEMMA RRSetIs ==
    /\ ~NoRRSet.there
    /\ \A id \in Nat, record \in Nat, of \in Instances \union {User} :
          /\ RRSet(id, record, of) \in RRSets
          /\ RRSet(id, record, of).there /\ RRSet(id, record, of).of = of
    /\ \A rr \in {NoRRSet} \union RRSets : rr.there => rr \in RRSets
    /\ \A rr \in RRSets :
          rr.there /\ rr.id \in Nat /\ rr.record \in Nat /\ rr.of \in Instances \union {User}
<1>1. ~NoRRSet.there
  BY DEF NoRRSet
<1>2. ASSUME NEW id \in Nat, NEW record \in Nat, NEW of \in Instances \union {User}
      PROVE  RRSet(id, record, of) \in RRSets
  BY DEF RRSet, RRSets
<1>3. \A rr \in RRSets :
          rr.there /\ rr.id \in Nat /\ rr.record \in Nat /\ rr.of \in Instances \union {User}
  BY DEF RRSets
<1>4. ASSUME NEW id, NEW record, NEW of
      PROVE  RRSet(id, record, of).there /\ RRSet(id, record, of).of = of
  BY DEF RRSet
<1> QED
  BY <1>1, <1>2, <1>3, <1>4

LEMMA SinkInvSuffices == SinkInv => SinkTypeOK /\ RecordsFitWhenDone
<1> SUFFICES ASSUME SinkInv PROVE SinkTypeOK /\ RecordsFitWhenDone
  OBVIOUS
<1>1. SinkTyped
  BY DEF SinkInv
<1>2. SinkTypeOK
  <2>1. \A n \in Names : rrset[n].there => rrset[n].of \in Instances \union {User}
    BY <1>1, RRSetIs DEF SinkTyped
  <2> QED
    BY <1>1, <2>1 DEF SinkTyped, SinkTypeOK
<1>3. ASSUME NEW i \in Instances, IsSettled(i), i \notin overtaken \union dropped
      PROVE  /\ life[i] = "gone" => ~rrset[hostname[i]].there \/ rrset[hostname[i]].of # i
             /\ life[i] = "up" /\ Unique(i) =>
                     rrset[hostname[i]].there /\ rrset[hostname[i]].of = i
  <2>1. Follows(i)
    BY DEF SinkInv
  <2>2. <<i, "create.end">> \notin events /\ <<i, "delete.start">> \notin events
    BY <1>3 DEF IsSettled
  <2>3. \A h \in Sinks : ~Creates(h, i) /\ ~Deletes(h, i)
    BY <1>3, NoEventIs DEF IsSettled, Creates, Deletes
  <2> QED
    BY <1>3, <2>1, <2>2, <2>3 DEF Follows, IsGoing, IsComing, Creating, HasRecord
<1> QED
  BY <1>2, <1>3 DEF RecordsFitWhenDone

LEMMA SinkStarts == SinkInit => SinkInv
<1> SUFFICES ASSUME SinkInit PROVE SinkInv
  OBVIOUS
<1>1. RRSet(0, 0, User) \in RRSets /\ RRSet(0, 0, User).of = User
  BY RRSetIs
<1>2. SinkTyped
  BY <1>1, SinkAssumption DEF SinkInit, SinkTyped, Handlers
<1>3. \A h \in Sinks, i \in Instances : ~Creates(h, i) /\ ~Deletes(h, i)
  BY NoEventIs DEF SinkInit, Creates, Deletes
<1>4. \A i \in Instances : Follows(i)
  BY <1>3 DEF SinkInit, Follows, InOrder, IsGoing, IsComing, Creating
<1> QED
  BY <1>2, <1>4 DEF SinkInv

-----------------------------------------------------------------------------

\* What another instance does is no concern of an instance, unless they have the
\* same name: then the other may take its record away.
LEMMA OthersFollow ==
    ASSUME SinkInv, NEW it \in Instances, NEW h \in Sinks, hostname' = hostname,
           \A i \in Instances \ {it} :
               /\ life'[i] = life[i]
               /\ i \in overtaken' <=> i \in overtaken
               /\ i \in dropped' <=> i \in dropped
               /\ \A event \in SinkEvent : <<i, event>> \in events' <=> <<i, event>> \in events
               /\ ~Creates(h, i) /\ ~Creates(h, i)' /\ ~Deletes(h, i) /\ ~Deletes(h, i)',
           \A g \in Sinks \ {h} : handling'[g] = handling[g],
           \A n \in Names \ {hostname[it]} : rrset'[n] = rrset[n],
           \/ rrset'[hostname[it]] = rrset[hostname[it]]
           \/ \A i \in Instances \ {it} : hostname[i] = hostname[it] => ~HasRecord(i)'
    PROVE  \A i \in Instances \ {it} : Follows(i)'
<1> SUFFICES ASSUME NEW i \in Instances \ {it} PROVE Follows(i)'
  OBVIOUS
<1>1. SinkTyped /\ InOrder(i) /\ IsGoing(i) /\ IsComing(i)
  BY DEF SinkInv, Follows
<1>2. hostname[i] \in Names /\ hostname[it] \in Names
  BY <1>1 DEF SinkTyped
<1>3. \A g \in Sinks : (Creates(g, i)' <=> Creates(g, i)) /\ (Deletes(g, i)' <=> Deletes(g, i))
  BY DEF Creates, Deletes
<1>4. /\ <<i, "create.end">> \in events' <=> <<i, "create.end">> \in events
      /\ <<i, "delete.start">> \in events' <=> <<i, "delete.start">> \in events
  BY DEF SinkEvent
<1>5. Creating(i)' <=> Creating(i)
  BY <1>3, <1>4 DEF Creating
<1>6. InOrder(i)'
  BY <1>1, <1>3, <1>4, <1>5 DEF InOrder
<1>7. \A g \in Sinks : Deletes(g, i)' => handling'[g] = handling[g]
  OBVIOUS
<1>8. CASE rrset'[hostname[i]] = rrset[hostname[i]]
  <2>1. HasRecord(i)' <=> HasRecord(i)
    BY <1>8 DEF HasRecord
  <2>2. IsGoing(i)'
    BY <1>1, <1>3, <1>4, <1>7, <1>8, <2>1 DEF IsGoing
  <2>3. IsComing(i)'
    BY <1>1, <1>5, <2>1 DEF IsComing, Unique
  <2> QED
    BY <1>6, <2>2, <2>3 DEF Follows
<1>9. CASE rrset'[hostname[i]] # rrset[hostname[i]]
  <2>1. hostname[i] = hostname[it] /\ ~HasRecord(i)'
    BY <1>2, <1>9
  <2>2. ~Unique(i)'
    BY <2>1 DEF Unique
  <2> QED
    BY <1>6, <2>1, <2>2 DEF Follows, IsGoing, IsComing
<1> QED
  BY <1>8, <1>9

\* A handler is replaced by another one for the same instance, or leaves.
LEMMA OneHandlerChanges ==
    ASSUME SinkTyped, NEW h \in Sinks, NEW to \in Handlers,
           handling' = [handling EXCEPT ![h] = to]
    PROVE  /\ handling' \in [Sinks -> Handlers] /\ handling'[h] = to
           /\ \A g \in Sinks \ {h} : handling'[g] = handling[g]
           /\ \A g \in Sinks \ {h}, i \in Instances :
                 (Creates(g, i)' <=> Creates(g, i)) /\ (Deletes(g, i)' <=> Deletes(g, i))
  BY DEF SinkTyped, Creates, Deletes

\* The steps of a creation that leave the record set: to the next step of the same
\* handler.
LEMMA CreationGoesOn ==
    ASSUME SinkInv, NEW h \in Sinks, handling[h] \in CreateHandlers,
           NEW to \in CreateHandlers, to.of = handling[h].of,
           handling' = [handling EXCEPT ![h] = to],
           UNCHANGED <<hostname, life, events, rrset, made, overtaken, dropped, sink_faults>>
    PROVE  SinkInv'
<1>1. SinkTyped
  BY DEF SinkInv
<1>2. to \in Handlers /\ to \notin DeleteHandlers /\ handling[h] \notin DeleteHandlers
  BY CreateHandlerIs DEF Handlers
<1>3. /\ handling' \in [Sinks -> Handlers] /\ handling'[h] = to
      /\ \A g \in Sinks \ {h} : handling'[g] = handling[g]
      /\ \A g \in Sinks \ {h}, i \in Instances :
            (Creates(g, i)' <=> Creates(g, i)) /\ (Deletes(g, i)' <=> Deletes(g, i))
  BY <1>1, <1>2, OneHandlerChanges
<1>4. \A i \in Instances :
          /\ Creates(h, i)' <=> Creates(h, i)
          /\ ~Deletes(h, i)' /\ ~Deletes(h, i)
  BY <1>2, <1>3 DEF Creates, Deletes
<1>5. \A g \in Sinks, i \in Instances :
          /\ (Creates(g, i)' <=> Creates(g, i)) /\ (Deletes(g, i)' <=> Deletes(g, i))
          /\ Deletes(g, i) => handling'[g] = handling[g]
  BY <1>3, <1>4
<1>6. SinkTyped'
  BY <1>1, <1>3 DEF SinkTyped
<1>7. \A i \in Instances : Creating(i)' <=> Creating(i)
  BY <1>5 DEF Creating
<1>8. ASSUME NEW i \in Instances PROVE Follows(i)'
  <2>1. InOrder(i) /\ IsGoing(i) /\ IsComing(i)
    BY DEF SinkInv, Follows
  <2>2. InOrder(i)'
    BY <1>5, <1>7, <2>1 DEF InOrder
  <2>3. HasRecord(i)' <=> HasRecord(i)
    BY DEF HasRecord
  <2>4. IsGoing(i)'
    BY <1>5, <2>1, <2>3 DEF IsGoing
  <2>5. IsComing(i)'
    BY <1>7, <2>1, <2>3 DEF IsComing, Unique
  <2> QED
    BY <2>2, <2>4, <2>5 DEF Follows
<1> QED
  BY <1>6, <1>8 DEF SinkInv

\* An event that is given up is of no concern any more.
LEMMA GivenUp ==
    ASSUME SinkInv, NEW h \in Sinks, handling[h] # NoEvent, Give(h),
           UNCHANGED <<hostname, life, events, rrset, made, overtaken>>,
           sink_faults' \in 0..MaxSinkFaults
    PROVE  SinkInv'
<1>1. SinkTyped
  BY DEF SinkInv
<1>2. PICK it \in Instances : it = handling[h].of
  BY <1>1, HandlerAt, CreateHandlerIs, DeleteHandlerIs
<1>3. handling' = [handling EXCEPT ![h] = NoEvent] /\ NoEvent \in Handlers
      /\ dropped' = dropped \union {it}
  BY <1>2 DEF Give, Leave, Handlers
<1>4. /\ handling' \in [Sinks -> Handlers] /\ handling'[h] = NoEvent
      /\ \A g \in Sinks \ {h} : handling'[g] = handling[g]
      /\ \A g \in Sinks \ {h}, i \in Instances :
            (Creates(g, i)' <=> Creates(g, i)) /\ (Deletes(g, i)' <=> Deletes(g, i))
  BY <1>1, <1>3, OneHandlerChanges
<1>5. \A i \in Instances : ~Creates(h, i)' /\ ~Deletes(h, i)'
  BY <1>4, NoEventIs DEF Creates, Deletes
<1>6. \A i \in Instances \ {it} : ~Creates(h, i) /\ ~Deletes(h, i)
  BY <1>2 DEF Creates, Deletes
<1>7. SinkTyped'
  BY <1>1, <1>2, <1>3, <1>4 DEF SinkTyped
<1>8. Follows(it)'
  <2>1. InOrder(it)
    BY <1>2 DEF SinkInv, Follows
  <2>2. Creating(it)' => Creating(it)
    BY <1>2, <1>4, <1>5 DEF Creating
  <2>3. \A g \in Sinks : Deletes(g, it)' => Deletes(g, it)
    BY <1>2, <1>4, <1>5
  <2>4. InOrder(it)'
    BY <2>1, <2>2, <2>3 DEF InOrder
  <2>5. it \in dropped'
    BY <1>3
  <2>6. IsGoing(it)' /\ IsComing(it)'
    BY <2>5 DEF IsGoing, IsComing
  <2> QED
    BY <2>4, <2>6 DEF Follows
<1>9. \A i \in Instances \ {it} : Follows(i)'
  <2>1. \A i \in Instances \ {it} : i \in dropped' <=> i \in dropped
    BY <1>3
  <2> QED
    BY <1>2, <1>4, <1>5, <1>6, <2>1, OthersFollow
<1> QED
  BY <1>7, <1>8, <1>9 DEF SinkInv

\* The end of one address: the record is that of the instance.
LEMMA RecordIsMade ==
    ASSUME SinkInv, NEW h \in Sinks, handling[h] \in CreateHandlers,
           NEW id \in Nat,
           rrset' = [rrset EXCEPT ![Name(h)] = RRSet(id, made, handling[h].of)],
           made' = made + 1, Following(h),
           UNCHANGED <<hostname, life, events, overtaken, dropped, sink_faults>>
    PROVE  SinkInv'
<1> DEFINE to == IF handling[h].left = 1 \/ handling[h].alone THEN NoEvent
                 ELSE [at |-> "read", of |-> handling[h].of, event |-> handling[h].event,
                       left |-> handling[h].left - 1, alone |-> FALSE]
<1>1. SinkTyped
  BY DEF SinkInv
<1>2. PICK it \in Instances : it = handling[h].of
  BY CreateHandlerIs
<1> /\ handling[h].left \in 1..Addresses /\ Addresses \in Nat /\ handling[h].of = it
    /\ handling[h].event = "create.end" /\ handling[h] \notin DeleteHandlers
  BY <1>2, CreateHandlerIs, SinkAssumption
<1>3. handling' = [handling EXCEPT ![h] = to]
  BY DEF Following
<1>4. to = NoEvent \/ (to \in CreateHandlers /\ to.of = it)
  <2>1. CASE handling[h].left = 1 \/ handling[h].alone
    BY <2>1
  <2>2. CASE ~(handling[h].left = 1 \/ handling[h].alone)
    <3>1. handling[h].left - 1 \in 1..Addresses
      BY <1>2, <2>2
    <3>2. [at |-> "read", of |-> it, event |-> "create.end",
           left |-> handling[h].left - 1, alone |-> FALSE] \in ToCreate
      BY <1>2, <3>1 DEF ToCreate
    <3> QED
      BY <1>2, <2>2, <3>2 DEF CreateHandlers
  <2> QED
    BY <2>1, <2>2
<1> HIDE DEF to
<1>5. to \in Handlers /\ to \notin DeleteHandlers
  BY <1>4, NoEventIs, CreateHandlerIs DEF Handlers
<1>6. /\ handling' \in [Sinks -> Handlers] /\ handling'[h] = to
      /\ \A g \in Sinks \ {h} : handling'[g] = handling[g]
      /\ \A g \in Sinks \ {h}, i \in Instances :
            (Creates(g, i)' <=> Creates(g, i)) /\ (Deletes(g, i)' <=> Deletes(g, i))
  BY <1>1, <1>3, <1>5, OneHandlerChanges
<1>7. /\ \A i \in Instances : ~Deletes(h, i)' /\ ~Deletes(h, i) /\ (Creates(h, i)' => i = it)
      /\ \A i \in Instances : Creates(h, i) => i = it
      /\ Creates(h, it)
  BY <1>2, <1>4, <1>5, <1>6, NoEventIs DEF Deletes, Creates
<1>8. made \in Nat /\ hostname[it] \in Names /\ Name(h) = hostname[it]
  BY <1>1, <1>2 DEF SinkTyped, Name
<1>9. /\ RRSet(id, made, it) \in RRSets /\ rrset'[hostname[it]] = RRSet(id, made, it)
      /\ \A n \in Names \ {hostname[it]} : rrset'[n] = rrset[n]
      /\ rrset' \in [Names -> {NoRRSet} \union RRSets]
  BY <1>1, <1>2, <1>8, RRSetIs DEF SinkTyped
<1>10. rrset'[hostname[it]].there /\ rrset'[hostname[it]].of = it
  BY <1>2, <1>8, <1>9, RRSetIs
<1>11. SinkTyped'
  BY <1>1, <1>6, <1>8, <1>9 DEF SinkTyped
<1>12. Follows(it)'
  <2>1. InOrder(it) /\ Creating(it)
    BY <1>2, <1>7 DEF SinkInv, Follows, Creating
  <2>2. \A g \in Sinks : Deletes(g, it)' => Deletes(g, it)
    BY <1>2, <1>6, <1>7
  <2>3. InOrder(it)'
    BY <1>2, <2>1, <2>2 DEF InOrder
  <2>4. HasRecord(it)'
    BY <1>10 DEF HasRecord
  <2>5. IsGoing(it)'
    BY <2>1 DEF InOrder, IsGoing
  <2> QED
    BY <2>3, <2>4, <2>5 DEF Follows, IsComing
<1>13. \A i \in Instances \ {it} : Follows(i)'
  <2>1. \A i \in Instances \ {it} : hostname[i] = hostname[it] => ~HasRecord(i)'
    BY <1>10 DEF HasRecord
  <2>2. \A i \in Instances \ {it} :
            ~Creates(h, i) /\ ~Creates(h, i)' /\ ~Deletes(h, i) /\ ~Deletes(h, i)'
    BY <1>7
  <2> QED
    BY <1>2, <1>6, <1>9, <2>1, <2>2, OthersFollow
<1> QED
  BY <1>11, <1>12, <1>13 DEF SinkInv

\* A removal ends, or goes on, with the record of the instance gone or as it was.
LEMMA RemovalGoesOn ==
    ASSUME SinkInv, NEW h \in Sinks, handling[h] \in DeleteHandlers,
           NEW it \in Instances, it = handling[h].of,
           NEW to \in Handlers, to = NoEvent \/ (to \in DeleteHandlers /\ to.of = it),
           handling' = [handling EXCEPT ![h] = to],
           rrset' \in [Names -> {NoRRSet} \union RRSets],
           \A n \in Names \ {hostname[it]} : rrset'[n] = rrset[n],
           \/ ~rrset'[hostname[it]].there
           \/ /\ rrset'[hostname[it]] = rrset[hostname[it]]
              /\ \/ to # NoEvent /\ (to.at # "find" => rrset[hostname[it]] = to.seen)
                 \/ ~HasRecord(it)
                 \/ handling[h].at # "find" /\ rrset[hostname[it]] # handling[h].seen,
           UNCHANGED <<hostname, life, events, made, overtaken, dropped, sink_faults>>
    PROVE  SinkInv'
<1>1. SinkTyped
  BY DEF SinkInv
<1>2. to \notin CreateHandlers /\ handling[h] \notin CreateHandlers
  BY NoEventIs, DeleteHandlerIs
<1>3. /\ handling' \in [Sinks -> Handlers] /\ handling'[h] = to
      /\ \A g \in Sinks \ {h} : handling'[g] = handling[g]
      /\ \A g \in Sinks \ {h}, i \in Instances :
            (Creates(g, i)' <=> Creates(g, i)) /\ (Deletes(g, i)' <=> Deletes(g, i))
  BY <1>1, OneHandlerChanges
<1>4. /\ \A i \in Instances : ~Creates(h, i) /\ ~Creates(h, i)'
      /\ \A i \in Instances \ {it} : ~Deletes(h, i) /\ ~Deletes(h, i)'
      /\ Deletes(h, it) /\ (to # NoEvent => Deletes(h, it)')
  BY <1>2, <1>3, NoEventIs DEF Creates, Deletes
<1>5. SinkTyped'
  BY <1>1, <1>3 DEF SinkTyped
<1>6. InOrder(it) /\ IsGoing(it) /\ life[it] = "gone"
  BY <1>4 DEF SinkInv, Follows, InOrder
<1>7. Creating(it)' <=> Creating(it)
  BY <1>3, <1>4 DEF Creating
<1>8. \A g \in Sinks : Deletes(g, it)' => Deletes(g, it)
  BY <1>3, <1>4
<1>9. InOrder(it)'
  BY <1>6, <1>7, <1>8 DEF InOrder
<1>10. IsGoing(it)'
  <2> SUFFICES ASSUME HasRecord(it)', it \notin overtaken \union dropped,
                      <<it, "delete.start">> \notin events
               PROVE  \E g \in Sinks :
                         /\ Deletes(g, it)'
                         /\ handling'[g].at # "find" => rrset'[hostname[it]] = handling'[g].seen
    BY DEF IsGoing
  <2>1. rrset'[hostname[it]] = rrset[hostname[it]] /\ HasRecord(it)
    BY DEF HasRecord
  <2>2. PICK g \in Sinks : /\ Deletes(g, it)
                           /\ handling[g].at # "find" => rrset[hostname[it]] = handling[g].seen
    BY <1>6, <2>1 DEF IsGoing
  <2>3. g = h
    BY <1>4, <1>6, <2>2 DEF InOrder
  <2>4. to # NoEvent /\ (to.at # "find" => rrset[hostname[it]] = to.seen)
    BY <2>1, <2>2, <2>3 DEF HasRecord
  <2> QED
    BY <1>3, <1>4, <2>1, <2>4
<1>11. IsComing(it)'
  BY <1>6 DEF IsComing
<1>12. \A i \in Instances \ {it} : Follows(i)'
  <2>1. \/ rrset'[hostname[it]] = rrset[hostname[it]]
        \/ \A i \in Instances \ {it} : hostname[i] = hostname[it] => ~HasRecord(i)'
    BY DEF HasRecord
  <2> QED
    BY <1>3, <1>4, <2>1, OthersFollow
<1> QED
  BY <1>5, <1>9, <1>10, <1>11, <1>12 DEF SinkInv, Follows

LEMMA RemovalSteps ==
    ASSUME SinkInv, NEW h \in Sinks, FindManaged(h) \/ LookToRemove(h) \/ RemoveManaged(h)
    PROVE  SinkInv'
<1>1. SinkTyped
  BY DEF SinkInv
<1>2. handling[h] \in DeleteHandlers
  BY <1>1, HandlerAt DEF FindManaged, LookToRemove, RemoveManaged
<1>3. PICK it \in Instances : it = handling[h].of
  BY <1>2, DeleteHandlerIs
<1>4. handling[h].event = "delete.start" /\ handling[h].alone \in BOOLEAN
  BY <1>2, DeleteHandlerIs
<1>5. NoEvent \in Handlers /\ Name(h) = hostname[it] /\ hostname[it] \in Names
      /\ rrset \in [Names -> {NoRRSet} \union RRSets]
  BY <1>1, <1>3 DEF Handlers, Name, SinkTyped
<1>6. CASE FindManaged(h)
  <2> DEFINE look == [at |-> "look", of |-> handling[h].of, event |-> handling[h].event,
                      alone |-> handling[h].alone, seen |-> rrset[Name(h)]]
  <2>1. CASE rrset[hostname[it]].there /\ rrset[hostname[it]].of = it
    <3>1. rrset[hostname[it]] \in RRSets
      BY <1>5, <2>1, RRSetIs
    <3>2. look \in ToRemove
      BY <1>3, <1>4, <1>5, <3>1 DEF ToRemove
    <3>3. look \in DeleteHandlers /\ look \in Handlers /\ look.of = it
          /\ look.seen = rrset[hostname[it]]
      BY <1>3, <1>5, <3>2 DEF DeleteHandlers, Handlers
    <3>4. handling' = [handling EXCEPT ![h] = look]
      BY <1>3, <1>5, <1>6, <2>1 DEF FindManaged
    <3> HIDE DEF look
    <3>5. look # NoEvent
      BY <3>3, NoEventIs
    <3>6. UNCHANGED <<hostname, life, events, rrset, made, overtaken, dropped, sink_faults>>
      BY <1>6 DEF FindManaged
    <3>7. rrset' \in [Names -> {NoRRSet} \union RRSets]
      BY <1>5, <3>6
    <3> QED
      BY <1>2, <1>3, <3>3, <3>4, <3>5, <3>6, <3>7, RemovalGoesOn
  <2>2. CASE ~(rrset[hostname[it]].there /\ rrset[hostname[it]].of = it)
    <3>1. handling' = [handling EXCEPT ![h] = NoEvent]
      BY <1>3, <1>5, <1>6, <2>2 DEF FindManaged
    <3>2. ~HasRecord(it)
      BY <2>2 DEF HasRecord
    <3> QED
      BY <1>2, <1>3, <1>5, <1>6, <3>1, <3>2, RemovalGoesOn DEF FindManaged
  <2> QED
    BY <2>1, <2>2
<1>7. CASE LookToRemove(h)
  <2>1. handling[h] \in ToRemove /\ handling[h].at = "look"
    BY <1>2, <1>7, DeleteHandlerIs DEF LookToRemove
  <2> DEFINE remove == [handling[h] EXCEPT !.at = "remove"]
  <2>2. remove \in ToRemove /\ remove.of = handling[h].of /\ remove.seen = handling[h].seen
    BY <2>1 DEF ToRemove
  <2>3. rrset[hostname[it]] = handling[h].seen => handling' = [handling EXCEPT ![h] = remove]
    BY <1>5, <1>7 DEF LookToRemove, GoOn
  <2>4. rrset[hostname[it]] # handling[h].seen => handling' = [handling EXCEPT ![h] = NoEvent]
    BY <1>5, <1>7 DEF LookToRemove, Leave
  <2> HIDE DEF remove
  <2>5. remove \in DeleteHandlers /\ remove \in Handlers /\ remove # NoEvent
    BY <2>2, NoEventIs DEF DeleteHandlers, Handlers
  <2>6. UNCHANGED <<hostname, life, events, rrset, made, overtaken, dropped, sink_faults>>
    BY <1>7 DEF LookToRemove
  <2>7. CASE rrset[hostname[it]] = handling[h].seen
    BY <1>2, <1>3, <1>5, <2>2, <2>3, <2>5, <2>6, <2>7, RemovalGoesOn
  <2>8. CASE rrset[hostname[it]] # handling[h].seen
    BY <1>2, <1>3, <1>5, <2>1, <2>4, <2>6, <2>8, RemovalGoesOn
  <2> QED
    BY <2>7, <2>8
<1>8. CASE RemoveManaged(h)
  <2>1. handling[h].at = "remove" /\ handling[h].seen \in RRSets
    BY <1>2, <1>8, DeleteHandlerIs DEF RemoveManaged
  <2>2. CASE Give(h) /\ UNCHANGED rrset
    BY <1>1, <1>2, <1>8, <2>2, GivenUp, DeleteHandlerIs DEF RemoveManaged, SinkTyped
  <2>3. CASE /\ rrset' = IF rrset[hostname[it]].there
                             /\ rrset[hostname[it]].id = handling[h].seen.id
                         THEN [rrset EXCEPT ![hostname[it]] = NoRRSet] ELSE rrset
             /\ Leave(h) /\ UNCHANGED dropped
    <3>1. handling' = [handling EXCEPT ![h] = NoEvent]
      BY <2>3 DEF Leave
    <3>2. /\ rrset' \in [Names -> {NoRRSet} \union RRSets]
          /\ \A n \in Names \ {hostname[it]} : rrset'[n] = rrset[n]
      BY <1>5, <2>3
    <3>3. \/ ~rrset'[hostname[it]].there
          \/ /\ rrset'[hostname[it]] = rrset[hostname[it]]
             /\ rrset[hostname[it]] # handling[h].seen
      <4>1. handling[h].seen.there
        BY <2>1, RRSetIs
      <4> QED
        BY <1>5, <2>3, <4>1, RRSetIs
    <3>4. UNCHANGED <<hostname, life, events, made, overtaken, dropped, sink_faults>>
      BY <1>8, <2>3 DEF RemoveManaged
    <3> QED
      BY <1>2, <1>3, <1>5, <2>1, <3>1, <3>2, <3>3, <3>4, RemovalGoesOn
  <2> QED
    BY <1>5, <1>8, <2>2, <2>3 DEF RemoveManaged
<1> QED
  BY <1>6, <1>7, <1>8

LEMMA CreationSteps ==
    ASSUME SinkInv, NEW h \in Sinks, ReadToReplace(h) \/ Replace(h) \/ CreateManaged(h)
    PROVE  SinkInv'
<1>1. SinkTyped
  BY DEF SinkInv
<1>2. handling[h] \in CreateHandlers
  BY <1>1, HandlerAt DEF ReadToReplace, Replace, CreateManaged
<1>3. PICK it \in Instances : it = handling[h].of
  BY <1>2, CreateHandlerIs
<1>4. Name(h) = hostname[it] /\ rrset[Name(h)] \in {NoRRSet} \union RRSets /\ made \in Nat
      /\ sink_faults \in 0..MaxSinkFaults
  BY <1>1, <1>3 DEF Name, SinkTyped
<1>5. CASE ReadToReplace(h)
  <2>1. handling[h] \in ToCreate
    BY <1>2, <1>5, CreateHandlerIs DEF ReadToReplace
  <2> DEFINE replace == [at |-> "replace", of |-> handling[h].of, event |-> handling[h].event,
                         left |-> handling[h].left, alone |-> handling[h].alone,
                         seen |-> rrset[Name(h)]]
             create == [handling[h] EXCEPT !.at = "create"]
  <2>2. create \in ToCreate /\ create.of = handling[h].of
    BY <2>1 DEF ToCreate
  <2>3. /\ handling[h].of \in Instances /\ handling[h].event = "create.end"
        /\ handling[h].left \in 1..Addresses /\ handling[h].alone \in BOOLEAN
    BY <1>2, CreateHandlerIs
  <2>4. rrset[Name(h)].there => rrset[Name(h)] \in RRSets
    BY <1>4, RRSetIs
  <2>5. rrset[Name(h)].there => replace \in ToReplace /\ replace.of = handling[h].of
    BY <2>3, <2>4 DEF ToReplace
  <2>6. IF rrset[Name(h)].there THEN handling' = [handling EXCEPT ![h] = replace]
        ELSE handling' = [handling EXCEPT ![h] = create]
    BY <1>5 DEF ReadToReplace
  <2> HIDE DEF replace, create
  <2>7. PICK to \in CreateHandlers :
            to.of = handling[h].of /\ handling' = [handling EXCEPT ![h] = to]
    BY <2>2, <2>5, <2>6 DEF CreateHandlers
  <2> QED
    BY <1>2, <1>5, <2>7, CreationGoesOn DEF ReadToReplace
<1>6. CASE Replace(h)
  <2>1. handling[h] \in ToReplace
    BY <1>2, <1>6, CreateHandlerIs DEF Replace
  <2>2. CASE Give(h) /\ UNCHANGED <<rrset, made>>
    BY <1>2, <1>4, <1>6, <2>2, GivenUp, CreateHandlerIs DEF Replace
  <2>3. CASE GoOn(h, "create") /\ UNCHANGED <<rrset, made, dropped>>
    <3> DEFINE create == [handling[h] EXCEPT !.at = "create"]
    <3>1. create \in ToReplace /\ create.of = handling[h].of
      BY <2>1 DEF ToReplace
    <3>2. handling' = [handling EXCEPT ![h] = create]
      BY <2>3 DEF GoOn
    <3> HIDE DEF create
    <3>3. create \in CreateHandlers
      BY <3>1 DEF CreateHandlers
    <3> QED
      BY <1>2, <1>6, <2>3, <3>1, <3>2, <3>3, CreationGoesOn DEF Replace
  <2>4. ASSUME rrset[Name(h)].there,
               rrset' = [rrset EXCEPT ![Name(h)] =
                            RRSet(rrset[Name(h)].id, made, handling[h].of)],
               made' = made + 1, Following(h), UNCHANGED dropped
        PROVE  SinkInv'
    <3>1. rrset[Name(h)].id \in Nat
      BY <1>4, <2>4, RRSetIs
    <3> QED
      BY <1>2, <1>6, <2>4, <3>1, RecordIsMade DEF Replace
  <2> QED
    BY <1>6, <2>2, <2>3, <2>4 DEF Replace
<1>7. CASE CreateManaged(h)
  <2>1. CASE Give(h) /\ UNCHANGED <<rrset, made>>
    BY <1>2, <1>4, <1>7, <2>1, GivenUp, CreateHandlerIs DEF CreateManaged
  <2>2. CASE ~(Give(h) /\ UNCHANGED <<rrset, made>>)
    BY <1>2, <1>4, <1>7, <2>2, RecordIsMade DEF CreateManaged
  <2> QED
    BY <2>1, <2>2
<1> QED
  BY <1>5, <1>6, <1>7

LEMMA InstanceSteps ==
    ASSUME SinkInv, NEW it \in Instances, Boot(it) \/ Terminate(it)
    PROVE  SinkInv'
<1>1. SinkTyped /\ Follows(it)
  BY DEF SinkInv
<1>2. UNCHANGED <<hostname, handling, rrset, made, overtaken, dropped, sink_faults>>
  BY DEF Boot, Terminate
<1>3. PICK event \in SinkEvent : events' = events \union {<<it, event>>}
  BY DEF Boot, Terminate, SinkEvent
<1>4. \A h \in Sinks, i \in Instances :
          (Creates(h, i)' <=> Creates(h, i)) /\ (Deletes(h, i)' <=> Deletes(h, i))
  BY <1>2 DEF Creates, Deletes
<1>5. /\ life' \in [Instances -> {"none", "up", "gone"}]
      /\ \A i \in Instances \ {it} : life'[i] = life[i]
  BY <1>1 DEF Boot, Terminate, SinkTyped
<1>6. SinkTyped'
  BY <1>1, <1>2, <1>3, <1>5 DEF SinkTyped
<1>7. ASSUME Boot(it) PROVE Follows(it)'
  <2>1. life[it] = "none" /\ life'[it] = "up" /\ events' = events \union {<<it, "create.end">>}
    BY <1>1, <1>7 DEF Boot, SinkTyped
  <2>2. (\A h \in Sinks : ~Deletes(h, it)) /\ <<it, "delete.start">> \notin events
    BY <1>1, <2>1 DEF Follows, InOrder
  <2>3. /\ \A h \in Sinks : ~Deletes(h, it)'
        /\ <<it, "delete.start">> \notin events' /\ Creating(it)'
    BY <1>4, <2>1, <2>2 DEF Creating
  <2>4. InOrder(it)'
    BY <2>1, <2>3 DEF InOrder
  <2>5. IsGoing(it)' /\ IsComing(it)'
    BY <2>1, <2>3 DEF IsGoing, IsComing
  <2> QED
    BY <2>4, <2>5 DEF Follows
<1>8. ASSUME Terminate(it) PROVE Follows(it)'
  <2>1. life[it] = "up" /\ life'[it] = "gone" /\ events' = events \union {<<it, "delete.start">>}
    BY <1>1, <1>8 DEF Terminate, SinkTyped
  <2>2. \A h \in Sinks : ~Deletes(h, it)
    BY <1>1, <2>1 DEF Follows, InOrder
  <2>3. (\A h \in Sinks : ~Deletes(h, it)') /\ <<it, "delete.start">> \in events'
    BY <1>4, <2>1, <2>2
  <2>4. InOrder(it)'
    BY <2>1, <2>3 DEF InOrder
  <2>5. IsGoing(it)' /\ IsComing(it)'
    BY <2>1, <2>3 DEF IsGoing, IsComing
  <2> QED
    BY <2>4, <2>5 DEF Follows
<1>9. ASSUME NEW i \in Instances \ {it} PROVE Follows(i)'
  <2>1. \A e \in SinkEvent : <<i, e>> \in events' <=> <<i, e>> \in events
    BY <1>3
  <2>2. /\ <<i, "create.end">> \in events' <=> <<i, "create.end">> \in events
        /\ <<i, "delete.start">> \in events' <=> <<i, "delete.start">> \in events
    BY <2>1 DEF SinkEvent
  <2>3. Creating(i)' <=> Creating(i)
    BY <1>4, <2>2 DEF Creating
  <2>4. HasRecord(i)' <=> HasRecord(i)
    BY <1>2 DEF HasRecord
  <2>5. InOrder(i) /\ IsGoing(i) /\ IsComing(i) /\ life'[i] = life[i]
    BY <1>5 DEF SinkInv, Follows
  <2>6. InOrder(i)'
    BY <1>2, <1>4, <2>2, <2>3, <2>5 DEF InOrder
  <2>7. IsGoing(i)'
    BY <1>2, <1>4, <2>2, <2>4, <2>5 DEF IsGoing
  <2>8. IsComing(i)'
    BY <1>2, <2>3, <2>4, <2>5 DEF IsComing, Unique
  <2> QED
    BY <2>6, <2>7, <2>8 DEF Follows
<1> QED
  BY <1>6, <1>7, <1>8, <1>9 DEF SinkInv

LEMMA TakeSteps ==
    ASSUME SinkInv, NEW h \in Sinks, NEW it \in Instances, NEW event \in SinkEvent,
           Take(h, it, event)
    PROVE  SinkInv'
<1> DEFINE to == [at |-> IF event = "create.end" THEN "read" ELSE "find", of |-> it,
                  event |-> event, left |-> Addresses, alone |-> FALSE]
<1>1. SinkTyped /\ Follows(it)
  BY DEF SinkInv
<1>2. Addresses \in 1..Addresses
  BY SinkAssumption
<1>3. /\ event = "create.end" => to \in ToCreate
      /\ event = "delete.start" => to \in ToFind /\ to.at = "find"
      /\ to.of = it
  BY <1>2 DEF ToCreate, ToFind
<1>4. handling[h] = NoEvent /\ <<it, event>> \in events
      /\ events' = events \ {<<it, event>>} /\ handling' = [handling EXCEPT ![h] = to]
      /\ UNCHANGED <<hostname, life, rrset, made, dropped, sink_faults>>
  BY DEF Take
<1> HIDE DEF to
<1>5. /\ event = "create.end" => to \in CreateHandlers /\ to \notin DeleteHandlers
      /\ event = "delete.start" => to \in DeleteHandlers /\ to \notin CreateHandlers
      /\ to \in Handlers
  BY <1>3, CreateHandlerIs, DeleteHandlerIs
  DEF CreateHandlers, DeleteHandlers, Handlers, SinkEvent
<1>6. /\ handling' \in [Sinks -> Handlers] /\ handling'[h] = to
      /\ \A g \in Sinks \ {h} : handling'[g] = handling[g]
      /\ \A g \in Sinks \ {h}, i \in Instances :
            (Creates(g, i)' <=> Creates(g, i)) /\ (Deletes(g, i)' <=> Deletes(g, i))
  BY <1>1, <1>4, <1>5, OneHandlerChanges
<1>7. /\ \A i \in Instances : ~Creates(h, i) /\ ~Deletes(h, i)
      /\ \A i \in Instances \ {it} : ~Creates(h, i)' /\ ~Deletes(h, i)'
      /\ event = "create.end" => Creates(h, it)' /\ ~Deletes(h, it)'
      /\ event = "delete.start" => Deletes(h, it)' /\ ~Creates(h, it)'
  BY <1>3, <1>4, <1>5, <1>6, NoEventIs DEF Creates, Deletes
<1>8. overtaken' \in {overtaken, overtaken \union {it}}
  BY DEF Take
<1>9. SinkTyped'
  BY <1>1, <1>4, <1>6, <1>8 DEF SinkTyped
<1>10. ASSUME event = "create.end" PROVE Follows(it)'
  <2>1. overtaken' = overtaken /\ Creating(it) /\ Creating(it)'
        /\ (<<it, "delete.start">> \in events' <=> <<it, "delete.start">> \in events)
    BY <1>4, <1>7, <1>10 DEF Take, Creating
  <2>2. \A g \in Sinks : (Deletes(g, it)' <=> Deletes(g, it))
                         /\ (Deletes(g, it) => handling'[g] = handling[g])
    BY <1>6, <1>7, <1>10
  <2>3. HasRecord(it)' <=> HasRecord(it)
    BY <1>4 DEF HasRecord
  <2>4. InOrder(it)'
    BY <1>1, <1>4, <2>1, <2>2 DEF Follows, InOrder
  <2>5. IsGoing(it)'
    BY <1>1, <1>4, <2>1, <2>2, <2>3 DEF Follows, IsGoing
  <2>6. IsComing(it)'
    BY <2>1 DEF IsComing
  <2> QED
    BY <2>4, <2>5, <2>6 DEF Follows
<1>11. ASSUME event = "delete.start" PROVE Follows(it)'
  <2>1. life[it] = "gone" /\ InOrder(it)
    BY <1>1, <1>4, <1>11 DEF Follows, InOrder
  <2>2. it \notin overtaken' =>
            it \notin overtaken /\ <<it, "create.end">> \notin events
            /\ \A g \in Sinks : handling[g] = NoEvent \/ handling[g].of # it
    BY <1>11 DEF Take
  <2>3. it \notin overtaken' => ~Creating(it)' /\ \A g \in Sinks : Deletes(g, it)' => g = h
    BY <1>4, <1>6, <1>7, <1>11, <2>2, NoEventIs DEF Creating, Creates, Deletes
  <2>4. Creating(it)' => Creating(it)
    BY <1>4, <1>6, <1>7, <1>11 DEF Creating
  <2>5. InOrder(it)'
    BY <1>4, <2>1, <2>3, <2>4 DEF InOrder
  <2>6. IsGoing(it)'
    BY <1>3, <1>6, <1>7, <1>11 DEF IsGoing
  <2>7. IsComing(it)'
    BY <1>4, <2>1 DEF IsComing
  <2> QED
    BY <2>5, <2>6, <2>7 DEF Follows
<1>12. \A i \in Instances \ {it} : Follows(i)'
  <2>1. \A i \in Instances \ {it}, e \in SinkEvent : <<i, e>> \in events' <=> <<i, e>> \in events
    BY <1>4
  <2>2. \A i \in Instances \ {it} : i \in overtaken' <=> i \in overtaken
    BY <1>8
  <2> QED
    BY <1>4, <1>6, <1>7, <2>1, <2>2, OthersFollow
<1> QED
  BY <1>9, <1>10, <1>11, <1>12 DEF SinkInv, SinkEvent

LEMMA DeathSteps ==
    ASSUME SinkInv, NEW h \in Sinks, SinkDies(h)
    PROVE  SinkInv'
<1>1. SinkTyped
  BY DEF SinkInv
<1>2. handling[h] \in CreateHandlers \/ handling[h] \in DeleteHandlers
  BY <1>1, HandlerAt DEF SinkDies
<1>3. PICK it \in Instances : it = handling[h].of
  BY <1>2, CreateHandlerIs, DeleteHandlerIs
<1> DEFINE to == [handling[h] EXCEPT !.alone = TRUE]
<1>4. /\ handling[h] \in CreateHandlers => to \in CreateHandlers
      /\ handling[h] \in DeleteHandlers => to \in DeleteHandlers
      /\ to.of = handling[h].of /\ to.at = handling[h].at
      /\ handling[h] \in DeleteHandlers /\ handling[h].at # "find" =>
            to.seen = handling[h].seen
  <2>1. handling[h] \in ToCreate =>
           to \in ToCreate /\ to.of = handling[h].of /\ to.at = handling[h].at
    BY DEF ToCreate
  <2>2. handling[h] \in ToReplace =>
           to \in ToReplace /\ to.of = handling[h].of /\ to.at = handling[h].at
    BY DEF ToReplace
  <2>3. handling[h] \in ToFind => to \in ToFind /\ to.of = handling[h].of /\ to.at = handling[h].at
                                  /\ handling[h].at = "find"
    BY DEF ToFind
  <2>4. handling[h] \in ToRemove =>
           to \in ToRemove /\ to.of = handling[h].of /\ to.at = handling[h].at
                                    /\ to.seen = handling[h].seen
    BY DEF ToRemove
  <2> HIDE DEF to
  <2> QED
    BY <1>2, <2>1, <2>2, <2>3, <2>4 DEF CreateHandlers, DeleteHandlers
<1>5. handling' = [handling EXCEPT ![h] = to]
  BY DEF SinkDies
<1> HIDE DEF to
<1>6. to \in Handlers
  BY <1>2, <1>4 DEF Handlers
<1>7. /\ handling' \in [Sinks -> Handlers] /\ handling'[h] = to
      /\ \A g \in Sinks \ {h} : handling'[g] = handling[g]
      /\ \A g \in Sinks \ {h}, i \in Instances :
            (Creates(g, i)' <=> Creates(g, i)) /\ (Deletes(g, i)' <=> Deletes(g, i))
  BY <1>1, <1>5, <1>6, OneHandlerChanges
<1>8. to \in CreateHandlers <=> handling[h] \in CreateHandlers
  BY <1>2, <1>4, CreateHandlerIs, DeleteHandlerIs
<1>9. to \in DeleteHandlers <=> handling[h] \in DeleteHandlers
  BY <1>2, <1>4, CreateHandlerIs, DeleteHandlerIs
<1>10. \A g \in Sinks, i \in Instances :
          (Creates(g, i)' <=> Creates(g, i)) /\ (Deletes(g, i)' <=> Deletes(g, i))
  <2>1. \A i \in Instances :
          (Creates(h, i)' <=> Creates(h, i)) /\ (Deletes(h, i)' <=> Deletes(h, i))
    BY <1>4, <1>7, <1>8, <1>9 DEF Creates, Deletes
  <2> QED
    BY <1>7, <2>1
<1>11. PICK event \in SinkEvent :
          /\ events' = events \union {<<it, event>>}
          /\ event = "create.end" => Creates(h, it)
          /\ event = "delete.start" => Deletes(h, it)
  BY <1>2, <1>3, CreateHandlerIs, DeleteHandlerIs DEF SinkDies, SinkEvent, Creates, Deletes
<1>12. /\ UNCHANGED <<hostname, life, rrset, made, overtaken, dropped>>
       /\ sink_faults' \in 0..MaxSinkFaults
  BY <1>1, SinkAssumption DEF SinkDies, SinkFault, SinkTyped
<1>13. SinkTyped'
  BY <1>1, <1>7, <1>11, <1>12 DEF SinkTyped
<1>14. Follows(it)'
  <2>1. InOrder(it) /\ IsGoing(it) /\ IsComing(it)
    BY DEF SinkInv, Follows
  <2>2. Creating(it)' <=> Creating(it)
    BY <1>10, <1>11 DEF Creating, SinkEvent
  <2>3. /\ <<it, "delete.start">> \in events => <<it, "delete.start">> \in events'
        /\ <<it, "delete.start">> \in events' =>
              <<it, "delete.start">> \in events \/ Deletes(h, it)
    BY <1>11
  <2>4. HasRecord(it)' <=> HasRecord(it)
    BY <1>12 DEF HasRecord
  <2>5. InOrder(it)'
    BY <1>10, <1>12, <2>1, <2>2, <2>3 DEF InOrder
  <2>6. \A g \in Sinks : Deletes(g, it) => handling'[g].at = handling[g].at
            /\ (handling[g].at # "find" => handling'[g].seen = handling[g].seen)
    BY <1>4, <1>7 DEF Deletes
  <2>7. IsGoing(it)'
    BY <1>10, <1>12, <2>1, <2>3, <2>4, <2>6 DEF IsGoing
  <2>8. IsComing(it)'
    BY <1>12, <2>1, <2>2, <2>4 DEF IsComing, Unique
  <2> QED
    BY <2>5, <2>7, <2>8 DEF Follows
<1>15. \A i \in Instances \ {it} : Follows(i)'
  <2>1. \A i \in Instances \ {it}, e \in SinkEvent : <<i, e>> \in events' <=> <<i, e>> \in events
    BY <1>11
  <2>2. \A i \in Instances \ {it} :
            ~Creates(h, i) /\ ~Creates(h, i)' /\ ~Deletes(h, i) /\ ~Deletes(h, i)'
    BY <1>3, <1>10 DEF Creates, Deletes
  <2> QED
    BY <1>7, <1>12, <2>1, <2>2, OthersFollow
<1> QED
  BY <1>13, <1>14, <1>15 DEF SinkInv

LEMMA SinkMoves == SinkInv /\ [SinkNext]_sinkVars => SinkInv'
<1> SUFFICES ASSUME SinkInv, [SinkNext]_sinkVars PROVE SinkInv'
  OBVIOUS
<1>1. ASSUME NEW i \in Instances, Boot(i) \/ Terminate(i) PROVE SinkInv'
  BY <1>1, InstanceSteps
<1>2. ASSUME NEW h \in Sinks, TakeAny(h) PROVE SinkInv'
  BY <1>2, TakeSteps DEF TakeAny, SinkEvent
<1>3. ASSUME NEW h \in Sinks, HandleEvent(h) PROVE SinkInv'
  BY <1>3, CreationSteps, RemovalSteps DEF HandleEvent
<1>4. ASSUME NEW h \in Sinks, Except(h) PROVE SinkInv'
  <2>1. sink_faults' \in 0..MaxSinkFaults
    BY <1>4, SinkAssumption DEF Except, SinkFault, SinkInv, SinkTyped
  <2> QED
    BY <1>4, <2>1, GivenUp DEF Except
<1>5. ASSUME NEW h \in Sinks, SinkDies(h) PROVE SinkInv'
  BY <1>5, DeathSteps
<1>6. CASE UNCHANGED sinkVars
  <2> USE <1>6 DEF sinkVars, Creating, Creates, Deletes
  <2>1. \A i \in Instances : InOrder(i) => InOrder(i)'
    BY DEF InOrder
  <2>2. \A i \in Instances : IsGoing(i) => IsGoing(i)'
    BY DEF IsGoing, HasRecord
  <2>3. \A i \in Instances : IsComing(i) => IsComing(i)'
    BY DEF IsComing, HasRecord, Unique
  <2>4. SinkTyped'
    BY DEF SinkInv, SinkTyped
  <2> QED
    BY <2>1, <2>2, <2>3, <2>4 DEF SinkInv, Follows
<1> QED
  BY <1>1, <1>2, <1>3, <1>4, <1>5, <1>6 DEF SinkNext

-----------------------------------------------------------------------------
(* ZoneTasks.                                                              *)

Targets == [there : BOOLEAN, rrsets : 1..MaxRRSets, life : Nat]
TaskRows == [status : {"none", "PENDING", "COMPLETE", "ERROR"}, life : Nat]

Plain == [at : {"none", "parse", "create", "done", "lost"}]
Casts == [at : {"cast"}, life : Nat]
Outcomes == [at : {"end"}, status : {"COMPLETE", "ERROR"}, life : Nat]
Works == Plain \union Casts \union Outcomes

TasksTyped ==
    /\ target \in Targets
    /\ task \in [TaskIds -> TaskRows]
    /\ work \in [TaskIds -> Works]
    /\ task_upsets \in 0..MaxTaskUpsets
    /\ \A t \in TaskIds :
          /\ task[t].life <= target.life
          /\ work[t].at \in {"cast", "end"} => work[t].life <= target.life
          /\ work[t].at = "none" => task[t] = NoTask
          /\ work[t].at = "cast" => t \in ExportIds

\* Import t is, or is about to be, the origin of the zone made as the n-th.
Shown(t, n) == task[t].status = "COMPLETE" /\ task[t].life = n
ToShow(t, n) == work[t].at = "end" /\ work[t].status = "COMPLETE" /\ work[t].life = n
Claims(t, n) == Shown(t, n) \/ ToShow(t, n)

\* No two imports claim the same zone, and none the one that never was.
OriginsInv ==
    /\ \A t \in ImportIds :
          /\ task[t].status # "COMPLETE" => task[t].life = 0
          /\ work[t].at = "end" /\ work[t].status # "COMPLETE" => work[t].life = 0
          /\ ~Claims(t, 0)
    /\ \A t, u \in ImportIds : t # u => \A n \in Nat : ~(Claims(t, n) /\ Claims(u, n))

TasksInv == TasksTyped /\ OriginsInv

LEMMA TasksInvSuffices == TasksInv => ZoneTasksTypeOK /\ OriginsDiffer
<1> SUFFICES ASSUME TasksInv PROVE ZoneTasksTypeOK /\ OriginsDiffer
  OBVIOUS
<1>1. /\ target.rrsets \in 1..MaxRRSets /\ target.life \in Nat
      /\ \A t \in TaskIds : task[t].status \in {"none", "PENDING", "COMPLETE", "ERROR"}
                            /\ task[t].life \in Nat /\ task[t].life <= target.life
  BY DEF TasksInv, TasksTyped, Targets, TaskRows
<1>2. ZoneTasksTypeOK
  BY <1>1 DEF TasksInv, TasksTyped, ZoneTasksTypeOK
<1>3. ASSUME NEW t \in ImportIds, NEW u \in ImportIds, t # u, task[t].status = "COMPLETE",
             task[t].life = task[u].life
      PROVE  FALSE
  <2>1. task[t].life \in Nat
    BY <1>1 DEF TaskIds
  <2>2. Claims(t, task[t].life) /\ task[t].life # 0
    BY <1>3 DEF TasksInv, OriginsInv, Claims, Shown
  <2>3. Claims(u, task[t].life)
    BY <1>3, <2>2 DEF TasksInv, OriginsInv, Claims, Shown
  <2> QED
    BY <1>3, <2>1, <2>2, <2>3 DEF TasksInv, OriginsInv
<1> QED
  BY <1>2, <1>3 DEF OriginsDiffer

LEMMA NoTaskIs == NoTask \in TaskRows /\ NoTask.life = 0 /\ NoTask.status = "none"
  BY DEF NoTask, TaskRows

\* The kinds of work are told apart by their step.
LEMMA PlainWork ==
    \A step \in {"none", "parse", "create", "done", "lost"} :
        [at |-> step] \in Works /\ [at |-> step].at = step
  BY DEF Works, Plain

LEMMA CastWork ==
    ASSUME NEW n \in Nat
    PROVE  /\ [at |-> "cast", life |-> n] \in Works
           /\ [at |-> "cast", life |-> n].at = "cast"
           /\ [at |-> "cast", life |-> n].life = n
  BY DEF Works, Casts

LEMMA EndWork ==
    ASSUME NEW n \in Nat, NEW end \in {"COMPLETE", "ERROR"}
    PROVE  /\ [at |-> "end", status |-> end, life |-> n] \in Works
           /\ [at |-> "end", status |-> end, life |-> n].at = "end"
           /\ [at |-> "end", status |-> end, life |-> n].status = end
           /\ [at |-> "end", status |-> end, life |-> n].life = n
  BY DEF Works, Outcomes

LEMMA WorkTyped ==
    ASSUME NEW it \in Works
    PROVE  /\ it.at \in {"cast", "end"} => it.life \in Nat
           /\ it.at = "end" => it.status \in {"COMPLETE", "ERROR"}
  BY DEF Works, Plain, Casts, Outcomes

LEMMA TasksStart == ZoneTasksInit => TasksInv
<1> SUFFICES ASSUME ZoneTasksInit PROVE TasksInv
  OBVIOUS
<1>1. target \in Targets /\ target.life = 0
  <2>1. 1 \in 1..MaxRRSets
    BY ZoneTasksAssumption
  <2> QED
    BY <2>1 DEF ZoneTasksInit, Targets
<1>2. \A t \in TaskIds : task[t] = NoTask /\ work[t] = [at |-> "none"] /\ work[t].at = "none"
  BY DEF ZoneTasksInit
<1>3. task \in [TaskIds -> TaskRows] /\ work \in [TaskIds -> Works]
  BY NoTaskIs, PlainWork DEF ZoneTasksInit
<1>4. task_upsets \in 0..MaxTaskUpsets
  BY ZoneTasksAssumption DEF ZoneTasksInit
<1>5. TasksTyped
  BY <1>1, <1>2, <1>3, <1>4, NoTaskIs DEF TasksTyped
<1>6. OriginsInv
  BY <1>2, NoTaskIs DEF OriginsInv, Claims, Shown, ToShow, TaskIds
<1> QED
  BY <1>5, <1>6 DEF TasksInv

\* What a step has to keep, when the zone is not made anew, of one task.
LEMMA OneTaskChanges ==
    ASSUME TasksInv, NEW t \in TaskIds, target' \in Targets, target.life <= target'.life,
           NEW to \in Works, work' = [work EXCEPT ![t] = to],
           NEW new \in TaskRows, task' = [task EXCEPT ![t] = new],
           task_upsets' \in 0..MaxTaskUpsets,
           new.life <= target'.life, to.at \in {"cast", "end"} => to.life <= target'.life,
           to.at = "none" => new = NoTask, to.at = "cast" => t \in ExportIds,
           t \in ImportIds =>
               /\ new.status # "COMPLETE" => new.life = 0
               /\ to.at = "end" /\ to.status # "COMPLETE" => to.life = 0
               /\ \A n \in Nat : Claims(t, n)' => \/ Claims(t, n)
                                                  \/ n > target.life
    PROVE  TasksInv'
<1>1. TasksTyped /\ target.life \in Nat
  BY DEF TasksInv, TasksTyped, Targets
<1>2. /\ task' \in [TaskIds -> TaskRows] /\ work' \in [TaskIds -> Works]
      /\ task'[t] = new /\ work'[t] = to
      /\ \A u \in TaskIds \ {t} : task'[u] = task[u] /\ work'[u] = work[u]
  BY <1>1 DEF TasksTyped
<1>3. \A u \in TaskIds :
          /\ task[u].life \in Nat /\ task[u].life <= target.life
          /\ work[u].at \in {"cast", "end"} => work[u].life \in Nat /\ work[u].life <= target.life
          /\ work[u].at = "none" => task[u] = NoTask
          /\ work[u].at = "cast" => u \in ExportIds
  BY <1>1, WorkTyped DEF TasksTyped, TaskRows
<1>4. target'.life \in Nat
  BY DEF Targets
<1>5. TasksTyped'
  BY <1>1, <1>2, <1>3, <1>4 DEF TasksTyped
<1>6. \A u \in ImportIds, n \in Nat : Claims(u, n) => n <= target.life
  BY <1>3 DEF Claims, Shown, ToShow, TaskIds
<1>7. \A u \in ImportIds \ {t}, n \in Nat : Claims(u, n)' <=> Claims(u, n)
  BY <1>2 DEF Claims, Shown, ToShow, TaskIds
<1>8. \A u \in ImportIds, n \in Nat : Claims(u, n)' => Claims(u, n) \/ (u = t /\ n > target.life)
  BY <1>7
<1>9. ASSUME NEW u \in ImportIds PROVE ~Claims(u, 0)'
  BY <1>1, <1>8 DEF TasksInv, OriginsInv
<1>10. ASSUME NEW u \in ImportIds, NEW v \in ImportIds, u # v, NEW n \in Nat,
              Claims(u, n)', Claims(v, n)'
       PROVE  FALSE
  <2>1. ~(Claims(u, n) /\ Claims(v, n))
    BY <1>10 DEF TasksInv, OriginsInv
  <2>2. (Claims(u, n) \/ (u = t /\ n > target.life)) /\ (Claims(v, n) \/ (v = t /\ n > target.life))
    BY <1>8, <1>10
  <2> QED
    BY <1>1, <1>6, <1>10, <2>1, <2>2
<1>11. \A u \in ImportIds :
          /\ task'[u].status # "COMPLETE" => task'[u].life = 0
          /\ work'[u].at = "end" /\ work'[u].status # "COMPLETE" => work'[u].life = 0
  BY <1>2 DEF TasksInv, OriginsInv, TaskIds
<1> QED
  BY <1>5, <1>9, <1>10, <1>11 DEF TasksInv, OriginsInv

LEMMA TasksMove == TasksInv /\ [ZoneTasksNext]_taskVars => TasksInv'
<1> SUFFICES ASSUME TasksInv, [ZoneTasksNext]_taskVars PROVE TasksInv'
  OBVIOUS
<1>1. /\ TasksTyped /\ target \in Targets /\ target.life \in Nat /\ MaxRRSets \in Nat
      /\ task_upsets \in 0..MaxTaskUpsets /\ MaxTaskUpsets \in Nat
  BY ZoneTasksAssumption DEF TasksInv, TasksTyped, Targets
<1>2. \A t \in TaskIds :
          /\ task[t] \in TaskRows /\ task[t].life \in Nat /\ task[t].life <= target.life
          /\ work[t] \in Works
          /\ work[t].at \in {"cast", "end"} => work[t].life \in Nat /\ work[t].life <= target.life
          /\ work[t].at = "end" => work[t].status \in {"COMPLETE", "ERROR"}
          /\ work[t].at = "none" => task[t] = NoTask
          /\ work[t].at = "cast" => t \in ExportIds
  <2>1. \A t \in TaskIds :
          /\ task[t] \in TaskRows /\ task[t].life \in Nat /\ task[t].life <= target.life
          /\ work[t] \in Works
          /\ work[t].at \in {"cast", "end"} => work[t].life <= target.life
          /\ work[t].at = "none" => task[t] = NoTask
          /\ work[t].at = "cast" => t \in ExportIds
    BY DEF TasksInv, TasksTyped, TaskRows
  <2> QED
    BY <2>1, WorkTyped
<1>2a. \A t \in TaskIds :
          /\ task' = task => task' = [task EXCEPT ![t] = task[t]]
          /\ work' = work => work' = [work EXCEPT ![t] = work[t]]
  BY <1>1 DEF TasksTyped
<1>2b. \A t \in ImportIds :
          /\ task[t].status # "COMPLETE" => task[t].life = 0
          /\ work[t].at = "end" /\ work[t].status # "COMPLETE" => work[t].life = 0
  BY DEF TasksInv, OriginsInv
<1>3. ASSUME NEW t \in TaskIds,
             (t \in ImportIds /\ CreateImport(t)) \/ (t \in ExportIds /\ CreateExport(t))
      PROVE  TasksInv'
  <2> DEFINE new == [task[t] EXCEPT !.status = "PENDING"]
  <2>1. work[t].at = "none" /\ task[t] = NoTask
    BY <1>2, <1>3 DEF CreateImport, CreateExport
  <2>2. new \in TaskRows /\ new.life = 0 /\ new.status = "PENDING"
    BY <2>1, NoTaskIs DEF TaskRows
  <2>3. task' = [task EXCEPT ![t] = new]
    BY <1>3 DEF CreateImport, CreateExport
  <2> HIDE DEF new
  <2>4. PICK to \in Works :
            /\ work' = [work EXCEPT ![t] = to]
            /\ to.at \in {"parse", "cast"}
            /\ to.at = "cast" => to.life = target.life /\ t \in ExportIds
    <3>1. CASE t \in ImportIds /\ CreateImport(t)
      <4>1. [at |-> "parse"] \in Works /\ [at |-> "parse"].at = "parse"
        BY PlainWork
      <4>2. work' = [work EXCEPT ![t] = [at |-> "parse"]]
        BY <3>1 DEF CreateImport, Turn
      <4> QED
        BY <4>1, <4>2
    <3>2. CASE t \in ExportIds /\ CreateExport(t)
      <4> DEFINE cast == [at |-> "cast", life |-> target.life]
      <4>1. cast \in Works /\ cast.at = "cast" /\ cast.life = target.life
        BY <1>1, CastWork
      <4>2. work' = [work EXCEPT ![t] = cast]
        BY <3>2 DEF CreateExport, Turn
      <4> HIDE DEF cast
      <4> QED
        BY <3>2, <4>1, <4>2
    <3> QED
      BY <1>3, <3>1, <3>2
  <2>5. to \in Works /\ to.at \in {"parse", "cast"} /\ (to.at = "cast" => to.life = target.life)
    BY <2>4
  <2>6. work'[t] = to /\ task'[t] = new
    BY <1>1, <2>3, <2>4 DEF TasksTyped
  <2>7. \A n \in Nat : ~Claims(t, n)'
    BY <2>2, <2>5, <2>6 DEF Claims, Shown, ToShow
  <2>8. UNCHANGED <<target, task_upsets>>
    BY <1>3 DEF CreateImport, CreateExport
  <2>9. target' \in Targets /\ target.life <= target'.life /\ task_upsets' \in 0..MaxTaskUpsets
    BY <1>1, <2>8
  <2>10. new.life <= target'.life /\ (to.at \in {"cast", "end"} => to.life <= target'.life)
    BY <1>1, <2>2, <2>5, <2>8
  <2>11. to \in Works /\ to.at # "none" /\ to.at # "end"
    BY <2>5
  <2>12. /\ to.at = "cast" => t \in ExportIds
         /\ t \in ImportIds => (new.status # "COMPLETE" => new.life = 0)
    BY <2>2, <2>4
  <2> QED
    BY <2>2, <2>3, <2>4, <2>7, <2>9, <2>10, <2>11, <2>12, OneTaskChanges
<1>4. ASSUME NEW t \in TaskIds, NEW to \in Works, work' = [work EXCEPT ![t] = to],
             to.at \in {"create", "end", "lost"},
             to.at = "end" => to.status = "ERROR" /\ to.life = 0,
             target' \in Targets, target.life <= target'.life, task' = task,
             task_upsets' \in 0..MaxTaskUpsets
      PROVE  TasksInv'
  <2>1. work'[t] = to /\ task'[t] = task[t] /\ task' = [task EXCEPT ![t] = task[t]]
    BY <1>1, <1>4, <1>2a DEF TasksTyped
  <2>2. \A n \in Nat : Claims(t, n)' => Claims(t, n)
    BY <1>4, <2>1 DEF Claims, Shown, ToShow
  <2>3. target'.life \in Nat
    BY <1>4 DEF Targets
  <2>4. task[t].life <= target'.life /\ (to.at \in {"cast", "end"} => to.life <= target'.life)
    BY <1>1, <1>2, <1>4, <2>3
  <2>5. task[t] \in TaskRows /\ to.at # "none"
    BY <1>2, <1>4
  <2>6. t \in ImportIds => /\ task[t].status # "COMPLETE" => task[t].life = 0
                           /\ to.at = "end" /\ to.status # "COMPLETE" => to.life = 0
    BY <1>4, <1>2b
  <2> QED
    BY <1>4, <2>1, <2>2, <2>4, <2>5, <2>6, OneTaskChanges
<1>5. ASSUME NEW t \in TaskIds, ParseImport(t) PROVE TasksInv'
  <2>1. PICK to \in {[at |-> "create"], [at |-> "end", status |-> "ERROR", life |-> 0]} :
            work' = [work EXCEPT ![t] = to]
    BY <1>5 DEF ParseImport, Turn, Outcome
  <2>2. /\ to \in Works /\ to.at \in {"create", "end"}
        /\ to.at = "end" => to.status = "ERROR" /\ to.life = 0
    <3>1. CASE to = [at |-> "create"]
      BY <3>1, PlainWork
    <3>2. CASE to = [at |-> "end", status |-> "ERROR", life |-> 0]
      <4>1. 0 \in Nat /\ "ERROR" \in {"COMPLETE", "ERROR"}
        OBVIOUS
      <4> QED
        BY <3>2, <4>1, EndWork
    <3> QED
      BY <2>1, <3>1, <3>2
  <2>3. UNCHANGED <<target, task>> /\ task_upsets' \in 0..MaxTaskUpsets
    BY <1>1, <1>5 DEF ParseImport, TaskUpset
  <2>4. target' \in Targets /\ target.life <= target'.life
    BY <1>1, <2>3
  <2> QED
    BY <1>4, <2>1, <2>2, <2>3, <2>4
<1>6. ASSUME NEW t \in TaskIds, CreateImported(t) PROVE TasksInv'
  <2>1. task' = task /\ task_upsets' \in 0..MaxTaskUpsets
    BY <1>1, <1>6 DEF CreateImported, TaskUpset
  <2>2. target' \in Targets /\ target'.life \in {target.life, target.life + 1}
    <3>1. ASSUME NEW n \in 1..MaxRRSets,
                 target' = [there |-> TRUE, rrsets |-> n, life |-> target.life + 1]
          PROVE  target' \in Targets /\ target'.life = target.life + 1
      BY <1>1, <3>1 DEF Targets
    <3> QED
      BY <1>1, <1>6, <3>1 DEF CreateImported
  <2>3. CASE Outcome(t, "ERROR", 0)
    <3> DEFINE to == [at |-> "end", status |-> "ERROR", life |-> 0]
    <3>1. to \in Works /\ to.at = "end" /\ to.status = "ERROR" /\ to.life = 0
      BY EndWork
    <3>2. work' = [work EXCEPT ![t] = to]
      BY <2>3 DEF Outcome, Turn
    <3> HIDE DEF to
    <3>3. target.life <= target'.life
      BY <1>1, <2>2
    <3> QED
      BY <1>4, <2>1, <2>2, <3>1, <3>2, <3>3
  <2>4. CASE Outcome(t, "COMPLETE", target.life + 1) /\ target'.life = target.life + 1
    <3> DEFINE to == [at |-> "end", status |-> "COMPLETE", life |-> target.life + 1]
    <3>1. to \in Works /\ to.at = "end" /\ to.status = "COMPLETE" /\ to.life = target.life + 1
      <4>1. target.life + 1 \in Nat /\ "COMPLETE" \in {"COMPLETE", "ERROR"}
        BY <1>1
      <4> QED
        BY <4>1, EndWork
    <3>2. work' = [work EXCEPT ![t] = to]
      BY <2>4 DEF Outcome, Turn
    <3> HIDE DEF to
    <3>3. work'[t] = to /\ task'[t] = task[t] /\ task' = [task EXCEPT ![t] = task[t]]
      BY <1>1, <1>2, <2>1, <3>2 DEF TasksTyped
    <3>4. \A n \in Nat : Claims(t, n)' => Claims(t, n) \/ n > target.life
      BY <1>1, <3>1, <3>3 DEF Claims, Shown, ToShow
    <3>5. task[t].life <= target'.life /\ to.life <= target'.life /\ target.life <= target'.life
      BY <1>1, <1>2, <2>4, <3>1
    <3>6. /\ task[t] \in TaskRows
          /\ t \in ImportIds => (task[t].status # "COMPLETE" => task[t].life = 0)
      BY <1>2, <1>2b
    <3> QED
      BY <2>1, <2>2, <3>1, <3>2, <3>3, <3>4, <3>5, <3>6, OneTaskChanges
  <2>5. \/ Outcome(t, "ERROR", 0)
        \/ Outcome(t, "COMPLETE", target.life + 1) /\ target'.life = target.life + 1
    <3>1. \A n \in 1..MaxRRSets :
              [there |-> TRUE, rrsets |-> n, life |-> target.life + 1].life = target.life + 1
      OBVIOUS
    <3> QED
      BY <1>6, <3>1 DEF CreateImported
  <2> QED
    BY <2>3, <2>4, <2>5
<1>7. ASSUME NEW t \in TaskIds, DetermineExport(t) \/ (t \in ExportIds /\ LoseExport(t))
      PROVE  TasksInv'
  <2>1. t \in ExportIds /\ t \notin ImportIds
    BY <1>2, <1>7, ZoneTasksAssumption DEF DetermineExport
  <2>2. work[t].life \in Nat /\ work[t].life <= target.life
    BY <1>2, <1>7 DEF DetermineExport, LoseExport
  <2>3. PICK to \in Works :
            /\ work' = [work EXCEPT ![t] = to]
            /\ to.at \in {"lost", "end"} /\ (to.at = "end" => to.life = work[t].life)
    <3>1. ASSUME NEW end \in {"COMPLETE", "ERROR"}, Outcome(t, end, work[t].life)
          PROVE  \E to \in Works :
                    /\ work' = [work EXCEPT ![t] = to]
                    /\ to.at \in {"lost", "end"} /\ (to.at = "end" => to.life = work[t].life)
      <4> DEFINE new == [at |-> "end", status |-> end, life |-> work[t].life]
      <4>1. new \in Works /\ new.at = "end" /\ new.life = work[t].life
        BY <2>2, EndWork
      <4>2. work' = [work EXCEPT ![t] = new]
        BY <3>1 DEF Outcome, Turn
      <4> HIDE DEF new
      <4> QED
        BY <4>1, <4>2
    <3>2. CASE DetermineExport(t)
      <4>1. Outcome(t, "COMPLETE", work[t].life) \/ Outcome(t, "ERROR", work[t].life)
        BY <3>2 DEF DetermineExport
      <4> QED
        BY <3>1, <4>1
    <3>3. CASE LoseExport(t)
      <4>1. [at |-> "lost"] \in Works /\ [at |-> "lost"].at = "lost"
        BY PlainWork
      <4>2. work' = [work EXCEPT ![t] = [at |-> "lost"]]
        BY <3>3 DEF LoseExport, Turn
      <4> QED
        BY <4>1, <4>2
    <3> QED
      BY <1>7, <3>2, <3>3
  <2>4. UNCHANGED <<target, task>> /\ task_upsets' \in 0..MaxTaskUpsets
    BY <1>1, <1>7 DEF DetermineExport, LoseExport, TaskUpset
  <2>5. task' = [task EXCEPT ![t] = task[t]] /\ task[t] \in TaskRows /\ task[t].life <= target'.life
    BY <1>2, <1>2a, <2>4
  <2>6. target' \in Targets /\ target.life <= target'.life
    BY <1>1, <2>4
  <2>7. to.at \in {"cast", "end"} => to.life <= target'.life
    BY <2>2, <2>3, <2>4
  <2> QED
    BY <2>1, <2>3, <2>4, <2>5, <2>6, <2>7, OneTaskChanges
<1>8. ASSUME NEW t \in TaskIds, StoreOutcome(t) PROVE TasksInv'
  <2> DEFINE to == [at |-> "done"]
             new == [status |-> work[t].status, life |-> work[t].life]
  <2>1. to \in Works /\ to.at = "done"
    BY PlainWork
  <2>2. /\ work[t].at = "end" /\ work[t].status \in {"COMPLETE", "ERROR"}
        /\ work[t].life \in Nat /\ work[t].life <= target.life
    BY <1>2, <1>8 DEF StoreOutcome
  <2>3. new \in TaskRows /\ new.status = work[t].status /\ new.life = work[t].life
    BY <2>2 DEF TaskRows
  <2>4. work' = [work EXCEPT ![t] = to] /\ UNCHANGED <<target, task_upsets>>
    BY <1>8 DEF StoreOutcome, Turn
  <2>5. task' = [task EXCEPT ![t] = new] \/ task' = [task EXCEPT ![t] = task[t]]
    BY <1>8, <1>2a DEF StoreOutcome
  <2> HIDE DEF to, new
  <2>6. PICK outcome \in {new, task[t]} : task' = [task EXCEPT ![t] = outcome]
    BY <2>5
  <2>7. work'[t] = to /\ task'[t] = outcome
    BY <1>1, <2>4, <2>6 DEF TasksTyped
  <2>8. outcome \in TaskRows /\ outcome.life <= target.life
    BY <1>2, <2>2, <2>3, <2>6
  <2>9. t \in ImportIds => (outcome.status # "COMPLETE" => outcome.life = 0)
    BY <1>2b, <2>2, <2>3, <2>6
  <2>10. \A n \in Nat : Claims(t, n)' => Claims(t, n)
    BY <2>1, <2>2, <2>3, <2>6, <2>7 DEF Claims, Shown, ToShow
  <2>11. /\ target' \in Targets /\ target.life <= target'.life /\ task_upsets' \in 0..MaxTaskUpsets
         /\ outcome.life <= target'.life
    BY <1>1, <2>4, <2>8
  <2> QED
    BY <2>1, <2>4, <2>6, <2>8, <2>9, <2>10, <2>11, OneTaskChanges
<1>9. ASSUME NEW t \in TaskIds, DeleteTask(t) PROVE TasksInv'
  <2>1. task' = [task EXCEPT ![t] = NoTask] /\ work' = [work EXCEPT ![t] = work[t]]
        /\ UNCHANGED <<target, task_upsets>>
    BY <1>9, <1>2a DEF DeleteTask
  <2>2. work'[t] = work[t] /\ task'[t] = NoTask
    BY <1>1, <2>1 DEF TasksTyped
  <2>3. \A n \in Nat : Claims(t, n)' => Claims(t, n)
    BY <2>2, NoTaskIs DEF Claims, Shown, ToShow
  <2>4. /\ target' \in Targets /\ target.life <= target'.life /\ task_upsets' \in 0..MaxTaskUpsets
        /\ NoTask.life <= target'.life
    BY <1>1, <2>1, NoTaskIs
  <2>5. /\ work[t] \in Works /\ (work[t].at = "cast" => t \in ExportIds)
        /\ work[t].at \in {"cast", "end"} => work[t].life <= target'.life
    BY <1>2, <2>1
  <2>6. t \in ImportIds => (work[t].at = "end" /\ work[t].status # "COMPLETE" => work[t].life = 0)
    BY <1>2b
  <2> QED
    BY <2>1, <2>3, <2>4, <2>5, <2>6, NoTaskIs, OneTaskChanges
<1>10. ASSUME CrashImports PROVE TasksInv'
  <2>1. UNCHANGED <<target, task>> /\ task_upsets' \in 0..MaxTaskUpsets
    BY <1>1, <1>10 DEF CrashImports, TaskUpset
  <2>2. [at |-> "lost"] \in Works /\ [at |-> "lost"].at = "lost"
    BY PlainWork
  <2>3. /\ work' \in [TaskIds -> Works]
        /\ \A t \in TaskIds : work'[t] = work[t] \/ work'[t].at = "lost"
    BY <1>1, <1>10, <2>2 DEF CrashImports, TasksTyped
  <2>4. TasksTyped'
    BY <1>1, <1>2, <2>1, <2>3 DEF TasksTyped
  <2>5. \A t \in ImportIds, n \in Nat : Claims(t, n)' => Claims(t, n)
    BY <2>1, <2>3 DEF Claims, Shown, ToShow, TaskIds
  <2>6. \A t \in ImportIds : work'[t].at = "end" => work'[t] = work[t]
    BY <2>3 DEF TaskIds
  <2> QED
    BY <2>1, <2>4, <2>5, <2>6 DEF TasksInv, OriginsInv
<1>11. ASSUME ChangeTarget PROVE TasksInv'
  <2>1. target' \in Targets /\ target.life <= target'.life
    <3>1. ASSUME NEW n \in 1..MaxRRSets, target' = [target EXCEPT !.rrsets = n]
          PROVE  target' \in Targets /\ target'.life = target.life
      BY <1>1, <3>1 DEF Targets
    <3>2. ASSUME target' = [target EXCEPT !.there = FALSE]
          PROVE  target' \in Targets /\ target'.life = target.life
      BY <1>1, <3>2 DEF Targets
    <3>3. ASSUME target' = [there |-> TRUE, rrsets |-> 1, life |-> 1], ~(target.life > 0)
          PROVE  target' \in Targets /\ target.life <= target'.life
      <4>1. 1 \in 1..MaxRRSets /\ 1 \in Nat
        BY ZoneTasksAssumption
      <4> QED
        BY <1>1, <3>3, <4>1 DEF Targets
    <3> QED
      BY <1>1, <1>11, <3>1, <3>2, <3>3 DEF ChangeTarget
  <2>2. UNCHANGED <<task, work, task_upsets>>
    BY <1>11 DEF ChangeTarget
  <2>3. target'.life \in Nat
    BY <2>1 DEF Targets
  <2>4. TasksTyped'
    BY <1>1, <1>2, <2>1, <2>2, <2>3 DEF TasksTyped
  <2> QED
    BY <2>2, <2>4 DEF TasksInv, OriginsInv, Claims, Shown, ToShow
<1>12. CASE UNCHANGED taskVars
  BY <1>12 DEF taskVars, TasksInv, TasksTyped, OriginsInv, Claims, Shown, ToShow
<1>13. ImportIds \subseteq TaskIds /\ ExportIds \subseteq TaskIds
  BY DEF TaskIds
<1> QED
  BY <1>3, <1>5, <1>6, <1>7, <1>8, <1>9, <1>10, <1>11, <1>12, <1>13
  DEF ZoneTasksNext, DoWork

-----------------------------------------------------------------------------
(* MdnsTransfers.                                                          *)

Soas == [serial : Nat, settings : Nat]
Sendings == [step : 0..3, soa : Soas, records : Nat]
Copies == [serial : Nat, settings : Nat, records : Nat]

\* A transfer whose first query has run has a SOA record.
TransfersTyped ==
    /\ second \in 1..MaxSeconds
    /\ due \in BOOLEAN /\ outdated \in BOOLEAN
    /\ settings \in 0..MaxZoneChanges /\ records \in 0..MaxRecordChanges
    /\ soa \in Soas /\ soa.serial \in 1..second /\ soa.settings <= settings
    /\ producer.read =>
          producer = [read |-> TRUE, settings |-> producer.settings]
          /\ producer.settings \in 0..settings
    /\ transfer \in [Nameservers -> Sendings]
    /\ received \in [Nameservers -> Copies]
    /\ \A n \in Nameservers :
          /\ received[n].serial \in 1..soa.serial /\ received[n].records <= records
          /\ transfer[n].records <= records
          /\ transfer[n].soa.serial <= soa.serial
          /\ transfer[n].step > 1 => transfer[n].soa.serial > 0
    /\ missed \subseteq Nameservers /\ transfer_faults \in 0..MaxTransferFaults

\* What a SOA record has of the settings, when it is the one of the zone.
SettingsAre(n) == ~due /\ ~outdated => n = settings

\* A transfer that has the SOA record of the zone has, and will have, all of it.
IsWhole(it) ==
    /\ it.step > 1 /\ it.soa.serial = soa.serial => SettingsAre(it.soa.settings)
    /\ it.step = 3 /\ it.soa.serial = soa.serial /\ ~due => it.records = records

\* So has the nameserver that has its serial.
HasAll(it) ==
    ~due /\ it.serial = soa.serial =>
        it.records = records /\ (~outdated => it.settings = settings)

TransfersInv ==
    /\ TransfersTyped
    /\ SettingsAre(soa.settings)
    /\ \A n \in Nameservers : n \notin missed => IsWhole(transfer[n]) /\ HasAll(received[n])

LEMMA TransfersInvSuffices == TransfersInv => TransfersTypeOK /\ SerialsAreWhole
<1> SUFFICES ASSUME TransfersInv PROVE TransfersTypeOK /\ SerialsAreWhole
  OBVIOUS
<1>1. Len(AxfrQueries) + 1 = 3
  BY DEF AxfrQueries
<1>2. soa.settings \in 0..settings
  BY DEF TransfersInv, TransfersTyped, Soas
<1>3. \A n \in Nameservers : received[n].records \in 0..records /\ transfer[n].step \in 0..3
  BY DEF TransfersInv, TransfersTyped, Copies, Sendings
<1>4. TransfersTypeOK
  BY <1>1, <1>2, <1>3 DEF TransfersInv, TransfersTyped, TransfersTypeOK
<1> QED
  BY <1>4 DEF TransfersInv, HasAll, SerialsAreWhole

LEMMA NoTransferIs ==
    /\ NoTransfer \in Sendings /\ NoTransfer.step = 0 /\ NoTransfer.records = 0
    /\ NoTransfer.soa.serial = 0
  BY DEF NoTransfer, NoSoa, Sendings, Soas

\* What a query adds to what is being sent.
LEMMA SoaAdded ==
    ASSUME NEW it \in Sendings, NEW by \in Soas
    PROVE  [it EXCEPT !.step = 2, !.soa = by] = [step |-> 2, soa |-> by, records |-> it.records]
<1> DEFINE next == [it EXCEPT !.step = 2]
<1>1. next \in Sendings /\ next.step = 2 /\ next.records = it.records
  BY DEF Sendings
<1> HIDE DEF next
<1>2. [next EXCEPT !.soa = by] = [step |-> 2, soa |-> by, records |-> it.records]
  BY <1>1 DEF Sendings
<1> QED
  BY <1>2 DEF next

LEMMA RestAdded ==
    ASSUME NEW it \in Sendings, NEW n \in Nat
    PROVE  [it EXCEPT !.step = 3, !.records = n] = [step |-> 3, soa |-> it.soa, records |-> n]
<1> DEFINE next == [it EXCEPT !.step = 3]
<1>1. next \in Sendings /\ next.step = 3 /\ next.soa = it.soa
  BY DEF Sendings
<1> HIDE DEF next
<1>2. [next EXCEPT !.records = n] = [step |-> 3, soa |-> it.soa, records |-> n]
  BY <1>1 DEF Sendings
<1> QED
  BY <1>2 DEF next

LEMMA SendingIs ==
    ASSUME NEW step \in 0..3, NEW by \in Soas, NEW n \in Nat
    PROVE  [step |-> step, soa |-> by, records |-> n] \in Sendings
  BY DEF Sendings

LEMMA FirstQuery ==
    ASSUME NEW n \in Nameservers, transfer \in [Nameservers -> Sendings],
           RunAxfrQuery(n), transfer[n].step = 1
    PROVE  transfer' = [transfer EXCEPT ![n] = [transfer[n] EXCEPT !.step = 2, !.soa = soa]]
  BY DEF RunAxfrQuery, AxfrQueries

LEMMA SecondQuery ==
    ASSUME NEW n \in Nameservers, transfer \in [Nameservers -> Sendings],
           RunAxfrQuery(n), transfer[n].step = 2
    PROVE  transfer' = [transfer EXCEPT ![n] = [transfer[n] EXCEPT !.step = 3, !.records = records]]
  BY DEF RunAxfrQuery, AxfrQueries

LEMMA TransfersStart == TransfersInit => TransfersInv
<1> SUFFICES ASSUME TransfersInit PROVE TransfersInv
  OBVIOUS
<1>1. soa \in Soas /\ soa.serial = 1 /\ soa.settings = 0
  BY DEF TransfersInit, Soas
<1>2. \A n \in Nameservers : transfer[n] = NoTransfer
  BY DEF TransfersInit
<1>3. transfer \in [Nameservers -> Sendings]
  BY NoTransferIs DEF TransfersInit
<1>4. received \in [Nameservers -> Copies]
  BY DEF TransfersInit, Copies
<1>5. \A n \in Nameservers :
          received[n].serial = 1 /\ received[n].records = 0 /\ received[n].settings = 0
  BY DEF TransfersInit
<1>6. ~producer.read /\ settings = 0 /\ records = 0 /\ second = 1
  BY DEF TransfersInit, NotRead
<1>7. due \in BOOLEAN /\ outdated \in BOOLEAN
  BY DEF TransfersInit
<1>8. /\ second \in 1..MaxSeconds /\ settings \in 0..MaxZoneChanges
      /\ records \in 0..MaxRecordChanges /\ transfer_faults \in 0..MaxTransferFaults
      /\ missed \subseteq Nameservers
  BY TransfersAssumption DEF TransfersInit
<1>9. TransfersTyped
  BY <1>1, <1>2, <1>3, <1>4, <1>5, <1>6, <1>7, <1>8, NoTransferIs DEF TransfersTyped
<1>10. SettingsAre(soa.settings)
  BY <1>1, <1>6 DEF SettingsAre
<1>11. \A n \in Nameservers : IsWhole(transfer[n]) /\ HasAll(received[n])
  BY <1>2, <1>5, <1>6, NoTransferIs DEF IsWhole, HasAll
<1> QED
  BY <1>9, <1>10, <1>11 DEF TransfersInv

\* A step of one nameserver, which mDNS and the producer know nothing of.
LEMMA OneTransferChanges ==
    ASSUME TransfersInv, NEW n \in Nameservers,
           UNCHANGED <<second, due, settings, records, soa, producer, missed, outdated>>,
           transfer_faults' \in 0..MaxTransferFaults,
           NEW sending \in Sendings, transfer' = [transfer EXCEPT ![n] = sending],
           NEW has \in Copies, received' = [received EXCEPT ![n] = has],
           has.serial \in 1..soa.serial, has.records <= records,
           sending.records <= records, sending.soa.serial <= soa.serial,
           sending.step > 1 => sending.soa.serial > 0,
           n \notin missed => IsWhole(sending) /\ HasAll(has)
    PROVE  TransfersInv'
<1>1. TransfersTyped
  BY DEF TransfersInv
<1>2. /\ transfer' \in [Nameservers -> Sendings] /\ received' \in [Nameservers -> Copies]
      /\ transfer'[n] = sending /\ received'[n] = has
      /\ \A m \in Nameservers \ {n} : transfer'[m] = transfer[m] /\ received'[m] = received[m]
  BY <1>1 DEF TransfersTyped
<1>3. \A m \in Nameservers :
          /\ received'[m].serial \in 1..soa.serial /\ received'[m].records <= records
          /\ transfer'[m].records <= records
          /\ transfer'[m].soa.serial <= soa.serial
          /\ transfer'[m].step > 1 => transfer'[m].soa.serial > 0
  BY <1>1, <1>2 DEF TransfersTyped
<1>4. TransfersTyped'
  BY <1>1, <1>2, <1>3 DEF TransfersTyped
<1>5. SettingsAre(soa.settings)'
  BY DEF TransfersInv, SettingsAre
<1>6. \A m \in Nameservers : m \notin missed => IsWhole(transfer'[m]) /\ HasAll(received'[m])
  BY <1>2 DEF TransfersInv
<1>7. \A m \in Nameservers : m \notin missed' => IsWhole(transfer[m])' /\ HasAll(received[m])'
  BY <1>6 DEF IsWhole, HasAll, SettingsAre
<1> QED
  BY <1>4, <1>5, <1>7 DEF TransfersInv

LEMMA TransfersMove == TransfersInv /\ [TransfersNext]_transferVars => TransfersInv'
<1> SUFFICES ASSUME TransfersInv, [TransfersNext]_transferVars PROVE TransfersInv'
  OBVIOUS
<1>1. /\ TransfersTyped /\ soa \in Soas /\ soa.serial \in Nat /\ soa.settings \in Nat
      /\ second \in Nat /\ settings \in Nat /\ records \in Nat /\ second >= soa.serial
      /\ transfer_faults \in 0..MaxTransferFaults
  BY DEF TransfersInv, TransfersTyped, Soas
<1>2. /\ MaxSeconds \in Nat /\ MaxRecordChanges \in Nat /\ MaxZoneChanges \in Nat
      /\ MaxTransferFaults \in Nat
  BY TransfersAssumption
<1>3. \A n \in Nameservers :
          /\ transfer[n] \in Sendings /\ transfer[n].step \in 0..3 /\ transfer[n].soa \in Soas
          /\ transfer[n].soa.serial \in Nat /\ transfer[n].soa.serial <= soa.serial
          /\ transfer[n].soa.settings \in Nat
          /\ transfer[n].records \in Nat /\ transfer[n].records <= records
          /\ transfer[n].step > 1 => transfer[n].soa.serial > 0
          /\ received[n] \in Copies /\ received[n].serial \in 1..soa.serial
          /\ received[n].records \in Nat /\ received[n].records <= records
  BY <1>1 DEF TransfersTyped, Sendings, Soas, Copies
<1>4. \A n \in Nameservers :
          received' = received => received' = [received EXCEPT ![n] = received[n]]
  BY <1>1 DEF TransfersTyped
<1>5. ASSUME Tick PROVE TransfersInv'
  <2>1. UNCHANGED <<due, settings, records, soa, producer, transfer, received, missed, outdated,
                    transfer_faults>>
        /\ second' \in 1..MaxSeconds /\ second' >= soa.serial
    BY <1>1, <1>2, <1>5 DEF Tick, TransfersTyped
  <2>2. TransfersTyped'
    BY <1>1, <1>3, <2>1 DEF TransfersTyped
  <2> QED
    BY <2>1, <2>2 DEF TransfersInv, SettingsAre, IsWhole, HasAll
<1>6. ASSUME ChangeRecords PROVE TransfersInv'
  <2>1. /\ UNCHANGED <<second, settings, soa, producer, transfer, received, missed, outdated,
                       transfer_faults>>
        /\ due' = TRUE
    BY <1>6 DEF ChangeRecords
  <2>2. records' \in 0..MaxRecordChanges /\ records' \in Nat /\ records <= records'
    BY <1>1, <1>2, <1>6 DEF ChangeRecords, TransfersTyped
  <2>3. \A n \in Nameservers : received[n].records <= records' /\ transfer[n].records <= records'
    BY <1>1, <1>3, <2>2
  <2>4. TransfersTyped'
    BY <1>1, <2>1, <2>2, <2>3 DEF TransfersTyped
  <2> QED
    BY <2>1, <2>4 DEF TransfersInv, SettingsAre, IsWhole, HasAll
<1>7. ASSUME ChangeZone PROVE TransfersInv'
  <2>1. /\ UNCHANGED <<second, records, soa, producer, transfer, received, missed, outdated,
                       transfer_faults>>
        /\ due' = TRUE
    BY <1>7 DEF ChangeZone
  <2>2. settings' \in 0..MaxZoneChanges /\ settings' \in Nat /\ settings <= settings'
    BY <1>1, <1>2, <1>7 DEF ChangeZone, TransfersTyped
  <2>3. soa.settings <= settings'
    BY <1>1, <2>2 DEF TransfersTyped
  <2>4. producer.read => producer.settings \in 0..settings'
    BY <1>1, <2>2 DEF TransfersTyped
  <2>5. TransfersTyped'
    BY <1>1, <2>1, <2>2, <2>3, <2>4 DEF TransfersTyped
  <2> QED
    BY <2>1, <2>5 DEF TransfersInv, SettingsAre, IsWhole, HasAll
<1>8. ASSUME ReadZone PROVE TransfersInv'
  <2>1. UNCHANGED <<second, due, settings, records, soa, transfer, received, missed, outdated,
                    transfer_faults>>
    BY <1>8 DEF ReadZone
  <2>2. producer' = [read |-> TRUE, settings |-> settings]
    BY <1>8 DEF ReadZone
  <2>3. producer'.settings = settings /\ settings \in 0..settings
    BY <1>1, <2>2
  <2>4. TransfersTyped'
    BY <1>1, <2>1, <2>2, <2>3 DEF TransfersTyped
  <2> QED
    BY <2>1, <2>4 DEF TransfersInv, SettingsAre, IsWhole, HasAll
<1>9. ASSUME IncrementZoneSerial PROVE TransfersInv'
  <2>1. /\ producer.settings \in 0..settings
        /\ UNCHANGED <<second, settings, records, transfer, received, transfer_faults>>
        /\ ~producer'.read
    BY <1>1, <1>9 DEF IncrementZoneSerial, TransfersTyped, NotRead
  <2>2. soa' \in Soas /\ soa'.serial = second /\ soa'.settings = producer.settings
    BY <1>1, <1>9, <2>1 DEF IncrementZoneSerial, Soas
  <2>3. due' = FALSE /\ outdated' = (producer.settings # settings)
    BY <1>9 DEF IncrementZoneSerial
  <2>4. due' \in BOOLEAN /\ outdated' \in BOOLEAN /\ (~outdated' => producer.settings = settings)
    BY <2>3
  <2>5. missed' \subseteq Nameservers
    BY <1>1, <1>9 DEF IncrementZoneSerial, TransfersTyped
  <2>6. \A n \in Nameservers :
            received[n].serial \in 1..second /\ transfer[n].soa.serial <= second
    BY <1>1, <1>3
  <2>7. second \in 1..second /\ producer.settings <= settings
    BY <1>1, <2>1 DEF TransfersTyped
  <2>8. TransfersTyped'
    BY <1>1, <2>1, <2>2, <2>4, <2>5, <2>6, <2>7 DEF TransfersTyped
  <2>9. SettingsAre(soa.settings)'
    BY <2>1, <2>2, <2>4 DEF SettingsAre
  <2>10. ASSUME NEW n \in Nameservers, n \notin missed'
         PROVE  transfer[n].soa.serial # second /\ received[n].serial # second
    <3>1. CASE second = soa.serial
      BY <1>9, <2>10, <3>1 DEF IncrementZoneSerial, Has
    <3>2. CASE second # soa.serial
      BY <1>1, <1>3, <3>2
    <3> QED
      BY <3>1, <3>2
  <2>11. \A n \in Nameservers : n \notin missed' => IsWhole(transfer[n])' /\ HasAll(received[n])'
    BY <2>1, <2>2, <2>10 DEF IsWhole, HasAll
  <2> QED
    BY <2>8, <2>9, <2>11 DEF TransfersInv
<1>10. ASSUME ProducerDies PROVE TransfersInv'
  <2>1. UNCHANGED <<second, due, settings, records, soa, transfer, received, missed, outdated>>
        /\ ~producer'.read
    BY <1>10 DEF ProducerDies, NotRead
  <2>2. transfer_faults' \in 0..MaxTransferFaults
    BY <1>1, <1>2, <1>10 DEF ProducerDies, TransferFault
  <2>3. TransfersTyped'
    BY <1>1, <2>1, <2>2 DEF TransfersTyped
  <2> QED
    BY <2>1, <2>3 DEF TransfersInv, SettingsAre, IsWhole, HasAll
<1>11. ASSUME NEW n \in Nameservers, AskForTransfer(n) PROVE TransfersInv'
  <2> DEFINE new == [transfer[n] EXCEPT !.step = 1]
  <2>1. /\ new \in Sendings /\ new.step = 1 /\ new.soa = transfer[n].soa
        /\ new.records = transfer[n].records
    BY <1>3 DEF Sendings
  <2>2. transfer' = [transfer EXCEPT ![n] = new]
    BY <1>11 DEF AskForTransfer
  <2> HIDE DEF new
  <2>3. UNCHANGED <<second, due, settings, records, soa, producer, missed, outdated>>
    BY <1>11 DEF AskForTransfer
  <2>4. /\ transfer_faults' \in 0..MaxTransferFaults
        /\ received' = [received EXCEPT ![n] = received[n]]
    BY <1>1, <1>4, <1>11 DEF AskForTransfer
  <2>5. new.records <= records /\ new.soa.serial <= soa.serial /\ ~(new.step > 1)
    BY <1>3, <2>1
  <2>6. n \notin missed => IsWhole(new) /\ HasAll(received[n])
    BY <2>1 DEF TransfersInv, IsWhole
  <2> QED
    BY <1>3, <2>1, <2>2, <2>3, <2>4, <2>5, <2>6, OneTransferChanges
<1>12. ASSUME NEW n \in Nameservers, RunAxfrQuery(n) PROVE TransfersInv'
  <2>1. /\ UNCHANGED <<second, due, settings, records, soa, producer, missed, outdated>>
        /\ UNCHANGED <<received, transfer_faults>>
    BY <1>12 DEF RunAxfrQuery
  <2>2. /\ transfer_faults' \in 0..MaxTransferFaults
        /\ received' = [received EXCEPT ![n] = received[n]]
    BY <1>1, <1>4, <2>1
  <2>3. \/ transfer[n].step = 1
           /\ transfer' = [transfer EXCEPT ![n] = [transfer[n] EXCEPT !.step = 2, !.soa = soa]]
        \/ transfer[n].step = 2
           /\ transfer' = [transfer EXCEPT ![n] =
                              [transfer[n] EXCEPT !.step = 3, !.records = records]]
    <3>1. DOMAIN AxfrQueries = {1, 2}
      BY DEF AxfrQueries
    <3>2. transfer[n].step \in {1, 2}
      BY <1>12, <3>1 DEF RunAxfrQuery
    <3>3. ASSUME transfer[n].step = 1
          PROVE  transfer' = [transfer EXCEPT ![n] = [transfer[n] EXCEPT !.step = 2, !.soa = soa]]
      BY <1>1, <1>12, <3>3, FirstQuery DEF TransfersTyped
    <3>4. ASSUME transfer[n].step = 2
          PROVE  transfer' = [transfer EXCEPT ![n] =
                                 [transfer[n] EXCEPT !.step = 3, !.records = records]]
      BY <1>1, <1>12, <3>4, SecondQuery DEF TransfersTyped
    <3> QED
      BY <3>2, <3>3, <3>4
  <2>4. CASE transfer[n].step = 1
             /\ transfer' = [transfer EXCEPT ![n] = [transfer[n] EXCEPT !.step = 2, !.soa = soa]]
    <3> DEFINE new == [step |-> 2, soa |-> soa, records |-> transfer[n].records]
    <3>1. new \in Sendings /\ new.step = 2 /\ new.soa = soa /\ new.records = transfer[n].records
      BY <1>1, <1>3, SendingIs
    <3>2. transfer' = [transfer EXCEPT ![n] = new]
      BY <1>1, <1>3, <2>4, SoaAdded
    <3> HIDE DEF new
    <3>3. /\ new.records <= records /\ new.soa.serial <= soa.serial
          /\ new.step > 1 => new.soa.serial > 0
      BY <1>1, <1>3, <3>1 DEF TransfersTyped
    <3>4. n \notin missed => IsWhole(new) /\ HasAll(received[n])
      BY <3>1 DEF TransfersInv, IsWhole
    <3> QED
      BY <1>3, <2>1, <2>2, <3>1, <3>2, <3>3, <3>4, OneTransferChanges
  <2>5. CASE transfer[n].step = 2
             /\ transfer' = [transfer EXCEPT ![n] =
                                [transfer[n] EXCEPT !.step = 3, !.records = records]]
    <3> DEFINE new == [step |-> 3, soa |-> transfer[n].soa, records |-> records]
    <3>1. new \in Sendings /\ new.step = 3 /\ new.soa = transfer[n].soa /\ new.records = records
      BY <1>1, <1>3, SendingIs
    <3>2. transfer' = [transfer EXCEPT ![n] = new]
      BY <1>1, <1>3, <2>5, RestAdded
    <3> HIDE DEF new
    <3>3. /\ new.records <= records /\ new.soa.serial <= soa.serial
          /\ new.step > 1 => new.soa.serial > 0
      BY <1>1, <1>3, <2>5, <3>1
    <3>4. n \notin missed => IsWhole(new) /\ HasAll(received[n])
      BY <2>5, <3>1 DEF TransfersInv, IsWhole
    <3> QED
      BY <1>3, <2>1, <2>2, <3>1, <3>2, <3>3, <3>4, OneTransferChanges
  <2> QED
    BY <2>3, <2>4, <2>5
<1>13. ASSUME NEW n \in Nameservers, EndTransfer(n) PROVE TransfersInv'
  <2> DEFINE has == [serial |-> transfer[n].soa.serial, settings |-> transfer[n].soa.settings,
                     records |-> transfer[n].records]
  <2>1. transfer[n].step = 3
    <3>1. Len(AxfrQueries) + 1 = 3
      BY DEF AxfrQueries
    <3> QED
      BY <1>13, <3>1 DEF EndTransfer
  <2>2. /\ has \in Copies /\ has.serial = transfer[n].soa.serial
        /\ has.settings = transfer[n].soa.settings /\ has.records = transfer[n].records
    BY <1>3 DEF Copies
  <2>3. received' = [received EXCEPT ![n] = has] /\ transfer' = [transfer EXCEPT ![n] = NoTransfer]
    BY <1>13 DEF EndTransfer
  <2> HIDE DEF has
  <2>4. UNCHANGED <<second, due, settings, records, soa, producer, missed, outdated>>
        /\ transfer_faults' \in 0..MaxTransferFaults
    BY <1>1, <1>13 DEF EndTransfer
  <2>5. has.serial \in 1..soa.serial /\ has.records <= records
    BY <1>1, <1>3, <2>1, <2>2
  <2>6. /\ NoTransfer.records <= records /\ NoTransfer.soa.serial <= soa.serial
        /\ ~(NoTransfer.step > 1)
    BY <1>1, NoTransferIs
  <2>7. n \notin missed => IsWhole(NoTransfer) /\ HasAll(has)
    BY <2>1, <2>2, NoTransferIs DEF TransfersInv, IsWhole, HasAll, SettingsAre
  <2> QED
    BY <2>2, <2>3, <2>4, <2>5, <2>6, <2>7, NoTransferIs, OneTransferChanges
<1>14. ASSUME NEW n \in Nameservers, BreakOff(n) PROVE TransfersInv'
  <2>1. transfer' = [transfer EXCEPT ![n] = NoTransfer]
        /\ UNCHANGED <<second, due, settings, records, soa, producer, missed, outdated>>
    BY <1>14 DEF BreakOff
  <2>2. transfer_faults' \in 0..MaxTransferFaults
    BY <1>1, <1>2, <1>14 DEF BreakOff, TransferFault
  <2>3. received' = [received EXCEPT ![n] = received[n]]
    BY <1>4, <1>14 DEF BreakOff
  <2>4. /\ NoTransfer.records <= records /\ NoTransfer.soa.serial <= soa.serial
        /\ ~(NoTransfer.step > 1)
    BY <1>1, NoTransferIs
  <2>5. n \notin missed => IsWhole(NoTransfer) /\ HasAll(received[n])
    BY NoTransferIs DEF TransfersInv, IsWhole
  <2> QED
    BY <1>3, <2>1, <2>2, <2>3, <2>4, <2>5, NoTransferIs, OneTransferChanges
<1>15. CASE UNCHANGED transferVars
  BY <1>15 DEF transferVars, TransfersInv, TransfersTyped, SettingsAre, IsWhole, HasAll
<1> QED
  BY <1>5, <1>6, <1>7, <1>8, <1>9, <1>10, <1>11, <1>12, <1>13, <1>14, <1>15
  DEF TransfersNext, GoOnTransferring

-----------------------------------------------------------------------------
(* DnsServer.                                                              *)

ConnSteps == {"none", "backlog", "waiting", "length", "query", "app", "ended", "cut"}
Conns == [at : ConnSteps, read : Nat, got : Nat, handled : Nat]

InHand == {"length", "query", "app"}
BusyConns == {c \in Clients : conn[c].at \in InHand}
BusyQueries == {q \in Queries : query[q] = "app"}

DnsTyped ==
    /\ conn \in [Clients -> Conns]
    /\ sent \in [Clients -> Nat] /\ closed \in [Clients -> BOOLEAN]
    /\ DOMAIN query = Queries
    /\ \A c \in Clients : conn[c].read <= sent[c] /\ sent[c] <= MaxBytes[c]
    /\ Busy <= SpareThreads /\ faults \in 0..MaxFaults

BytesOf(n) == n * Frame

\* What of the stream has been read, at each step: the whole queries that were
\* handled, and what the step has of the next one.  The last may not be whole,
\* when the client has closed.
InStep(k, s, shut) ==
    /\ k.at \in {"none", "backlog", "waiting"} => k.read = 0 /\ k.handled = 0
    /\ k.at = "length" => \/ k.read = BytesOf(k.handled)
                          \/ shut /\ k.read = s /\ k.handled = s \div Frame
    /\ k.at \in {"query", "app"} =>
          k.got <= QueryBytes /\ k.read = BytesOf(k.handled) + LengthBytes + k.got
    /\ k.at = "query" => k.got < QueryBytes
    /\ k.at = "app" => k.got = QueryBytes \/ (shut /\ k.read = s)
    /\ k.at = "ended" => shut /\ k.handled = s \div Frame

DnsInv == DnsTyped /\ \A c \in Clients : InStep(conn[c], sent[c], closed[c])

LEMMA DnsInvSuffices == DnsInv => DnsTypeOK /\ QueriesAreHandled
<1> SUFFICES ASSUME DnsInv PROVE DnsTypeOK /\ QueriesAreHandled
  OBVIOUS
<1>1. \A c \in Clients :
          conn[c] \in Conns /\ sent[c] \in 0..MaxBytes[c] /\ conn[c].read \in 0..sent[c]
  BY DnsServerAssumption DEF DnsInv, DnsTyped, Conns
<1>2. DnsTypeOK
  BY <1>1 DEF DnsInv, DnsTyped, DnsTypeOK, Conns, ConnSteps
<1> QED
  BY <1>2 DEF DnsInv, InStep, QueriesAreHandled

\* A query and its length are Frame bytes.
LEMMA FrameIs ==
    /\ QueryBytes \in Nat \ {0} /\ LengthBytes = 2
    /\ Frame \in Nat \ {0} /\ Frame = LengthBytes + QueryBytes
  BY DnsServerAssumption DEF Frame, LengthBytes

LEMMA BytesAre ==
    ASSUME NEW h \in Nat
    PROVE  /\ BytesOf(h) \in Nat
           /\ BytesOf(h + 1) = BytesOf(h) + Frame
           /\ \A r \in 0..Frame - 1 : (BytesOf(h) + r) \div Frame = h
<1>1. Frame \in Nat \ {0}
  BY FrameIs
<1>2. h * Frame \in Nat /\ (h + 1) * Frame = h * Frame + Frame
  BY <1>1
<1>3. ASSUME NEW r \in 0..Frame - 1 PROVE (h * Frame + r) \div Frame = h
  BY <1>1
<1> QED
  BY <1>2, <1>3 DEF BytesOf

LEMMA BytesOfNone == BytesOf(0) = 0
<1>1. 0 * Frame = 0
  BY FrameIs
<1> QED
  BY <1>1 DEF BytesOf

LEMMA BusyIs == Busy \in Nat
<1>1. BusyConns \subseteq Clients /\ BusyQueries \subseteq Queries
  BY DEF BusyConns, BusyQueries
<1>2. IsFiniteSet(BusyConns) /\ IsFiniteSet(BusyQueries)
  BY <1>1, DnsServerAssumption, FS_Subset
<1>3. Cardinality(BusyConns) \in Nat /\ Cardinality(BusyQueries) \in Nat
  BY <1>2, FS_CardinalityType
<1> QED
  BY <1>3 DEF Busy, BusyConns, BusyQueries, InHand

LEMMA BusyIsNext == Busy' \in Nat
<1>1. BusyConns' \subseteq Clients /\ BusyQueries' \subseteq Queries
  BY DEF BusyConns, BusyQueries
<1>2. IsFiniteSet(BusyConns') /\ IsFiniteSet(BusyQueries')
  BY <1>1, DnsServerAssumption, FS_Subset
<1>3. Cardinality(BusyConns') \in Nat /\ Cardinality(BusyQueries') \in Nat
  BY <1>2, FS_CardinalityType
<1> QED
  BY <1>3 DEF Busy, BusyConns, BusyQueries, InHand

\* A thread that takes nothing new leaves no fewer threads free.
LEMMA BusyFalls ==
    ASSUME BusyConns' \subseteq BusyConns, BusyQueries' \subseteq BusyQueries
    PROVE  Busy' <= Busy
<1>1. BusyConns \subseteq Clients /\ BusyQueries \subseteq Queries
  BY DEF BusyConns, BusyQueries
<1>2. IsFiniteSet(BusyConns) /\ IsFiniteSet(BusyQueries)
  BY <1>1, DnsServerAssumption, FS_Subset
<1>3. /\ IsFiniteSet(BusyConns') /\ IsFiniteSet(BusyQueries')
      /\ Cardinality(BusyConns') <= Cardinality(BusyConns)
      /\ Cardinality(BusyQueries') <= Cardinality(BusyQueries)
  BY <1>2, FS_Subset
<1>4. /\ Cardinality(BusyConns) \in Nat /\ Cardinality(BusyQueries) \in Nat
      /\ Cardinality(BusyConns') \in Nat /\ Cardinality(BusyQueries') \in Nat
  BY <1>2, <1>3, FS_CardinalityType
<1>5. Busy = Cardinality(BusyConns) + Cardinality(BusyQueries)
  BY DEF Busy, BusyConns, BusyQueries, InHand
<1>6. Busy' = Cardinality(BusyConns') + Cardinality(BusyQueries')
  BY DEF Busy, BusyConns, BusyQueries, InHand
<1> QED
  BY <1>3, <1>4, <1>5, <1>6

\* And one that takes a connection or a query leaves one fewer.
LEMMA BusyRises ==
    ASSUME \/ BusyQueries' = BusyQueries /\ \E c \in Clients : BusyConns' = BusyConns \union {c}
           \/ BusyConns' = BusyConns /\ \E q \in Queries : BusyQueries' = BusyQueries \union {q}
    PROVE  Busy' <= Busy + 1
<1>1. BusyConns \subseteq Clients /\ BusyQueries \subseteq Queries
  BY DEF BusyConns, BusyQueries
<1>2. IsFiniteSet(BusyConns) /\ IsFiniteSet(BusyQueries)
  BY <1>1, DnsServerAssumption, FS_Subset
<1>3. Cardinality(BusyConns) \in Nat /\ Cardinality(BusyQueries) \in Nat
  BY <1>2, FS_CardinalityType
<1>4. \A x, S : IsFiniteSet(S) /\ Cardinality(S) \in Nat =>
          Cardinality(S \union {x}) \in {Cardinality(S), Cardinality(S) + 1}
  BY FS_AddElement
<1>5. /\ Cardinality(BusyConns') \in Nat /\ Cardinality(BusyQueries') \in Nat
      /\ Cardinality(BusyConns') + Cardinality(BusyQueries')
            <= Cardinality(BusyConns) + Cardinality(BusyQueries) + 1
  <2>1. ASSUME NEW c \in Clients, BusyConns' = BusyConns \union {c}
        PROVE  Cardinality(BusyConns') \in {Cardinality(BusyConns), Cardinality(BusyConns) + 1}
    BY <1>2, <1>3, <1>4, <2>1
  <2>2. ASSUME NEW q \in Queries, BusyQueries' = BusyQueries \union {q}
        PROVE  Cardinality(BusyQueries') \in
                   {Cardinality(BusyQueries), Cardinality(BusyQueries) + 1}
    BY <1>2, <1>3, <1>4, <2>2
  <2>3. CASE BusyQueries' = BusyQueries /\ \E c \in Clients : BusyConns' = BusyConns \union {c}
    <3>1. Cardinality(BusyQueries') = Cardinality(BusyQueries)
      BY <2>3
    <3> QED
      BY <1>3, <2>1, <2>3, <3>1
  <2>4. CASE BusyConns' = BusyConns /\ \E q \in Queries : BusyQueries' = BusyQueries \union {q}
    <3>1. Cardinality(BusyConns') = Cardinality(BusyConns)
      BY <2>4
    <3> QED
      BY <1>3, <2>2, <2>4, <3>1
  <2> QED
    BY <2>3, <2>4
<1>6. Busy = Cardinality(BusyConns) + Cardinality(BusyQueries)
  BY DEF Busy, BusyConns, BusyQueries, InHand
<1>7. Busy' = Cardinality(BusyConns') + Cardinality(BusyQueries')
  BY DEF Busy, BusyConns, BusyQueries, InHand
<1> QED
  BY <1>5, <1>6, <1>7

LEMMA DnsStarts == DnsInit => DnsInv
<1> SUFFICES ASSUME DnsInit PROVE DnsInv
  OBVIOUS
<1>1. /\ NoConn \in Conns /\ NoConn.at = "none" /\ NoConn.read = 0 /\ NoConn.got = 0
      /\ NoConn.handled = 0
  BY DEF NoConn, Conns, ConnSteps
<1>2. \A c \in Clients : conn[c] = NoConn /\ sent[c] = 0 /\ MaxBytes[c] \in Nat
  BY DnsServerAssumption DEF DnsInit
<1>3. /\ conn \in [Clients -> Conns] /\ sent \in [Clients -> Nat]
      /\ closed \in [Clients -> BOOLEAN] /\ DOMAIN query = Queries
  BY <1>1 DEF DnsInit
<1>4. Busy = 0
  <2>1. BusyConns = {} /\ BusyQueries = {}
    BY <1>1, <1>2 DEF BusyConns, BusyQueries, InHand, DnsInit
  <2> QED
    BY <2>1, FS_EmptySet DEF Busy, BusyConns, BusyQueries, InHand
<1>5. Busy <= SpareThreads /\ faults \in 0..MaxFaults
  BY <1>4, DnsServerAssumption DEF DnsInit
<1>6. DnsTyped
  BY <1>1, <1>2, <1>3, <1>5 DEF DnsTyped
<1>7. \A c \in Clients : InStep(conn[c], sent[c], closed[c])
  BY <1>1, <1>2 DEF InStep
<1> QED
  BY <1>6, <1>7 DEF DnsInv

\* A step of one connection that takes no thread, or has one.
LEMMA OneConnChanges ==
    ASSUME DnsInv, NEW c \in Clients, NEW to \in Conns, conn' = [conn EXCEPT ![c] = to],
           UNCHANGED <<sent, closed, query>>, faults' \in 0..MaxFaults,
           to.read <= sent[c], InStep(to, sent[c], closed[c]),
           to.at \in InHand => conn[c].at \in InHand \/ Busy < SpareThreads
    PROVE  DnsInv'
<1>1. DnsTyped /\ conn \in [Clients -> Conns] /\ SpareThreads \in Nat /\ Busy <= SpareThreads
  BY DnsServerAssumption DEF DnsInv, DnsTyped
<1>2. /\ conn' \in [Clients -> Conns] /\ conn'[c] = to
      /\ \A d \in Clients \ {c} : conn'[d] = conn[d]
  BY <1>1
<1>3. BusyQueries' = BusyQueries
  BY DEF BusyQueries
<1>4. Busy' <= SpareThreads
  <2>1. ASSUME BusyConns' \subseteq BusyConns PROVE Busy' <= SpareThreads
    <3>1. Busy' <= Busy
      BY <1>3, <2>1, BusyFalls
    <3>2. Busy' \in Nat
      BY BusyIsNext
    <3> QED
      BY <1>1, <3>1, <3>2, BusyIs
  <2>2. ASSUME BusyConns' = BusyConns \union {c}, Busy < SpareThreads PROVE Busy' <= SpareThreads
    <3>1. Busy' <= Busy + 1
      BY <1>3, <2>2, BusyRises
    <3>2. Busy' \in Nat
      BY BusyIsNext
    <3> QED
      BY <1>1, <2>2, <3>1, <3>2, BusyIs
  <2>3. CASE to.at \in InHand /\ conn[c].at \notin InHand
    <3>1. BusyConns' = BusyConns \union {c}
      BY <1>2, <2>3 DEF BusyConns
    <3> QED
      BY <2>2, <2>3, <3>1
  <2>4. CASE ~(to.at \in InHand /\ conn[c].at \notin InHand)
    <3>1. BusyConns' \subseteq BusyConns
      BY <1>2, <2>4 DEF BusyConns
    <3> QED
      BY <2>1, <3>1
  <2> QED
    BY <2>3, <2>4
<1>5. \A d \in Clients : conn'[d].read <= sent[d] /\ InStep(conn'[d], sent[d], closed[d])
  BY <1>1, <1>2 DEF DnsInv, DnsTyped
<1>6. DnsTyped'
  BY <1>1, <1>2, <1>4, <1>5 DEF DnsTyped
<1>7. \A d \in Clients : InStep(conn'[d], sent'[d], closed'[d])
  BY <1>5
<1> QED
  BY <1>6, <1>7 DEF DnsInv

\* A connection that goes on to its next step, with what has been read.
LEMMA PutIs ==
    ASSUME conn \in [Clients -> Conns], NEW c \in Clients, NEW step \in ConnSteps
    PROVE  \E to \in Conns :
              /\ to.at = step /\ to.read = conn[c].read /\ to.got = conn[c].got
              /\ to.handled = conn[c].handled
              /\ Put(c, step) => conn' = [conn EXCEPT ![c] = to]
<1> DEFINE new == [conn[c] EXCEPT !.at = step]
<1>1. /\ new \in Conns /\ new.at = step /\ new.read = conn[c].read /\ new.got = conn[c].got
      /\ new.handled = conn[c].handled
  BY DEF Conns
<1>2. Put(c, step) => conn' = [conn EXCEPT ![c] = new]
  BY DEF Put
<1> HIDE DEF new
<1> QED
  BY <1>1, <1>2

\* Or with more of it.
WithLength(k, n) == [k EXCEPT !.at = "query", !.read = n, !.got = 0]
WithMore(k, step, n, m) == [k EXCEPT !.read = n, !.got = m, !.at = step]
Answered(k, n) == [k EXCEPT !.at = "length", !.handled = n]

LEMMA LengthIsRead ==
    ASSUME NEW k \in Conns, NEW n \in Nat
    PROVE  LET to == WithLength(k, n)
           IN  /\ to \in Conns /\ to.at = "query" /\ to.read = n /\ to.got = 0
               /\ to.handled = k.handled
<1> DEFINE a == [k EXCEPT !.at = "query"]
           b == [a EXCEPT !.read = n]
<1>1. a \in Conns /\ a.at = "query" /\ a.handled = k.handled
  BY DEF Conns, ConnSteps
<1> HIDE DEF a
<1>2. b \in Conns /\ b.at = "query" /\ b.read = n /\ b.handled = k.handled
  BY <1>1 DEF Conns
<1> HIDE DEF b
<1>3. WithLength(k, n) = [b EXCEPT !.got = 0]
  BY DEF WithLength, a, b
<1> QED
  BY <1>2, <1>3 DEF Conns

LEMMA QueryIsRead ==
    ASSUME NEW k \in Conns, NEW step \in ConnSteps, NEW n \in Nat, NEW m \in Nat
    PROVE  LET to == WithMore(k, step, n, m)
           IN  /\ to \in Conns /\ to.at = step /\ to.read = n /\ to.got = m
               /\ to.handled = k.handled
<1> DEFINE a == [k EXCEPT !.read = n]
           b == [a EXCEPT !.got = m]
<1>1. a \in Conns /\ a.read = n /\ a.handled = k.handled
  BY DEF Conns
<1> HIDE DEF a
<1>2. b \in Conns /\ b.read = n /\ b.got = m /\ b.handled = k.handled
  BY <1>1 DEF Conns
<1> HIDE DEF b
<1>3. WithMore(k, step, n, m) = [b EXCEPT !.at = step]
  BY DEF WithMore, a, b
<1> QED
  BY <1>2, <1>3 DEF Conns

LEMMA QueryIsHandled ==
    ASSUME NEW k \in Conns, NEW n \in Nat
    PROVE  LET to == Answered(k, n)
           IN  to \in Conns /\ to.at = "length" /\ to.read = k.read /\ to.handled = n
<1> DEFINE a == [k EXCEPT !.at = "length"]
<1>1. a \in Conns /\ a.at = "length" /\ a.read = k.read
  BY DEF Conns, ConnSteps
<1> HIDE DEF a
<1>2. Answered(k, n) = [a EXCEPT !.handled = n]
  BY DEF Answered, a
<1> QED
  BY <1>1, <1>2 DEF Conns

\* One that is cut off.
LEMMA CutIs ==
    ASSUME NEW k, k.at = "cut", NEW n, NEW shut
    PROVE  InStep(k, n, shut)
  BY DEF InStep

\* A step that only puts a connection elsewhere.
LEMMA OneConnIsPut ==
    ASSUME DnsInv, NEW c \in Clients, NEW step \in ConnSteps, Put(c, step),
           UNCHANGED <<sent, closed, query>>, faults' \in 0..MaxFaults,
           step \in InHand => conn[c].at \in InHand \/ Busy < SpareThreads,
           \A k : /\ k.at = step /\ k.read = conn[c].read /\ k.got = conn[c].got
                  /\ k.handled = conn[c].handled
                  => InStep(k, sent[c], closed[c])
    PROVE  DnsInv'
<1>1. conn \in [Clients -> Conns] /\ conn[c].read <= sent[c]
  BY DEF DnsInv, DnsTyped
<1>2. PICK to \in Conns :
          /\ to.at = step /\ to.read = conn[c].read /\ to.got = conn[c].got
          /\ to.handled = conn[c].handled
          /\ conn' = [conn EXCEPT ![c] = to]
  BY <1>1, PutIs
<1>3. to.read <= sent[c] /\ InStep(to, sent[c], closed[c])
  BY <1>1, <1>2
<1>4. to.at \in InHand => conn[c].at \in InHand \/ Busy < SpareThreads
  BY <1>2
<1> QED
  BY <1>2, <1>3, <1>4, OneConnChanges

\* A step of the queries by UDP.
LEMMA QueriesChange ==
    ASSUME DnsInv, UNCHANGED <<conn, sent, closed, faults>>, DOMAIN query' = Queries,
           \/ BusyQueries' \subseteq BusyQueries
           \/ Busy < SpareThreads /\ \E q \in Queries : BusyQueries' = BusyQueries \union {q}
    PROVE  DnsInv'
<1>1. DnsTyped /\ SpareThreads \in Nat /\ Busy <= SpareThreads /\ Busy \in Nat /\ Busy' \in Nat
  BY DnsServerAssumption, BusyIs, BusyIsNext DEF DnsInv, DnsTyped
<1>2. BusyConns' = BusyConns
  BY DEF BusyConns
<1>3. Busy' <= SpareThreads
  <2>1. CASE BusyQueries' \subseteq BusyQueries
    BY <1>1, <1>2, <2>1, BusyFalls
  <2>2. CASE Busy < SpareThreads /\ \E q \in Queries : BusyQueries' = BusyQueries \union {q}
    BY <1>1, <1>2, <2>2, BusyRises
  <2> QED
    BY <2>1, <2>2
<1>4. DnsTyped'
  BY <1>1, <1>3 DEF DnsTyped
<1> QED
  BY <1>4 DEF DnsInv

\* Reading and handling, as far as the stream is concerned.
LEMMA ReadLengthMoves ==
    ASSUME DnsInv, NEW c \in Clients, ReadLength(c)
    PROVE  DnsInv'
<1>1. /\ conn \in [Clients -> Conns] /\ conn[c] \in Conns
      /\ conn[c].read \in Nat /\ conn[c].handled \in Nat /\ sent[c] \in Nat
      /\ conn[c].read <= sent[c] /\ conn[c].at = "length"
      /\ InStep(conn[c], sent[c], closed[c]) /\ faults \in 0..MaxFaults
  BY DEF DnsInv, DnsTyped, Conns, ReadLength
<1>2. UNCHANGED <<sent, closed, query>> /\ faults' \in 0..MaxFaults
  BY <1>1 DEF ReadLength, Calm
<1>3. /\ BytesOf(conn[c].handled) \in Nat
      /\ BytesOf(conn[c].handled) \div Frame = conn[c].handled
  <2>1. 0 \in 0..Frame - 1
    BY FrameIs
  <2>2. BytesOf(conn[c].handled) + 0 = BytesOf(conn[c].handled)
    BY <1>1, BytesAre
  <2> QED
    BY <1>1, <2>1, <2>2, BytesAre
<1>4. \/ conn[c].read = BytesOf(conn[c].handled)
      \/ closed[c] /\ conn[c].read = sent[c] /\ conn[c].handled = sent[c] \div Frame
  BY <1>1 DEF InStep
<1>5. CASE Available(c) = 0
  <2> DEFINE new == [conn[c] EXCEPT !.at = "ended"]
  <2>1. /\ new \in Conns /\ new.at = "ended" /\ new.read = conn[c].read
        /\ new.handled = conn[c].handled
    BY <1>1 DEF Conns, ConnSteps
  <2>2. conn' = [conn EXCEPT ![c] = new] /\ closed[c]
    BY <1>5 DEF ReadLength
  <2> HIDE DEF new
  <2>3. conn[c].handled = sent[c] \div Frame
    <3>1. conn[c].read = sent[c]
      BY <1>1, <1>5 DEF Available
    <3> QED
      BY <1>3, <1>4, <3>1
  <2>4. InStep(new, sent[c], closed[c])
    BY <2>1, <2>2, <2>3 DEF InStep
  <2> QED
    BY <1>1, <1>2, <2>1, <2>2, <2>4, OneConnChanges DEF InHand
<1>6. CASE Available(c) = 1
  <2> DEFINE new == [conn[c] EXCEPT !.at = "cut"]
  <2>1. new \in Conns /\ new.at = "cut" /\ new.read = conn[c].read
    BY <1>1 DEF Conns, ConnSteps
  <2>2. conn' = [conn EXCEPT ![c] = new]
    BY <1>6 DEF ReadLength
  <2> HIDE DEF new
  <2> QED
    BY <1>1, <1>2, <2>1, <2>2, CutIs, OneConnChanges DEF InHand
<1>7. CASE Available(c) # 0 /\ Available(c) # 1
  <2> DEFINE n == conn[c].read + LengthBytes
  <2>1. n \in Nat /\ n <= sent[c] /\ conn[c].read # sent[c]
    BY <1>1, <1>7, FrameIs DEF Available
  <2>2. PICK new : new = WithLength(conn[c], n) /\ conn' = [conn EXCEPT ![c] = new]
    BY <1>7 DEF ReadLength, WithLength
  <2> HIDE DEF n
  <2>3. /\ new \in Conns /\ new.at = "query" /\ new.read = n /\ new.got = 0
        /\ new.handled = conn[c].handled
    BY <1>1, <2>1, <2>2, LengthIsRead
  <2>4. n = BytesOf(conn[c].handled) + LengthBytes + 0
    BY <1>3, <1>4, <2>1, FrameIs DEF n
  <2>5. InStep(new, sent[c], closed[c])
    BY <2>3, <2>4, FrameIs DEF InStep
  <2> QED
    BY <1>1, <1>2, <2>1, <2>2, <2>3, <2>5, OneConnChanges DEF InHand
<1> QED
  BY <1>5, <1>6, <1>7

LEMMA ReadQueryMoves ==
    ASSUME DnsInv, NEW c \in Clients, ReadQuery(c)
    PROVE  DnsInv'
<1>1. /\ conn \in [Clients -> Conns] /\ conn[c] \in Conns
      /\ conn[c].read \in Nat /\ conn[c].handled \in Nat /\ conn[c].got \in Nat
      /\ sent[c] \in Nat /\ conn[c].read <= sent[c] /\ conn[c].at = "query"
      /\ InStep(conn[c], sent[c], closed[c]) /\ faults \in 0..MaxFaults
  BY DEF DnsInv, DnsTyped, Conns, ReadQuery
<1>2. UNCHANGED <<sent, closed, query>> /\ faults' \in 0..MaxFaults
  BY <1>1 DEF ReadQuery, Calm
<1>3. /\ conn[c].read = BytesOf(conn[c].handled) + LengthBytes + conn[c].got
      /\ conn[c].got < QueryBytes
  BY <1>1 DEF InStep
<1>4. BytesOf(conn[c].handled) \in Nat /\ LengthBytes \in Nat /\ QueryBytes \in Nat
  BY <1>1, BytesAre, FrameIs
<1>5. ASSUME NEW n \in 1..AtMost(c), n <= Available(c),
             conn' = [conn EXCEPT ![c] = [conn[c] EXCEPT
                        !.read = conn[c].read + n, !.got = conn[c].got + n,
                        !.at = IF conn[c].got + n >= QueryBytes THEN "app" ELSE "query"]]
      PROVE  DnsInv'
  <2> DEFINE read == conn[c].read + n
             got == conn[c].got + n
             step == IF got >= QueryBytes THEN "app" ELSE "query"
  <2>1. /\ read \in Nat /\ got \in Nat /\ read <= sent[c] /\ got <= QueryBytes
        /\ read = BytesOf(conn[c].handled) + LengthBytes + got
    BY <1>1, <1>3, <1>4, <1>5 DEF AtMost, Available
  <2>1a. (step = "query" /\ got < QueryBytes) \/ (step = "app" /\ got = QueryBytes)
    BY <1>4, <2>1
  <2>2. PICK new : /\ new = WithMore(conn[c], step, read, got)
                   /\ conn' = [conn EXCEPT ![c] = new]
    BY <1>5 DEF WithMore
  <2> HIDE DEF read, got, step
  <2>3. step \in {"query", "app"} /\ step \in ConnSteps
    BY <2>1a DEF ConnSteps
  <2>4. /\ new \in Conns /\ new.at = step /\ new.read = read /\ new.got = got
        /\ new.handled = conn[c].handled
    <3>1. conn[c] \in Conns /\ read \in Nat /\ got \in Nat /\ step \in ConnSteps
      BY <1>1, <2>1, <2>3
    <3> QED
      BY <2>2, <3>1, QueryIsRead
  <2>5. InStep(new, sent[c], closed[c])
    BY <2>1, <2>4, <2>1a DEF InStep
  <2> QED
    BY <1>1, <1>2, <2>1, <2>2, <2>4, <2>5, OneConnChanges DEF InHand
<1>6. CASE Available(c) = 0 /\ closed[c] /\ Put(c, "app")
  <2>1. conn[c].read = sent[c]
    BY <1>1, <1>6 DEF Available
  <2>2. ASSUME NEW k, k.at = "app", k.read = conn[c].read, k.got = conn[c].got,
               k.handled = conn[c].handled
        PROVE  InStep(k, sent[c], closed[c])
    BY <1>1, <1>3, <1>4, <1>6, <2>1, <2>2 DEF InStep
  <2>3. "app" \in ConnSteps /\ conn[c].at \in InHand
    BY <1>1 DEF ConnSteps, InHand
  <2> QED
    BY <1>2, <1>6, <2>2, <2>3, OneConnIsPut
<1> QED
  BY <1>5, <1>6 DEF ReadQuery

LEMMA HandleConnMoves ==
    ASSUME DnsInv, NEW c \in Clients, HandleConn(c)
    PROVE  DnsInv'
<1>1. /\ conn \in [Clients -> Conns] /\ conn[c] \in Conns
      /\ conn[c].read \in Nat /\ conn[c].handled \in Nat /\ conn[c].got \in Nat
      /\ sent[c] \in Nat /\ conn[c].read <= sent[c] /\ conn[c].at = "app"
      /\ InStep(conn[c], sent[c], closed[c]) /\ faults \in 0..MaxFaults
  BY DEF DnsInv, DnsTyped, Conns, HandleConn
<1>2. UNCHANGED <<sent, closed, query>> /\ faults' \in 0..MaxFaults
  BY <1>1, DnsServerAssumption DEF HandleConn, Fault
<1>3. /\ conn[c].got <= QueryBytes
      /\ conn[c].read = BytesOf(conn[c].handled) + LengthBytes + conn[c].got
      /\ conn[c].got = QueryBytes \/ (closed[c] /\ conn[c].read = sent[c])
  BY <1>1 DEF InStep
<1>4. /\ BytesOf(conn[c].handled) \in Nat
      /\ BytesOf(conn[c].handled + 1) = BytesOf(conn[c].handled) + Frame
      /\ \A r \in 0..Frame - 1 : (BytesOf(conn[c].handled) + r) \div Frame = conn[c].handled
  BY <1>1, BytesAre
<1>5. CASE Put(c, "cut")
  <2>1. "cut" \in ConnSteps /\ "cut" \notin InHand
    BY DEF ConnSteps, InHand
  <2> QED
    BY <1>2, <1>5, <2>1, CutIs, OneConnIsPut
<1>6. CASE conn' = [conn EXCEPT ![c] = [conn[c] EXCEPT !.at = "length",
                       !.handled = conn[c].handled + (IF conn[c].got >= QueryBytes THEN 1 ELSE 0)]]
  <2> DEFINE handled == conn[c].handled + (IF conn[c].got >= QueryBytes THEN 1 ELSE 0)
  <2>1. /\ handled \in Nat
        /\ conn[c].got = QueryBytes => handled = conn[c].handled + 1
        /\ conn[c].got < QueryBytes => handled = conn[c].handled
    BY <1>1, FrameIs
  <2>2. PICK new : new = Answered(conn[c], handled) /\ conn' = [conn EXCEPT ![c] = new]
    BY <1>6 DEF Answered
  <2> HIDE DEF handled
  <2>3. new \in Conns /\ new.at = "length" /\ new.read = conn[c].read /\ new.handled = handled
    BY <1>1, <2>1, <2>2, QueryIsHandled
  <2>4. \/ conn[c].read = BytesOf(handled)
        \/ closed[c] /\ conn[c].read = sent[c] /\ handled = sent[c] \div Frame
    <3>1. CASE conn[c].got = QueryBytes
      BY <1>1, <1>3, <1>4, <2>1, <3>1, FrameIs
    <3>2. CASE conn[c].got # QueryBytes
      <4> DEFINE r == LengthBytes + conn[c].got
      <4>1. r \in 0..Frame - 1 /\ conn[c].got < QueryBytes
        BY <1>1, <1>3, <3>2, FrameIs
      <4>2. sent[c] = BytesOf(conn[c].handled) + r
        BY <1>1, <1>3, <1>4, <3>2, FrameIs
      <4> HIDE DEF r
      <4>3. sent[c] \div Frame = conn[c].handled
        BY <1>4, <4>1, <4>2
      <4> QED
        BY <1>3, <2>1, <3>2, <4>1, <4>3
    <3> QED
      BY <3>1, <3>2
  <2>5. InStep(new, sent[c], closed[c])
    BY <2>3, <2>4 DEF InStep
  <2>6. conn[c].at \in InHand /\ new.read <= sent[c]
    BY <1>1, <2>3 DEF InHand
  <2> QED
    BY <1>2, <2>2, <2>3, <2>5, <2>6, OneConnChanges
<1> QED
  BY <1>5, <1>6 DEF HandleConn

LEMMA DnsMoves == DnsInv /\ [DnsNext]_dnsVars => DnsInv'
<1> SUFFICES ASSUME DnsInv, [DnsNext]_dnsVars PROVE DnsInv'
  OBVIOUS
<1>1. /\ DnsTyped /\ conn \in [Clients -> Conns] /\ faults \in 0..MaxFaults /\ MaxFaults \in Nat
      /\ DOMAIN query = Queries /\ Busy \in Nat /\ Busy <= SpareThreads
  BY DnsServerAssumption, BusyIs DEF DnsInv, DnsTyped
<1>2. \A c \in Clients :
          /\ conn[c] \in Conns /\ conn[c].read \in Nat /\ sent[c] \in Nat /\ MaxBytes[c] \in Nat
          /\ conn[c].read <= sent[c] /\ sent[c] <= MaxBytes[c]
          /\ InStep(conn[c], sent[c], closed[c])
  BY <1>1, DnsServerAssumption DEF DnsInv, DnsTyped, Conns
<1>3. ASSUME NEW c \in Clients, Connect(c) PROVE DnsInv'
  <2>1. UNCHANGED <<sent, closed, query>> /\ faults' \in 0..MaxFaults /\ Put(c, "backlog")
    BY <1>1, <1>3 DEF Connect, Calm
  <2>2. conn[c].read = 0 /\ conn[c].handled = 0
    BY <1>2, <1>3 DEF Connect, InStep
  <2>3. "backlog" \in ConnSteps /\ "backlog" \notin InHand
    BY DEF ConnSteps, InHand
  <2>4. ASSUME NEW k, k.at = "backlog", k.read = conn[c].read, k.handled = conn[c].handled
        PROVE  InStep(k, sent[c], closed[c])
    BY <2>2, <2>4 DEF InStep
  <2> QED
    BY <2>1, <2>3, <2>4, OneConnIsPut
<1>4. ASSUME NEW c \in Clients, Send(c) PROVE DnsInv'
  <2>1. UNCHANGED <<conn, closed, query, faults>> /\ ~closed[c] /\ conn[c].at # "none"
    BY <1>4 DEF Send, Calm
  <2>2. PICK n \in 1..MaxBytes[c] - sent[c] : sent' = [sent EXCEPT ![c] = @ + n]
    BY <1>4 DEF Send
  <2>3. /\ sent' \in [Clients -> Nat] /\ sent[c] <= sent'[c] /\ sent'[c] <= MaxBytes[c]
        /\ \A d \in Clients \ {c} : sent'[d] = sent[d]
    BY <1>1, <1>2, <2>2 DEF DnsTyped
  <2>4. \A d \in Clients : conn[d].read <= sent'[d] /\ sent'[d] <= MaxBytes[d]
    BY <1>2, <2>3
  <2>5. Busy' = Busy
    BY <2>1 DEF Busy
  <2>6. DnsTyped'
    BY <1>1, <2>1, <2>3, <2>4, <2>5 DEF DnsTyped
  <2>7. InStep(conn[c], sent'[c], closed[c])
    BY <1>2, <2>1 DEF InStep
  <2>8. \A d \in Clients : InStep(conn[d], sent'[d], closed[d])
    BY <1>2, <2>3, <2>7
  <2> QED
    BY <2>1, <2>6, <2>8 DEF DnsInv
<1>5. ASSUME NEW c \in Clients, Close(c) PROVE DnsInv'
  <2>1. UNCHANGED <<conn, sent, query, faults>> /\ ~closed[c]
        /\ closed' = [closed EXCEPT ![c] = TRUE]
    BY <1>5 DEF Close, Calm
  <2>2. closed' \in [Clients -> BOOLEAN] /\ \A d \in Clients \ {c} : closed'[d] = closed[d]
    BY <1>1, <2>1 DEF DnsTyped
  <2>3. Busy' = Busy
    BY <2>1 DEF Busy
  <2>4. DnsTyped'
    BY <1>1, <2>1, <2>2, <2>3 DEF DnsTyped
  <2>5. InStep(conn[c], sent[c], closed'[c])
    BY <1>2, <2>1 DEF InStep
  <2>6. \A d \in Clients : InStep(conn[d], sent[d], closed'[d])
    BY <1>2, <2>2, <2>5
  <2> QED
    BY <2>1, <2>4, <2>6 DEF DnsInv
<1>6. ASSUME NEW c \in Clients, Accept(c) PROVE DnsInv'
  <2>1. UNCHANGED <<sent, closed, query>> /\ faults' \in 0..MaxFaults
    BY <1>1, <1>6 DEF Accept
  <2>2. conn[c].read = 0 /\ conn[c].handled = 0
    BY <1>2, <1>6 DEF Accept, InStep
  <2>3. {"waiting", "cut"} \subseteq ConnSteps \ InHand
    BY DEF ConnSteps, InHand
  <2>4. ASSUME NEW k, k.at \in {"waiting", "cut"}, k.read = conn[c].read,
               k.handled = conn[c].handled
        PROVE  InStep(k, sent[c], closed[c])
    BY <2>2, <2>4 DEF InStep
  <2>5. CASE Put(c, "waiting")
    BY <2>1, <2>3, <2>4, <2>5, OneConnIsPut
  <2>6. CASE Put(c, "cut")
    BY <2>1, <2>3, <2>4, <2>6, OneConnIsPut
  <2> QED
    BY <1>6, <2>5, <2>6 DEF Accept
<1>7. ASSUME UNCHANGED <<sent, closed>>, faults' \in 0..MaxFaults, DOMAIN query' = Queries,
             conn' \in [Clients -> Conns], BusyQueries' \subseteq BusyQueries,
             \A c \in Clients : \/ conn'[c] = conn[c]
                                \/ conn'[c].at = "cut" /\ conn'[c].read = conn[c].read
      PROVE  DnsInv'
  <2>1. BusyConns' \subseteq BusyConns
    BY <1>7 DEF BusyConns, InHand
  <2>2. Busy' <= SpareThreads
    BY <1>1, <1>7, <2>1, BusyFalls, BusyIsNext, DnsServerAssumption
  <2>3. \A c \in Clients : conn'[c].read <= sent'[c] /\ sent'[c] <= MaxBytes[c]
    BY <1>2, <1>7
  <2>4. DnsTyped'
    BY <1>1, <1>7, <2>2, <2>3 DEF DnsTyped
  <2>5. \A c \in Clients : InStep(conn'[c], sent[c], closed[c])
    BY <1>2, <1>7, CutIs
  <2> QED
    BY <1>7, <2>4, <2>5 DEF DnsInv
<1>8. \A c \in Clients : LET to == [conn[c] EXCEPT !.at = "cut"]
                         IN  to \in Conns /\ to.at = "cut" /\ to.read = conn[c].read
  BY <1>2 DEF Conns, ConnSteps
<1>9. ASSUME AcceptError PROVE DnsInv'
  <2>1. UNCHANGED <<sent, closed, query>> /\ faults' \in 0..MaxFaults
    BY <1>1, <1>9 DEF AcceptError, Fault
  <2>2. /\ conn' \in [Clients -> Conns]
        /\ \A c \in Clients : \/ conn'[c] = conn[c]
                              \/ conn'[c].at = "cut" /\ conn'[c].read = conn[c].read
    BY <1>2, <1>8, <1>9 DEF AcceptError
  <2>3. BusyQueries' \subseteq BusyQueries
    BY <2>1 DEF BusyQueries
  <2> QED
    BY <1>1, <1>7, <2>1, <2>2, <2>3
<1>10. ASSUME StopServing PROVE DnsInv'
  <2>1. UNCHANGED <<sent, closed>> /\ faults' \in 0..MaxFaults /\ DOMAIN query' = Queries
    BY <1>1, <1>10 DEF StopServing
  <2>2. /\ conn' \in [Clients -> Conns]
        /\ \A c \in Clients : \/ conn'[c] = conn[c]
                              \/ conn'[c].at = "cut" /\ conn'[c].read = conn[c].read
    BY <1>2, <1>8, <1>10 DEF StopServing
  <2>3. BusyQueries' \subseteq BusyQueries
    BY <1>10 DEF StopServing, BusyQueries
  <2> QED
    BY <1>7, <2>1, <2>2, <2>3
<1>11. ASSUME NEW c \in Clients, RunConn(c) PROVE DnsInv'
  <2>1. UNCHANGED <<sent, closed, query>> /\ faults' \in 0..MaxFaults /\ Put(c, "length")
    BY <1>1, <1>11 DEF RunConn, Calm
  <2>2. conn[c].read = 0 /\ conn[c].handled = 0 /\ Busy < SpareThreads
    BY <1>2, <1>11 DEF RunConn, InStep
  <2>3. "length" \in ConnSteps
    BY DEF ConnSteps
  <2>4. ASSUME NEW k, k.at = "length", k.read = conn[c].read, k.handled = conn[c].handled
        PROVE  InStep(k, sent[c], closed[c])
    BY <2>2, <2>4, BytesOfNone DEF InStep
  <2> QED
    BY <2>1, <2>2, <2>3, <2>4, OneConnIsPut
<1>12. ASSUME NEW c \in Clients, Expire(c) PROVE DnsInv'
  <2>1. UNCHANGED <<sent, closed, query>> /\ faults' \in 0..MaxFaults /\ Put(c, "cut")
    BY <1>1, <1>12 DEF Expire, Calm
  <2>2. "cut" \in ConnSteps /\ "cut" \notin InHand
    BY DEF ConnSteps, InHand
  <2> QED
    BY <2>1, <2>2, CutIs, OneConnIsPut
<1>13. ASSUME NEW q \in Queries, SendUdp(q) \/ Receive(q) \/ HandleQuery(q) PROVE DnsInv'
  <2>1. UNCHANGED <<conn, sent, closed, faults>>
    BY <1>13 DEF SendUdp, Receive, HandleQuery
  <2>2. PICK step \in {"socket", "waiting", "dropped", "done"} : query' = [query EXCEPT ![q] = step]
    BY <1>13 DEF SendUdp, Receive, HandleQuery
  <2>3. DOMAIN query' = Queries /\ BusyQueries' \subseteq BusyQueries
    BY <1>1, <2>2 DEF BusyQueries
  <2> QED
    BY <2>1, <2>3, QueriesChange
<1>14. ASSUME NEW q \in Queries, RunQuery(q) PROVE DnsInv'
  <2>1. /\ UNCHANGED <<conn, sent, closed, faults>> /\ Busy < SpareThreads
        /\ query' = [query EXCEPT ![q] = "app"]
    BY <1>14 DEF RunQuery
  <2>2. DOMAIN query' = Queries /\ BusyQueries' = BusyQueries \union {q}
    BY <1>1, <2>1 DEF BusyQueries
  <2> QED
    BY <2>1, <2>2, QueriesChange
<1>15. CASE UNCHANGED dnsVars
  <2>1. Busy' = Busy
    BY <1>15 DEF dnsVars, Busy
  <2> QED
    BY <1>15, <2>1 DEF dnsVars, DnsInv, DnsTyped
<1> QED
  BY <1>3, <1>4, <1>5, <1>6, <1>9, <1>10, <1>11, <1>12, <1>13, <1>14, <1>15,
     ReadLengthMoves, ReadQueryMoves, HandleConnMoves
  DEF DnsNext, ServeConn, ServeQuery

-----------------------------------------------------------------------------
(* The parts together.                                                     *)

\* Each part keeps its invariant, whichever part moves.
LEMMA SecondaryAlways == Spec => []SecondaryTyped
<1>1. Init => SecondaryTyped
  BY SecondaryStarts DEF Init
<1>2. [Next]_allVars => [SecondaryNext]_secondaryVars
  BY DEF Next, Only, Moves, allVars
<1> QED
  BY <1>1, <1>2, SecondaryMoves, PTL DEF Spec

LEMMA StatusAlways == Spec => []StatusInv
<1>1. Init => StatusInv
  BY StatusStarts DEF Init
<1>2. [Next]_allVars => [StatusNext]_statusVars
  BY DEF Next, Only, Moves, allVars
<1> QED
  BY <1>1, <1>2, StatusMoves, PTL DEF Spec

LEMMA BackendsAlways == Spec => []BackendsInv
<1>1. Init => BackendsInv
  BY BackendsStart DEF Init
<1>2. [Next]_allVars => [BackendsNext]_backendVars
  BY DEF Next, Only, Moves, allVars
<1> QED
  BY <1>1, <1>2, BackendsMove, PTL DEF Spec

LEMMA PoolsAlways == Spec => []PoolsTyped
<1>1. Init => PoolsTyped
  BY PoolsStart DEF Init
<1>2. [Next]_allVars => [PoolsNext]_poolVars
  BY DEF Next, Only, Moves, allVars
<1> QED
  BY <1>1, <1>2, PoolsMove, PTL DEF Spec

LEMMA FipAlways == Spec => []FipTyped
<1>1. Init => FipTyped
  BY FipStarts DEF Init
<1>2. [Next]_allVars => [FipNext]_fipVars
  BY DEF Next, Only, Moves, allVars
<1> QED
  BY <1>1, <1>2, FipMoves, PTL DEF Spec

LEMMA SinkAlways == Spec => []SinkInv
<1>1. Init => SinkInv
  BY SinkStarts DEF Init
<1>2. [Next]_allVars => [SinkNext]_sinkVars
  BY DEF Next, Only, Moves, allVars
<1> QED
  BY <1>1, <1>2, SinkMoves, PTL DEF Spec

LEMMA TasksAlways == Spec => []TasksInv
<1>1. Init => TasksInv
  BY TasksStart DEF Init
<1>2. [Next]_allVars => [ZoneTasksNext]_taskVars
  BY DEF Next, Only, Moves, allVars
<1> QED
  BY <1>1, <1>2, TasksMove, PTL DEF Spec

LEMMA TransfersAlways == Spec => []TransfersInv
<1>1. Init => TransfersInv
  BY TransfersStart DEF Init
<1>2. [Next]_allVars => [TransfersNext]_transferVars
  BY DEF Next, Only, Moves, allVars
<1> QED
  BY <1>1, <1>2, TransfersMove, PTL DEF Spec

LEMMA DnsAlways == Spec => []DnsInv
<1>1. Init => DnsInv
  BY DnsStarts DEF Init
<1>2. [Next]_allVars => [DnsNext]_dnsVars
  BY DEF Next, Only, Moves, allVars
<1> QED
  BY <1>1, <1>2, DnsMoves, PTL DEF Spec

(* A service that is listed as DOWN has sent no heartbeat for its time,    *)
(* however often it starts, stops and crashes, and whatever heartbeats,    *)
(* verdicts and deletions are under way at once or lost (ServiceStatus).   *)
THEOREM DownServicesAreSilent == StatusSpec => []DownMeansNoBeat
<1>1. StatusSpec => []StatusInv
  BY StatusStarts, StatusMoves, PTL DEF StatusSpec
<1> QED
  BY <1>1, StatusInvSuffices, PTL

(* A target that reports success has the zone, or has it no more, as was   *)
(* asked of it, however often jobs on it are tried again and whatever a    *)
(* request that failed had done; as long as no two jobs cross, or they are *)
(* creations by a backend that does not look first (Backends).             *)
THEOREM TargetsSayTrue == BackendsInit /\ [][BackendsNext]_backendVars => []SuccessIsTrue
  BY BackendsStart, BackendsMove, BackendsInvSuffices, PTL

(* No two imports are shown as the origin of the same zone, for any number *)
(* of imports and exports, deletions and crashes (ZoneTasks).              *)
THEOREM OriginsAlwaysDiffer == ZoneTasksInit /\ [][ZoneTasksNext]_taskVars => []OriginsDiffer
  BY TasksStart, TasksMove, TasksInvSuffices, PTL

(* What the services and the work say of the world holds when they say it. *)
THEOREM WhatIsSaidIsSo == Spec => []WhatIsSaidHolds
<1>1. DownMeansNoBeat /\ SuccessIsTrue /\ OriginsDiffer => WhatIsSaidHolds
  BY DEF WhatIsSaidHolds
<1> QED
  BY <1>1, StatusAlways, BackendsAlways, TasksAlways, StatusInvSuffices,
     BackendsInvSuffices, TasksInvSuffices, PTL

(* When all events of an instance are handled it has no record if it is    *)
(* gone and has one if it is up, for any instances, names and sinks; but   *)
(* not if an event was given up or overtaken by a removal (SinkEvents).    *)
THEOREM RecordsFit == SinkInit /\ [][SinkNext]_sinkVars => []RecordsFitWhenDone
  BY SinkStarts, SinkMoves, SinkInvSuffices, PTL

(* A nameserver with the serial of a zone has all its changes, whatever    *)
(* was changed while it was being sent the zone, for any nameservers,      *)
(* changes, seconds and broken transfers; unless it had the serial before  *)
(* a second increment within the same second (MdnsTransfers).              *)
THEOREM SerialsAlwaysWhole == TransfersInit /\ [][TransfersNext]_transferVars => []SerialsAreWhole
  BY TransfersStart, TransfersMove, TransfersInvSuffices, PTL

(* A connection that its client has closed has had every whole query       *)
(* handled, in whatever pieces they came, for queries of any length and    *)
(* any clients and threads (DnsServer).                                    *)
THEOREM QueriesAlwaysHandled == DnsInit /\ [][DnsNext]_dnsVars => []QueriesAreHandled
  BY DnsStarts, DnsMoves, DnsInvSuffices, PTL

(* mDNS gives what it was asked for, whole.                                *)
THEOREM AnswersAlwaysWhole == Spec => []AnswersAreWhole
<1>1. SerialsAreWhole /\ QueriesAreHandled => AnswersAreWhole
  BY DEF AnswersAreWhole
<1> QED
  BY <1>1, TransfersAlways, DnsAlways, TransfersInvSuffices, DnsInvSuffices, PTL

(* Whatever the services do: serials, statuses, jobs, calls, events, tasks, *)
(* transfers and connections are what the code makes of them, no failure   *)
(* and no retry is beyond its limit, and no more threads are at work than  *)
(* the pools have.                                                         *)
THEOREM ServicesAreTyped == Spec => []ServicesTypeOK
<1>1. SecondaryTyped /\ FipTyped => SecondaryTypeOK /\ FipTypeOK
  BY DEF SecondaryTyped, FipTyped
<1>2. SecondaryTypeOK /\ StatusTypeOK /\ BackendsTypeOK /\ PoolsTypeOK /\ FipTypeOK /\ SinkTypeOK
      /\ ZoneTasksTypeOK /\ TransfersTypeOK /\ DnsTypeOK => ServicesTypeOK
  BY DEF ServicesTypeOK
<1> QED
  BY <1>1, <1>2, SecondaryAlways, StatusAlways, BackendsAlways, PoolsAlways, FipAlways,
     SinkAlways, TasksAlways, TransfersAlways, DnsAlways, StatusInvSuffices,
     BackendsInvSuffices, PoolsTypedSuffices, SinkInvSuffices, TasksInvSuffices,
     TransfersInvSuffices, DnsInvSuffices, PTL

=============================================================================
