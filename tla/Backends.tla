------------------------------- MODULE Backends -------------------------------
(***************************************************************************)
(* The backends: what a worker's job does on one target to create a zone   *)
(* or to delete it, request by request, when a request may fail before or  *)
(* after it has had its effect; the retries of the job, the poll at its    *)
(* end, and the recovery, which may begin a second job beside it.          *)
(***************************************************************************)
EXTENDS Naturals

CONSTANTS
    MaxAttempts,       \* poll_max_retries, of a job on a target
    MaxRequestFaults      \* requests that fail, jobs that are begun twice

ASSUME BackendsAssumption == MaxAttempts \in Nat \ {0} /\ MaxRequestFaults \in Nat

VARIABLES
    backend,        \* of the target; never changes
    remote,         \* the zone on the target
    want,           \* the action of the zone
    job,            \* up to two jobs
    report,         \* the status central was told last
    failures,       \* mishaps so far
    crossed         \* history: a job was begun beside another one

backendVars == <<backend, remote, want, job, report, failures, crossed>>

\* With a look at the server before a zone is made or removed there.
Lookers == {"pdns4", "ns1"}

\* An addition of a zone that exists is as good as done; Infoblox's client sees to it.
Lenient == {"bind9", "nsd4", "akamai_v2", "infoblox"}

BackendNames == Lookers \union Lenient \union {"dynect", "designate"}

NoJob == [at |-> "none"]

FirstStep(does) ==
    IF backend = "dynect" THEN "login"
    ELSE IF backend \in Lookers THEN "check"
    ELSE IF does = "CREATE" THEN "add" ELSE "remove"

NewJob(does) == [at |-> FirstStep(does), does |-> does, tries |-> 0]

RequestFault == failures < MaxRequestFaults /\ failures' = failures + 1

Go(j, step) == job' = [job EXCEPT ![j].at = step]

\* Any exception: the next attempt begins from the start, unless it was the last.
Fail(j) ==
    job' = [job EXCEPT ![j] =
        IF @.tries + 1 < MaxAttempts THEN [NewJob(@.does) EXCEPT !.tries = job[j].tries + 1]
        ELSE [@ EXCEPT !.at = "failed"]]

\* A request to the server: it works, or fails, its effect made or not.
Request(j, effect, next) ==
    \/ remote' = effect /\ Go(j, next) /\ UNCHANGED failures
    \/ remote' \in {remote, effect} /\ Fail(j) /\ RequestFault

\* _check_zone_exists: of PowerDNS any other answer than 200 means no.
Check(j, yes, no) ==
    /\ \/ /\ IF remote # "none" THEN yes ELSE no
          /\ UNCHANGED failures
       \/ Fail(j) /\ RequestFault
       \/ backend = "pdns4" /\ no /\ RequestFault
    /\ UNCHANGED <<backend, remote, want, report, crossed>>

Is(j, step) == job[j].at = step

Rest == UNCHANGED <<backend, want, report, crossed>>

-----------------------------------------------------------------------------
(* create_zone                                                             *)

\* DynECT: also before a deletion.
Login(j) ==
    /\ Is(j, "login")
    /\ Request(j, remote, IF job[j].does = "CREATE" THEN "add" ELSE "remove")
    /\ Rest

\* PowerDNS removes a zone that is there first, NS1 leaves it.
CheckToCreate(j) ==
    /\ Is(j, "check") /\ job[j].does = "CREATE"
    /\ Check(j, Go(j, IF backend = "pdns4" THEN "clear?" ELSE "notify"), Go(j, "add"))

CheckToClear(j) == Is(j, "clear?") /\ Check(j, Go(j, "clear"), Go(j, "add"))

Clear(j) == Is(j, "clear") /\ Request(j, "none", "add") /\ Rest

Add(j) ==
    /\ Is(j, "add") /\ remote = "none"
    /\ \/ Request(j, IF backend = "dynect" THEN "added" ELSE "serving",
                     IF backend = "dynect" THEN "activate" ELSE "notify")
       \/ /\ backend \in Lookers                        \* an HTTP error
          /\ remote' \in {"none", "serving"} /\ Go(j, "undo?") /\ RequestFault
    /\ Rest


\* The server has the zone already.
AddAgain(j) ==
    /\ Is(j, "add") /\ remote # "none"
    /\ \/ backend \in Lenient /\ Request(j, remote, "notify")
       \/ backend = "dynect" /\ Request(j, remote, "activate")
       \/ backend \in Lookers /\ Go(j, "undo?") /\ UNCHANGED <<remote, failures>>
       \/ backend = "designate" /\ Fail(j) /\ UNCHANGED <<remote, failures>>
    /\ Rest

\* What was created with an error is removed, and the attempt fails all the same.
CheckToUndo(j) == Is(j, "undo?") /\ Check(j, Go(j, "undo"), Fail(j))

Undo(j) ==
    /\ Is(j, "undo")
    /\ Fail(j)
    /\ \/ remote' = "none" /\ UNCHANGED failures
       \/ RequestFault /\ UNCHANGED remote
    /\ Rest

Activate(j) ==
    /\ Is(j, "activate")
    /\ IF remote = "none" THEN Fail(j) /\ UNCHANGED <<remote, failures>>
       ELSE Request(j, "serving", "logout")
    /\ Rest

Logout(j) ==
    /\ Is(j, "logout")
    /\ Request(j, remote, IF job[j].does = "CREATE" THEN "notify" ELSE "poll")
    /\ Rest

\* A NOTIFY that is not answered makes the job create the zone again.
Notify(j) == Is(j, "notify") /\ Request(j, remote, "poll") /\ Rest

-----------------------------------------------------------------------------
(* delete_zone                                                             *)

CheckToDelete(j) ==
    /\ Is(j, "check") /\ job[j].does = "DELETE"
    /\ Check(j, Go(j, "remove"), Go(j, "poll"))

\* A zone that is not there counts as removed.  Akamai may forbid a forced removal.
Remove(j) ==
    /\ Is(j, "remove")
    /\ \/ Request(j, "none", IF backend = "dynect" THEN "logout" ELSE "poll")
       \/ backend = "akamai_v2" /\ Go(j, "soft") /\ UNCHANGED <<remote, failures>>
    /\ Rest

\* The other removal, which is waited for in vain if it takes too long.
RemoveSoftly(j) == Is(j, "soft") /\ Request(j, "none", "poll") /\ Rest

-----------------------------------------------------------------------------
(* The job.                                                                *)

\* _poll_for_zone; what it has seen is reported later.
Poll(j) ==
    /\ Is(j, "poll")
    /\ Go(j, IF remote = (IF job[j].does = "CREATE" THEN "serving" ELSE "none")
             THEN "seen" ELSE "failed")
    /\ UNCHANGED <<remote, failures>> /\ Rest

\* update_status: only of the action the zone has.
Report(j) ==
    /\ job[j].at \in {"seen", "failed"}
    /\ report' = IF job[j].does # want THEN report
                 ELSE IF job[j].at = "seen" THEN "SUCCESS" ELSE "ERROR"
    /\ job' = [job EXCEPT ![j] = NoJob]
    /\ UNCHANGED <<backend, remote, want, failures, crossed>>

Idle == \A j \in DOMAIN job : job[j] = NoJob

\* A zone in ERROR, or long PENDING, is tried again.
Recover(j) ==
    /\ Idle /\ report # "SUCCESS"
    /\ job' = [job EXCEPT ![j] = NewJob(want)]
    /\ UNCHANGED <<backend, remote, want, report, failures, crossed>>

\* A job that takes long is begun again.
RecoverTooEarly(j) ==
    /\ ~Idle /\ job[j] = NoJob /\ report # "SUCCESS"
    /\ job' = [job EXCEPT ![j] = NewJob(want)]
    /\ crossed' = TRUE
    /\ RequestFault
    /\ UNCHANGED <<backend, remote, want, report>>

AskToDelete(j) ==
    /\ want = "CREATE" /\ job[j] = NoJob
    /\ want' = "DELETE" /\ report' = "none"
    /\ job' = [job EXCEPT ![j] = NewJob("DELETE")]
    /\ crossed' = (crossed \/ ~Idle)
    /\ UNCHANGED <<backend, remote, failures>>

-----------------------------------------------------------------------------

BackendsInit ==
    /\ backend \in BackendNames
    /\ remote = "none" /\ want = "CREATE"
    /\ job = [j \in 1..2 |-> NoJob]
    /\ report = "none" /\ failures = 0
    /\ crossed = FALSE

Advance(j) ==
    \/ Login(j) \/ CheckToCreate(j) \/ CheckToClear(j) \/ Clear(j)
    \/ Add(j) \/ AddAgain(j) \/ CheckToUndo(j) \/ Undo(j)
    \/ Activate(j) \/ Logout(j) \/ Notify(j)
    \/ CheckToDelete(j) \/ Remove(j) \/ RemoveSoftly(j)
    \/ Poll(j) \/ Report(j)

BackendsNext ==
    \E j \in 1..2 : Advance(j) \/ Recover(j) \/ RecoverTooEarly(j) \/ AskToDelete(j)

\* A worker goes on with its jobs, and the recovery is periodic.
BackendsFairness ==
    /\ \A j \in 1..2 : WF_backendVars(Advance(j))
    /\ WF_backendVars(Recover(1))

BackendsTypeOK ==
    /\ backend \in BackendNames
    /\ remote \in {"none", "added", "serving"}
    /\ want \in {"CREATE", "DELETE"}
    /\ \A j \in 1..2 : job[j] = NoJob \/ (job[j].does \in {"CREATE", "DELETE"}
                                          /\ job[j].tries \in 0..MaxAttempts)
    /\ report \in {"none", "SUCCESS", "ERROR"}

(* Central is told of a success only while it is one: the zone is served   *)
(* where it was to be created, and gone where it was to be deleted,        *)
(* although requests have failed after their effect, and what the poll saw *)
(* is reported later.  Not so when jobs cross, unless the crossing ones    *)
(* are creations by a backend that does not look first.                    *)
SuccessIsTrue ==
    report = "SUCCESS" /\ (crossed => want = "CREATE" /\ backend \notin Lookers) =>
        remote = IF want = "CREATE" THEN "serving" ELSE "none"

(* Wherever the requests of a creation failed, its repetition brings the   *)
(* zone to serve, and central to know it; and that of a deletion leaves no *)
(* zone, though it may take an error for the zone's absence, and central   *)
(* knows it too.  Not so, of creations, with the "designate" backend, for  *)
(* which a zone that exists is an error, or when a backend that looks      *)
(* first runs two jobs at once; nor of deletions when any two jobs did.    *)
BackendsSettle ==
    <>[](/\ want = "CREATE" /\ backend # "designate" /\ (crossed => backend \notin Lookers) =>
                remote = "serving" /\ report = "SUCCESS"
         /\ want = "DELETE" /\ ~crossed =>
                remote = "none" /\ report = "SUCCESS")

=============================================================================
