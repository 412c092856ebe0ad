------------------------------- MODULE ZonePoll -------------------------------
(***************************************************************************)
(* One ZonePoller of a designate-worker: it asks all nameservers of a pool *)
(* for the serial of a zone, one PollForZone per nameserver on the threads *)
(* of the executor, counts the answers, and tries again until enough of    *)
(* them agree, its retries are used up or the zone's action has changed.   *)
(*                                                                         *)
(* The nameservers go on loading the zone while they are being asked, so   *)
(* the answers of one round are not a snapshot.  ZoneLifecycle takes a     *)
(* poll for one step; this module shows what that step may assume.         *)
(***************************************************************************)
EXTENDS PollRules, FiniteSets

CONSTANTS
    Nameservers,    \* the nameservers of the pool
    MaxRetries,     \* service:worker poll_max_retries
    MaxSerial       \* bound: the largest serial

ASSUME PollAssumption ==
    /\ IsFiniteSet(Nameservers)
    /\ MaxRetries \in Nat \ {0}
    /\ MaxSerial \in Nat \ {0}

VARIABLES
    pc,             \* where the poller is
    job,            \* the action and the serial of the zone it polls for
    attempt,        \* rounds finished
    results,        \* the answers of this round
    asked,          \* nameservers that have answered or timed out in this round
    parsed,         \* those whose answers parse_query_results has counted
    tally,          \* its counters
    report,         \* what UpdateStatus sends to central
    nsSerial,       \* the serial each nameserver would answer with, 0 for none
    rowAction,      \* the action in the zone's row, "GONE" without one
    unloaded,       \* history: a nameserver has dropped the zone
    settled         \* history: the row has been without this action

poller      == <<job, attempt, report>>
environment == <<nsSerial, rowAction, unloaded, settled>>
vars        == <<pc, poller, results, asked, parsed, tally, environment>>

Serials == 1..MaxSerial

RowAction == {"NONE", "CREATE", "UPDATE", "DELETE", "GONE"}

\* A ZoneAction for a DELETE polls with the serial 0.
Job == [action : {"CREATE", "UPDATE"}, serial : Serials]
          \union [action : {"DELETE"}, serial : {0}]

Report == [status : {"SUCCESS", "ERROR", "NO_ZONE"},
           action : {"CREATE", "UPDATE", "DELETE"}, serial : 0..MaxSerial]

NoReport == [status |-> "none", action |-> "NONE", serial |-> 0]

NoTally == [positives |-> 0, noZones |-> 0, lowSerial |-> 0]

Total == Cardinality(Nameservers)

-----------------------------------------------------------------------------
(* A round of queries.                                                     *)

\* PollForZone: the serial, 0 when the server does not have the zone, and None
\* for a timeout or any other failure.
AskNameserver(n) ==
    /\ pc = "round"
    /\ n \notin asked
    /\ asked' = asked \union {n}
    /\ \E answer \in {nsSerial[n], NoAnswer} :
          results' = [results EXCEPT ![n] = answer]
    /\ UNCHANGED <<pc, poller, parsed, tally, environment>>

\* DEFECT: silence is taken for the absence of the zone.
CountedSilence(action, serial, answer, t) ==
    CASE answer <= 0 ->
           [t EXCEPT !.noZones = @ + 1,
                     !.positives = IF action = "DELETE" THEN @ + 1 ELSE @]
      [] answer > 0 /\ action # "DELETE" /\ answer >= serial ->
           [t EXCEPT !.positives = @ + 1,
                     !.lowSerial = IF @ = 0 \/ answer < @ THEN answer ELSE @]
      [] OTHER -> t

\* DEFECT: the highest serial becomes the consensus.
CountedHighest(action, serial, answer, t) ==
    CASE answer = 0 ->
           [t EXCEPT !.noZones = @ + 1,
                     !.positives = IF action = "DELETE" THEN @ + 1 ELSE @]
      [] answer > 0 /\ action # "DELETE" /\ answer >= serial ->
           [t EXCEPT !.positives = @ + 1,
                     !.lowSerial = IF answer > @ THEN answer ELSE @]
      [] OTHER -> t

\* The body of the loop in parse_query_results.
Counted(action, serial, answer, t) ==
    CASE answer = NoAnswer -> t
      [] answer # NoAnswer /\ action = "DELETE" ->
           IF answer = 0
           THEN [t EXCEPT !.noZones = @ + 1, !.positives = @ + 1]
           ELSE t
      [] answer # NoAnswer /\ action # "DELETE" /\ answer >= serial ->
           [t EXCEPT !.positives = @ + 1,
                     !.lowSerial = IF @ = 0 \/ answer < @ THEN answer ELSE @]
      [] OTHER -> IF answer = 0 THEN [t EXCEPT !.noZones = @ + 1] ELSE t

ParseResult(n) ==
    /\ pc = "round"
    /\ asked = Nameservers
    /\ n \notin parsed
    /\ parsed' = parsed \union {n}
    /\ tally' = Counted(job.action, job.serial, results[n], tally)
    /\ UNCHANGED <<pc, poller, results, asked, environment>>

\* The end of a round: enough positive answers end the poll.
CompareRound ==
    /\ pc = "round"
    /\ parsed = Nameservers
    /\ pc' = IF CompareThreshold(tally.positives, Total) THEN "judge" ELSE "sleep"
    /\ attempt' = attempt + 1
    /\ UNCHANGED <<job, report, results, asked, parsed, tally, environment>>

\* Task.is_current_action_valid: what makes it False.
ActionChanged ==
    /\ job.action # "DELETE"
    /\ \/ rowAction \in {"DELETE", "NONE"}
       \/ rowAction = "GONE" /\ job.action # "CREATE"

\* DEFECT: the counters of the last round are counted on.
NextRoundAccumulates ==
    /\ pc = "sleep"
    /\ \/ /\ attempt < MaxRetries
          /\ pc' = "round"
          /\ asked' = {}
          /\ parsed' = {}
          /\ tally' = tally
       \/ /\ attempt = MaxRetries \/ ActionChanged
          /\ pc' = "judge"
          /\ UNCHANGED <<asked, parsed, tally>>
    /\ UNCHANGED <<poller, results, environment>>

\* After the sleep: another round, unless it was the last or is of no use; when
\* the database does not tell, the poller goes on.
NextRound ==
    /\ pc = "sleep"
    /\ \/ /\ attempt < MaxRetries
          /\ pc' = "round"
          /\ asked' = {}
          /\ parsed' = {}
          /\ tally' = NoTally
       \/ /\ attempt = MaxRetries \/ ActionChanged
          /\ pc' = "judge"
          /\ UNCHANGED <<asked, parsed, tally>>
    /\ UNCHANGED <<poller, results, environment>>

\* _threshold_met, _on_success or _on_failure, and UpdateStatus.
Judge ==
    LET verdict == ThresholdMet(job.action, tally.positives, tally.noZones, Total)
    IN  /\ pc = "judge"
        /\ pc' = "done"
        /\ report' = [status |-> verdict,
                      action |-> IF verdict = "NO_ZONE" THEN "CREATE"
                                                        ELSE job.action,
                      serial |-> IF verdict = "SUCCESS" THEN tally.lowSerial
                                                        ELSE job.serial]
        /\ UNCHANGED <<job, attempt, results, asked, parsed, tally, environment>>

-----------------------------------------------------------------------------
(* Meanwhile.                                                              *)

\* A nameserver transfers the zone.
Load(n) ==
    /\ \E s \in Serials : s > nsSerial[n] /\ nsSerial' = [nsSerial EXCEPT ![n] = s]
    /\ UNCHANGED <<pc, poller, results, asked, parsed, tally, rowAction, unloaded,
                   settled>>

\* A worker removes the zone from a nameserver; it may do so late, for a deletion
\* that has been forgotten since.
Unload(n) ==
    /\ nsSerial[n] # 0
    /\ nsSerial' = [nsSerial EXCEPT ![n] = 0]
    /\ unloaded' = TRUE
    /\ UNCHANGED <<pc, poller, results, asked, parsed, tally, rowAction, settled>>

\* Central changes the row of the zone; it cannot come back.
ChangeRow ==
    /\ rowAction # "GONE"
    /\ rowAction' \in RowAction \ {rowAction}
    /\ settled' = (settled \/ rowAction' \in {"NONE", "DELETE", "GONE"})
    /\ UNCHANGED <<pc, poller, results, asked, parsed, tally, nsSerial, unloaded>>

-----------------------------------------------------------------------------

Init ==
    /\ job \in Job
    /\ pc = "round"
    /\ attempt = 0
    /\ results = [n \in Nameservers |-> NoAnswer]
    /\ asked = {}
    /\ parsed = {}
    /\ tally = NoTally
    /\ report = NoReport
    /\ nsSerial \in [Nameservers -> 0..MaxSerial]
    /\ rowAction = job.action
    /\ unloaded = FALSE
    /\ settled = FALSE

Next ==
    \/ \E n \in Nameservers : AskNameserver(n)
    \/ \E n \in Nameservers : ParseResult(n)
    \/ CompareRound
    \/ NextRound
    \/ Judge
    \/ \E n \in Nameservers : Load(n)
    \/ \E n \in Nameservers : Unload(n)
    \/ ChangeRow

Spec == Init /\ [][Next]_vars

-----------------------------------------------------------------------------
(* Properties.                                                             *)

TypeOK ==
    /\ pc \in {"round", "sleep", "judge", "done"}
    /\ job \in Job
    /\ attempt \in 0..MaxRetries
    /\ results \in [Nameservers -> (0..MaxSerial) \union {NoAnswer}]
    /\ asked \subseteq Nameservers
    /\ parsed \subseteq Nameservers
    /\ tally \in [positives : 0..Total, noZones : 0..Total,
                  lowSerial : 0..MaxSerial]
    /\ report \in Report \union {NoReport}
    /\ nsSerial \in [Nameservers -> 0..MaxSerial]
    /\ rowAction \in RowAction
    /\ unloaded \in BOOLEAN
    /\ settled \in BOOLEAN

Positive == {n \in Nameservers :
                CountsPositive(job.action, job.serial, results[n])}
NoZone   == {n \in Nameservers :
                CountsNoZone(job.action, job.serial, results[n])}

\* What the poller reports is the verdict on the answers of its last round alone:
\* the loop with its three counters and its sentinels 0 and None computes the
\* numbers of servers that agree and that lack the zone, whatever the rounds
\* before have found.
VerdictOfLastRound ==
    pc = "done" =>
        report.status = ThresholdMet(job.action, Cardinality(Positive),
                                     Cardinality(NoZone), Total)

\* A success for a create or an update names the lowest serial of those that count,
\* and it is still true when it is reported, although the servers were asked one
\* after the other: enough of them serve that serial now.
SuccessStillHolds ==
    pc = "done" /\ report.status = "SUCCESS" /\ job.action # "DELETE"
        => /\ report.serial = 0 \/ report.serial >= job.serial
           /\ unloaded \/ CompareThreshold(
                 Cardinality({n \in Nameservers : nsSerial[n] >= report.serial}),
                 Total)

\* The poller gives up early only when another round would be of no use, and a round
\* that met the threshold is never turned into a failure by the second look that
\* _threshold_met takes at its counters.
FailureIsFinal ==
    pc = "done" /\ report.status # "SUCCESS"
        => /\ ~CompareThreshold(Cardinality(Positive), Total)
           /\ attempt = MaxRetries \/ (settled /\ job.action # "DELETE")

=============================================================================
