------------------------------- MODULE PollRules -------------------------------
(***************************************************************************)
(* How a designate-worker judges the answers of a pool's nameservers: the  *)
(* classification of one answer by parse_query_results, the percentage     *)
(* threshold of tasks/base.py and the verdict of ZonePoller._threshold_met.*)
(* The poller's loop over the answers is the module ZonePoll.              *)
(***************************************************************************)
EXTENDS Integers

CONSTANT Threshold      \* service:worker threshold_percentage

ASSUME ThresholdAssumption == Threshold \in 0..100

\* PollForZone returns None on a timeout or any other failure to get a serial;
\* a server without the zone has an empty answer, which get_serial returns as 0.
NoAnswer == -1
NoZoneAnswer == 0

Answer == Nat \union {NoAnswer}

\* Task.compare_threshold over percentage(); an empty pool is always at 0 %.
CompareThreshold(successes, total) ==
    IF total = 0 THEN 0 >= Threshold ELSE 100 * successes >= Threshold * total

\* The branches of the loop in parse_query_results, for one answer.
CountsPositive(action, serial, answer) ==
    /\ answer # NoAnswer
    /\ IF action = "DELETE" THEN answer = NoZoneAnswer ELSE answer >= serial

CountsNoZone(action, serial, answer) ==
    /\ answer = NoZoneAnswer
    /\ action = "DELETE" \/ answer < serial

\* DEFECT: one server without the zone is enough to create it again.
ThresholdMetAnyAbsence(action, positives, noZones, total) ==
    IF noZones > 0 /\ action # "DELETE"
    THEN "NO_ZONE"
    ELSE IF CompareThreshold(positives, total) THEN "SUCCESS" ELSE "ERROR"

\* ZonePoller._threshold_met
ThresholdMet(action, positives, noZones, total) ==
    IF ~CompareThreshold(total - noZones, total) /\ action # "DELETE"
    THEN "NO_ZONE"
    ELSE IF CompareThreshold(positives, total) THEN "SUCCESS" ELSE "ERROR"

=============================================================================
