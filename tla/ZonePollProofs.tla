---------------------------- MODULE ZonePollProofs ----------------------------
(***************************************************************************)
(* Proofs about ZonePoll, for any pool of nameservers, any threshold and   *)
(* any number of retries.                                                  *)
(***************************************************************************)
EXTENDS ZonePoll, FiniteSetTheorems, TLAPS

\* The answers counted so far that agree, and those of servers without the zone.
Agreeing == {n \in parsed : CountsPositive(job.action, job.serial, results[n])}
Lacking  == {n \in parsed : CountsNoZone(job.action, job.serial, results[n])}

\* The invariant of the loop in parse_query_results.
LoopInv ==
    /\ parsed # {} => asked = Nameservers
    /\ tally.positives = Cardinality(Agreeing)
    /\ tally.noZones = Cardinality(Lacking)
    /\ job.action = "DELETE" => tally.lowSerial = 0
    /\ job.action # "DELETE" =>
          /\ tally.lowSerial = 0 \/ tally.lowSerial >= job.serial
          /\ tally.lowSerial = 0 => Agreeing = {}
          /\ \A n \in Agreeing : tally.lowSerial <= results[n]

\* An answer is outdated only by a newer serial, or by the loss of the zone.
AnswersHold ==
    \A n \in asked : \/ unloaded
                     \/ results[n] = NoAnswer
                     \/ results[n] <= nsSerial[n]

\* Why the poller is where it is.
RoundInv ==
    /\ pc = "round" => attempt < MaxRetries
    /\ pc # "round" => parsed = Nameservers /\ asked = Nameservers
    /\ pc \in {"judge", "done"} =>
          \/ CompareThreshold(tally.positives, Total)
          \/ attempt = MaxRetries
          \/ settled /\ job.action # "DELETE"
    /\ pc = "done" =>
          /\ report.status = ThresholdMet(job.action, tally.positives,
                                          tally.noZones, Total)
          /\ report.serial = IF report.status = "SUCCESS" THEN tally.lowSerial
                                                          ELSE job.serial
    /\ rowAction \in {"NONE", "DELETE", "GONE"} =>
          settled \/ job.action = "DELETE"

IInv ==
    /\ TypeOK
    /\ LoopInv
    /\ AnswersHold
    /\ RoundInv

-----------------------------------------------------------------------------

\* Sets of nameservers are finite and no larger than the pool.
LEMMA PoolCardinality ==
    ASSUME NEW S \in SUBSET Nameservers
    PROVE  /\ IsFiniteSet(S)
           /\ Cardinality(S) \in Nat
           /\ Total \in Nat
           /\ Cardinality(S) <= Total
           /\ \A T \in SUBSET S : /\ Cardinality(T) \in Nat
                                  /\ Cardinality(T) <= Cardinality(S)
BY PollAssumption, FS_Subset, FS_CardinalityType DEF Total

\* The threshold is met by any number at least as large as one that meets it.
LEMMA ThresholdMonotone ==
    ASSUME NEW m \in Nat, NEW n \in Nat, NEW total \in Nat, m <= n,
           CompareThreshold(m, total)
    PROVE  CompareThreshold(n, total)
BY ThresholdAssumption DEF CompareThreshold

\* One pass through the loop adds the answer to the counters it belongs to, and
\* keeps the lowest of the serials that count.
LEMMA CountedStep ==
    ASSUME NEW j \in Job, NEW answer \in (0..MaxSerial) \union {NoAnswer},
           NEW t, t \in [positives : Nat, noZones : Nat, lowSerial : 0..MaxSerial]
    PROVE  LET u == Counted(j.action, j.serial, answer, t)
           IN  /\ u \in [positives : Nat, noZones : Nat, lowSerial : 0..MaxSerial]
               /\ u.positives = IF CountsPositive(j.action, j.serial, answer)
                                THEN t.positives + 1 ELSE t.positives
               /\ u.noZones = IF CountsNoZone(j.action, j.serial, answer)
                              THEN t.noZones + 1 ELSE t.noZones
               /\ u.lowSerial = IF /\ CountsPositive(j.action, j.serial, answer)
                                   /\ j.action # "DELETE"
                                   /\ t.lowSerial = 0 \/ answer < t.lowSerial
                                THEN answer ELSE t.lowSerial
<1>1. /\ j.serial \in Nat
      /\ j.action = "DELETE" => j.serial = 0
      /\ j.action # "DELETE" => j.serial >= 1
  BY PollAssumption DEF Job, Serials
<1>2. answer \in Int /\ j.serial \in Int /\ t.positives \in Nat /\ t.noZones \in Nat
      /\ t.lowSerial \in 0..MaxSerial
  BY <1>1, PollAssumption DEF NoAnswer
<1>3. CASE answer = NoAnswer
  <2>1. Counted(j.action, j.serial, answer, t) = t
    BY <1>3 DEF Counted
  <2>2. QED
    BY <1>2, <1>3, <2>1 DEF CountsPositive, CountsNoZone, NoAnswer, NoZoneAnswer
<1>4. CASE answer # NoAnswer /\ j.action = "DELETE"
  <2>1. Counted(j.action, j.serial, answer, t)
           = IF answer = 0
             THEN [t EXCEPT !.noZones = @ + 1, !.positives = @ + 1] ELSE t
    BY <1>4 DEF Counted
  <2>2. CountsPositive(j.action, j.serial, answer) <=> answer = 0
    BY <1>4 DEF CountsPositive, NoZoneAnswer
  <2>3. CountsNoZone(j.action, j.serial, answer) <=> answer = 0
    BY <1>4 DEF CountsNoZone, NoZoneAnswer
  <2>4. CASE answer = 0
    <3>1. Counted(j.action, j.serial, answer, t)
             = [positives |-> t.positives + 1, noZones |-> t.noZones + 1,
                lowSerial |-> t.lowSerial]
      BY <2>1, <2>4
    <3>2. QED
      BY <1>2, <1>4, <2>2, <2>3, <2>4, <3>1
  <2>5. CASE answer # 0
    BY <1>2, <1>4, <2>1, <2>2, <2>3, <2>5
  <2>6. QED
    BY <2>4, <2>5
<1>5. CASE answer # NoAnswer /\ j.action # "DELETE" /\ answer >= j.serial
  <2>1. Counted(j.action, j.serial, answer, t)
           = [t EXCEPT !.positives = @ + 1,
                       !.lowSerial = IF @ = 0 \/ answer < @ THEN answer ELSE @]
    BY <1>5 DEF Counted
  <2>2. CountsPositive(j.action, j.serial, answer)
    BY <1>5 DEF CountsPositive
  <2>3. ~CountsNoZone(j.action, j.serial, answer)
    BY <1>2, <1>5 DEF CountsNoZone
  <2>4. answer \in 0..MaxSerial
    BY <1>5
  <2> DEFINE low == IF t.lowSerial = 0 \/ answer < t.lowSerial THEN answer
                                                             ELSE t.lowSerial
  <2>5. low \in 0..MaxSerial
    BY <1>2, <2>4
  <2>6. Counted(j.action, j.serial, answer, t)
           = [positives |-> t.positives + 1, noZones |-> t.noZones,
              lowSerial |-> low]
    BY <2>1
  <2>7. QED
    BY <1>2, <1>5, <2>2, <2>3, <2>5, <2>6
<1>6. CASE answer # NoAnswer /\ j.action # "DELETE" /\ ~(answer >= j.serial)
  <2>1. Counted(j.action, j.serial, answer, t)
           = IF answer = 0 THEN [t EXCEPT !.noZones = @ + 1] ELSE t
    BY <1>6 DEF Counted
  <2>2. ~CountsPositive(j.action, j.serial, answer)
    BY <1>6 DEF CountsPositive
  <2>3. CountsNoZone(j.action, j.serial, answer) <=> answer = 0
    BY <1>2, <1>6 DEF CountsNoZone, NoZoneAnswer
  <2>4. QED
    BY <1>2, <1>6, <2>1, <2>2, <2>3
<1>7. QED
  BY <1>3, <1>4, <1>5, <1>6

\* A set grows by one when an element with the property joins.
LEMMA FilterAdd ==
    ASSUME NEW S \in SUBSET Nameservers, NEW n \in Nameservers, n \notin S,
           NEW P \in [Nameservers -> BOOLEAN]
    PROVE  Cardinality({m \in S \union {n} : P[m]})
              = IF P[n] THEN Cardinality({m \in S : P[m]}) + 1
                        ELSE Cardinality({m \in S : P[m]})
<1> DEFINE A == {m \in S : P[m]}
<1>1. IsFiniteSet(A) /\ n \notin A
  BY PoolCardinality
<1>2. CASE P[n]
  <2>1. {m \in S \union {n} : P[m]} = A \union {n}
    BY <1>2
  <2>2. QED
    BY <1>1, <1>2, <2>1, FS_AddElement
<1>3. CASE ~P[n]
  <2>1. {m \in S \union {n} : P[m]} = A
    BY <1>3
  <2>2. QED
    BY <1>3, <2>1
<1>4. QED
  BY <1>2, <1>3

-----------------------------------------------------------------------------

\* The invariant holds initially.
LEMMA InitIInv == Init => IInv
<1> SUFFICES ASSUME Init PROVE IInv
  OBVIOUS
<1>1. /\ Agreeing = {} /\ Lacking = {}
      /\ Cardinality({}) = 0
      /\ Total \in Nat
  BY FS_EmptySet, PoolCardinality DEF Init, Agreeing, Lacking
<1>2. TypeOK
  <2>1. rowAction \in RowAction
    BY DEF Init, Job, RowAction
  <2>2. tally \in [positives : 0..Total, noZones : 0..Total,
                   lowSerial : 0..MaxSerial]
    BY <1>1, PollAssumption DEF Init, NoTally
  <2>3. attempt \in 0..MaxRetries
    BY PollAssumption DEF Init
  <2>4. results \in [Nameservers -> (0..MaxSerial) \union {NoAnswer}]
    BY DEF Init
  <2>5. QED
    BY <2>1, <2>2, <2>3, <2>4, Zenon DEF Init, TypeOK
<1>3. LoopInv
  BY <1>1 DEF Init, LoopInv, NoTally
<1>4. AnswersHold /\ RoundInv
  BY PollAssumption DEF Init, AnswersHold, RoundInv, Job
<1>5. QED
  BY <1>2, <1>3, <1>4 DEF IInv

\* The count of an answer preserves the invariant of the loop.
LEMMA ParseStep ==
    ASSUME TypeOK, LoopInv, NEW n \in Nameservers, ParseResult(n)
    PROVE  TypeOK' /\ LoopInv'
<1> DEFINE a == results[n]
<1>1. /\ a \in (0..MaxSerial) \union {NoAnswer}
      /\ job \in Job
      /\ tally \in [positives : Nat, noZones : Nat, lowSerial : 0..MaxSerial]
      /\ parsed \in SUBSET Nameservers
      /\ n \notin parsed
      /\ parsed' = parsed \union {n}
      /\ UNCHANGED <<pc, job, attempt, report, results, asked, nsSerial,
                     rowAction, unloaded, settled>>
      /\ asked = Nameservers
      /\ tally' = Counted(job.action, job.serial, a, tally)
  BY PoolCardinality DEF ParseResult, TypeOK, poller, environment
<1>2. /\ tally' \in [positives : Nat, noZones : Nat, lowSerial : 0..MaxSerial]
      /\ tally'.positives = IF CountsPositive(job.action, job.serial, a)
                            THEN tally.positives + 1 ELSE tally.positives
      /\ tally'.noZones = IF CountsNoZone(job.action, job.serial, a)
                          THEN tally.noZones + 1 ELSE tally.noZones
      /\ tally'.lowSerial = IF /\ CountsPositive(job.action, job.serial, a)
                               /\ job.action # "DELETE"
                               /\ tally.lowSerial = 0 \/ a < tally.lowSerial
                            THEN a ELSE tally.lowSerial
  BY <1>1, CountedStep
<1> DEFINE Pos == [m \in Nameservers |->
                      CountsPositive(job.action, job.serial, results[m])]
           Non == [m \in Nameservers |->
                      CountsNoZone(job.action, job.serial, results[m])]
<1>3. Pos \in [Nameservers -> BOOLEAN] /\ Non \in [Nameservers -> BOOLEAN]
  BY Zenon DEF CountsPositive, CountsNoZone
<1>4. /\ Agreeing = {m \in parsed : Pos[m]}
      /\ Lacking = {m \in parsed : Non[m]}
      /\ Agreeing' = {m \in parsed \union {n} : Pos[m]}
      /\ Lacking' = {m \in parsed \union {n} : Non[m]}
  BY <1>1 DEF Agreeing, Lacking
<1>5. /\ Cardinality(Agreeing') = IF Pos[n] THEN Cardinality(Agreeing) + 1
                                            ELSE Cardinality(Agreeing)
      /\ Cardinality(Lacking') = IF Non[n] THEN Cardinality(Lacking) + 1
                                           ELSE Cardinality(Lacking)
  <2> HIDE DEF Pos, Non
  <2>1. QED
    BY <1>1, <1>3, <1>4, FilterAdd
<1>6. /\ tally'.positives = Cardinality(Agreeing')
      /\ tally'.noZones = Cardinality(Lacking')
  BY <1>2, <1>5 DEF LoopInv
<1>7. TypeOK'
  <2>1. Agreeing' \in SUBSET Nameservers /\ Lacking' \in SUBSET Nameservers
    BY <1>1, <1>4
  <2>2. tally'.positives \in 0..Total /\ tally'.noZones \in 0..Total
    BY <2>1, <1>6, PoolCardinality
  <2>3. tally' \in [positives : 0..Total, noZones : 0..Total,
                    lowSerial : 0..MaxSerial]
    BY <1>2, <2>2
  <2>4. QED
    BY <1>1, <2>3 DEF TypeOK
<1>8. ASSUME job.action # "DELETE"
      PROVE  /\ tally'.lowSerial = 0 \/ tally'.lowSerial >= job.serial
             /\ tally'.lowSerial = 0 => Agreeing' = {}
             /\ \A m \in Agreeing' : tally'.lowSerial <= results[m]
  <2>1. job.serial \in Nat /\ job.serial >= 1
    BY <1>1, <1>8 DEF Job, Serials
  <2>2. \A m \in Agreeing : results[m] \in Nat
    BY <1>1 DEF Agreeing, CountsPositive, NoAnswer, TypeOK
  <2>3. CASE CountsPositive(job.action, job.serial, a)
    <3>1. a \in Nat /\ a >= job.serial
      BY <1>1, <1>8, <2>3 DEF CountsPositive, NoAnswer
    <3>2. Agreeing' = Agreeing \union {n}
      BY <1>1, <1>4, <2>3
    <3>3. tally.lowSerial \in Nat /\ tally'.lowSerial \in Nat
      BY <1>1, <1>2
    <3>4. QED
      BY <1>2, <1>8, <2>1, <2>2, <2>3, <3>1, <3>2, <3>3 DEF LoopInv
  <2>4. CASE ~CountsPositive(job.action, job.serial, a)
    <3>1. Agreeing' = Agreeing
      BY <1>1, <1>4, <2>4
    <3>2. QED
      BY <1>2, <1>8, <2>4, <3>1 DEF LoopInv
  <2>5. QED
    BY <2>3, <2>4
<1>9. QED
  BY <1>1, <1>2, <1>6, <1>7, <1>8 DEF LoopInv

\* Every step preserves the invariant.
LEMMA NextIInv == IInv /\ [Next]_vars => IInv'
<1> SUFFICES ASSUME IInv, [Next]_vars PROVE IInv'
  OBVIOUS
<1> USE PollAssumption
<1>0. TypeOK /\ LoopInv /\ AnswersHold /\ RoundInv
  BY DEF IInv
<1>1. ASSUME NEW n \in Nameservers, AskNameserver(n) PROVE IInv'
  <2>1. parsed = {} /\ parsed' = {}
    BY <1>0, <1>1 DEF LoopInv, AskNameserver
  <2>2. Agreeing = {} /\ Agreeing' = {} /\ Lacking = {} /\ Lacking' = {}
    BY <2>1 DEF Agreeing, Lacking
  <2>3. TypeOK'
    BY <1>0, <1>1 DEF AskNameserver, TypeOK, poller, environment
  <2>4. LoopInv'
    BY <1>0, <1>1, <2>1, <2>2 DEF AskNameserver, LoopInv, poller
  <2>5. AnswersHold'
    <3>1. nsSerial[n] \in 0..MaxSerial /\ results \in [Nameservers -> (0..MaxSerial) \union {NoAnswer}]
      BY <1>0 DEF TypeOK
    <3>2. QED
      BY <1>0, <1>1, <3>1 DEF AskNameserver, AnswersHold, environment
  <2>6. RoundInv'
    BY <1>0, <1>1 DEF AskNameserver, RoundInv, poller, environment
  <2>7. QED
    BY <2>3, <2>4, <2>5, <2>6 DEF IInv
<1>2. ASSUME NEW n \in Nameservers, ParseResult(n) PROVE IInv'
  <2>1. TypeOK' /\ LoopInv'
    BY <1>0, <1>2, ParseStep
  <2>2. AnswersHold'
    BY <1>0, <1>2 DEF ParseResult, AnswersHold, environment
  <2>3. RoundInv'
    BY <1>0, <1>2 DEF ParseResult, RoundInv, poller, environment
  <2>4. QED
    BY <2>1, <2>2, <2>3 DEF IInv
<1>3. CASE CompareRound
  <2>1. TypeOK' /\ RoundInv'
    <3>1. attempt \in Nat /\ attempt < MaxRetries
      BY <1>0, <1>3 DEF CompareRound, RoundInv, TypeOK
    <3>2. asked = Nameservers
      BY <1>0, <1>3 DEF CompareRound, LoopInv, TypeOK
    <3>3. TypeOK'
      BY <1>0, <1>3, <3>1 DEF CompareRound, TypeOK, environment
    <3>4. RoundInv'
      BY <1>0, <1>3, <3>1, <3>2 DEF CompareRound, RoundInv, environment
    <3>5. QED
      BY <3>3, <3>4
  <2>2. LoopInv' /\ AnswersHold'
    BY <1>0, <1>3 DEF CompareRound, LoopInv, Agreeing, Lacking, AnswersHold,
                      environment
  <2>3. QED
    BY <2>1, <2>2 DEF IInv
<1>4. CASE NextRound
  <2>1. CASE pc' = "round" /\ attempt < MaxRetries /\ asked' = {} /\ parsed' = {}
             /\ tally' = NoTally
    <3>1. Agreeing' = {} /\ Lacking' = {} /\ Cardinality({}) = 0 /\ Total \in Nat
      BY <2>1, FS_EmptySet, PoolCardinality DEF Agreeing, Lacking
    <3>2. TypeOK'
      BY <1>0, <1>4, <2>1, <3>1 DEF NextRound, TypeOK, NoTally, poller,
                                    environment
    <3>3. LoopInv'
      BY <2>1, <3>1 DEF LoopInv, NoTally
    <3>4. AnswersHold' /\ RoundInv'
      BY <1>0, <1>4, <2>1 DEF NextRound, AnswersHold, RoundInv, poller,
                              environment
    <3>5. QED
      BY <3>2, <3>3, <3>4 DEF IInv
  <2>2. CASE /\ attempt = MaxRetries \/ ActionChanged
             /\ pc' = "judge"
             /\ UNCHANGED <<asked, parsed, tally>>
    <3>1. TypeOK'
      BY <1>0, <1>4, <2>2 DEF NextRound, TypeOK, poller, environment
    <3>2. LoopInv' /\ AnswersHold'
      BY <1>0, <1>4, <2>2 DEF NextRound, LoopInv, AnswersHold, Agreeing, Lacking,
                              poller, environment
    <3>3. RoundInv'
      BY <1>0, <1>4, <2>2 DEF NextRound, RoundInv, ActionChanged, poller,
                              environment
    <3>4. QED
      BY <3>1, <3>2, <3>3 DEF IInv
  <2>3. QED
    BY <1>4, <2>1, <2>2 DEF NextRound
<1>5. CASE Judge
  <2> DEFINE verdict == ThresholdMet(job.action, tally.positives,
                                     tally.noZones, Total)
  <2>1. verdict \in {"SUCCESS", "ERROR", "NO_ZONE"}
    BY DEF ThresholdMet
  <2>2. report' \in Report /\ report'.status = verdict
        /\ report'.serial = IF verdict = "SUCCESS" THEN tally.lowSerial
                                                   ELSE job.serial
    <3>1. /\ job.serial \in 0..MaxSerial /\ tally.lowSerial \in 0..MaxSerial
          /\ job.action \in {"CREATE", "UPDATE", "DELETE"}
      BY <1>0 DEF TypeOK, Job, Serials
    <3> HIDE DEF verdict
    <3>2. QED
      BY <1>5, <2>1, <3>1 DEF Judge, Report, verdict
  <2>3. TypeOK'
    BY <1>0, <1>5, <2>2 DEF Judge, TypeOK, environment
  <2>4. LoopInv' /\ AnswersHold'
    BY <1>0, <1>5 DEF Judge, LoopInv, Agreeing, Lacking, AnswersHold, environment
  <2>5. RoundInv'
    BY <1>0, <1>5, <2>2 DEF Judge, RoundInv, environment
  <2>6. QED
    BY <2>3, <2>4, <2>5 DEF IInv
<1>6. ASSUME NEW n \in Nameservers, Load(n) PROVE IInv'
  <2>1. TypeOK'
    BY <1>0, <1>6 DEF Load, TypeOK, Serials, poller
  <2>2. LoopInv' /\ RoundInv'
    BY <1>0, <1>6 DEF Load, LoopInv, RoundInv, Agreeing, Lacking, poller
  <2>3. AnswersHold'
    <3>1. \A m \in Nameservers : /\ nsSerial[m] \in Nat /\ nsSerial'[m] \in Nat
                                 /\ nsSerial'[m] >= nsSerial[m]
      BY <1>0, <1>6 DEF Load, TypeOK, Serials
    <3>2. \A m \in asked : m \in Nameservers
                           /\ results[m] \in (0..MaxSerial) \union {NoAnswer}
      BY <1>0 DEF TypeOK
    <3>3. QED
      BY <1>0, <1>6, <3>1, <3>2 DEF Load, AnswersHold, NoAnswer
  <2>4. QED
    BY <2>1, <2>2, <2>3 DEF IInv
<1>7. ASSUME NEW n \in Nameservers, Unload(n) PROVE IInv'
  <2>1. TypeOK'
    BY <1>0, <1>7 DEF Unload, TypeOK, poller
  <2>2. LoopInv' /\ RoundInv' /\ AnswersHold'
    BY <1>0, <1>7 DEF Unload, LoopInv, RoundInv, Agreeing, Lacking, AnswersHold,
                      poller
  <2>3. QED
    BY <2>1, <2>2 DEF IInv
<1>8. CASE ChangeRow
  <2>1. TypeOK'
    BY <1>0, <1>8 DEF ChangeRow, TypeOK, poller
  <2>2. LoopInv' /\ RoundInv' /\ AnswersHold'
    BY <1>0, <1>8 DEF ChangeRow, LoopInv, RoundInv, Agreeing, Lacking,
                      AnswersHold, poller, TypeOK
  <2>3. QED
    BY <2>1, <2>2 DEF IInv
<1>9. CASE UNCHANGED vars
  BY <1>0, <1>9 DEF IInv, TypeOK, LoopInv, AnswersHold, RoundInv, Agreeing,
                    Lacking, vars, poller, environment
<1>10. QED
  BY <1>1, <1>2, <1>3, <1>4, <1>5, <1>6, <1>7, <1>8, <1>9 DEF Next

\* The inductive invariant of the poller and its loop.
THEOREM Inductive == Spec => []IInv
BY InitIInv, NextIInv, PTL DEF Spec

\* The poller and its counters have their types: they count one round only.
THEOREM TypeCorrect == Spec => []TypeOK
<1>1. IInv => TypeOK
  BY DEF IInv
<1>2. QED
  BY <1>1, Inductive, PTL

\* When the poller is done, all answers are counted.
LEMMA AllCounted ==
    ASSUME IInv, pc = "done"
    PROVE  /\ Agreeing = Positive /\ Lacking = NoZone
           /\ tally.positives = Cardinality(Positive)
           /\ tally.noZones = Cardinality(NoZone)
           /\ asked = Nameservers
BY DEF IInv, LoopInv, RoundInv, Agreeing, Lacking, Positive, NoZone

\* The loop computes the verdict on the answers of the last round.
THEOREM LoopComputesVerdict == Spec => []VerdictOfLastRound
<1>1. IInv => VerdictOfLastRound
  <2> SUFFICES ASSUME IInv, pc = "done"
               PROVE  report.status = ThresholdMet(job.action,
                                         Cardinality(Positive),
                                         Cardinality(NoZone), Total)
    BY DEF VerdictOfLastRound
  <2>1. QED
    BY AllCounted DEF IInv, RoundInv
<1>2. QED
  BY <1>1, Inductive, PTL

\* What is reported as a success is true when it is reported, for every pool,
\* threshold and order of the answers.
THEOREM SuccessHolds == Spec => []SuccessStillHolds
<1>1. IInv => SuccessStillHolds
  <2> SUFFICES ASSUME IInv, pc = "done", report.status = "SUCCESS",
                      job.action # "DELETE"
               PROVE  /\ report.serial = 0 \/ report.serial >= job.serial
                      /\ unloaded \/ CompareThreshold(
                            Cardinality({n \in Nameservers :
                                            nsSerial[n] >= report.serial}), Total)
    BY DEF SuccessStillHolds
  <2>1. report.serial = tally.lowSerial /\ tally.lowSerial \in Nat
    BY DEF IInv, RoundInv, TypeOK
  <2>2. CompareThreshold(Cardinality(Positive), Total)
    BY AllCounted DEF IInv, RoundInv, ThresholdMet
  <2>3. ASSUME ~unloaded
        PROVE  Positive \subseteq {n \in Nameservers : nsSerial[n] >= report.serial}
    <3> SUFFICES ASSUME NEW n \in Positive PROVE nsSerial[n] >= report.serial
      BY DEF Positive
    <3>1. n \in asked /\ n \in Agreeing /\ results[n] # NoAnswer
      BY AllCounted DEF Positive, CountsPositive
    <3>2. results[n] <= nsSerial[n] /\ tally.lowSerial <= results[n]
      BY <2>3, <3>1 DEF IInv, AnswersHold, LoopInv
    <3>3. results[n] \in Nat /\ nsSerial[n] \in Nat
      BY <3>1 DEF IInv, TypeOK, Positive
    <3>4. QED
      BY <2>1, <3>2, <3>3
  <2>4. QED
    <3>1. {n \in Nameservers : nsSerial[n] >= report.serial} \in SUBSET Nameservers
      OBVIOUS
    <3>2. QED
      BY <2>1, <2>2, <2>3, <3>1, PoolCardinality, ThresholdMonotone
         DEF IInv, LoopInv
<1>2. QED
  BY <1>1, Inductive, PTL

\* Positive answers and missing zones do not overlap, so that enough of the ones
\* rule out too many of the others.
LEMMA PositivesExcludeNoZone ==
    ASSUME TypeOK, job.action # "DELETE",
           CompareThreshold(Cardinality(Positive), Total)
    PROVE  CompareThreshold(Total - Cardinality(NoZone), Total)
<1>1. Positive \intersect NoZone = {}
  <2>1. job.serial \in Int
    BY DEF TypeOK, Job, Serials
  <2>2. QED
    BY <2>1 DEF Positive, NoZone, CountsPositive, CountsNoZone, NoZoneAnswer
<1>2. Positive \in SUBSET Nameservers /\ NoZone \in SUBSET Nameservers
  BY DEF Positive, NoZone
<1>3. Cardinality(Positive) + Cardinality(NoZone) <= Total
  <2>1. Cardinality(Positive \union NoZone)
           = Cardinality(Positive) + Cardinality(NoZone)
             - Cardinality(Positive \intersect NoZone)
    BY <1>2, PoolCardinality, FS_Union
  <2>2. Positive \union NoZone \in SUBSET Nameservers
    BY <1>2
  <2>3. QED
    BY <1>1, <1>2, <2>1, <2>2, PoolCardinality, FS_EmptySet
<1>4. QED
  BY <1>2, <1>3, PoolCardinality, ThresholdMonotone

\* A failure is reported only when the last round failed and no other was of use.
THEOREM FailuresAreFinal == Spec => []FailureIsFinal
<1>1. IInv => FailureIsFinal
  <2> SUFFICES ASSUME IInv, pc = "done", report.status # "SUCCESS"
               PROVE  /\ ~CompareThreshold(Cardinality(Positive), Total)
                      /\ attempt = MaxRetries \/ (settled /\ job.action # "DELETE")
    BY DEF FailureIsFinal
  <2>1. report.status = ThresholdMet(job.action, Cardinality(Positive),
                                     Cardinality(NoZone), Total)
    BY AllCounted DEF IInv, RoundInv
  <2>2. ~CompareThreshold(Cardinality(Positive), Total)
    BY <2>1, PositivesExcludeNoZone DEF ThresholdMet, IInv
  <2>3. QED
    BY <2>2, AllCounted DEF IInv, RoundInv
<1>2. QED
  BY <1>1, Inductive, PTL

=============================================================================
