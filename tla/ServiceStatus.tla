---------------------------- MODULE ServiceStatus ----------------------------
(***************************************************************************)
(* The status of one service on one host: its heartbeats, which central    *)
(* stores in a row; the producer's task that marks a service without       *)
(* heartbeats as DOWN; and the one that deletes the rows of services that  *)
(* have stopped or are long DOWN.  A call to central is two statements     *)
(* without a transaction; the tasks decide on rows they have read before.  *)
(***************************************************************************)
EXTENDS Integers

CONSTANTS
    MaxStarts,      \* how often the service is started again
    MaxLosses       \* of calls

ASSUME StatusAssumption == MaxStarts \in Nat /\ MaxLosses \in Nat

VARIABLES
    running,        \* does the service run?
    row,            \* its row in service_statuses
    update,         \* the calls of update_service_status, by who makes them
    cleaner,        \* the call of delete_service_status
    starts, losses

statusVars == <<running, row, update, cleaner, starts, losses>>

\* The heartbeats, the last word of a service that is stopped, and the monitor.
Updaters == {"beat", "stop", "check"}

\* heartbeated_at: within the threshold of the monitor, of the cleanup, or neither.
Ages == {"fresh", "stale", "expired"}
Older(age) == IF age = "fresh" THEN "stale" ELSE "expired"

NoStatus == [there |-> FALSE]
StatusRow(status, age) == [there |-> TRUE, status |-> status, age |-> age]

\* same: the row that was read has not been deleted since.
NoUpdate == [at |-> "idle"]
Sent(status, age) == [at |-> "sent", status |-> status, age |-> age, same |-> TRUE]

Step(who, at) == update' = [update EXCEPT ![who].at = at]
Return(who) == update' = [update EXCEPT ![who] = NoUpdate]

-----------------------------------------------------------------------------
(* The service.                                                            *)

\* _emit_heartbeat
Beat ==
    /\ running /\ update["beat"] = NoUpdate
    /\ update' = [update EXCEPT !["beat"] = Sent("UP", "fresh")]
    /\ UNCHANGED <<running, row, cleaner, starts, losses>>

\* HeartbeatEmitter.stop; a heartbeat may still be on its way.
Stop ==
    /\ running /\ update["stop"] = NoUpdate
    /\ running' = FALSE
    /\ update' = [update EXCEPT !["stop"] = Sent("STOPPED", "fresh")]
    /\ UNCHANGED <<row, cleaner, starts, losses>>

CrashService ==
    /\ running
    /\ running' = FALSE
    /\ UNCHANGED <<row, update, cleaner, starts, losses>>

Start ==
    /\ ~running
    /\ starts < MaxStarts
    /\ running' = TRUE /\ starts' = starts + 1
    /\ UNCHANGED <<row, update, cleaner, losses>>

-----------------------------------------------------------------------------
(* update_service_status                                                   *)

\* By the name of the service and the host; the monitor's object has an id too.
Found(who) == row.there /\ (who = "check" => update[who].same)

Find(who) ==
    /\ update[who].at = "sent"
    /\ IF Found(who) THEN update' = [update EXCEPT ![who].at = "found", ![who].same = TRUE]
       ELSE Step(who, "create")
    /\ UNCHANGED <<running, row, cleaner, starts, losses>>

\* The monitor writes its verdict alone.
WriteVerdict(who) ==
    /\ update[who].at = "found"
    /\ IF row.there /\ update[who].same
       THEN /\ row' = StatusRow(update[who].status,
                                IF who = "check" THEN row.age ELSE update[who].age)
            /\ Return(who)
       ELSE Step(who, "create") /\ UNCHANGED row
    /\ UNCHANGED <<running, cleaner, starts, losses>>

\* All fields are written, a heartbeated_at that is out of date too.
Write(who) ==
    /\ update[who].at = "found"
    /\ IF row.there /\ update[who].same
       THEN row' = StatusRow(update[who].status, update[who].age) /\ Return(who)
       ELSE Step(who, "create") /\ UNCHANGED row
    /\ UNCHANGED <<running, cleaner, starts, losses>>

\* DuplicateServiceStatus ends the call.
Create(who) ==
    /\ update[who].at = "create"
    /\ row' = IF row.there THEN row ELSE StatusRow(update[who].status, update[who].age)
    /\ Return(who)
    /\ UNCHANGED <<running, cleaner, starts, losses>>

\* The call is lost; the emitter goes on all the same.
Lose(who) ==
    /\ update[who] # NoUpdate
    /\ losses < MaxLosses
    /\ losses' = losses + 1
    /\ Return(who)
    /\ UNCHANGED <<running, row, cleaner, starts>>

-----------------------------------------------------------------------------
(* PeriodicCheckServiceStatusTask                                          *)

ReadUp ==
    /\ update["check"] = NoUpdate
    /\ row.there /\ row.status = "UP"
    /\ update' = [update EXCEPT !["check"] = [Sent("UP", row.age) EXCEPT !.at = "read"]]
    /\ UNCHANGED <<running, row, cleaner, starts, losses>>

MarkDown ==
    LET check == update["check"]
    IN  /\ check.at = "read"
        /\ update' = [update EXCEPT !["check"] =
                IF check.age = "fresh" THEN NoUpdate
                ELSE [check EXCEPT !.at = "sent", !.status = "DOWN"]]
        /\ UNCHANGED <<running, row, cleaner, starts, losses>>

-----------------------------------------------------------------------------
(* PeriodicCleanupStoppedServiceStatusTask, and delete_service_status.     *)

ReadStopped ==
    /\ cleaner = NoUpdate
    /\ row.there
    /\ row.status = "STOPPED" \/ (row.status = "DOWN" /\ row.age = "expired")
    /\ cleaner' = Sent(row.status, row.age)
    /\ UNCHANGED <<running, row, update, starts, losses>>

\* Whatever the status of the row is by now; every other copy of it is of a row
\* that is no more.
DeleteStatus ==
    /\ cleaner.at = "sent"
    /\ cleaner' = NoUpdate
    /\ IF row.there /\ cleaner.same
       THEN /\ row' = NoStatus
            /\ update' = [who \in Updaters |-> IF update[who] = NoUpdate THEN NoUpdate
                                               ELSE [update[who] EXCEPT !.same = FALSE]]
       ELSE UNCHANGED <<row, update>>
    /\ UNCHANGED <<running, starts, losses>>

\* Time passes, for the row and for every copy of it.
Age ==
    /\ row.there
    /\ row' = [row EXCEPT !.age = Older(@)]
    /\ update' = [who \in Updaters |-> IF update[who] = NoUpdate THEN NoUpdate
                                       ELSE [update[who] EXCEPT !.age = Older(@)]]
    /\ UNCHANGED <<running, cleaner, starts, losses>>

-----------------------------------------------------------------------------

StatusInit ==
    /\ running = TRUE
    /\ row = NoStatus
    /\ update = [who \in Updaters |-> NoUpdate]
    /\ cleaner = NoUpdate
    /\ starts = 0 /\ losses = 0

Handle(who) == Find(who) \/ Write(who) \/ Create(who)

StatusNext ==
    \/ Beat \/ Stop \/ CrashService \/ Start
    \/ \E who \in Updaters : Handle(who) \/ Lose(who)
    \/ ReadUp \/ MarkDown \/ ReadStopped \/ DeleteStatus \/ Age

\* The emitter and the two tasks are periodic, and central does what it is called for.
StatusFairness ==
    /\ WF_statusVars(Beat \/ Handle("beat")) /\ WF_statusVars(Handle("stop"))
    /\ WF_statusVars(ReadUp \/ MarkDown \/ Handle("check"))
    /\ WF_statusVars(ReadStopped \/ DeleteStatus)
    /\ WF_statusVars(Age)

StatusSpec == StatusInit /\ [][StatusNext]_statusVars /\ StatusFairness

-----------------------------------------------------------------------------

StatusTypeOK ==
    /\ row = NoStatus \/ row \in [there : {TRUE}, status : {"UP", "DOWN", "STOPPED"}, age : Ages]
    /\ \A who \in Updaters : update[who].at \in {"idle", "read", "sent", "found", "create"}
    /\ starts \in 0..MaxStarts /\ losses \in 0..MaxLosses

(* A service is shown as DOWN only with a heartbeat that is out of date:   *)
(* who reads both sees no contradiction, also when a heartbeat has come    *)
(* since the monitor read the row, or the row was deleted meanwhile.       *)
DownMeansNoBeat == row.there /\ row.status = "DOWN" => row.age # "fresh"

(* A service that keeps running is shown as UP again and again, whatever   *)
(* rows the monitor and the cleanup write and delete from stale copies;    *)
(* and one that is gone for good has no row in the end, even if a late     *)
(* heartbeat or a stale copy of the row brings the row back.               *)
StatusSettles ==
    /\ <>[]running => []<>(row.there /\ row.status = "UP")
    /\ <>[](~running) => <>[](~row.there)

=============================================================================
