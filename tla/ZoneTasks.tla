------------------------------ MODULE ZoneTasks ------------------------------
(***************************************************************************)
(* The imports and exports of one zone.  A task is a row, made PENDING by  *)
(* a call, and work that goes on without the caller: a thread of central   *)
(* for an import, a cast to a worker for an export.  Nobody takes up work  *)
(* that is lost; a row may be deleted while its work goes on.              *)
(***************************************************************************)
EXTENDS Naturals, FiniteSets

CONSTANTS
    ImportIds, ExportIds,
    OwnerLimit,     \* api_export_size of the zone's tenant
    ExporterLimit,  \* and of the tenant who exports it
    MaxRRSets,      \* bound of the zone's record sets
    MaxTaskUpsets   \* work lost, and creations that fail

ASSUME ZoneTasksAssumption ==
    /\ ImportIds \intersect ExportIds = {}
    /\ {OwnerLimit, ExporterLimit, MaxTaskUpsets} \subseteq Nat
    /\ MaxRRSets \in Nat \ {0}

VARIABLES
    target,         \* the zone, with its record sets and how often it was made
    task,           \* the rows of zone_tasks
    work,           \* what is under way for each
    task_upsets

taskVars == <<target, task, work, task_upsets>>

TaskIds == ImportIds \union ExportIds
NoTask == [status |-> "none", life |-> 0]

TaskUpset == task_upsets < MaxTaskUpsets /\ task_upsets' = task_upsets + 1

Turn(t, to) == work' = [work EXCEPT ![t] = to]

\* The outcome, to be stored next; life: of the zone it is about.
Outcome(t, status, life) == Turn(t, [at |-> "end", status |-> status, life |-> life])

-----------------------------------------------------------------------------

\* create_zone_import, after the scheduler has found a pool.
CreateImport(t) ==
    /\ work[t].at = "none"
    /\ task' = [task EXCEPT ![t].status = "PENDING"]
    /\ Turn(t, [at |-> "parse"])
    /\ UNCHANGED <<target, task_upsets>>

\* _import_zone: the text is a zone's, or is not.
ParseImport(t) ==
    /\ work[t].at = "parse"
    /\ Turn(t, [at |-> "create"]) \/ Outcome(t, "ERROR", 0)
    /\ UNCHANGED <<target, task, task_upsets>>

\* create_zone: it may be over a quota, or fail after it has stored the zone.
CreateImported(t) ==
    /\ work[t].at = "create"
    /\ IF target.there
       THEN Outcome(t, "ERROR", 0) /\ UNCHANGED <<target, task_upsets>>
       ELSE \/ /\ \E n \in 1..MaxRRSets :
                     target' = [there |-> TRUE, rrsets |-> n, life |-> target.life + 1]
               /\ \/ Outcome(t, "COMPLETE", target.life + 1) /\ UNCHANGED task_upsets
                  \/ Outcome(t, "ERROR", 0) /\ TaskUpset
            \/ Outcome(t, "ERROR", 0) /\ TaskUpset /\ UNCHANGED target
    /\ UNCHANGED task

\* create_zone_export: the quota is the one of the zone's tenant.
CreateExport(t) ==
    /\ work[t].at = "none"
    /\ target.there /\ target.rrsets <= OwnerLimit
    /\ task' = [task EXCEPT ![t].status = "PENDING"]
    /\ Turn(t, [at |-> "cast", life |-> target.life])
    /\ UNCHANGED <<target, task_upsets>>

\* ExportZone: the quota is the one of the caller; a zone that has been deleted
\* counts none.
DetermineExport(t) ==
    LET size == IF target.there /\ target.life = work[t].life THEN target.rrsets ELSE 0
    IN  /\ work[t].at = "cast"
        /\ Outcome(t, IF size <= ExporterLimit THEN "COMPLETE" ELSE "ERROR", work[t].life)
        /\ UNCHANGED <<target, task, task_upsets>>

\* update_zone_import and update_zone_export: NotFound if the row is gone.
StoreOutcome(t) ==
    /\ work[t].at = "end"
    /\ task' = IF task[t].status = "none" THEN task
               ELSE [task EXCEPT ![t] = [status |-> work[t].status, life |-> work[t].life]]
    /\ Turn(t, [at |-> "done"])
    /\ UNCHANGED <<target, task_upsets>>

DeleteTask(t) ==
    /\ task[t].status # "none"
    /\ task' = [task EXCEPT ![t] = NoTask]
    /\ UNCHANGED <<target, work, task_upsets>>

-----------------------------------------------------------------------------

\* central dies with the threads of its imports.
CrashImports ==
    /\ \E t \in ImportIds : work[t].at \notin {"none", "done", "lost"}
    /\ TaskUpset
    /\ work' = [t \in TaskIds |-> IF t \in ExportIds \/ work[t].at \in {"none", "done"}
                                  THEN work[t] ELSE [at |-> "lost"]]
    /\ UNCHANGED <<target, task>>

\* The cast, the worker, or its call of central.
LoseExport(t) ==
    /\ work[t].at \in {"cast", "end"}
    /\ TaskUpset
    /\ Turn(t, [at |-> "lost"])
    /\ UNCHANGED <<target, task>>

\* Other calls to central, on the zone; only imports make it again, a bound.
ChangeTarget ==
    /\ target' \in
           IF target.there
           THEN {[target EXCEPT !.rrsets = n] : n \in 1..MaxRRSets \ {target.rrsets}}
                \union {[target EXCEPT !.there = FALSE]}
           ELSE IF target.life > 0 THEN {} ELSE {[there |-> TRUE, rrsets |-> 1, life |-> 1]}
    /\ UNCHANGED <<task, work, task_upsets>>

ZoneTasksInit ==
    /\ target = [there |-> FALSE, rrsets |-> 1, life |-> 0]
    /\ task = [t \in TaskIds |-> NoTask]
    /\ work = [t \in TaskIds |-> [at |-> "none"]]
    /\ task_upsets = 0

DoWork(t) ==
    \/ ParseImport(t) \/ CreateImported(t) \/ DetermineExport(t) \/ StoreOutcome(t)

ZoneTasksNext ==
    \/ \E t \in ImportIds : CreateImport(t)
    \/ \E t \in ExportIds : CreateExport(t) \/ LoseExport(t)
    \/ \E t \in TaskIds : DoWork(t) \/ DeleteTask(t)
    \/ CrashImports \/ ChangeTarget

\* A thread and a worker go on with what they have.
ZoneTasksFairness == \A t \in TaskIds : WF_taskVars(DoWork(t))

ZoneTasksTypeOK ==
    /\ target.rrsets \in 1..MaxRRSets /\ target.life \in Nat
    /\ \A t \in TaskIds : /\ task[t].status \in {"none", "PENDING", "COMPLETE", "ERROR"}
                          /\ task[t].life \in 0..target.life
    /\ task_upsets \in 0..MaxTaskUpsets

(* Of imports that race for one zone, or for one that was deleted and made *)
(* again, no two are shown as the origin of the same zone.                 *)
OriginsDiffer ==
    \A t, u \in ImportIds :
        t # u /\ task[t].status = "COMPLETE" => task[t].life # task[u].life

(* A task whose work is not lost does not stay PENDING, whatever happens   *)
(* to its zone and its row meanwhile.                                      *)
ZoneTasksEnd ==
    <>[](\A t \in TaskIds : task[t].status = "PENDING" => work[t].at = "lost")

=============================================================================
