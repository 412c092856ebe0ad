----------------------------- MODULE WorkerPools -----------------------------
(***************************************************************************)
(* The pools a worker knows: it asks central for a pool at the first job   *)
(* for a zone of it, as often as it takes, and keeps what it is told until *)
(* it is restarted.  A job that waits for its pool keeps its thread of the *)
(* RPC server; the targets of a pool may be changed at any time.           *)
(***************************************************************************)
EXTENDS Naturals, FiniteSets, FiniteSetsExt

CONSTANTS
    Pools,
    PoolWorkers,
    PoolThreads,    \* threads of the RPC server of each worker
    MaxPoolJobs,
    MaxPoolChanges  \* changes of a pool, jobs that fail, restarts of a worker

ASSUME PoolsAssumption ==
    /\ PoolThreads \in Nat \ {0}
    /\ MaxPoolJobs \in Nat /\ MaxPoolChanges \in Nat

VARIABLES
    targets,        \* of each pool, in central: which set of them; 0 for none, or no pool
    pools_map,      \* what each worker keeps of it; 0 for nothing
    thread,         \* what each thread of each worker does
    waiting,        \* how many jobs of each pool wait for a thread
    asked,          \* how many there were
    changes

poolVars == <<targets, pools_map, thread, waiting, asked, changes>>

Threads == 1..PoolThreads
Free == [at |-> "free"]
At(step, p, got) == [at |-> step, pool |-> p, got |-> got]

GoTo(w, t, next) == thread' = [thread EXCEPT ![w][t] = next]
PoolChange == changes < MaxPoolChanges /\ changes' = changes + 1

\* Central casts create_zone, update_zone or delete_zone.
AskFor(p) ==
    /\ asked < MaxPoolJobs
    /\ asked' = asked + 1
    /\ waiting' = [waiting EXCEPT ![p] = @ + 1]
    /\ UNCHANGED <<targets, pools_map, thread, changes>>

\* get_pool: is it there already?
TakeJob(w, t, p) ==
    /\ thread[w][t] = Free /\ waiting[p] > 0
    /\ waiting' = [waiting EXCEPT ![p] = @ - 1]
    /\ GoTo(w, t, At(IF pools_map[w][p] = 0 THEN "load" ELSE "act", p, pools_map[w][p]))
    /\ UNCHANGED <<targets, pools_map, asked, changes>>

\* load_pool, the last turn of its loop: the pool is known and has targets.
LoadPool(w, t) ==
    /\ thread[w][t].at = "load"
    /\ targets[thread[w][t].pool] # 0
    /\ GoTo(w, t, At("keep", thread[w][t].pool, targets[thread[w][t].pool]))
    /\ UNCHANGED <<targets, pools_map, waiting, asked, changes>>

\* Over what another thread may have kept meanwhile.
KeepPool(w, t) ==
    /\ thread[w][t].at = "keep"
    /\ pools_map' = [pools_map EXCEPT ![w][thread[w][t].pool] = thread[w][t].got]
    /\ GoTo(w, t, [thread[w][t] EXCEPT !.at = "act"])
    /\ UNCHANGED <<targets, waiting, asked, changes>>

\* The zone action, with what is kept.
ActOnPool(w, t) ==
    /\ thread[w][t].at = "act"
    /\ GoTo(w, t, Free)
    /\ UNCHANGED <<targets, pools_map, waiting, asked, changes>>

\* Any other answer of central, or a target whose driver cannot be had.
FailToLoad(w, t) ==
    /\ thread[w][t].at \in {"load", "keep"}
    /\ GoTo(w, t, Free) /\ PoolChange
    /\ UNCHANGED <<targets, pools_map, waiting, asked>>

\* designate-manage pool update
ChangeTargets(p, to) ==
    /\ targets[p] # to
    /\ targets' = [targets EXCEPT ![p] = to]
    /\ PoolChange
    /\ UNCHANGED <<pools_map, thread, waiting, asked>>

\* The jobs it had taken are lost.
RestartWorker(w) ==
    /\ PoolChange
    /\ pools_map' = [pools_map EXCEPT ![w] = [p \in Pools |-> 0]]
    /\ thread' = [thread EXCEPT ![w] = [t \in Threads |-> Free]]
    /\ UNCHANGED <<targets, waiting, asked>>

-----------------------------------------------------------------------------

PoolsInit ==
    /\ targets \in [Pools -> {0, 1}]
    /\ pools_map = [w \in PoolWorkers |-> [p \in Pools |-> 0]]
    /\ thread = [w \in PoolWorkers |-> [t \in Threads |-> Free]]
    /\ waiting = [p \in Pools |-> 0]
    /\ asked = 0 /\ changes = 0

TakeAnyJob(w) == \E t \in Threads, p \in Pools : TakeJob(w, t, p)

GoOnWith(w, t) == LoadPool(w, t) \/ KeepPool(w, t) \/ ActOnPool(w, t)

PoolsNext ==
    \/ \E p \in Pools : AskFor(p) \/ \E to \in 0..2 : ChangeTargets(p, to)
    \/ \E w \in PoolWorkers :
          \/ TakeAnyJob(w) \/ RestartWorker(w)
          \/ \E t \in Threads : GoOnWith(w, t) \/ FailToLoad(w, t)

\* The server takes a message while it has a thread, and every thread goes on.
PoolsFairness ==
    \A w \in PoolWorkers :
        /\ WF_poolVars(TakeAnyJob(w))
        /\ \A t \in Threads : WF_poolVars(GoOnWith(w, t))

PoolsTypeOK ==
    /\ targets \in [Pools -> 0..2]
    /\ pools_map \in [PoolWorkers -> [Pools -> 0..2]]
    /\ \A w \in PoolWorkers, t \in Threads :
          thread[w][t] = Free
          \/ thread[w][t] \in [at : {"load", "keep", "act"}, pool : Pools, got : 0..2]
    /\ waiting \in [Pools -> 0..MaxPoolJobs]
    /\ asked \in 0..MaxPoolJobs /\ changes \in 0..MaxPoolChanges

-----------------------------------------------------------------------------

\* The threads that do a job of pool p.
Having(p) ==
    { at \in PoolWorkers \X Threads :
        thread[at[1]][at[2]] # Free /\ thread[at[1]][at[2]].pool = p }

JobsOf(p) == waiting[p] + Cardinality(Having(p))

\* The jobs of pools that central cannot tell of would not take all threads of a
\* worker, even if a worker has kept one of them.
FewInVain == MapThenSumSet(JobsOf, {p \in Pools : targets[p] = 0}) < PoolThreads

(* In the end a pool that has targets has no job left that waits or goes   *)
(* on, also while jobs of another one wait for it to have some, as long as *)
(* they leave a thread of each worker.                                     *)
PoolsAreServed ==
    <>[](FewInVain => \A p \in Pools : targets[p] # 0 => JobsOf(p) = 0)

=============================================================================
