---------------------------- MODULE WorkerExecutor ----------------------------
(***************************************************************************)
(* The executor of a designate-worker: one bounded pool of threads for all *)
(* tasks of the process.  The handler of an RPC message gives its task to  *)
(* the pool and waits for it; a ZoneAction, which runs on a thread of the  *)
(* pool, gives its own tasks (an action per target, then a query per       *)
(* nameserver and round) to the same pool and waits for them, keeping its  *)
(* thread.  Threads that wait for work that no thread is left to do would  *)
(* wait for ever.                                                          *)
(***************************************************************************)
EXTENDS Naturals, Sequences, FiniteSets

CONSTANTS
    Messages,       \* RPC messages on their way, used again when answered
    NumHandlers,    \* threads of the RPC server
    Threads,        \* threads of the pool, service:worker threads
    NumTargets,     \* targets of the pool of nameservers
    NumNameservers, \* its nameservers
    NumAlsoNotify,  \* its also_notifies
    MaxRetries,     \* service:worker poll_max_retries
    NoTask,
    Abandoned       \* a task whose result nobody waits for any more

\* Nothing in the code relates the two numbers of threads; the defaults are 64
\* (oslo.messaging) and 200.
ASSUME ExecutorAssumption ==
    /\ IsFiniteSet(Messages)
    /\ IsFiniteSet(Threads)
    /\ NumHandlers \in Nat
    /\ NumHandlers < Cardinality(Threads)
    /\ NumTargets \in Nat
    /\ NumNameservers \in Nat
    /\ NumAlsoNotify \in Nat
    /\ MaxRetries \in Nat \ {0}

VARIABLES
    message,        \* what the handler of each message is waiting for
    action,         \* where the ZoneAction for a message is, and its poll rounds
    queue,          \* the pool's queue
    running,        \* the task each thread of the pool has taken
    unfinished,     \* tasks whose futures have no result yet
    raised          \* tasks whose futures hold an exception nobody has met yet

vars == <<message, action, queue, running, unfinished, raised>>

-----------------------------------------------------------------------------
(* Tasks.                                                                  *)

Items == 1..(1 + NumTargets + NumNameservers + NumAlsoNotify)

Task == [owner : Messages, item : Items,
         kind : {"action", "target", "poll", "notify", "single"}]

ASSUME NoTaskAssumption ==
    NoTask \notin Task /\ Abandoned \notin Task /\ NoTask # Abandoned

Tasks(m, kind, n) == [i \in 1..n |-> [owner |-> m, item |-> i, kind |-> kind]]

\* Executor.run up to the point where it waits: map submits every task at once.
Submit(m, kind, n) ==
    /\ queue' = queue \o Tasks(m, kind, n)
    /\ unfinished' = unfinished \union {Tasks(m, kind, n)[i] : i \in 1..n}

Of(task, m, kind) == task.owner = m /\ task.kind = kind

\* ... it ends with the results of all tasks,
Returned(m, kind) == \A task \in unfinished \union raised : ~Of(task, m, kind)

\* or with the first exception, in the order of the tasks,
Raised(m, kind) ==
    \E task \in raised :
       /\ Of(task, m, kind)
       /\ \A other \in unfinished : Of(other, m, kind) => other.item > task.item

\* which cancels the futures still in the queue and leaves running tasks alone.
Forsake(x, m, kind) ==
    IF x \in unfinished /\ Of(x, m, kind) THEN Abandoned ELSE x

Cancel(m, kind) == queue' = [i \in DOMAIN queue |-> Forsake(queue[i], m, kind)]

Without(tasks, m, kind) == {task \in tasks : ~Of(task, m, kind)}

-----------------------------------------------------------------------------
(* The RPC handlers.                                                       *)

\* DEFECT: the message is answered before its task is done, and the thread is free
\* for the next message.
HandlerFreeAtOnce == TRUE

\* A handler deals with one message and then waits for the results.
HandlerFree ==
    Cardinality({m \in Messages : message[m] # "idle"}) < NumHandlers

\* create_zone, update_zone and delete_zone: _do_zone_action up to its first wait.
TakeZoneAction(m) ==
    /\ message[m] = "idle"
    /\ HandlerFree
    /\ message' = [message EXCEPT ![m] = "action"]
    /\ action' = [action EXCEPT ![m] = [step |-> "new", round |-> 0]]
    /\ Submit(m, "action", 1)
    /\ UNCHANGED <<running, raised>>

\* recover_shard, start_zone_export, perform_zone_xfr and get_serial_number.
TakeSingleTask(m) ==
    /\ message[m] = "idle"
    /\ HandlerFree
    /\ message' = [message EXCEPT ![m] = "single"]
    /\ Submit(m, "single", 1)
    /\ UNCHANGED <<action, running, raised>>

\* The rest of _do_zone_action: a NOTIFY to each of the also_notifies.
SendAlsoNotifies(m) ==
    /\ message[m] = "action"
    /\ Returned(m, "action")
    /\ message' = [message EXCEPT ![m] = "notify"]
    /\ Submit(m, "notify", NumAlsoNotify)
    /\ UNCHANGED <<action, running, raised>>

Reply(m) ==
    /\ message[m] \in {"notify", "single"}
    /\ Returned(m, message[m])
    /\ message' = [message EXCEPT ![m] = "idle"]
    /\ UNCHANGED <<action, queue, running, unfinished, raised>>

\* An exception of the tasks ends the handler: that of the ZoneAction, which goes
\* without its also_notifies, or that of a NOTIFY which timed out.
ReplyWithException(m) ==
    /\ message[m] # "idle"
    /\ Raised(m, message[m])
    /\ message' = [message EXCEPT ![m] = "idle"]
    /\ Cancel(m, message[m])
    /\ unfinished' = Without(unfinished, m, message[m])
    /\ raised' = Without(raised, m, message[m])
    /\ running' = [t \in Threads |-> Forsake(running[t], m, message[m])]
    /\ UNCHANGED action

-----------------------------------------------------------------------------
(* The threads of the pool.                                                *)

\* A future that was cancelled is skipped.
TakeTask(t) ==
    /\ running[t] = NoTask
    /\ queue # <<>>
    /\ running' = [running EXCEPT
          ![t] = IF Head(queue) = Abandoned THEN NoTask ELSE Head(queue)]
    /\ queue' = Tail(queue)
    /\ UNCHANGED <<message, action, unfinished, raised>>

Runs(t, kinds) ==
    running[t] \notin {NoTask, Abandoned} /\ running[t].kind \in kinds

\* DEFECT: a task that raises BadAction ends without a result.
FinishTaskSilently(t) ==
    /\ running[t] = Abandoned \/ Runs(t, {"target", "poll", "notify", "single"})
    /\ running' = [running EXCEPT ![t] = NoTask]
    /\ \/ unfinished' = unfinished \ {running[t]}
       \/ unfinished' = unfinished
    /\ UNCHANGED <<message, action, queue, raised>>

\* Executor.do: with a result, which is None after a BadAction.
FinishTask(t) ==
    /\ running[t] = Abandoned \/ Runs(t, {"target", "poll", "notify", "single"})
    /\ running' = [running EXCEPT ![t] = NoTask]
    /\ unfinished' = unfinished \ {running[t]}
    /\ UNCHANGED <<message, action, queue, raised>>

\* Executor.do: with any other exception, of the database, of central or of a
\* NOTIFY.  A poll catches them all.
RaiseFromTask(t) ==
    /\ Runs(t, {"target", "notify", "single"})
    /\ running' = [running EXCEPT ![t] = NoTask]
    /\ unfinished' = unfinished \ {running[t]}
    /\ raised' = raised \union {running[t]}
    /\ UNCHANGED <<message, action, queue>>

\* ZoneActor._execute
ActOnTargets(t) ==
    LET m == running[t].owner
    IN  /\ Runs(t, {"action"})
        /\ action[m].step = "new"
        /\ action' = [action EXCEPT ![m].step = "targets"]
        /\ Submit(m, "target", NumTargets)
        /\ UNCHANGED <<message, running, raised>>

\* DEFECT: the rounds are not counted.
PollNameserversForever(t) ==
    LET m == running[t].owner
    IN  /\ Runs(t, {"action"})
        /\ action[m].step \in {"targets", "polls"}
        /\ Returned(m, "target") /\ Returned(m, "poll")
        /\ action' = [action EXCEPT ![m].step = "polls"]
        /\ Submit(m, "poll", NumNameservers)
        /\ UNCHANGED <<message, running, raised>>

\* DEFECT: one round more than the configuration says.
PollNameserversOnceMore(t) ==
    LET m == running[t].owner
    IN  /\ Runs(t, {"action"})
        /\ action[m].step \in {"targets", "polls"}
        /\ Returned(m, "target") /\ Returned(m, "poll")
        /\ action[m].round <= MaxRetries
        /\ action' = [action EXCEPT ![m] = [step |-> "polls", round |-> @.round + 1]]
        /\ Submit(m, "poll", NumNameservers)
        /\ UNCHANGED <<message, running, raised>>

\* ZonePoller._do_poll: a round, the first one if enough targets have succeeded.
PollNameservers(t) ==
    LET m == running[t].owner
    IN  /\ Runs(t, {"action"})
        /\ action[m].step \in {"targets", "polls"}
        /\ Returned(m, "target") /\ Returned(m, "poll")
        /\ action[m].round < MaxRetries
        /\ action' = [action EXCEPT ![m] = [step |-> "polls", round |-> @.round + 1]]
        /\ Submit(m, "poll", NumNameservers)
        /\ UNCHANGED <<message, running, raised>>

\* The ZoneAction ends after its targets (too many failed) or after any round (it
\* was successful, the last, or the zone has changed), and reports to central.
EndZoneAction(t) ==
    LET m == running[t].owner
    IN  /\ Runs(t, {"action"})
        /\ action[m].step \in {"targets", "polls"}
        /\ Returned(m, "target") /\ Returned(m, "poll")
        /\ action' = [action EXCEPT ![m] = [step |-> "none", round |-> 0]]
        /\ running' = [running EXCEPT ![t] = NoTask]
        /\ unfinished' = unfinished \ {running[t]}
        /\ UNCHANGED <<message, queue, raised>>

\* It also ends when one of its calls fails, or a task of its targets has raised.
RaiseFromAction(t) ==
    LET m == running[t].owner
    IN  /\ Runs(t, {"action"})
        /\ action[m].step # "new"
        /\ \/ Returned(m, "target") /\ Returned(m, "poll")
           \/ Raised(m, "target")
        /\ Cancel(m, "target")
        /\ unfinished' = Without(unfinished, m, "target") \ {running[t]}
        /\ raised' = Without(raised, m, "target") \union {running[t]}
        /\ running' = [u \in Threads |->
              IF u = t THEN NoTask ELSE Forsake(running[u], m, "target")]
        /\ action' = [action EXCEPT ![m] = [step |-> "none", round |-> 0]]
        /\ UNCHANGED message

-----------------------------------------------------------------------------

Init ==
    /\ message = [m \in Messages |-> "idle"]
    /\ action = [m \in Messages |-> [step |-> "none", round |-> 0]]
    /\ queue = <<>>
    /\ running = [t \in Threads |-> NoTask]
    /\ unfinished = {}
    /\ raised = {}

HandlerStep(m) ==
    \/ SendAlsoNotifies(m)
    \/ Reply(m)
    \/ ReplyWithException(m)

ThreadStep(t) ==
    \/ TakeTask(t)
    \/ FinishTask(t)
    \/ RaiseFromTask(t)
    \/ ActOnTargets(t)
    \/ PollNameservers(t)
    \/ EndZoneAction(t)
    \/ RaiseFromAction(t)

Next ==
    \/ \E m \in Messages : TakeZoneAction(m)
    \/ \E m \in Messages : TakeSingleTask(m)
    \/ \E m \in Messages : HandlerStep(m)
    \/ \E t \in Threads : ThreadStep(t)

Spec == Init /\ [][Next]_vars

\* Threads run: those of the RPC server that have a result, and those of the pool
\* that are not waiting (every query and every call has a timeout).
Fairness ==
    /\ \A m \in Messages : WF_vars(HandlerStep(m))
    /\ \A t \in Threads : WF_vars(ThreadStep(t))

FairSpec == Spec /\ Fairness

-----------------------------------------------------------------------------
(* Properties.                                                             *)

TypeOK ==
    /\ message \in [Messages -> {"idle", "action", "notify", "single"}]
    /\ action \in [Messages -> [step : {"none", "new", "targets", "polls"},
                                round : 0..MaxRetries]]
    /\ queue \in Seq(Task \union {Abandoned})
    /\ running \in [Threads -> Task \union {NoTask, Abandoned}]
    /\ unfinished \in SUBSET Task
    /\ raised \in SUBSET Task

\* A ZoneAction on thread t that waits for tasks of its own.
Waits(t) ==
    LET m == running[t].owner
    IN  /\ Runs(t, {"action"})
        /\ ~(Returned(m, "target") /\ Returned(m, "poll"))
        /\ ~Raised(m, "target")

\* The threads never all wait for tasks that only another thread could run: one of
\* them is free, or busy with a task that does not wait.
NoStarvation == \E t \in Threads : ~Waits(t)

Queued    == {queue[i] : i \in DOMAIN queue} \ {Abandoned}
OnThreads == {running[t] : t \in Threads} \ {NoTask, Abandoned}

\* A task whose result somebody waits for is queued or on a thread, and there only
\* once: no result is waited for in vain, none is delivered twice.
NoFutureLost ==
    /\ unfinished = Queued \union OnThreads
    /\ Queued \intersect OnThreads = {}
    /\ unfinished \intersect raised = {}
    /\ \A i, k \in DOMAIN queue :
          queue[i] = queue[k] /\ queue[i] # Abandoned => i = k
    /\ \A t, u \in Threads :
          running[t] = running[u] /\ running[t] \notin {NoTask, Abandoned} => t = u

\* Every message that a handler has taken is dealt with.
EventuallyAnswered == \A m \in Messages : message[m] # "idle" ~> message[m] = "idle"

=============================================================================
