------------------------- MODULE WorkerExecutorProofs -------------------------
(***************************************************************************)
(* Proofs about WorkerExecutor, for any numbers of threads, messages and   *)
(* tasks, provided that the RPC server has fewer threads than the pool.    *)
(***************************************************************************)
EXTENDS WorkerExecutor, FiniteSetTheorems, SequenceTheorems, TLAPS

Busy == {m \in Messages : message[m] # "idle"}

\* Whose tasks there are: those that the handler of a message, or its ZoneAction,
\* is waiting for, and at most one ZoneAction for each message.
TaskOK(task) ==
    /\ task.kind \in {"action", "single"} => task.item = 1
    /\ task.kind \in {"action", "target", "poll"}
          => message[task.owner] = "action"
    /\ task.kind \in {"notify", "single"}
          => message[task.owner] = task.kind
    /\ task.kind \in {"target", "poll"}
          => [owner |-> task.owner, item |-> 1, kind |-> "action"] \in unfinished
    /\ task.kind = "target" => action[task.owner].step = "targets"
    /\ task.kind = "poll" => action[task.owner].step = "polls"

Pending == unfinished \union raised

TaskInv == \A task \in Pending : TaskOK(task)

\* A thread of the RPC server for each message that is being dealt with.
HandlersInv == Cardinality(Busy) <= NumHandlers

IInv ==
    /\ TypeOK
    /\ NoFutureLost
    /\ TaskInv
    /\ HandlersInv

-----------------------------------------------------------------------------
(* The queue.                                                              *)

\* Executor.run queues new tasks behind the others and loses none of them.
LEMMA SubmitKeepsFutures ==
    ASSUME TypeOK, NoFutureLost,
           NEW m \in Messages,
           NEW kind \in {"action", "target", "poll", "notify", "single"},
           NEW n \in Nat, 1..n \subseteq Items,
           Returned(m, kind),
           Submit(m, kind, n), UNCHANGED <<running, raised>>
    PROVE  /\ queue' \in Seq(Task \union {Abandoned})
           /\ unfinished' \in SUBSET Task
           /\ NoFutureLost'
<1> DEFINE new == Tasks(m, kind, n)
<1>1. /\ new \in Seq(Task \union {Abandoned})
      /\ Len(new) = n
      /\ \A i \in 1..n : new[i] = [owner |-> m, item |-> i, kind |-> kind]
  BY DEF Tasks, Task
<1>2. /\ queue \in Seq(Task \union {Abandoned})
      /\ Len(queue) \in Nat
      /\ DOMAIN queue = 1..Len(queue)
  BY DEF TypeOK
<1>3. /\ queue' \in Seq(Task \union {Abandoned})
      /\ Len(queue') = Len(queue) + n
      /\ DOMAIN queue' = 1..(Len(queue) + n)
      /\ \A i \in 1..(Len(queue) + n) :
            queue'[i] = IF i <= Len(queue) THEN queue[i] ELSE new[i - Len(queue)]
  <2>1. queue' = queue \o new
    BY DEF Submit
  <2> HIDE DEF new
  <2>2. /\ queue \o new \in Seq(Task \union {Abandoned})
        /\ Len(queue \o new) = Len(queue) + n
        /\ \A i \in 1..(Len(queue) + n) :
              (queue \o new)[i] = IF i <= Len(queue) THEN queue[i]
                                                   ELSE new[i - Len(queue)]
    BY <1>1, <1>2, ConcatProperties
  <2>3. DOMAIN (queue \o new) = 1..(Len(queue) + n)
    BY <2>2
  <2> QED
    BY <2>1, <2>2, <2>3
<1> DEFINE newSet == {new[i] : i \in 1..n}
<1>4. unfinished' = unfinished \union newSet
  BY DEF Submit
<1>5. /\ newSet \intersect unfinished = {}
      /\ newSet \intersect raised = {}
      /\ newSet \subseteq Task
      /\ \A i, k \in 1..n : new[i] = new[k] => i = k
  <2>1. newSet \subseteq Task
    BY <1>1 DEF Task
  <2>2. \A x \in newSet : x.owner = m /\ x.kind = kind
    BY <1>1
  <2>3. ASSUME NEW i \in 1..n, NEW k \in 1..n, new[i] = new[k]
        PROVE  i = k
    <3>1. new[i].item = i /\ new[k].item = k
      BY <1>1
    <3> QED
      BY <2>3, <3>1
  <2> HIDE DEF new, newSet
  <2> QED
    BY <2>1, <2>2, <2>3 DEF Returned, Of
<1> HIDE DEF new, newSet
<1>6. Queued' = Queued \union newSet
  <2>1. \A x \in Queued' : x \in Queued \union newSet
    <3> SUFFICES ASSUME NEW i \in 1..(Len(queue) + n), queue'[i] # Abandoned
                 PROVE  queue'[i] \in Queued \union newSet
      BY <1>3 DEF Queued
    <3>1. CASE i <= Len(queue)
      BY <1>2, <1>3, <3>1 DEF Queued
    <3>2. CASE ~(i <= Len(queue))
      <4>1. i - Len(queue) \in 1..n
        BY <1>2, <3>2
      <4> QED
        BY <1>2, <1>3, <3>2, <4>1 DEF newSet
    <3> QED
      BY <3>1, <3>2
  <2>2. \A x \in Queued : x \in Queued'
    <3> SUFFICES ASSUME NEW i \in 1..Len(queue), queue[i] # Abandoned
                 PROVE  queue[i] \in Queued'
      BY <1>2 DEF Queued
    <3>1. i \in 1..(Len(queue) + n) /\ i <= Len(queue)
      BY <1>2
    <3> QED
      BY <1>2, <1>3, <3>1 DEF Queued
  <2>3. \A x \in newSet : x \in Queued'
    <3> SUFFICES ASSUME NEW i \in 1..n
                 PROVE  new[i] \in Queued'
      BY DEF newSet
    <3>0. new[i] # Abandoned
      BY <1>5, NoTaskAssumption DEF newSet
    <3>1. /\ Len(queue) + i \in 1..(Len(queue) + n)
          /\ ~(Len(queue) + i <= Len(queue))
          /\ (Len(queue) + i) - Len(queue) = i
      BY <1>2
    <3> QED
      BY <1>2, <1>3, <3>0, <3>1 DEF Queued
  <2> QED
    BY <2>1, <2>2, <2>3
<1>7. OnThreads' = OnThreads
  BY DEF OnThreads
<1>8. /\ unfinished' = (Queued \union OnThreads)'
      /\ (Queued \intersect OnThreads = {})'
      /\ (unfinished \intersect raised = {})'
  BY <1>4, <1>5, <1>6, <1>7 DEF NoFutureLost
<1>9. ASSUME NEW i \in DOMAIN queue', NEW k \in DOMAIN queue', queue'[i] = queue'[k],
             queue'[i] # Abandoned
      PROVE  i = k
  <2>1. CASE i <= Len(queue) /\ k <= Len(queue)
    BY <1>2, <1>3, <1>9, <2>1 DEF NoFutureLost
  <2>2. CASE ~(i <= Len(queue)) /\ ~(k <= Len(queue))
    <3>1. i - Len(queue) \in 1..n /\ k - Len(queue) \in 1..n
      BY <1>2, <1>3, <2>2
    <3>2. new[i - Len(queue)] = new[k - Len(queue)]
      BY <1>3, <1>9, <2>2
    <3>3. i - Len(queue) = k - Len(queue)
      BY <1>5, <3>1, <3>2
    <3> QED
      BY <1>2, <1>3, <3>3
  <2>3. ASSUME NEW x \in DOMAIN queue', NEW y \in DOMAIN queue',
               x <= Len(queue), ~(y <= Len(queue)), queue'[x] # Abandoned
        PROVE  queue'[x] # queue'[y]
    <3>1. y - Len(queue) \in 1..n /\ x \in 1..Len(queue)
      BY <1>2, <1>3, <2>3
    <3>2. queue'[x] \in unfinished
      BY <1>2, <1>3, <2>3, <3>1 DEF NoFutureLost, Queued
    <3>3. queue'[y] \in newSet
      BY <1>3, <2>3, <3>1 DEF newSet
    <3> QED
      BY <1>5, <3>2, <3>3
  <2> QED
    BY <1>9, <2>1, <2>2, <2>3
<1>10. \A t, u \in Threads :
          running'[t] = running'[u] /\ running'[t] \notin {NoTask, Abandoned}
             => t = u
  BY DEF NoFutureLost
<1>11. unfinished' \in SUBSET Task
  BY <1>4, <1>5 DEF TypeOK
<1> QED
  BY <1>3, <1>8, <1>9, <1>10, <1>11 DEF NoFutureLost

\* A thread that takes the first task of the queue moves it.
LEMMA TakeKeepsFutures ==
    ASSUME TypeOK, NoFutureLost,
           NEW t \in Threads, TakeTask(t)
    PROVE  /\ queue' \in Seq(Task \union {Abandoned})
           /\ running' \in [Threads -> Task \union {NoTask, Abandoned}]
           /\ NoFutureLost'
<1> DEFINE head == Head(queue)
<1>1. /\ queue \in Seq(Task \union {Abandoned})
      /\ Len(queue) \in Nat
      /\ DOMAIN queue = 1..Len(queue)
      /\ queue # <<>>
  BY DEF TypeOK, TakeTask
<1>2. /\ head \in Task \union {Abandoned}
      /\ head = queue[1]
      /\ 1 \in DOMAIN queue
  BY <1>1
<1>3. /\ queue' \in Seq(Task \union {Abandoned})
      /\ DOMAIN queue' = 1..(Len(queue) - 1)
      /\ \A i \in 1..(Len(queue) - 1) : queue'[i] = queue[i + 1]
  <2>1. queue' = Tail(queue)
    BY DEF TakeTask
  <2> QED
    BY <1>1, <2>1, HeadTailProperties
<1>4. Queued = Queued' \union ({head} \ {Abandoned})
  <2>1. \A x \in Queued : x \in Queued' \union {head}
    <3> SUFFICES ASSUME NEW i \in 1..Len(queue), i # 1, queue[i] # Abandoned
                 PROVE  queue[i] \in Queued'
      BY <1>1, <1>2 DEF Queued
    <3>1. i - 1 \in 1..(Len(queue) - 1) /\ (i - 1) + 1 = i
      BY <1>1
    <3> QED
      BY <1>3, <3>1 DEF Queued
  <2>2. \A x \in Queued' : x \in Queued
    <3> SUFFICES ASSUME NEW i \in 1..(Len(queue) - 1), queue'[i] # Abandoned
                 PROVE  queue'[i] \in Queued
      BY <1>3 DEF Queued
    <3>1. i + 1 \in DOMAIN queue
      BY <1>1
    <3> QED
      BY <1>3, <3>1 DEF Queued
  <2> QED
    BY <1>2, <2>1, <2>2 DEF Queued
<1>5. /\ running' = [running EXCEPT ![t] = IF head = Abandoned THEN NoTask ELSE head]
      /\ running[t] = NoTask
      /\ unfinished' = unfinished
      /\ raised' = raised
  BY DEF TakeTask
<1> HIDE DEF head
<1>6. head # Abandoned => head \notin Queued'
  <2> SUFFICES ASSUME NEW i \in 1..(Len(queue) - 1), head # Abandoned
               PROVE  queue'[i] # head
    BY <1>3 DEF Queued
  <2>1. i + 1 \in DOMAIN queue /\ i + 1 # 1
    BY <1>1
  <2> QED
    BY <1>2, <1>3, <2>1 DEF NoFutureLost
<1>7. head # NoTask
  BY <1>2, NoTaskAssumption
<1>8. OnThreads' = OnThreads \union ({head} \ {Abandoned})
  BY <1>5, <1>7 DEF OnThreads, TypeOK
<1>9. head # Abandoned => head \notin OnThreads
  BY <1>4, <1>7 DEF NoFutureLost
<1>10. ASSUME NEW i \in DOMAIN queue', NEW k \in DOMAIN queue',
              queue'[i] = queue'[k], queue'[i] # Abandoned
       PROVE  i = k
  <2>1. i + 1 \in DOMAIN queue /\ k + 1 \in DOMAIN queue /\ i \in Nat /\ k \in Nat
    BY <1>1, <1>3
  <2>2. queue[i + 1] = queue[k + 1] /\ queue[i + 1] # Abandoned
    BY <1>3, <1>10
  <2>3. i + 1 = k + 1
    BY <2>1, <2>2 DEF NoFutureLost
  <2> QED
    BY <2>1, <2>3
<1>11. ASSUME NEW u \in Threads, NEW v \in Threads,
              running'[u] = running'[v], running'[u] \notin {NoTask, Abandoned}
       PROVE  u = v
  BY <1>5, <1>9, <1>11 DEF NoFutureLost, OnThreads, TypeOK
<1>12. running' \in [Threads -> Task \union {NoTask, Abandoned}]
  BY <1>2, <1>5 DEF TypeOK
<1>13. /\ unfinished' = (Queued \union OnThreads)'
       /\ (Queued \intersect OnThreads = {})'
       /\ (unfinished \intersect raised = {})'
  BY <1>4, <1>5, <1>6, <1>8, <1>9 DEF NoFutureLost
<1> QED
  BY <1>3, <1>10, <1>11, <1>12, <1>13 DEF NoFutureLost

\* A thread that ends its task delivers its result or its exception.
LEMMA EndKeepsFutures ==
    ASSUME TypeOK, NoFutureLost,
           NEW t \in Threads, running[t] # NoTask,
           running' = [running EXCEPT ![t] = NoTask],
           unfinished' = unfinished \ {running[t]},
           raised' \subseteq raised \union ({running[t]} \ {Abandoned}),
           queue' = queue
    PROVE  /\ running' \in [Threads -> Task \union {NoTask, Abandoned}]
           /\ unfinished' \in SUBSET Task
           /\ raised' \in SUBSET Task
           /\ NoFutureLost'
<1> DEFINE task == running[t]
<1>1. /\ running' = [running EXCEPT ![t] = NoTask]
      /\ unfinished' = unfinished \ {task}
      /\ raised' \subseteq raised \union ({task} \ {Abandoned})
      /\ task \in Task \union {Abandoned}
      /\ task # Abandoned => task \in OnThreads
  BY DEF TypeOK, OnThreads
<1>2. OnThreads' = OnThreads \ {task}
  BY DEF OnThreads, NoFutureLost, TypeOK
<1>3. Queued' = Queued
  BY DEF Queued
<1>4. /\ Abandoned \notin Queued
      /\ Abandoned \notin OnThreads
  BY DEF Queued, OnThreads
<1>5. \A u, v \in Threads :
         running'[u] = running'[v] /\ running'[u] \notin {NoTask, Abandoned} => u = v
  BY <1>1 DEF NoFutureLost, TypeOK
<1>6. running' \in [Threads -> Task \union {NoTask, Abandoned}]
  BY <1>1 DEF TypeOK
<1> HIDE DEF task
<1>7. /\ unfinished' = (Queued \union OnThreads)'
      /\ (Queued \intersect OnThreads = {})'
      /\ (unfinished \intersect raised = {})'
  BY <1>1, <1>2, <1>3, <1>4 DEF NoFutureLost
<1>8. /\ unfinished' \in SUBSET Task
      /\ raised' \in SUBSET Task
  BY <1>1 DEF TypeOK
<1>9. \A i, k \in DOMAIN queue' :
         queue'[i] = queue'[k] /\ queue'[i] # Abandoned => i = k
  BY DEF NoFutureLost
<1> QED
  BY <1>5, <1>6, <1>7, <1>8, <1>9 DEF NoFutureLost

\* An exception takes a batch of tasks away from the queue and from the threads, and
\* ends the threads in "ended".
LEMMA CancelKeepsFutures ==
    ASSUME TypeOK, NoFutureLost,
           NEW m, NEW kind, NEW ended \in SUBSET Threads,
           Cancel(m, kind),
           unfinished' = Without(unfinished, m, kind) \ {running[u] : u \in ended},
           raised' \subseteq raised \union {running[u] : u \in ended},
           {running[u] : u \in ended} \subseteq OnThreads,
           running' = [u \in Threads |-> IF u \in ended THEN NoTask
                                         ELSE Forsake(running[u], m, kind)]
    PROVE  /\ queue' \in Seq(Task \union {Abandoned})
           /\ running' \in [Threads -> Task \union {NoTask, Abandoned}]
           /\ unfinished' \in SUBSET Task
           /\ raised' \in SUBSET Task
           /\ NoFutureLost'
<1> DEFINE gone == {running[u] : u \in ended}
<1>1. /\ queue \in Seq(Task \union {Abandoned})
      /\ Len(queue) \in Nat
      /\ DOMAIN queue = 1..Len(queue)
      /\ \A i \in 1..Len(queue) : queue[i] \in Task \union {Abandoned}
  BY DEF TypeOK
<1>2. /\ DOMAIN queue' = 1..Len(queue)
      /\ \A i \in 1..Len(queue) : queue'[i] = Forsake(queue[i], m, kind)
  BY <1>1 DEF Cancel
<1>3. queue' \in Seq(Task \union {Abandoned})
  <2>1. queue' \in [1..Len(queue) -> Task \union {Abandoned}]
    BY <1>1 DEF Cancel, Forsake
  <2> QED
    BY <1>1, <2>1, SeqDef
<1>4. \A x \in unfinished : x # Abandoned /\ x \in Task
  BY NoTaskAssumption DEF TypeOK
<1>5. \A x : Forsake(x, m, kind) # Abandoned
                <=> x # Abandoned /\ ~(x \in unfinished /\ Of(x, m, kind))
  BY DEF Forsake
<1>6. \A x : Forsake(x, m, kind) # Abandoned => Forsake(x, m, kind) = x
  BY DEF Forsake
<1>7. Queued' = Without(Queued, m, kind)
  <2>1. \A i \in 1..Len(queue) : queue[i] # Abandoned => queue[i] \in unfinished
    BY <1>1 DEF NoFutureLost, Queued
  <2>2. \A x \in Queued' : x \in Queued /\ ~Of(x, m, kind)
    <3> SUFFICES ASSUME NEW i \in 1..Len(queue), queue'[i] # Abandoned
                 PROVE  queue'[i] \in Queued /\ ~Of(queue'[i], m, kind)
      BY <1>2 DEF Queued
    <3>1. queue'[i] = queue[i] /\ queue[i] # Abandoned
      BY <1>2, <1>5, <1>6
    <3> QED
      BY <1>1, <1>2, <1>5, <2>1, <3>1 DEF Queued
  <2>3. \A x \in Queued : ~Of(x, m, kind) => x \in Queued'
    <3> SUFFICES ASSUME NEW i \in 1..Len(queue), queue[i] # Abandoned,
                        ~Of(queue[i], m, kind)
                 PROVE  queue[i] \in Queued'
      BY <1>1 DEF Queued
    <3>1. queue'[i] = queue[i]
      BY <1>2 DEF Forsake
    <3> QED
      BY <1>2, <3>1 DEF Queued
  <2> QED
    BY <2>2, <2>3 DEF Without
<1>8. OnThreads' = Without(OnThreads, m, kind) \ gone
  <2>1. \A u \in Threads : running[u] \notin {NoTask, Abandoned}
                              => running[u] \in OnThreads /\ running[u] \in unfinished
    BY DEF NoFutureLost, OnThreads
  <2>2. \A u \in Threads :
           running'[u] \notin {NoTask, Abandoned}
              => /\ u \notin ended
                 /\ running'[u] = running[u]
                 /\ running[u] \notin {NoTask, Abandoned}
                 /\ ~Of(running[u], m, kind)
    BY <1>5, <1>6, <2>1
  <2>3. \A x \in OnThreads' : x \in OnThreads /\ ~Of(x, m, kind) /\ x \notin gone
    BY <2>1, <2>2 DEF OnThreads, NoFutureLost
  <2>4. \A x \in OnThreads : ~Of(x, m, kind) /\ x \notin gone => x \in OnThreads'
    BY DEF OnThreads, Forsake
  <2> QED
    BY <2>3, <2>4 DEF Without
<1>9. \A i, k \in DOMAIN queue' :
         queue'[i] = queue'[k] /\ queue'[i] # Abandoned => i = k
  BY <1>1, <1>2, <1>5, <1>6 DEF NoFutureLost
<1>10. \A u, v \in Threads :
         running'[u] = running'[v] /\ running'[u] \notin {NoTask, Abandoned} => u = v
  BY <1>5, <1>6 DEF NoFutureLost
<1>11. running' \in [Threads -> Task \union {NoTask, Abandoned}]
  BY DEF TypeOK, Forsake
<1>12. gone \subseteq unfinished
  BY DEF NoFutureLost
<1>13. unfinished' = Without(unfinished, m, kind) \ gone
  OBVIOUS
<1>14. gone \intersect Queued = {}
  BY DEF NoFutureLost
<1>15. raised' \subseteq raised \union gone
  OBVIOUS
<1> HIDE DEF gone
<1>16. /\ unfinished' = (Queued \union OnThreads)'
       /\ (Queued \intersect OnThreads = {})'
       /\ (unfinished \intersect raised = {})'
  BY <1>7, <1>8, <1>13, <1>14, <1>15 DEF NoFutureLost, Without
<1>17. unfinished' \in SUBSET Task /\ raised' \in SUBSET Task
  BY <1>12, <1>13, <1>15 DEF TypeOK, Without
<1> QED
  BY <1>3, <1>9, <1>10, <1>11, <1>16, <1>17 DEF NoFutureLost

\* Futures depend on the queue, the threads and the results only.
LEMMA SameFutures ==
    ASSUME NoFutureLost, UNCHANGED <<queue, running, unfinished, raised>>
    PROVE  NoFutureLost'
<1>1. Queued' = Queued /\ OnThreads' = OnThreads
  BY DEF Queued, OnThreads
<1> QED
  BY <1>1 DEF NoFutureLost

-----------------------------------------------------------------------------
(* The invariant.                                                          *)

\* The task on a thread has a future, and a ZoneAction is the first of its message.
LEMMA TaskOnThread ==
    ASSUME IInv, NEW t \in Threads, running[t] \notin {NoTask, Abandoned}
    PROVE  /\ running[t] \in OnThreads
           /\ running[t] \in unfinished
           /\ running[t] \in Task
           /\ running[t].owner \in Messages
           /\ TaskOK(running[t])
           /\ running[t].kind = "action" =>
                 running[t] = [owner |-> running[t].owner, item |-> 1,
                               kind |-> "action"]
<1>1. running[t] \in unfinished /\ running[t] \in Task /\ running[t] \in OnThreads
  BY DEF IInv, TypeOK, NoFutureLost, OnThreads
<1>2. TaskOK(running[t])
  BY <1>1 DEF IInv, TaskInv, Pending
<1>3. running[t].kind = "action" => running[t].item = 1
  BY <1>2 DEF TaskOK
<1> QED
  BY <1>1, <1>2, <1>3 DEF Task

\* A ZoneAction on a thread: its message waits for it.
LEMMA ActionOnThread ==
    ASSUME IInv, NEW t \in Threads, Runs(t, {"action"})
    PROVE  /\ running[t] \notin {NoTask, Abandoned}
           /\ running[t].owner \in Messages
           /\ running[t] = [owner |-> running[t].owner, item |-> 1,
                            kind |-> "action"]
           /\ running[t] \in unfinished
           /\ running[t] \in OnThreads
           /\ message[running[t].owner] = "action"
<1>1. running[t] \notin {NoTask, Abandoned} /\ running[t].kind = "action"
  BY DEF Runs
<1>2. TaskOK(running[t])
  BY <1>1, TaskOnThread
<1> QED
  BY <1>1, <1>2, TaskOnThread DEF TaskOK

\* What the handler of a message, or its ZoneAction, waits for.
LEMMA TasksOfMessage ==
    ASSUME IInv, NEW task \in Pending
    PROVE  /\ task \in Task
           /\ task.owner \in Messages
           /\ message[task.owner] \in {"action", "notify", "single"}
           /\ message[task.owner] = "action"
                 => task.kind \in {"action", "target", "poll"}
           /\ message[task.owner] # "action" => task.kind = message[task.owner]
           /\ task.kind \in {"target", "poll"}
                 => [owner |-> task.owner, item |-> 1, kind |-> "action"]
                       \in unfinished
<1>1. task \in Task /\ TaskOK(task)
  BY DEF IInv, TaskInv, Pending, TypeOK
<1>2. task.kind \in {"action", "target", "poll", "notify", "single"}
  BY <1>1 DEF Task
<1>3. task.owner \in Messages
  BY <1>1 DEF Task
<1> QED
  BY <1>1, <1>2, <1>3 DEF TaskOK

\* A message that is idle has no tasks.
LEMMA NoTasksYet ==
    ASSUME IInv, NEW m \in Messages, message[m] = "idle"
    PROVE  \A task \in Pending : task.owner # m
BY TasksOfMessage

\* Nor has one whose handler has its result.
LEMMA NoTasksLeft ==
    ASSUME IInv, NEW m \in Messages, message[m] # "idle", Returned(m, message[m])
    PROVE  \A task \in Pending : task.owner # m
<1> SUFFICES ASSUME NEW task \in Pending, task.owner = m
             PROVE  FALSE
  OBVIOUS
<1>1. CASE message[m] = "action"
  <2>1. task.kind \in {"target", "poll"}
    BY <1>1, TasksOfMessage DEF Returned, Of, Pending
  <2>2. [owner |-> m, item |-> 1, kind |-> "action"] \in unfinished
    BY <2>1, TasksOfMessage
  <2> QED
    BY <1>1, <2>2 DEF Returned, Of
<1>2. CASE message[m] # "action"
  BY <1>2, TasksOfMessage DEF Returned, Of, Pending
<1> QED
  BY <1>1, <1>2

\* After an exception, those of the batch are the only ones.
LEMMA NoOtherTasks ==
    ASSUME IInv, NEW m \in Messages, message[m] # "idle", Raised(m, message[m])
    PROVE  \A task \in Pending : task.owner = m => Of(task, m, message[m])
<1> SUFFICES ASSUME NEW task \in Pending, task.owner = m,
                    task.kind # message[m]
             PROVE  FALSE
  BY DEF Of
<1>1. message[m] = "action" /\ task.kind \in {"target", "poll"}
  BY TasksOfMessage
<1>2. [owner |-> m, item |-> 1, kind |-> "action"] \in unfinished
  BY <1>1, TasksOfMessage
<1>3. PICK other \in raised : Of(other, m, "action")
  BY <1>1 DEF Raised
<1>4. other = [owner |-> m, item |-> 1, kind |-> "action"]
  <2>1. TaskOK(other) /\ other \in Task
    BY DEF IInv, TaskInv, Pending, TypeOK
  <2>2. other.owner = m /\ other.kind = "action" /\ other.item = 1
    BY <1>3, <2>1 DEF Of, TaskOK
  <2> QED
    BY <2>1, <2>2 DEF Task
<1> QED
  BY <1>2, <1>4 DEF IInv, NoFutureLost

\* Taking a message needs a free thread of the RPC server.
LEMMA TakingNeedsHandler ==
    ASSUME IInv, NEW m \in Messages, HandlerFree,
           NEW s, message' = [message EXCEPT ![m] = s], s # "idle"
    PROVE  HandlersInv'
<1>1. IsFiniteSet(Messages) /\ NumHandlers \in Nat
  BY ExecutorAssumption
<1>2. Busy \in SUBSET Messages
  BY DEF Busy
<1>3. IsFiniteSet(Busy) /\ Cardinality(Busy) \in Nat
  BY <1>1, <1>2, FS_Subset, FS_CardinalityType
<1>4. Cardinality(Busy) < NumHandlers
  BY DEF HandlerFree, Busy
<1>5. Busy' = Busy \union {m}
  BY DEF Busy, IInv, TypeOK
<1>6. Cardinality(Busy \union {m}) <= Cardinality(Busy) + 1
  BY <1>3, FS_AddElement
<1>7. Cardinality(Busy \union {m}) \in Nat
  BY <1>3, FS_AddElement, FS_CardinalityType
<1> QED
  BY <1>1, <1>3, <1>4, <1>5, <1>6, <1>7 DEF HandlersInv

\* Everything else needs none.
LEMMA NoMoreHandlers ==
    ASSUME IInv, Busy' \subseteq Busy
    PROVE  HandlersInv'
<1>1. IsFiniteSet(Messages) /\ NumHandlers \in Nat
  BY ExecutorAssumption
<1>2. Busy \in SUBSET Messages /\ Busy' \in SUBSET Busy
  BY DEF Busy
<1>3. IsFiniteSet(Busy) /\ IsFiniteSet(Busy')
  BY <1>1, <1>2, FS_Subset
<1>4. Cardinality(Busy') <= Cardinality(Busy)
  BY <1>2, <1>3, FS_Subset
<1>5. Cardinality(Busy) \in Nat /\ Cardinality(Busy') \in Nat
  BY <1>3, FS_CardinalityType
<1> QED
  BY <1>1, <1>4, <1>5 DEF IInv, HandlersInv

\* Types and futures are kept by every step of a handler
LEMMA HandlerKeepsFutures ==
    ASSUME IInv, NEW m \in Messages,
           TakeZoneAction(m) \/ TakeSingleTask(m) \/ HandlerStep(m)
    PROVE  TypeOK' /\ NoFutureLost'
<1> USE ExecutorAssumption
<1>1. CASE TakeZoneAction(m)
  <2>1. Returned(m, "action")
    BY <1>1, NoTasksYet DEF TakeZoneAction, Returned, Of, Pending
  <2>2. 1..1 \subseteq Items
    BY DEF Items
  <2>3. /\ queue' \in Seq(Task \union {Abandoned})
        /\ unfinished' \in SUBSET Task
        /\ NoFutureLost'
    BY <1>1, <2>1, <2>2, SubmitKeepsFutures DEF IInv, TakeZoneAction
  <2> QED
    BY <1>1, <2>3 DEF IInv, TypeOK, TakeZoneAction
<1>2. CASE TakeSingleTask(m)
  <2>1. Returned(m, "single")
    BY <1>2, NoTasksYet DEF TakeSingleTask, Returned, Of, Pending
  <2>2. 1..1 \subseteq Items
    BY DEF Items
  <2>3. /\ queue' \in Seq(Task \union {Abandoned})
        /\ unfinished' \in SUBSET Task
        /\ NoFutureLost'
    BY <1>2, <2>1, <2>2, SubmitKeepsFutures DEF IInv, TakeSingleTask
  <2> QED
    BY <1>2, <2>3 DEF IInv, TypeOK, TakeSingleTask
<1>3. CASE SendAlsoNotifies(m)
  <2>1. Returned(m, "notify")
    BY <1>3, NoTasksLeft DEF SendAlsoNotifies, Returned, Of, Pending
  <2>2. 1..NumAlsoNotify \subseteq Items
    BY DEF Items
  <2>3. /\ queue' \in Seq(Task \union {Abandoned})
        /\ unfinished' \in SUBSET Task
        /\ NoFutureLost'
    BY <1>3, <2>1, <2>2, SubmitKeepsFutures DEF IInv, SendAlsoNotifies
  <2> QED
    BY <1>3, <2>3 DEF IInv, TypeOK, SendAlsoNotifies
<1>4. CASE Reply(m)
  BY <1>4, SameFutures DEF Reply, IInv, TypeOK
<1>5. CASE ReplyWithException(m)
  <2> DEFINE kind == message[m]
  <2>1. /\ Cancel(m, kind)
        /\ unfinished' = Without(unfinished, m, kind) \ {running[u] : u \in {}}
        /\ raised' \subseteq raised
        /\ running' = [t \in Threads |-> Forsake(running[t], m, kind)]
        /\ message' = [message EXCEPT ![m] = "idle"]
        /\ action' = action
    BY <1>5 DEF ReplyWithException, Without
  <2> HIDE DEF kind
  <2>2. /\ queue' \in Seq(Task \union {Abandoned})
        /\ running' \in [Threads -> Task \union {NoTask, Abandoned}]
        /\ unfinished' \in SUBSET Task
        /\ raised' \in SUBSET Task
        /\ NoFutureLost'
    <3> DEFINE ended == {}
    <3>1. /\ ended \in SUBSET Threads
          /\ {running[u] : u \in ended} \subseteq OnThreads
          /\ unfinished' = Without(unfinished, m, kind) \ {running[u] : u \in ended}
          /\ raised' \subseteq raised \union {running[u] : u \in ended}
          /\ running' = [u \in Threads |-> IF u \in ended THEN NoTask
                                           ELSE Forsake(running[u], m, kind)]
      BY <2>1
    <3> HIDE DEF ended
    <3> QED
      BY <2>1, <3>1, CancelKeepsFutures DEF IInv
  <2> QED
    BY <2>1, <2>2 DEF IInv, TypeOK
<1> QED
  BY <1>1, <1>2, <1>3, <1>4, <1>5 DEF HandlerStep

\* ... and of a thread of the pool.
LEMMA ThreadKeepsFutures ==
    ASSUME IInv, NEW t \in Threads, ThreadStep(t)
    PROVE  TypeOK' /\ NoFutureLost'
<1> USE ExecutorAssumption
<1> DEFINE m == running[t].owner
<1>1. CASE TakeTask(t)
  <2>1. /\ queue' \in Seq(Task \union {Abandoned})
        /\ running' \in [Threads -> Task \union {NoTask, Abandoned}]
        /\ NoFutureLost'
    BY <1>1, TakeKeepsFutures DEF IInv
  <2> QED
    BY <1>1, <2>1 DEF TakeTask, IInv, TypeOK
<1>2. CASE FinishTask(t) \/ RaiseFromTask(t)
  <2>1. /\ running[t] # NoTask
        /\ running' = [running EXCEPT ![t] = NoTask]
        /\ unfinished' = unfinished \ {running[t]}
        /\ raised' \subseteq raised \union ({running[t]} \ {Abandoned})
        /\ UNCHANGED <<message, action, queue>>
    BY <1>2, NoTaskAssumption DEF FinishTask, RaiseFromTask, Runs
  <2>2. /\ running' \in [Threads -> Task \union {NoTask, Abandoned}]
        /\ unfinished' \in SUBSET Task
        /\ raised' \in SUBSET Task
        /\ NoFutureLost'
    BY <2>1, EndKeepsFutures DEF IInv
  <2> QED
    BY <2>1, <2>2 DEF IInv, TypeOK
<1>3. CASE ActOnTargets(t)
  <2>1. /\ m \in Messages
        /\ action[m].step = "new"
        /\ action' = [action EXCEPT ![m].step = "targets"]
        /\ Submit(m, "target", NumTargets)
        /\ UNCHANGED <<message, running, raised>>
    BY <1>3, ActionOnThread DEF ActOnTargets
  <2>2. 1..NumTargets \subseteq Items
    BY DEF Items
  <2> HIDE DEF m
  <2>3. Returned(m, "target")
    BY <2>1 DEF IInv, TaskInv, TaskOK, Pending, Returned, Of
  <2>4. /\ queue' \in Seq(Task \union {Abandoned})
        /\ unfinished' \in SUBSET Task
        /\ NoFutureLost'
    BY <2>1, <2>2, <2>3, SubmitKeepsFutures DEF IInv
  <2> QED
    BY <2>1, <2>4 DEF IInv, TypeOK
<1>4. CASE PollNameservers(t)
  <2>1. /\ m \in Messages
        /\ Returned(m, "poll")
        /\ action[m].round < MaxRetries
        /\ action' = [action EXCEPT ![m] = [step |-> "polls", round |-> @.round + 1]]
        /\ Submit(m, "poll", NumNameservers)
        /\ UNCHANGED <<message, running, raised>>
    BY <1>4, ActionOnThread DEF PollNameservers
  <2>2. 1..NumNameservers \subseteq Items
    BY DEF Items
  <2> HIDE DEF m
  <2>3. /\ queue' \in Seq(Task \union {Abandoned})
        /\ unfinished' \in SUBSET Task
        /\ NoFutureLost'
    BY <2>1, <2>2, SubmitKeepsFutures DEF IInv
  <2>4. action[m].round + 1 \in 0..MaxRetries
    BY <2>1 DEF IInv, TypeOK
  <2> QED
    BY <2>1, <2>3, <2>4 DEF IInv, TypeOK
<1>5. CASE EndZoneAction(t)
  <2>1. /\ running[t] # NoTask
        /\ m \in Messages
        /\ running' = [running EXCEPT ![t] = NoTask]
        /\ unfinished' = unfinished \ {running[t]}
        /\ action' = [action EXCEPT ![m] = [step |-> "none", round |-> 0]]
        /\ UNCHANGED <<message, queue, raised>>
    BY <1>5, ActionOnThread DEF EndZoneAction
  <2>2. /\ running' \in [Threads -> Task \union {NoTask, Abandoned}]
        /\ unfinished' \in SUBSET Task
        /\ NoFutureLost'
    BY <2>1, EndKeepsFutures DEF IInv
  <2> QED
    BY <2>1, <2>2 DEF IInv, TypeOK
<1>6. CASE RaiseFromAction(t)
  <2> DEFINE ended == {t}
  <2>1. /\ m \in Messages
        /\ Cancel(m, "target")
        /\ action' = [action EXCEPT ![m] = [step |-> "none", round |-> 0]]
        /\ message' = message
    BY <1>6, ActionOnThread DEF RaiseFromAction
  <2>2. /\ ended \in SUBSET Threads
        /\ {running[u] : u \in ended} \subseteq OnThreads
        /\ unfinished' = Without(unfinished, m, "target") \ {running[u] : u \in ended}
        /\ raised' \subseteq raised \union {running[u] : u \in ended}
        /\ running' = [u \in Threads |-> IF u \in ended THEN NoTask
                                         ELSE Forsake(running[u], m, "target")]
    BY <1>6, ActionOnThread DEF RaiseFromAction, Without
  <2> HIDE DEF ended, m
  <2>3. /\ queue' \in Seq(Task \union {Abandoned})
        /\ running' \in [Threads -> Task \union {NoTask, Abandoned}]
        /\ unfinished' \in SUBSET Task
        /\ raised' \in SUBSET Task
        /\ NoFutureLost'
    BY <2>1, <2>2, CancelKeepsFutures DEF IInv
  <2> QED
    BY <2>1, <2>3 DEF IInv, TypeOK
<1> QED
  BY <1>1, <1>2, <1>3, <1>4, <1>5, <1>6 DEF ThreadStep

\* What Executor.run adds to the unfinished tasks.
LEMMA SubmittedTasks ==
    ASSUME NEW m, NEW kind, NEW n \in Nat, Submit(m, kind, n)
    PROVE  /\ unfinished \subseteq unfinished'
           /\ \A task \in unfinished' \ unfinished :
                 task.owner = m /\ task.kind = kind /\ task.item \in 1..n
BY DEF Submit, Tasks

\* A step that changes the state of one message only leaves the others' tasks alone.
LEMMA OtherTasks ==
    ASSUME IInv, NEW m \in Messages, NEW task \in Pending, task.owner # m,
           \A x \in unfinished : x.owner # m => x \in unfinished',
           \A o \in Messages \ {m} : message'[o] = message[o] /\ action'[o] = action[o]
    PROVE  TaskOK(task)'
<1>1. task \in Task /\ task.owner \in Messages \ {m}
  BY DEF IInv, TypeOK, Task, Pending
<1>2. TaskOK(task)
  BY DEF IInv, TaskInv
<1>3. LET first == [owner |-> task.owner, item |-> 1, kind |-> "action"]
      IN  first \in unfinished => first \in unfinished'
  OBVIOUS
<1> QED
  BY <1>1, <1>2, <1>3 DEF TaskOK

\* Each step of a handler keeps the assignment of tasks to messages,
LEMMA HandlerKeepsTasks ==
    ASSUME IInv, NEW m \in Messages,
           TakeZoneAction(m) \/ TakeSingleTask(m) \/ HandlerStep(m)
    PROVE  TaskInv'
<1> SUFFICES ASSUME NEW task \in Pending'
             PROVE  TaskOK(task)'
  BY DEF TaskInv
<1>1. \A o \in Messages \ {m} : message'[o] = message[o] /\ action'[o] = action[o]
  BY DEF TakeZoneAction, TakeSingleTask, HandlerStep, SendAlsoNotifies, Reply,
         ReplyWithException, IInv, TypeOK
<1>2. CASE TakeZoneAction(m)
  <2>1. Submit(m, "action", 1) /\ message'[m] = "action" /\ raised' = raised
    BY <1>2 DEF TakeZoneAction, IInv, TypeOK
  <2>2. CASE task \in Pending
    BY <1>1, <1>2, <2>1, <2>2, NoTasksYet, OtherTasks, SubmittedTasks
    DEF TakeZoneAction
  <2>3. CASE task \notin Pending
    BY <2>1, <2>3, SubmittedTasks DEF TaskOK, Pending
  <2> QED
    BY <2>2, <2>3
<1>3. CASE TakeSingleTask(m)
  <2>1. Submit(m, "single", 1) /\ message'[m] = "single" /\ raised' = raised
    BY <1>3 DEF TakeSingleTask, IInv, TypeOK
  <2>2. CASE task \in Pending
    BY <1>1, <1>3, <2>1, <2>2, NoTasksYet, OtherTasks, SubmittedTasks
    DEF TakeSingleTask
  <2>3. CASE task \notin Pending
    BY <2>1, <2>3, SubmittedTasks DEF TaskOK, Pending
  <2> QED
    BY <2>2, <2>3
<1>4. CASE SendAlsoNotifies(m)
  <2>1. /\ Submit(m, "notify", NumAlsoNotify)
        /\ message'[m] = "notify"
        /\ raised' = raised
        /\ NumAlsoNotify \in Nat
    BY <1>4, ExecutorAssumption DEF SendAlsoNotifies, IInv, TypeOK
  <2>2. CASE task \in Pending
    <3>1. task.owner # m
      BY <1>4, <2>2, NoTasksLeft DEF SendAlsoNotifies
    <3> QED
      BY <1>1, <2>1, <2>2, <3>1, OtherTasks, SubmittedTasks
  <2>3. CASE task \notin Pending
    BY <2>1, <2>3, SubmittedTasks DEF TaskOK, Pending
  <2> QED
    BY <2>2, <2>3
<1>5. CASE Reply(m)
  <2>1. task \in Pending /\ unfinished' = unfinished
    BY <1>5 DEF Reply, Pending
  <2>2. task.owner # m
    BY <1>5, <2>1, NoTasksLeft DEF Reply
  <2> QED
    BY <1>1, <2>1, <2>2, OtherTasks
<1>6. CASE ReplyWithException(m)
  <2>1. /\ unfinished' = Without(unfinished, m, message[m])
        /\ raised' = Without(raised, m, message[m])
    BY <1>6 DEF ReplyWithException
  <2>2. task \in Pending /\ ~Of(task, m, message[m])
    BY <2>1 DEF Pending, Without
  <2>3. task.owner # m
    BY <1>6, <2>2, NoOtherTasks DEF ReplyWithException
  <2>4. \A x \in unfinished : x.owner # m => x \in unfinished'
    BY <2>1 DEF Without, Of
  <2> QED
    BY <1>1, <2>2, <2>3, <2>4, OtherTasks
<1> QED
  BY <1>2, <1>3, <1>4, <1>5, <1>6 DEF HandlerStep

\* ... and each step of a thread.
LEMMA ThreadKeepsTasks ==
    ASSUME IInv, NEW t \in Threads, ThreadStep(t)
    PROVE  TaskInv'
<1> DEFINE m == running[t].owner
           first == [owner |-> m, item |-> 1, kind |-> "action"]
<1> SUFFICES ASSUME NEW task \in Pending'
             PROVE  TaskOK(task)'
  BY DEF TaskInv
<1>1. CASE TakeTask(t)
  <2>1. UNCHANGED <<message, action, unfinished, raised>>
    BY <1>1 DEF TakeTask
  <2>2. TaskOK(task)
    BY <2>1 DEF IInv, TaskInv, Pending
  <2> QED
    BY <2>1, <2>2 DEF TaskOK
<1>2. CASE FinishTask(t) \/ RaiseFromTask(t)
  <2> DEFINE ended == running[t]
  <2>1. /\ ended # Abandoned => ended.kind # "action" /\ ended \in unfinished
        /\ unfinished' = unfinished \ {ended}
        /\ raised' \subseteq raised \union ({ended} \ {Abandoned})
        /\ UNCHANGED <<message, action>>
    BY <1>2, TaskOnThread, NoTaskAssumption
    DEF FinishTask, RaiseFromTask, Runs
  <2>2. \A x \in unfinished : x # Abandoned
    BY NoTaskAssumption DEF IInv, TypeOK
  <2> HIDE DEF ended
  <2>3. task \in Pending
    BY <2>1 DEF Pending
  <2>4. TaskOK(task)
    BY <2>3 DEF IInv, TaskInv
  <2>5. LET a == [owner |-> task.owner, item |-> 1, kind |-> "action"]
        IN  a \in unfinished => a \in unfinished'
    BY <2>1, <2>2
  <2> QED
    BY <2>1, <2>4, <2>5 DEF TaskOK
<1>3. CASE ActOnTargets(t)
  <2>1. /\ m \in Messages
        /\ first \in unfinished
        /\ message[m] = "action"
    BY <1>3, ActionOnThread DEF ActOnTargets
  <2>2. /\ action[m].step = "new"
        /\ action' = [action EXCEPT ![m].step = "targets"]
        /\ Submit(m, "target", NumTargets)
        /\ UNCHANGED <<message, running, raised>>
    BY <1>3 DEF ActOnTargets
  <2> HIDE DEF m
  <2>3. /\ action'[m].step = "targets"
        /\ \A o \in Messages \ {m} : message'[o] = message[o] /\ action'[o] = action[o]
    BY <2>1, <2>2 DEF IInv, TypeOK
  <2>4. /\ unfinished \subseteq unfinished'
        /\ \A x \in unfinished' \ unfinished : x.owner = m /\ x.kind = "target"
    BY <2>2, SubmittedTasks, ExecutorAssumption
  <2>5. CASE task \in Pending /\ task.owner # m
    BY <2>1, <2>3, <2>4, <2>5, OtherTasks
  <2>6. CASE task \in Pending /\ task.owner = m
    <3>1. TaskOK(task)
      BY <2>6 DEF IInv, TaskInv
    <3> QED
      BY <2>1, <2>2, <2>6, <3>1 DEF TaskOK
  <2>7. CASE task \notin Pending
    BY <2>1, <2>2, <2>3, <2>4, <2>7 DEF TaskOK, Pending
  <2> QED
    BY <2>5, <2>6, <2>7
<1>4. CASE PollNameservers(t)
  <2>1. /\ m \in Messages
        /\ first \in unfinished
        /\ message[m] = "action"
    BY <1>4, ActionOnThread DEF PollNameservers
  <2>2. /\ Returned(m, "target") /\ Returned(m, "poll")
        /\ action' = [action EXCEPT ![m] = [step |-> "polls", round |-> @.round + 1]]
        /\ Submit(m, "poll", NumNameservers)
        /\ UNCHANGED <<message, running, raised>>
    BY <1>4 DEF PollNameservers
  <2> HIDE DEF m
  <2>3. /\ action'[m].step = "polls"
        /\ \A o \in Messages \ {m} : message'[o] = message[o] /\ action'[o] = action[o]
    BY <2>1, <2>2 DEF IInv, TypeOK
  <2>4. /\ unfinished \subseteq unfinished'
        /\ \A x \in unfinished' \ unfinished : x.owner = m /\ x.kind = "poll"
    BY <2>2, SubmittedTasks, ExecutorAssumption
  <2>5. CASE task \in Pending /\ task.owner # m
    BY <2>1, <2>3, <2>4, <2>5, OtherTasks
  <2>6. CASE task \in Pending /\ task.owner = m
    <3>1. TaskOK(task) /\ task.kind \notin {"target", "poll"}
      BY <2>2, <2>6 DEF IInv, TaskInv, Returned, Of, Pending
    <3> QED
      BY <2>1, <2>2, <2>6, <3>1 DEF TaskOK
  <2>7. CASE task \notin Pending
    BY <2>1, <2>2, <2>3, <2>4, <2>7 DEF TaskOK, Pending
  <2> QED
    BY <2>5, <2>6, <2>7
<1>5. CASE EndZoneAction(t) \/ RaiseFromAction(t)
  <2>1. /\ m \in Messages
        /\ running[t] = first
        /\ first \in unfinished
        /\ message[m] = "action"
    BY <1>5, ActionOnThread DEF EndZoneAction, RaiseFromAction
  <2>2. /\ action' = [action EXCEPT ![m] = [step |-> "none", round |-> 0]]
        /\ message' = message
        /\ first \notin unfinished'
        /\ unfinished' \subseteq unfinished
        /\ Pending' \subseteq Pending
        /\ \A x \in unfinished : x.owner # m => x \in unfinished'
    BY <1>5, <2>1 DEF EndZoneAction, RaiseFromAction, Without, Of, Pending
  <2>3. \A x \in Pending' : x.owner = m => x.kind \notin {"target", "poll"}
    <3>1. CASE Returned(m, "target") /\ Returned(m, "poll")
      BY <2>2, <3>1 DEF Returned, Of, Pending
    <3>2. CASE RaiseFromAction(t) /\ Raised(m, "target")
      <4>1. \A x \in Pending' : ~Of(x, m, "target")
        BY <2>1, <3>2 DEF RaiseFromAction, Without, Of, Pending
      <4>2. action[m].step = "targets"
        BY <3>2 DEF Raised, Of, IInv, TaskInv, TaskOK, Pending
      <4>3. \A x \in Pending : ~Of(x, m, "poll")
        BY <4>2 DEF IInv, TaskInv, TaskOK, Of
      <4> QED
        BY <2>2, <4>1, <4>3 DEF Of
    <3> QED
      BY <1>5, <3>1, <3>2 DEF EndZoneAction, RaiseFromAction
  <2> HIDE DEF m, first
  <2>4. \A o \in Messages \ {m} : message'[o] = message[o] /\ action'[o] = action[o]
    BY <2>1, <2>2 DEF IInv, TypeOK
  <2>5. task \in Pending /\ TaskOK(task)
    BY <2>2 DEF IInv, TaskInv
  <2>6. CASE task.owner # m
    BY <2>1, <2>2, <2>4, <2>5, <2>6, OtherTasks
  <2>7. CASE task.owner = m
    BY <2>2, <2>3, <2>5, <2>7 DEF TaskOK
  <2> QED
    BY <2>6, <2>7
<1> QED
  BY <1>1, <1>2, <1>3, <1>4, <1>5 DEF ThreadStep

\* And the number of busy handlers.
LEMMA StepKeepsHandlers ==
    ASSUME IInv, [Next]_vars
    PROVE  HandlersInv'
<1>1. ASSUME NEW m \in Messages, TakeZoneAction(m)
      PROVE  HandlersInv'
  BY <1>1, TakingNeedsHandler DEF TakeZoneAction
<1>2. ASSUME NEW m \in Messages, TakeSingleTask(m)
      PROVE  HandlersInv'
  BY <1>2, TakingNeedsHandler DEF TakeSingleTask
<1>3. ASSUME NEW m \in Messages, HandlerStep(m)
      PROVE  HandlersInv'
  <2>1. Busy' \subseteq Busy
    BY <1>3 DEF Busy, HandlerStep, SendAlsoNotifies, Reply, ReplyWithException,
                IInv, TypeOK
  <2> QED
    BY <2>1, NoMoreHandlers
<1>4. ASSUME message' = message
      PROVE  HandlersInv'
  BY <1>4, NoMoreHandlers DEF Busy
<1> QED
  BY <1>1, <1>2, <1>3, <1>4
  DEF Next, ThreadStep, TakeTask, FinishTask, RaiseFromTask, ActOnTargets,
      PollNameservers, EndZoneAction, RaiseFromAction, vars

LEMMA InitHolds == Init => IInv
<1> SUFFICES ASSUME Init
             PROVE  IInv
  OBVIOUS
<1>1. TypeOK
  BY ExecutorAssumption DEF Init, TypeOK
<1>2. NoFutureLost
  BY DEF Init, NoFutureLost, Queued, OnThreads
<1>3. TaskInv
  BY DEF Init, TaskInv, Pending
<1>4. Busy = {}
  BY DEF Init, Busy
<1>5. HandlersInv
  BY <1>4, ExecutorAssumption, FS_EmptySet DEF HandlersInv
<1> QED
  BY <1>1, <1>2, <1>3, <1>5 DEF IInv

-----------------------------------------------------------------------------
(* Theorems.                                                               *)

\* The invariant of the executor.
THEOREM Inductive == Spec => []IInv
<1>1. ASSUME IInv, [Next]_vars
      PROVE  IInv'
  <2>1. HandlersInv'
    BY <1>1, StepKeepsHandlers
  <2>2. CASE UNCHANGED vars
    <3>1. /\ TypeOK' /\ NoFutureLost'
      BY <1>1, <2>2, SameFutures DEF vars, IInv, TypeOK
    <3>2. TaskInv'
      BY <1>1, <2>2 DEF vars, IInv, TaskInv, TaskOK, Pending
    <3> QED
      BY <2>1, <3>1, <3>2 DEF IInv
  <2>3. CASE \E m \in Messages :
                TakeZoneAction(m) \/ TakeSingleTask(m) \/ HandlerStep(m)
    BY <1>1, <2>1, <2>3, HandlerKeepsFutures, HandlerKeepsTasks DEF IInv
  <2>4. CASE \E t \in Threads : ThreadStep(t)
    BY <1>1, <2>1, <2>4, ThreadKeepsFutures, ThreadKeepsTasks DEF IInv
  <2> QED
    BY <1>1, <2>2, <2>3, <2>4 DEF Next
<1> QED
  BY InitHolds, <1>1, PTL DEF Spec

\* Messages, tasks and threads keep their types; no poll has too many rounds.
THEOREM TypeCorrect == Spec => []TypeOK
<1>1. IInv => TypeOK
  BY DEF IInv
<1> QED
  BY Inductive, <1>1, PTL

\* No result is waited for in vain: its task is queued or on one thread.
THEOREM FuturesKept == Spec => []NoFutureLost
<1>1. IInv => NoFutureLost
  BY DEF IInv
<1> QED
  BY Inductive, <1>1, PTL

\* With fewer threads in the RPC server than in the pool, the tasks that run on the
\* pool and wait for others on it never occupy all of its threads: were they all
\* waiting, each would run the ZoneAction of a message of its own, and there are
\* not that many messages in work.
THEOREM PoolNeverStarves == Spec => []NoStarvation
<1>1. ASSUME IInv
      PROVE  NoStarvation
  <2> SUFFICES ASSUME \A t \in Threads : Waits(t)
               PROVE  FALSE
    BY DEF NoStarvation
  <2> DEFINE f == [t \in Threads |-> running[t].owner]
  <2>1. /\ IsFiniteSet(Busy)
        /\ Cardinality(Busy) < Cardinality(Threads)
        /\ IsFiniteSet(Threads)
    <3>1. Busy \in SUBSET Messages /\ IsFiniteSet(Messages)
      BY ExecutorAssumption DEF Busy
    <3>2. IsFiniteSet(Busy)
      BY <3>1, FS_Subset
    <3>3. Cardinality(Busy) \in Nat /\ Cardinality(Threads) \in Nat
      BY <3>2, FS_CardinalityType, ExecutorAssumption
    <3> QED
      BY <1>1, <3>2, <3>3, ExecutorAssumption DEF IInv, HandlersInv
  <2>2. \A t \in Threads :
           /\ running[t] \notin {NoTask, Abandoned}
           /\ running[t].owner \in Busy
           /\ running[t] = [owner |-> running[t].owner, item |-> 1,
                            kind |-> "action"]
    <3> SUFFICES ASSUME NEW t \in Threads
                 PROVE  /\ running[t] \notin {NoTask, Abandoned}
                        /\ running[t].owner \in Busy
                        /\ running[t] = [owner |-> running[t].owner, item |-> 1,
                                         kind |-> "action"]
      OBVIOUS
    <3> QED
      BY <1>1, ActionOnThread DEF Waits, Busy
  <2>3. f \in [Threads -> Busy]
    BY <2>2
  <2>5. \A t, u \in Threads : f[t] = f[u] => t = u
    BY <1>1, <2>2 DEF IInv, NoFutureLost
  <2> HIDE DEF f
  <2>6. \E t, u \in Threads : t # u /\ f[t] = f[u]
    BY <2>1, <2>3, FS_PigeonHole
  <2> QED
    BY <2>5, <2>6
<1> QED
  BY Inductive, <1>1, PTL

=============================================================================
