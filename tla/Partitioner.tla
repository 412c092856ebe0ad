----------------------------- MODULE Partitioner -----------------------------
(***************************************************************************)
(* The shards of the producers.  Each producer joins a group of the        *)
(* coordination backend, watches it, and gives its periodic tasks a slice  *)
(* of the shards according to its place among the members.  Two threads of *)
(* a producer do this without a lock: the one that starts it, and the one  *)
(* of the timer that looks for changes of the group.                       *)
(***************************************************************************)
EXTENDS Integers, FiniteSets

CONSTANTS
    NumProducers,   \* processes; their ids are sorted as these numbers are
    NumShards,      \* 4096
    NumTasks,       \* subscribers of watch_partition_change
    MaxChanges,     \* how often the group may have changed before a join or a leave
    MaxFaults       \* crashes, expiries and calls to the backend that fail

ASSUME PartitionerAssumption ==
    /\ NumProducers \in Nat
    /\ NumShards \in Nat
    /\ NumTasks \in Nat
    /\ MaxChanges \in Nat
    /\ MaxFaults \in Nat

VARIABLES
    group,          \* the members of the group, in the backend
    version,        \* how often the group has changed
    main,           \* the thread that starts each producer
    watcher,        \* the thread that runs its watchers
    seen,           \* the members its watchers know, tooz's _group_members
    mine,           \* Partitioner._my_partitions
    subscribed,     \* how many tasks are in Partitioner._callbacks
    task,           \* PeriodicTask.my_partitions of each of its tasks
    faults,
    dealt,          \* history: the version each producer has dealt with
    calm            \* history: had all dealt with the version before this one?

vars == <<group, version, main, watcher, seen, mine, subscribed, task, faults,
          dealt, calm>>

Producers == 1..NumProducers
Tasks == 1..NumTasks
Shards == 0..(NumShards - 1)

\* None, the partitions of who has not been told any; not a set of shards.
NoShards == {-1}

-----------------------------------------------------------------------------
(* The threads of a producer before they begin.                            *)

Off == [at |-> "off", range |-> NoShards, since |-> 0, disturbed |-> FALSE]

Running == [Off EXCEPT !.at = "running"]

Idle == [at |-> "idle", members |-> {}, range |-> NoShards, next |-> 1, events |-> 0,
         since |-> 0, alone |-> FALSE]

-----------------------------------------------------------------------------
(* Partitioner._partition.                                                 *)

CeilDiv(a, b) == (a + b - 1) \div b

\* partitions[my_start:my_end]; nothing for the last ones of a large group.
IndexedSlice(index, count) ==
    LET size == CeilDiv(NumShards, count)
    IN  {s \in Shards : size * index <= s /\ s < size * index + size}

Slice(members, me) ==
    IndexedSlice(Cardinality({q \in members : q < me}), Cardinality(members))

-----------------------------------------------------------------------------
(* The group.  An id is made for each start of a process and never again.  *)

Settled == \A p \in group : dealt[p] = version

ChangeGroup(members) ==
    /\ group' = members
    /\ version' = version + 1
    /\ calm' = (\A p \in group : main[p].at # "ended" => dealt[p] = version)

\* Coordination.start
JoinGroup(p) ==
    /\ main[p].at = "off"
    /\ version <= MaxChanges
    /\ ChangeGroup(group \union {p})
    /\ main' = [main EXCEPT ![p].at = "joined"]
    /\ UNCHANGED <<watcher, seen, mine, subscribed, task, faults, dealt>>

\* The memory of a process goes with it.
EndProcess(p) ==
    /\ main' = [main EXCEPT ![p] = [Off EXCEPT !.at = "ended"]]
    /\ watcher' = [watcher EXCEPT ![p] = Idle]
    /\ seen' = [seen EXCEPT ![p] = {}]
    /\ mine' = [mine EXCEPT ![p] = NoShards]
    /\ subscribed' = [subscribed EXCEPT ![p] = 0]
    /\ task' = [task EXCEPT ![p] = [k \in Tasks |-> NoShards]]
    /\ dealt' = [dealt EXCEPT ![p] = 0]

\* Producer.stop, Coordination.stop
LeaveGroup(p) ==
    /\ main[p].at = "running"
    /\ p \in group
    /\ version <= MaxChanges
    /\ ChangeGroup(group \ {p})
    /\ EndProcess(p)
    /\ UNCHANGED faults

\* The process dies; the backend does not know yet.
Crash(p) ==
    /\ main[p].at \notin {"off", "ended"}
    /\ faults < MaxFaults
    /\ faults' = faults + 1
    /\ EndProcess(p)
    /\ UNCHANGED <<group, version, calm>>

\* The backend has not heard of the process for too long.  Nothing in the code joins
\* the group again; a process that lives on keeps the shards it has.
Expire(p) ==
    /\ p \in group
    /\ IF main[p].at = "ended" THEN UNCHANGED faults
                               ELSE faults < MaxFaults /\ faults' = faults + 1
    /\ ChangeGroup(group \ {p})
    /\ UNCHANGED <<main, watcher, seen, mine, subscribed, task, dealt>>

-----------------------------------------------------------------------------
(* Partitioner.start and watch_partition_change, on the starting thread.   *)

Goes(p, at) == main[p].at = at

\* watch_join_group and watch_leave_group
WatchGroup(p) ==
    /\ Goes(p, "joined")
    /\ seen' = [seen EXCEPT ![p] = group]
    /\ main' = [main EXCEPT ![p].at = "watching", ![p].since = version]
    /\ UNCHANGED <<group, version, watcher, mine, subscribed, task, faults, dealt,
                   calm>>

\* _update_partitions: get_members and _partition.  Not a member: ValueError.
ComputeAtStart(p) ==
    /\ Goes(p, "watching")
    /\ \/ /\ p \in group
          /\ main' = [main EXCEPT ![p].at = "computed", ![p].range = Slice(group, p)]
          /\ UNCHANGED <<watcher, seen, mine, subscribed, task, dealt>>
       \/ /\ p \notin group
          /\ EndProcess(p)
    /\ UNCHANGED <<group, version, faults, calm>>

AssignAtStart(p) ==
    /\ Goes(p, "computed")
    /\ mine' = [mine EXCEPT ![p] = main[p].range]
    /\ main' = [main EXCEPT ![p].at = "started"]
    /\ UNCHANGED <<group, version, watcher, seen, subscribed, task, faults, dealt,
                   calm>>

\* DEFECT: a task may subscribe again.
SubscribeAgain(p) ==
    /\ Goes(p, "started")
    /\ subscribed' = [subscribed EXCEPT ![p] = @ + 1]
    /\ main' = [main EXCEPT ![p].at = "subscribed", ![p].range = mine[p]]
    /\ UNCHANGED <<group, version, watcher, seen, mine, task, faults, dealt, calm>>

\* watch_partition_change up to the argument of the callback.
Subscribe(p) ==
    /\ Goes(p, "started")
    /\ subscribed[p] < NumTasks
    /\ subscribed' = [subscribed EXCEPT ![p] = @ + 1]
    /\ main' = [main EXCEPT ![p].at = "subscribed", ![p].range = mine[p]]
    /\ UNCHANGED <<group, version, watcher, seen, mine, task, faults, dealt, calm>>

\* DEFECT: the task waits for the first change.
TellTaskLater(p) ==
    /\ Goes(p, "subscribed")
    /\ main' = [main EXCEPT ![p].at = "started"]
    /\ UNCHANGED <<group, version, watcher, seen, mine, subscribed, task, faults,
                   dealt, calm>>

\* PeriodicTask.on_partition_change, for the task that has just subscribed.
TellTask(p) ==
    /\ Goes(p, "subscribed")
    /\ task' = [task EXCEPT ![p][subscribed[p]] = main[p].range]
    /\ main' = [main EXCEPT ![p].at = "started"]
    /\ UNCHANGED <<group, version, watcher, seen, mine, subscribed, faults, dealt,
                   calm>>

\* All tasks have their timers.
FinishStart(p) ==
    /\ Goes(p, "started")
    /\ subscribed[p] = NumTasks
    /\ main' = [main EXCEPT ![p] = Running]
    /\ dealt' = IF main[p].disturbed THEN dealt
                                     ELSE [dealt EXCEPT ![p] = main[p].since]
    /\ UNCHANGED <<group, version, watcher, seen, mine, subscribed, task, faults,
                   calm>>

-----------------------------------------------------------------------------
(* run_watchers, on the thread of the timer.                               *)

Watches(p, at) == watcher[p].at = at /\ main[p].at # "ended"

\* It compares the members with those it knows, and has _on_group_change called for
\* each that has come or gone.
RunWatchers(p) ==
    /\ Watches(p, "idle")
    /\ main[p].at \notin {"off", "joined"}
    /\ seen[p] # group
    /\ watcher' = [watcher EXCEPT
          ![p] = [at |-> "event", members |-> group, range |-> NoShards, next |-> 1,
                  events |-> Cardinality((group \ seen[p]) \union (seen[p] \ group)),
                  since |-> version, alone |-> main[p].at = "running"]]
    /\ main' = [main EXCEPT ![p].disturbed = main[p].at # "running"]
    /\ UNCHANGED <<group, version, seen, mine, subscribed, task, faults, dealt, calm>>

\* DEFECT: the partitions are computed from the members known before.
ComputeOnKnownMembers(p) ==
    /\ Watches(p, "event")
    /\ p \in group
    /\ watcher' = [watcher EXCEPT ![p].at = "computed",
                                 ![p].range = Slice(seen[p], p)]
    /\ UNCHANGED <<group, version, main, seen, mine, subscribed, task, faults, dealt,
                   calm>>

\* _on_group_change: get_members again and _partition
ComputeOnChange(p) ==
    /\ Watches(p, "event")
    /\ p \in group
    /\ watcher' = [watcher EXCEPT ![p].at = "computed", ![p].range = Slice(group, p)]
    /\ UNCHANGED <<group, version, main, seen, mine, subscribed, task, faults, dealt,
                   calm>>

\* DEFECT: the exception is swallowed, and the change counts as dealt with.
FailOnChangeQuietly(p) ==
    /\ Watches(p, "event")
    /\ p \in group => faults < MaxFaults
    /\ faults' = IF p \in group THEN faults + 1 ELSE faults
    /\ watcher' = [watcher EXCEPT ![p] = Idle]
    /\ seen' = [seen EXCEPT ![p] = watcher[p].members]
    /\ UNCHANGED <<group, version, main, mine, subscribed, task, dealt, calm>>

\* The backend does not answer, or the process is no member (ValueError): the timer
\* will come again and find the same changes.
FailOnChange(p) ==
    /\ Watches(p, "event")
    /\ p \in group => faults < MaxFaults
    /\ faults' = IF p \in group THEN faults + 1 ELSE faults
    /\ watcher' = [watcher EXCEPT ![p] = Idle]
    /\ UNCHANGED <<group, version, main, seen, mine, subscribed, task, dealt, calm>>

AssignOnChange(p) ==
    /\ Watches(p, "computed")
    /\ mine' = [mine EXCEPT ![p] = watcher[p].range]
    /\ watcher' = [watcher EXCEPT ![p].at = "calling", ![p].next = 1]
    /\ UNCHANGED <<group, version, main, seen, subscribed, task, faults, dealt, calm>>

\* _run_callbacks: on_partition_change with the partitions as they are by now.
RunCallback(p) ==
    /\ Watches(p, "calling")
    /\ watcher[p].next <= subscribed[p]
    /\ task' = [task EXCEPT ![p][watcher[p].next] = mine[p]]
    /\ watcher' = [watcher EXCEPT ![p].next = @ + 1]
    /\ UNCHANGED <<group, version, main, seen, mine, subscribed, faults, dealt, calm>>

FinishEvent(p) ==
    /\ Watches(p, "calling")
    /\ watcher[p].next > subscribed[p]
    /\ \/ /\ watcher[p].events > 1
          /\ watcher' = [watcher EXCEPT ![p].at = "event", ![p].events = @ - 1]
          /\ UNCHANGED <<seen, dealt>>
       \/ /\ watcher[p].events <= 1
          /\ watcher' = [watcher EXCEPT ![p] = Idle]
          /\ seen' = [seen EXCEPT ![p] = watcher[p].members]
          /\ dealt' = IF watcher[p].alone
                      THEN [dealt EXCEPT ![p] = watcher[p].since] ELSE dealt
    /\ UNCHANGED <<group, version, main, mine, subscribed, task, faults, calm>>

-----------------------------------------------------------------------------

\* Any settled group; the other producers are still to be started.
Init ==
    /\ group \in SUBSET Producers
    /\ version = 1
    /\ main = [p \in Producers |-> IF p \in group THEN Running ELSE Off]
    /\ watcher = [p \in Producers |-> Idle]
    /\ seen = [p \in Producers |-> IF p \in group THEN group ELSE {}]
    /\ mine = [p \in Producers |-> IF p \in group THEN Slice(group, p) ELSE NoShards]
    /\ subscribed = [p \in Producers |-> IF p \in group THEN NumTasks ELSE 0]
    /\ task = [p \in Producers |-> [k \in Tasks |-> mine[p]]]
    /\ faults = 0
    /\ dealt = [p \in Producers |-> IF p \in group THEN 1 ELSE 0]
    /\ calm = TRUE

StartStep(p) ==
    \/ WatchGroup(p)
    \/ ComputeAtStart(p)
    \/ AssignAtStart(p)
    \/ Subscribe(p)
    \/ TellTask(p)
    \/ FinishStart(p)

WatcherStep(p) ==
    \/ RunWatchers(p)
    \/ ComputeOnChange(p)
    \/ FailOnChange(p)
    \/ AssignOnChange(p)
    \/ RunCallback(p)
    \/ FinishEvent(p)

Next ==
    \E p \in Producers :
       \/ JoinGroup(p)
       \/ LeaveGroup(p)
       \/ Crash(p)
       \/ Expire(p)
       \/ StartStep(p)
       \/ WatcherStep(p)

Spec == Init /\ [][Next]_vars

\* Threads go on, timers come again, and the backend notices that a process is gone.
Fairness ==
    \A p \in Producers :
       /\ WF_vars(StartStep(p))
       /\ WF_vars(WatcherStep(p))
       /\ WF_vars(main[p].at = "ended" /\ Expire(p))

FairSpec == Spec /\ Fairness

-----------------------------------------------------------------------------
(* Properties.                                                             *)

Ranges == (SUBSET Shards) \union {NoShards}

\* The threads of a producer.
StartThreads ==
    [at : {"off", "joined", "watching", "computed", "started", "subscribed", "running",
           "ended"},
     range : Ranges, since : Nat, disturbed : BOOLEAN]

WatcherThreads ==
    [at : {"idle", "event", "computed", "calling"},
     members : SUBSET Producers, range : Ranges, next : Nat, events : Nat, since : Nat,
     alone : BOOLEAN]

\* Types; no task subscribes twice, and the bound of the faults is kept.
TypeOK ==
    /\ group \subseteq Producers
    /\ version \in Nat
    /\ main \in [Producers -> StartThreads]
    /\ watcher \in [Producers -> WatcherThreads]
    /\ seen \in [Producers -> SUBSET Producers]
    /\ mine \in [Producers -> Ranges]
    /\ subscribed \in [Producers -> 0..NumTasks]
    /\ task \in [Producers -> [Tasks -> Ranges]]
    /\ faults \in 0..MaxFaults
    /\ dealt \in [Producers -> Nat]
    /\ calm \in BOOLEAN

\* A task whose timer runs has been told its shards: _my_range never meets None.
TasksAreTold ==
    \A p \in Producers : main[p].at = "running" =>
       \A k \in Tasks : task[p][k] # NoShards

\* The tasks of the members divide the shards among them: each shard belongs to one
\* member, and all tasks of a member agree.
Divided ==
    /\ \A p \in group : \A j, k \in Tasks : task[p][j] = task[p][k]
    /\ \A k \in Tasks : \A s \in Shards :
          \E p \in group : /\ s \in task[p][k]
                           /\ \A q \in group \ {p} : s \notin task[q][k]

\* When each member has dealt with the last change of the group from beginning to
\* end, by an undisturbed start or a later run of its watchers, no shard is without a
\* producer and none has two.
DividedWhenSettled == Settled /\ group # {} => Divided

\* A change that meets a settled group leads to a settled group, unless the next
\* change comes before.  (One that does not may be missed for good: see the README.)
EventuallySettled ==
    \A v \in 1..(MaxChanges + MaxFaults + 1) :
       calm /\ version = v ~> Settled \/ version # v

=============================================================================
