------------------------------ MODULE SinkEvents ------------------------------
(***************************************************************************)
(* Sink: the records of the instances of the compute service, made and     *)
(* removed upon its notifications.  Any number of sinks take events from   *)
(* one queue, so that two events of an instance may be handled at the same *)
(* time; the event of a sink that dies is delivered again, while the call  *)
(* of central it was making goes on.  The records are those of one zone; a *)
(* record set has one record, as a call replaces all that it had.          *)
(***************************************************************************)
EXTENDS Naturals, FiniteSets

CONSTANTS
    Instances,
    Names,          \* of record sets
    Addresses,      \* of each instance
    Sinks,
    MaxSinkFaults   \* sinks that die, events that are dropped

ASSUME SinkAssumption ==
    /\ Names # {}
    /\ Addresses \in Nat \ {0} /\ MaxSinkFaults \in Nat

VARIABLES
    hostname,       \* of each instance, which gives the name of its records; never changes
    life,           \* of each instance
    events,         \* in the queue
    handling,       \* what each sink does
    rrset,          \* the record set of each name
    made,           \* numbers the record sets and records
    overtaken,      \* history: instances whose removal began before the end of another event
    dropped,        \* history: instances of which an event was given up
    sink_faults

sinkVars ==
    <<hostname, life, events, handling, rrset, made, overtaken, dropped, sink_faults>>

NoEvent == [at |-> "none"]
NoRRSet == [there |-> FALSE]
User == "user"
RRSet(id, record, of) == [there |-> TRUE, id |-> id, record |-> record, of |-> of]

Name(h) == hostname[handling[h].of]
GoOn(h, at) == handling' = [handling EXCEPT ![h].at = at]
Leave(h) == handling' = [handling EXCEPT ![h] = NoEvent]
SinkFault == sink_faults < MaxSinkFaults /\ sink_faults' = sink_faults + 1

\* An exception is logged, and the event is not delivered again.
Give(h) == Leave(h) /\ dropped' = dropped \union {handling[h].of}

-----------------------------------------------------------------------------
(* The compute service.                                                    *)

Boot(i) ==
    /\ life[i] = "none"
    /\ life' = [life EXCEPT ![i] = "up"]
    /\ events' = events \union {<<i, "create.end">>}
    /\ UNCHANGED <<hostname, handling, rrset, made, overtaken, dropped, sink_faults>>

Terminate(i) ==
    /\ life[i] = "up"
    /\ life' = [life EXCEPT ![i] = "gone"]
    /\ events' = events \union {<<i, "delete.start">>}
    /\ UNCHANGED <<hostname, handling, rrset, made, overtaken, dropped, sink_faults>>

-----------------------------------------------------------------------------
(* Service.info and process_notification                                   *)

Take(h, i, event) ==
    /\ handling[h] = NoEvent /\ <<i, event>> \in events
    /\ events' = events \ {<<i, event>>}
    /\ handling' = [handling EXCEPT ![h] =
            [at |-> IF event = "create.end" THEN "read" ELSE "find", of |-> i,
             event |-> event, left |-> Addresses, alone |-> FALSE]]
    /\ overtaken' = IF event = "delete.start"
                       /\ (<<i, "create.end">> \in events
                           \/ \E g \in Sinks : handling[g] # NoEvent /\ handling[g].of = i)
                    THEN overtaken \union {i} ELSE overtaken
    /\ UNCHANGED <<hostname, life, rrset, made, dropped, sink_faults>>

\* No answer from central, a zone that is being deleted.
Except(h) ==
    /\ handling[h] # NoEvent
    /\ Give(h) /\ SinkFault
    /\ UNCHANGED <<hostname, life, events, rrset, made, overtaken>>

\* The call that is under way ends without it.
SinkDies(h) ==
    /\ handling[h] # NoEvent /\ ~handling[h].alone
    /\ events' = events \union {<<handling[h].of, handling[h].event>>}
    /\ handling' = [handling EXCEPT ![h].alone = TRUE]
    /\ SinkFault
    /\ UNCHANGED <<hostname, life, rrset, made, overtaken, dropped>>

-----------------------------------------------------------------------------
(* _create: create_managed_records, for one address after another.         *)

ReadToReplace(h) ==
    /\ handling[h].at = "read"
    /\ handling' = [handling EXCEPT ![h] =
            IF rrset[Name(h)].there
            THEN [at |-> "replace", of |-> @.of, event |-> @.event, left |-> @.left,
                  alone |-> @.alone, seen |-> rrset[Name(h)]]
            ELSE [@ EXCEPT !.at = "create"]]
    /\ UNCHANGED <<hostname, life, events, rrset, made, overtaken, dropped, sink_faults>>

\* The next address, if the sink is still there.
Following(h) ==
    handling' = [handling EXCEPT ![h] =
        IF @.left = 1 \/ @.alone THEN NoEvent
        ELSE [at |-> "read", of |-> @.of, event |-> @.event, left |-> @.left - 1,
              alone |-> FALSE]]

\* The record of a user stays.
ReplaceManaged(h) ==
    LET rr == rrset[Name(h)]
    IN  /\ handling[h].at = "replace"
        /\ IF rr.there /\ rr.id = handling[h].seen.id
           THEN /\ rrset' = IF rr.of = User THEN rrset
                            ELSE [rrset EXCEPT ![Name(h)] = RRSet(rr.id, made, handling[h].of)]
                /\ made' = made + 1
                /\ Following(h)
           ELSE GoOn(h, "create") /\ UNCHANGED <<rrset, made>>
        /\ UNCHANGED <<hostname, life, events, overtaken, dropped, sink_faults>>

\* All records of the record set, a user's too.  If the record was replaced meanwhile
\* the call may fail, as the isolation of the database has it.
Replace(h) ==
    LET rr == rrset[Name(h)]
        seen == handling[h].seen
    IN  /\ handling[h].at = "replace"
        /\ \/ /\ rr.there /\ rr.id = seen.id
              /\ rrset' = [rrset EXCEPT ![Name(h)] = RRSet(rr.id, made, handling[h].of)]
              /\ made' = made + 1
              /\ Following(h) /\ UNCHANGED dropped
           \/ /\ rr.there /\ rr.id = seen.id /\ rr.record # seen.record
              /\ Give(h) /\ UNCHANGED <<rrset, made>>
           \/ /\ ~(rr.there /\ rr.id = seen.id)
              /\ GoOn(h, "create") /\ UNCHANGED <<rrset, made, dropped>>
        /\ UNCHANGED <<hostname, life, events, overtaken, sink_faults>>

\* DuplicateRecordSet
CreateManaged(h) ==
    /\ handling[h].at = "create"
    /\ IF rrset[Name(h)].there THEN Give(h) /\ UNCHANGED <<rrset, made>>
       ELSE /\ rrset' = [rrset EXCEPT ![Name(h)] = RRSet(made, made, handling[h].of)]
            /\ made' = made + 1
            /\ Following(h) /\ UNCHANGED dropped
    /\ UNCHANGED <<hostname, life, events, overtaken, sink_faults>>

-----------------------------------------------------------------------------
(* _delete: delete_managed_records                                         *)

FindManaged(h) ==
    /\ handling[h].at = "find"
    /\ handling' = [handling EXCEPT ![h] =
            IF rrset[Name(h)].there /\ rrset[Name(h)].of = @.of
            THEN [at |-> "look", of |-> @.of, event |-> @.event, alone |-> @.alone,
                  seen |-> rrset[Name(h)]]
            ELSE NoEvent]
    /\ UNCHANGED <<hostname, life, events, rrset, made, overtaken, dropped, sink_faults>>

LookToRemove(h) ==
    /\ handling[h].at = "look"
    /\ IF rrset[Name(h)] = handling[h].seen THEN GoOn(h, "remove") ELSE Leave(h)
    /\ UNCHANGED <<hostname, life, events, rrset, made, overtaken, dropped, sink_faults>>

\* Whatever record the record set has by now; or the call fails.
RemoveManaged(h) ==
    LET rr == rrset[Name(h)]
        seen == handling[h].seen
    IN  /\ handling[h].at = "remove"
        /\ \/ /\ rrset' = IF rr.there /\ rr.id = seen.id
                          THEN [rrset EXCEPT ![Name(h)] = NoRRSet] ELSE rrset
              /\ Leave(h) /\ UNCHANGED dropped
           \/ /\ rr.there /\ rr.id = seen.id /\ rr.record # seen.record
              /\ Give(h) /\ UNCHANGED rrset
        /\ UNCHANGED <<hostname, life, events, made, overtaken, sink_faults>>

-----------------------------------------------------------------------------

SinkInit ==
    /\ hostname \in [Instances -> Names]
    /\ life = [i \in Instances |-> "none"]
    /\ events = {}
    /\ handling = [h \in Sinks |-> NoEvent]
    /\ rrset \in [Names -> {NoRRSet, RRSet(0, 0, User)}]
    /\ made = 1
    /\ overtaken = {} /\ dropped = {} /\ sink_faults = 0

TakeAny(h) == \E i \in Instances, event \in {"create.end", "delete.start"} : Take(h, i, event)

HandleEvent(h) ==
    \/ ReadToReplace(h) \/ Replace(h) \/ CreateManaged(h)
    \/ FindManaged(h) \/ LookToRemove(h) \/ RemoveManaged(h)

SinkNext ==
    \/ \E i \in Instances : Boot(i) \/ Terminate(i)
    \/ \E h \in Sinks : TakeAny(h) \/ HandleEvent(h) \/ Except(h) \/ SinkDies(h)

\* A sink that has nothing to do takes an event, and what is begun goes on.
SinkFairness == \A h \in Sinks : WF_sinkVars(TakeAny(h) \/ HandleEvent(h))

SinkTypeOK ==
    /\ life \in [Instances -> {"none", "up", "gone"}]
    /\ \A n \in Names : rrset[n].there => rrset[n].of \in Instances \union {User}
    /\ overtaken \union dropped \subseteq Instances
    /\ sink_faults \in 0..MaxSinkFaults

\* No other instance has its name.
Unique(i) == \A j \in Instances : hostname[j] = hostname[i] => j = i

\* No event of it is in the queue, and none is handled.
IsSettled(i) ==
    /\ \A event \in events : event[1] # i
    /\ \A h \in Sinks : handling[h] = NoEvent \/ handling[h].of # i

(* When all events of an instance have been handled, it has no record if   *)
(* it is gone, and it has one if it is up and shares its name with no      *)
(* other, also where a user had set one before: whatever sinks handle      *)
(* events of it twice or leave calls behind as they die, unless an event   *)
(* was given up or the removal began before the end of another event.      *)
RecordsFitWhenDone ==
    \A i \in Instances :
        IsSettled(i) /\ i \notin overtaken \union dropped =>
            /\ life[i] = "gone" => ~rrset[hostname[i]].there \/ rrset[hostname[i]].of # i
            /\ life[i] = "up" /\ Unique(i) =>
                    rrset[hostname[i]].there /\ rrset[hostname[i]].of = i

(* In the end an instance that is gone has no record, and one that is up   *)
(* and shares its name with no other has one, also where a user had set    *)
(* one before, whatever sinks die and calls go on without them; unless an  *)
(* event of it was given up, or its removal was begun before the end of    *)
(* its creation's handling.                                                *)
RecordsFollowInstances ==
    <>[](\A i \in Instances \ (overtaken \union dropped) :
            /\ life[i] = "gone" => ~rrset[hostname[i]].there \/ rrset[hostname[i]].of # i
            /\ life[i] = "up" /\ Unique(i) =>
                    rrset[hostname[i]].there /\ rrset[hostname[i]].of = i)

=============================================================================
