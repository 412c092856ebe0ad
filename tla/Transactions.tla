----------------------------- MODULE Transactions -----------------------------
(***************************************************************************)
(* The wrappers around a method of central that stores something: the      *)
(* transaction, which joins the one of its caller; the retry of a          *)
(* transaction that lost a deadlock, by the outermost of them, on copies   *)
(* of the arguments; the queue of notifications, emitted when the          *)
(* outermost of their wrappers ends; and the API's call, which may be      *)
(* turned away before it and may time out at any time.  A change of an     *)
(* object is stored if the object is still marked as changed, and storing  *)
(* it removes the mark; an insertion stores all fields.                    *)
(***************************************************************************)
EXTENDS Naturals, Sequences

CONSTANTS
    RequestIds,
    MaxRetries,     \* retries of retry(), 150
    MaxMishaps      \* deadlocks, exceptions and crashes

ASSUME TransactionsAssumption == MaxRetries \in Nat \ {0} /\ MaxMishaps \in Nat

VARIABLES
    plan,           \* what each request does
    at,             \* where it is
    pc,             \* the statement it comes to
    session,        \* the statements done in its transaction
    unmarked,       \* those whose object is no longer marked as changed
    tries,          \* RETRY_STATE.retries
    queue,          \* does it have a notification queued?
    changes,        \* the statements committed, with their requests
    emitted,        \* the requests of which a notification was sent
    response,       \* what the client was told
    mishaps

requestVars == <<plan, at, pc, session, unmarked, tries, queue, changes, emitted,
                 response, mishaps>>

\* A nested statement is that of an inner transaction, whose arguments are copied
\* again; an announced one has its own notification.
Insertion == [inserts |-> TRUE, nested |-> FALSE, announced |-> FALSE]
Change == [inserts |-> FALSE, nested |-> FALSE, announced |-> FALSE]
Nested == [inserts |-> FALSE, nested |-> TRUE, announced |-> FALSE]
Announced == [inserts |-> FALSE, nested |-> TRUE, announced |-> TRUE]

\* tells: whether the notification wrapper is around the transaction or within it.
Method(deep_copy, tells, statements) ==
    [deep_copy |-> deep_copy, tells |-> tells, statements |-> statements]

Plans ==
    { Method(FALSE, "after", <<Insertion, Nested>>),               \* create_recordset
      Method(TRUE, "after", <<Change, Nested>>),                \* update_recordset
      Method(TRUE, "after", <<Change, Announced, Announced>>),  \* update_pool
      Method(TRUE, "within", <<Nested, Nested>>) }              \* update_floatingip

Statements(r) == 1..Len(plan[r].statements)

Mishap == mishaps < MaxMishaps /\ mishaps' = mishaps + 1

-----------------------------------------------------------------------------
(* The API and its client.                                                 *)

\* Maintenance, an invalid token, a forbidden sudo, or an invalid object.
TurnAway(r) ==
    /\ at[r] = "new" /\ response[r] = "none"
    /\ at' = [at EXCEPT ![r] = "refused"]
    /\ UNCHANGED <<plan, pc, session, unmarked, tries, queue, changes, emitted, response, mishaps>>

Call(r) ==
    /\ at[r] = "new"
    /\ at' = [at EXCEPT ![r] = "running"]
    /\ UNCHANGED <<plan, pc, session, unmarked, tries, queue, changes, emitted, response, mishaps>>

\* FaultWrapperMiddleware answers 504; the call goes on, or begins only now.
TimeOut(r) ==
    /\ response[r] = "none"
    /\ response' = [response EXCEPT ![r] = "timeout"]
    /\ UNCHANGED <<plan, at, pc, session, unmarked, tries, queue, changes, emitted, mishaps>>

Respond(r) ==
    /\ at[r] \in {"done", "refused"} /\ response[r] = "none"
    /\ response' = [response EXCEPT ![r] = IF at[r] = "done" THEN "ok" ELSE "error"]
    /\ UNCHANGED <<plan, at, pc, session, unmarked, tries, queue, changes, emitted, mishaps>>

-----------------------------------------------------------------------------
(* The transaction.                                                        *)

Execute(r) ==
    LET statement == plan[r].statements[pc[r]]
    IN  /\ at[r] = "running" /\ pc[r] \in Statements(r)
        /\ session' = IF statement.inserts \/ pc[r] \notin unmarked[r]
                      THEN [session EXCEPT ![r] = @ \union {pc[r]}] ELSE session
        /\ unmarked' = IF statement.nested THEN unmarked
                       ELSE [unmarked EXCEPT ![r] = @ \union {pc[r]}]
        /\ queue' = [queue EXCEPT ![r] = @ \/ statement.announced]
        /\ pc' = [pc EXCEPT ![r] = @ + 1]
        /\ UNCHANGED <<plan, at, tries, changes, emitted, response, mishaps>>

\* The wrapper of an inner method is the outermost one when its caller has none.
EmitWithin(r) ==
    /\ at[r] = "running" /\ pc[r] \notin Statements(r)
    /\ plan[r].tells = "within" /\ r \notin emitted
    /\ emitted' = emitted \union {r}
    /\ UNCHANGED <<plan, at, pc, session, unmarked, tries, queue, changes, response, mishaps>>

Commit(r) ==
    /\ at[r] = "running" /\ pc[r] \notin Statements(r)
    /\ plan[r].tells = "within" => r \in emitted
    /\ changes' = changes \union ({r} \X session[r])
    /\ session' = [session EXCEPT ![r] = {}]
    /\ at' = [at EXCEPT ![r] = "committed"]
    /\ UNCHANGED <<plan, pc, unmarked, tries, queue, emitted, response, mishaps>>

\* The arguments are never copied deeply.
ForRetryShallow(r) == unmarked[r]

\* What an attempt has unmarked is so in its copies.
ForRetry(r) == IF plan[r].deep_copy THEN {} ELSE unmarked[r]

\* Of a statement, or of the commit.
Deadlock(r) ==
    /\ at[r] = "running" /\ Mishap
    /\ tries' = [tries EXCEPT ![r] = @ + 1]
    /\ session' = [session EXCEPT ![r] = {}]
    /\ IF tries[r] + 1 >= MaxRetries
       THEN /\ at' = [at EXCEPT ![r] = "failed"]
            /\ UNCHANGED <<pc, unmarked>>
       ELSE /\ pc' = [pc EXCEPT ![r] = 1]
            /\ unmarked' = [unmarked EXCEPT ![r] = ForRetry(r)]
            /\ UNCHANGED at
    /\ UNCHANGED <<plan, queue, changes, emitted, response>>

\* Any other exception ends the call.
Raise(r) ==
    /\ at[r] = "running" /\ Mishap
    /\ session' = [session EXCEPT ![r] = {}]
    /\ at' = [at EXCEPT ![r] = "failed"]
    /\ UNCHANGED <<plan, pc, unmarked, tries, queue, changes, emitted, response>>

\* The end of the outermost notification wrapper: what the inner ones have queued
\* goes out even if the call failed.
EndCall(r) ==
    /\ at[r] \in {"committed", "failed"}
    /\ emitted' = IF plan[r].tells = "after" /\ (at[r] = "committed" \/ queue[r])
                  THEN emitted \union {r} ELSE emitted
    /\ queue' = [queue EXCEPT ![r] = FALSE]
    /\ at' = [at EXCEPT ![r] = IF @ = "committed" THEN "done" ELSE "refused"]
    /\ UNCHANGED <<plan, pc, session, unmarked, tries, changes, response, mishaps>>

\* The process of central dies, with all it is doing.
Serving == {r \in RequestIds : at[r] \in {"running", "committed", "failed"}}

CrashCentral ==
    /\ Serving # {} /\ Mishap
    /\ session' = [r \in RequestIds |-> {}]
    /\ at' = [r \in RequestIds |-> IF r \in Serving THEN "lost" ELSE at[r]]
    /\ UNCHANGED <<plan, pc, unmarked, tries, queue, changes, emitted, response>>

-----------------------------------------------------------------------------

RequestsInit ==
    /\ plan \in [RequestIds -> Plans]
    /\ at = [r \in RequestIds |-> "new"]
    /\ pc = [r \in RequestIds |-> 1]
    /\ session = [r \in RequestIds |-> {}]
    /\ unmarked = [r \in RequestIds |-> {}]
    /\ tries = [r \in RequestIds |-> 0]
    /\ queue = [r \in RequestIds |-> FALSE]
    /\ changes = {} /\ emitted = {}
    /\ response = [r \in RequestIds |-> "none"]
    /\ mishaps = 0

RequestsNext ==
    \/ \E r \in RequestIds :
          \/ TurnAway(r) \/ Call(r) \/ TimeOut(r) \/ Respond(r)
          \/ Execute(r) \/ EmitWithin(r) \/ Commit(r) \/ Deadlock(r) \/ Raise(r) \/ EndCall(r)
    \/ CrashCentral

RequestsSpec == RequestsInit /\ [][RequestsNext]_requestVars

-----------------------------------------------------------------------------

RequestsTypeOK ==
    /\ plan \in [RequestIds -> Plans]
    /\ at \in [RequestIds -> {"new", "running", "committed", "failed", "done", "refused", "lost"}]
    /\ \A r \in RequestIds : session[r] \union unmarked[r] \subseteq Statements(r)
    /\ tries \in [RequestIds -> 0..MaxRetries]
    /\ response \in [RequestIds -> {"none", "ok", "error", "timeout"}]
    /\ mishaps \in 0..MaxMishaps

\* A request is kept once any of its statements is committed.
FateOf(r) ==
    IF \E change \in changes : change[1] = r THEN "kept"
    ELSE IF at[r] \in {"failed", "refused", "lost"} THEN "dropped" ELSE "open"

Promised ==
    INSTANCE AtomicRequests WITH
        asked <- [r \in RequestIds |-> Statements(r)],
        fate <- [r \in RequestIds |-> FateOf(r)],
        stored <- changes, told <- emitted, answer <- response

(* Whatever deadlocks, exceptions, crashes and timeouts a request meets,   *)
(* its changes are stored all at once and completely or never: a retry     *)
(* does not lose what an earlier attempt had written, no answer "error" is *)
(* given for what is or will be stored, and none "ok" for what is not.     *)
RequestsAreAtomic ==
    /\ Promised!AtomicInit
    /\ [][UNCHANGED requestVars \/ Promised!AtomicNext]_(Promised!atomicVars)

=============================================================================
