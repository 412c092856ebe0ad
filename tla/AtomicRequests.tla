---------------------------- MODULE AtomicRequests ----------------------------
(***************************************************************************)
(* What a request that changes the database promises, seen from outside:   *)
(* all of its changes are stored at one moment, or none ever is; a client  *)
(* that is told "ok" finds them stored and announced; one that is told     *)
(* "error" never will; and one that is told nothing in time knows nothing. *)
(***************************************************************************)
CONSTANT RequestIds

VARIABLES
    asked,      \* the changes each request asks for
    fate,       \* of each request: is it still open, kept, or dropped?
    stored,     \* the changes in the database, with their requests
    told,       \* the requests of which a notification was sent
    answer      \* what the client was told

atomicVars == <<asked, fate, stored, told, answer>>

AtomicInit ==
    /\ fate = [r \in RequestIds |-> "open"]
    /\ stored = {} /\ told = {}
    /\ answer = [r \in RequestIds |-> "none"]

Keep(r) ==
    /\ fate[r] = "open"
    /\ fate' = [fate EXCEPT ![r] = "kept"]
    /\ stored' = stored \union ({r} \X asked[r])
    /\ UNCHANGED <<asked, told, answer>>

\* One request is refused, or a process dies with all it was doing.
Drop(gone) ==
    /\ gone # {} /\ \A r \in gone : fate[r] = "open"
    /\ fate' = [r \in RequestIds |-> IF r \in gone THEN "dropped" ELSE fate[r]]
    /\ UNCHANGED <<asked, stored, told, answer>>

\* A notification may be early, and about a change that is dropped.
Tell(r) == told' = told \union {r} /\ UNCHANGED <<asked, fate, stored, answer>>

Answer(r, is) ==
    /\ answer[r] = "none"
    /\ is = "ok" => fate[r] = "kept" /\ r \in told
    /\ is = "error" => fate[r] = "dropped"
    /\ answer' = [answer EXCEPT ![r] = is]
    /\ UNCHANGED <<asked, fate, stored, told>>

AtomicNext ==
    \/ \E r \in RequestIds :
          Keep(r) \/ Tell(r) \/ \E is \in {"ok", "error", "timeout"} : Answer(r, is)
    \/ \E gone \in SUBSET RequestIds : Drop(gone)

AtomicSpec == AtomicInit /\ [][AtomicNext]_atomicVars

=============================================================================
