----------------------------- MODULE FloatingIps -----------------------------
(***************************************************************************)
(* The PTR record of one floating IP.  The network service knows which     *)
(* tenant holds the address; central, which tenant has set the record.     *)
(* Setting, unsetting and listing are calls of several steps: the network  *)
(* service is asked, the records are searched, and a transaction reads the *)
(* record set and then changes it, without a lock.  A record set is read   *)
(* whole; what has been replaced since is known by the ids of the record   *)
(* set and of its record.                                                  *)
(***************************************************************************)
EXTENDS Naturals, FiniteSets

CONSTANTS
    Holders,        \* tenants
    FipCallers,
    MaxSets,        \* calls that set the record
    MaxPasses       \* how often the address passes to another tenant, or a call fails

ASSUME FipAssumption ==
    /\ Holders # {} /\ IsFiniteSet(FipCallers)
    /\ MaxSets \in Nat /\ MaxPasses \in Nat

VARIABLES
    holder,         \* who the network service says has the address
    reverse_zone,   \* does the zone of the PTR record exist?
    ptr,            \* its record set
    fip_call,       \* the calls under way
    sets, passes

fipVars == <<holder, reverse_zone, ptr, fip_call, sets, passes>>

NoPtr == [there |-> FALSE]
NoCall == [at |-> "none"]
Ptr(id, record, tenant) == [there |-> TRUE, id |-> id, record |-> record, of |-> tenant]

\* An id that neither the database nor a call knows.
Known(field) ==
    { s[field] : s \in {q \in {ptr} \union {fip_call[c].read : c \in
                            {d \in FipCallers : fip_call[d].at \in {"removing", "update"}}}
                         \union {fip_call[c].found : c \in
                            {d \in FipCallers : fip_call[d].at = "remove"}} : q.there} }
FreshId(field) == CHOOSE n \in 1..Cardinality(FipCallers) + 2 : n \notin Known(field)

End(c) == fip_call' = [fip_call EXCEPT ![c] = NoCall]

-----------------------------------------------------------------------------
(* update_floatingip: _set_floatingip_reverse                              *)

\* _get_floatingip: NotFound unless the tenant has the address.
StartSet(c, t) ==
    /\ fip_call[c] = NoCall /\ sets < MaxSets
    /\ holder = t
    /\ fip_call' = [fip_call EXCEPT ![c] = [at |-> "zone", by |-> t]]
    /\ sets' = sets + 1
    /\ UNCHANGED <<holder, reverse_zone, ptr, passes>>

\* One of two that create the zone meets DuplicateZone, and finds it.
FindOrCreateZone(c) ==
    /\ fip_call[c].at = "zone"
    /\ reverse_zone' = TRUE
    /\ fip_call' = [fip_call EXCEPT ![c].at = "set"]
    /\ UNCHANGED <<holder, ptr, sets, passes>>

ReadToSet(c) ==
    /\ fip_call[c].at = "set"
    /\ fip_call' = [fip_call EXCEPT ![c] =
            IF ptr.there THEN [at |-> "update", by |-> @.by, read |-> ptr]
            ELSE [@ EXCEPT !.at = "create"]]
    /\ UNCHANGED <<holder, reverse_zone, ptr, sets, passes>>

\* Its one record is replaced.  If the record was replaced meanwhile, the call may
\* fail, as the isolation of the database has it; if the record set was, one is created.
UpdatePtr(c) ==
    LET call == fip_call[c]
    IN  /\ call.at = "update"
        /\ \/ /\ ptr.there /\ ptr.id = call.read.id
              /\ ptr' = Ptr(ptr.id, FreshId("record"), call.by)
              /\ End(c)
           \/ /\ ptr.there /\ ptr.id = call.read.id /\ ptr.record # call.read.record
              /\ UNCHANGED ptr /\ End(c)
           \/ /\ ~(ptr.there /\ ptr.id = call.read.id)
              /\ UNCHANGED ptr
              /\ fip_call' = [fip_call EXCEPT ![c] = [at |-> "create", by |-> call.by]]
        /\ UNCHANGED <<holder, reverse_zone, sets, passes>>

\* DuplicateRecordSet ends the call.
CreatePtr(c) ==
    /\ fip_call[c].at = "create"
    /\ ptr' = IF ptr.there THEN ptr
              ELSE Ptr(FreshId("id"), FreshId("record"), fip_call[c].by)
    /\ End(c)
    /\ UNCHANGED <<holder, reverse_zone, sets, passes>>

-----------------------------------------------------------------------------
(* update_floatingip: _unset_floatingip_reverse.  The network service is   *)
(* not asked.                                                              *)

StartUnset(c, t) ==
    /\ fip_call[c] = NoCall
    /\ ptr.there /\ ptr.of = t
    /\ fip_call' = [fip_call EXCEPT ![c] = [at |-> "remove", found |-> ptr]]
    /\ UNCHANGED <<holder, reverse_zone, ptr, sets, passes>>

(* list_floatingips and get_floatingip                                     *)

\* What the network service does not list, as when it has no answer, is left alone.
StartList(c, t) ==
    /\ fip_call[c] = NoCall
    /\ holder = t
    /\ fip_call' = [fip_call EXCEPT ![c] = [at |-> "listed", by |-> t]]
    /\ UNCHANGED <<holder, reverse_zone, ptr, sets, passes>>

\* The records of other tenants are not found.
FindOwnOnly(c) ==
    /\ fip_call[c].at = "listed"
    /\ End(c)
    /\ UNCHANGED <<holder, reverse_zone, ptr, sets, passes>>

\* _determine_floatingips: a record of another tenant is invalid.
FindInvalid(c) ==
    /\ fip_call[c].at = "listed"
    /\ fip_call' = [fip_call EXCEPT ![c] =
            IF ptr.there /\ ptr.of # @.by THEN [at |-> "remove", found |-> ptr] ELSE NoCall]
    /\ UNCHANGED <<holder, reverse_zone, ptr, sets, passes>>

\* _delete_or_update_managed_recordset: only if the record is still in it.
ReadToRemove(c) ==
    /\ fip_call[c].at = "remove"
    /\ fip_call' = [fip_call EXCEPT ![c] =
            IF ptr.there /\ ptr.id = @.found.id /\ ptr.record = @.found.record
            THEN [at |-> "removing", read |-> ptr] ELSE NoCall]
    /\ UNCHANGED <<holder, reverse_zone, ptr, sets, passes>>

\* delete_recordset: whatever record it has by now, or, as the isolation of the
\* database has it, not at all if the record was replaced.
RemovePtr(c) ==
    LET call == fip_call[c]
    IN  /\ call.at = "removing"
        /\ IF ptr.there /\ ptr.id = call.read.id
           THEN ptr' \in {NoPtr} \union (IF ptr.record = call.read.record THEN {} ELSE {ptr})
           ELSE UNCHANGED ptr
        /\ End(c)
        /\ UNCHANGED <<holder, reverse_zone, sets, passes>>

-----------------------------------------------------------------------------

\* The address is released and taken by another tenant.
Pass(t) ==
    /\ holder # t /\ passes < MaxPasses
    /\ holder' = t /\ passes' = passes + 1
    /\ UNCHANGED <<reverse_zone, ptr, fip_call, sets>>

\* The call fails: no answer from the network service, a crash, a rolled back transaction.
GiveUp(c) ==
    /\ fip_call[c] # NoCall
    /\ passes < MaxPasses /\ passes' = passes + 1
    /\ End(c)
    /\ UNCHANGED <<holder, reverse_zone, ptr, sets>>

FipInit ==
    /\ holder \in Holders
    /\ reverse_zone = FALSE /\ ptr = NoPtr
    /\ fip_call = [c \in FipCallers |-> NoCall]
    /\ sets = 0 /\ passes = 0

Continue(c) ==
    \/ FindOrCreateZone(c) \/ ReadToSet(c) \/ UpdatePtr(c) \/ CreatePtr(c)
    \/ FindInvalid(c) \/ ReadToRemove(c) \/ RemovePtr(c)

FipNext ==
    \/ \E c \in FipCallers, t \in Holders : StartSet(c, t) \/ StartUnset(c, t) \/ StartList(c, t)
    \/ \E c \in FipCallers : Continue(c) \/ GiveUp(c)
    \/ \E t \in Holders : Pass(t)

\* A call that has begun goes on.
FipFairness == \A c \in FipCallers : WF_fipVars(Continue(c))

FipTypeOK ==
    /\ holder \in Holders /\ reverse_zone \in BOOLEAN
    /\ ptr.there => ptr.of \in Holders /\ reverse_zone
    /\ sets \in 0..MaxSets /\ passes \in 0..MaxPasses

(* If whoever holds the address goes on listing its floating IPs, then in  *)
(* the end no record of another tenant is left for it: not one that was    *)
(* set by a call begun while the tenant still held it, and not one that a  *)
(* removal left because it had been replaced.                              *)
StrangersGo ==
    (\A c \in FipCallers : WF_fipVars(\E t \in Holders : StartList(c, t))) =>
        <>[](ptr.there => ptr.of = holder)

=============================================================================
