------------------------------- MODULE Quotas --------------------------------
(***************************************************************************)
(* One quota of one project: how many zones it may have, or recordsets or  *)
(* records in a zone.  Calls count what there is, compare the sum with the *)
(* limit, and add to it some time later; administrators set and reset the  *)
(* limit meanwhile.  A negative limit is none.                             *)
(***************************************************************************)
EXTENDS Integers, FiniteSets

CONSTANTS
    Adders,         \* threads whose calls add something
    Setters,        \* threads whose calls set the quota
    DefaultLimit,   \* of the configuration
    Limits,         \* what the quota may be set to
    MaxItems,       \* what one call adds at most
    MaxUsed         \* bound of what there is

ASSUME QuotaAssumption ==
    /\ IsFiniteSet(Adders) /\ Adders # {}
    /\ Limits \subseteq Int
    /\ DefaultLimit \in Int
    /\ MaxItems \in Nat \ {0}
    /\ MaxUsed \in Nat

VARIABLES
    resource,       \* what is counted; never changes
    used,           \* how much of it there is
    row,            \* the row of the quota, if there is one
    adder,          \* what each adder is about to add
    setter,
    top             \* history: the largest limit there was; negative for none

quotaVars == <<resource, used, row, adder, setter, top>>

Resources == {"zones", "zone_recordsets", "zone_records"}
NoRowYet == [set |-> FALSE]
RowOf(limit) == [set |-> TRUE, limit |-> limit]

\* get_quotas
Limit(r) == IF r.set THEN r.limit ELSE DefaultLimit

\* limit_check: no resource is exceeded.
Within(limit, value) == limit < 0 \/ value <= limit

\* The larger of two limits, of which a negative one is the largest.
Larger(m, n) == IF m < 0 \/ n < 0 THEN 0 - 1 ELSE IF m < n THEN n ELSE m

-----------------------------------------------------------------------------

\* What one call may add: records come several at a time.
Additions == IF resource = "zone_records" THEN 1..MaxItems ELSE {1}

\* What is to be added is not counted.
CountWhatThereIs(a, n) ==
    /\ adder[a] = 0
    /\ Within(Limit(row), used)
    /\ adder' = [adder EXCEPT ![a] = n]
    /\ UNCHANGED <<resource, used, row, setter, top>>

\* _enforce_zone_quota, _enforce_recordset_quota, _enforce_record_quota
Count(a, n) ==
    /\ adder[a] = 0
    /\ Within(Limit(row), used + n)
    /\ adder' = [adder EXCEPT ![a] = n]
    /\ UNCHANGED <<resource, used, row, setter, top>>

\* The rows are inserted.
Add(a) ==
    /\ adder[a] > 0
    /\ used + adder[a] <= MaxUsed
    /\ used' = used + adder[a]
    /\ adder' = [adder EXCEPT ![a] = 0]
    /\ UNCHANGED <<resource, row, setter, top>>

\* The call fails after all.
GiveUp(a) ==
    /\ adder[a] > 0
    /\ adder' = [adder EXCEPT ![a] = 0]
    /\ UNCHANGED <<resource, used, row, setter, top>>

\* More is taken away than there is.
SubtractAnyway(n) ==
    /\ used' = used - n
    /\ UNCHANGED <<resource, row, adder, setter, top>>

Subtract(n) ==
    /\ used >= n
    /\ used' = used - n
    /\ UNCHANGED <<resource, row, adder, setter, top>>

-----------------------------------------------------------------------------

SetRow(limit) == row' = RowOf(limit) /\ top' = Larger(top, limit)

\* set_quota: a new row, or, as there is one, the row to be changed.
SetQuota(s, limit) ==
    /\ setter[s].at = "idle"
    /\ IF row.set
       THEN /\ setter' = [setter EXCEPT ![s] = [at |-> "update", limit |-> limit]]
            /\ UNCHANGED <<row, top>>
       ELSE SetRow(limit) /\ UNCHANGED setter
    /\ UNCHANGED <<resource, used, adder>>

\* _update_quota: of a row that may be gone by now, QuotaNotFound.
UpdateQuota(s) ==
    /\ setter[s].at = "update"
    /\ IF row.set THEN SetRow(setter[s].limit) ELSE UNCHANGED <<row, top>>
    /\ setter' = [setter EXCEPT ![s] = [at |-> "idle"]]
    /\ UNCHANGED <<resource, used, adder>>

\* reset_quotas: the limit is that of the configuration again.
ResetQuotas(s) ==
    /\ setter[s].at = "idle"
    /\ row' = NoRowYet
    /\ top' = Larger(top, DefaultLimit)
    /\ UNCHANGED <<resource, used, adder, setter>>

-----------------------------------------------------------------------------

QuotaInit ==
    /\ resource \in Resources
    /\ used = 0
    /\ row = NoRowYet
    /\ adder = [a \in Adders |-> 0]
    /\ setter = [s \in Setters |-> [at |-> "idle"]]
    /\ top = DefaultLimit

QuotaNext ==
    \/ \E a \in Adders : Add(a) \/ GiveUp(a) \/ \E n \in Additions : Count(a, n)
    \/ \E n \in 1..MaxItems : Subtract(n)
    \/ \E s \in Setters :
          UpdateQuota(s) \/ ResetQuotas(s) \/ \E limit \in Limits : SetQuota(s, limit)

QuotaSpec == QuotaInit /\ [][QuotaNext]_quotaVars

-----------------------------------------------------------------------------

QuotaTypeOK ==
    /\ resource \in Resources
    /\ used \in 0..MaxUsed
    /\ row = NoRowYet \/ row \in [set : {TRUE}, limit : Limits]
    /\ adder \in [Adders -> 0..MaxItems]
    /\ \A s \in Setters :
          setter[s] \in [at : {"idle"}] \union [at : {"update"}, limit : Limits]
    /\ top \in Limits \union {DefaultLimit, 0 - 1}

(* Calls that count at the same time add more than the quota allows, but   *)
(* never more than all callers but one add at once, above the largest      *)
(* limit there ever was.                                                   *)
OverrunIsBounded ==
    top >= 0 => used <= top + MaxItems * (Cardinality(Adders) - 1)

=============================================================================
