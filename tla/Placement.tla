------------------------------ MODULE Placement ------------------------------
(***************************************************************************)
(* Which recordsets a zone may have beside each other, and beside a child  *)
(* zone.  Placement is looked at in the transaction that inserts the       *)
(* recordset, which does not see what other transactions insert meanwhile. *)
(***************************************************************************)
EXTENDS FiniteSets

CONSTANTS
    Apex,           \* the name of the zone
    OtherNames,     \* names below it
    ChildNames,     \* those of them that a child zone would contain
    Types,          \* types of recordsets, "CNAME" among them
    Inserters       \* threads of central

ASSUME PlacementAssumption ==
    /\ ChildNames \subseteq OtherNames
    /\ Apex \notin OtherNames
    /\ "CNAME" \in Types

VARIABLES
    present,        \* the recordsets: names and types
    child,          \* is there a child zone?
    inserter,       \* what each thread is about to insert
    crossed         \* history: two insertions did not see each other

placementVars == <<present, child, inserter, crossed>>

RRs == [name : OtherNames \union {Apex}, type : Types]
NoInsert == [what |-> "none"]
TheRR(rr) == [what |-> "recordset", rr |-> rr]
TheChild == [what |-> "child"]

\* May recordset rr not stand beside s?
Collide(rr, s) == rr.name = s.name /\ "CNAME" \in {rr.type, s.type}

\* A CNAME may be at the apex.
ValidPlacementAtApex(rr) == ~\E s \in present : Collide(rr, s)

\* _is_valid_recordset_placement
ValidPlacement(rr) ==
    /\ ~(rr.type = "CNAME" /\ rr.name = Apex)
    /\ ~\E s \in present : Collide(rr, s)

\* _is_valid_recordset_placement_subzone
NotInChild(rr) == ~(child /\ rr.name \in ChildNames)

\* Two insertions of which the second would be refused after the first.
Cross(m, n) ==
    CASE m.what = "recordset" /\ n.what = "recordset" -> Collide(m.rr, n.rr)
      [] {m.what, n.what} = {"recordset", "child"} -> TRUE
      [] OTHER -> FALSE

LookAround(i, next) ==
    /\ inserter[i] = NoInsert
    /\ inserter' = [inserter EXCEPT ![i] = next]
    /\ crossed' = (crossed \/ \E j \in Inserters : Cross(inserter[j], next))
    /\ UNCHANGED <<present, child>>

EndInsert(i) == inserter' = [inserter EXCEPT ![i] = NoInsert]

\* create_recordset, up to its INSERT
LookToInsert(i, rr) ==
    /\ ValidPlacement(rr) /\ NotInChild(rr)
    /\ LookAround(i, TheRR(rr))

\* DuplicateRecordSet, when there is one of this name and type, changes nothing.
InsertRecordSet(i) ==
    /\ inserter[i].what = "recordset"
    /\ present' = present \union {inserter[i].rr}
    /\ EndInsert(i)
    /\ UNCHANGED <<child, crossed>>

\* create_zone: the recordsets of the parent zone are not looked at.
LookToCreateChild(i) == ~child /\ LookAround(i, TheChild)

CreateChild(i) ==
    /\ inserter[i].what = "child"
    /\ child' = TRUE
    /\ EndInsert(i)
    /\ UNCHANGED <<present, crossed>>

\* update_recordset looks again, and changes neither name nor type.
RemoveRecordSet(rr) ==
    /\ rr \in present
    /\ present' = present \ {rr}
    /\ UNCHANGED <<child, inserter, crossed>>

DeleteChild ==
    /\ child
    /\ child' = FALSE
    /\ UNCHANGED <<present, inserter, crossed>>

PlacementInit ==
    /\ present = {}
    /\ child = FALSE
    /\ inserter = [i \in Inserters |-> NoInsert]
    /\ crossed = FALSE

PlacementNext ==
    \/ \E i \in Inserters :
          \/ \E rr \in RRs : LookToInsert(i, rr)
          \/ InsertRecordSet(i) \/ LookToCreateChild(i) \/ CreateChild(i)
    \/ \E rr \in RRs : RemoveRecordSet(rr)
    \/ DeleteChild

PlacementSpec == PlacementInit /\ [][PlacementNext]_placementVars

-----------------------------------------------------------------------------

PlacementTypeOK ==
    /\ present \subseteq RRs
    /\ child \in BOOLEAN
    /\ \A i \in Inserters : inserter[i] \in {NoInsert, TheChild} \union {TheRR(rr) : rr \in RRs}

(* A CNAME has its name to itself, and none is at the apex of the zone,    *)
(* unless two insertions crossed each other.                               *)
CnamesStandAlone ==
    ~crossed =>
        \A rr \in present : rr.type = "CNAME" =>
            rr.name # Apex /\ \A s \in present : s.name = rr.name => s = rr

=============================================================================
