------------------------------- MODULE Paging --------------------------------
(***************************************************************************)
(* Reading a list page by page while its rows come and go.  Each page      *)
(* starts after the last row of the page before it, its marker, in the     *)
(* order of created_at and then id.  The periodic tasks read on until a    *)
(* page is empty; a client of the API reads on while a page is full, since *)
(* only a full page has a link to the next.  A page of recordsets takes    *)
(* two queries, one for the ids and one for the rows of these ids.         *)
(***************************************************************************)
EXTENDS Integers, Sequences, FiniteSets

CONSTANTS
    RowIds,         \* random ids, which need not be in the order of creation
    Times,          \* created_at, set by the clock of the host that inserts
    PageSize,
    MaxMoves        \* how often a row comes, goes or changes

ASSUME PagingAssumption ==
    /\ RowIds \subseteq Nat /\ IsFiniteSet(RowIds)
    /\ Times \subseteq Nat
    /\ PageSize \in Nat \ {0}
    /\ MaxMoves \in Nat

VARIABLES
    list,           \* the state of each row, and when it was created
    reader,
    moves

pagingVars == <<list, reader, moves>>

\* A task of the producer; a client of the API that lists recordsets; and others.
Task == [links |-> FALSE, queries |-> 1]
RecordSetClient == [links |-> TRUE, queries |-> 2]
Client == [links |-> TRUE, queries |-> 1]
Readers == {Task, RecordSetClient, Client}

NotYet == [state |-> "absent", created |-> 0]

Off == [at |-> "off", how |-> Task, ids |-> <<>>, got |-> <<>>,
        stayed |-> {}, cut |-> FALSE]

\* "listed": the row meets the criteria; "hidden": it is there, and does not.
Listed == {i \in RowIds : list[i].state = "listed"}
There(i) == list[i].state \in {"listed", "hidden"}

\* sort_query and paginate_query: does row i come after row m?
After(i, m) ==
    \/ list[i].created > list[m].created
    \/ list[i].created = list[m].created /\ i > m

\* The first PageSize of a set of rows, in order.
FirstOf(set) ==
    LET rank(i) == Cardinality({j \in set : After(i, j)}) + 1
        size == IF Cardinality(set) < PageSize THEN Cardinality(set) ELSE PageSize
    IN  [n \in 1..size |-> CHOOSE i \in set : rank(i) = n]

Items(seq) == {seq[n] : n \in DOMAIN seq}

-----------------------------------------------------------------------------

Move(i, state) ==
    /\ moves < MaxMoves
    /\ moves' = moves + 1
    /\ list' = [list EXCEPT ![i].state = state]
    /\ reader' = [reader EXCEPT !.stayed = IF state = "listed" THEN @ ELSE @ \ {i}]

Insert(i, t) ==
    /\ moves < MaxMoves
    /\ list[i] = NotYet
    /\ moves' = moves + 1
    /\ list' = [list EXCEPT ![i] = [state |-> "listed", created |-> t]]
    /\ UNCHANGED reader

\* The row is marked as deleted, moves to another project, or changes otherwise.
Hide(i) == list[i].state = "listed" /\ Move(i, "hidden")

Show(i) == list[i].state = "hidden" /\ Move(i, "listed")

\* The row is removed from the table.
RemoveRowOf(i) == There(i) /\ Move(i, "removed")

Start(how) ==
    /\ reader.at = "off"
    /\ reader' = [Off EXCEPT !.at = "next", !.how = how, !.stayed = Listed]
    /\ UNCHANGED <<list, moves>>

Marker == reader.got[Len(reader.got)]

\* What was created at the same time as the marker is passed over.
FollowingLater == {i \in Listed : reader.got = <<>> \/ list[i].created > list[Marker].created}

\* The rows that follow the marker, if there is one.
Following == {i \in Listed : reader.got = <<>> \/ After(i, Marker)}

\* check_marker looks for the marker without any criterion.
MarkerNotFound ==
    /\ reader.at = "next"
    /\ reader.got # <<>> /\ ~There(Marker)
    /\ reader' = [reader EXCEPT !.at = "marker_not_found"]
    /\ UNCHANGED <<list, moves>>

\* What the reader does with a page.
Take(page) ==
    IF page = <<>> \/ (reader.how.links /\ Len(page) < PageSize)
    THEN [reader EXCEPT !.at = "end", !.ids = <<>>, !.got = @ \o page]
    ELSE [reader EXCEPT !.at = "next", !.ids = <<>>, !.got = @ \o page]

FetchPage ==
    /\ reader.at = "next" /\ reader.how.queries = 1
    /\ reader.got # <<>> => There(Marker)
    /\ reader' = Take(FirstOf(Following))
    /\ UNCHANGED <<list, moves>>

FetchIds ==
    /\ reader.at = "next" /\ reader.how.queries = 2
    /\ reader.got # <<>> => There(Marker)
    /\ reader' = [reader EXCEPT !.at = "ids", !.ids = FirstOf(Following)]
    /\ UNCHANGED <<list, moves>>

\* The rows that are still in the table, sorted again; cut, history: one was not.
FetchRows ==
    LET page == FirstOf({i \in Items(reader.ids) : There(i)})
    IN  /\ reader.at = "ids"
        /\ reader' = [Take(page) EXCEPT !.cut = @ \/ Len(page) < Len(reader.ids)]
        /\ UNCHANGED <<list, moves>>

-----------------------------------------------------------------------------

PagingInit ==
    /\ list = [i \in RowIds |-> NotYet]
    /\ reader = Off
    /\ moves = 0

Read == MarkerNotFound \/ FetchPage \/ FetchIds \/ FetchRows

PagingNext ==
    \/ \E i \in RowIds, t \in Times : Insert(i, t)
    \/ \E i \in RowIds : Hide(i) \/ Show(i) \/ RemoveRowOf(i)
    \/ \E how \in Readers : Start(how)
    \/ Read

PagingSpec == PagingInit /\ [][PagingNext]_pagingVars

PagingTypeOK ==
    /\ \A i \in RowIds :
          /\ list[i].state \in {"absent", "listed", "hidden", "removed"}
          /\ list[i].created \in Times \union {0}
    /\ reader.at \in {"off", "next", "ids", "end", "marker_not_found"}
    /\ Items(reader.ids) \union Items(reader.got) \union reader.stayed \subseteq RowIds
    /\ moves \in 0..MaxMoves

(* A reader that comes to the end has been given every row that was in the *)
(* list all the time, and none twice, however many rows came, went, or left *)
(* and came back meanwhile; unless it asks twice for a page and a row was  *)
(* removed in between, which makes the page a short one.                   *)
PagesMissNothing ==
    /\ \A m, n \in DOMAIN reader.got : reader.got[m] = reader.got[n] => m = n
    /\ reader.at = "end" /\ ~reader.cut
          => reader.stayed \subseteq Items(reader.got)

=============================================================================
