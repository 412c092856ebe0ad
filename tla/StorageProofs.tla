---------------------------- MODULE StorageProofs -----------------------------
(***************************************************************************)
(* Proofs about what central says to the database. Storage: for any rows,  *)
(* columns, values, callers and statements, whose word stands in a row.    *)
(* Transactions: for any requests, retries and mishaps, what it says of    *)
(* the wrappers of central implements what AtomicRequests promises.        *)
(* Paging: for any rows, times and page sizes, what a reader of pages      *)
(* gets.                                                                   *)
(***************************************************************************)
EXTENDS MCCentral, FiniteSetTheorems, TLAPS

-----------------------------------------------------------------------------
(* Storage.                                                                *)

Contexts == Asking \union {PurgeContext}

\* The values of all columns.
Cols ==
    {cols \in [Columns -> Owners \union Values] : \A col \in Columns : cols[col] \in Domain(col)}

TableRow == [state : {"live", "deleted", "purged"}, cols : Cols, other : Owners]
Object == [at : {"object"}, ctx : Contexts, id : Ids, cols : Cols, changed : SUBSET Columns]

StoreTyped ==
    /\ table \in Tables
    /\ rows \in [Ids -> TableRow \union {NoRow}]
    /\ caller \in [Callers -> Object \union {Idle}]
    /\ writes \in 0..MaxWrites

WritersToldInv ==
    /\ DOMAIN told = Ids
    /\ \A i \in Ids : rows[i] # NoRow => rows[i].cols = told[i]

\* What a caller has set since it last wrote is what its object calls changed.
WishInv ==
    /\ DOMAIN wish = Callers
    /\ \A c \in Callers :
          IF caller[c] = Idle THEN DOMAIN wish[c] = {}
          ELSE /\ DOMAIN wish[c] = caller[c].changed
               /\ \A col \in caller[c].changed : wish[c][col] = caller[c].cols[col]

StoreInv == StoreTyped /\ WritersToldInv /\ WishInv

-----------------------------------------------------------------------------

LEMMA NothingWished == DOMAIN <<>> = {}
  OBVIOUS

LEMMA OverwriteType ==
    ASSUME NEW cols \in Cols, NEW obj \in Object
    PROVE  Overwrite(cols, Changes(obj)) \in Cols
  BY DEF Overwrite, Changes, Object, Cols

\* What a caller tells is what it wishes.
LEMMA OverwriteAsWished ==
    ASSUME NEW cols, NEW obj \in Object, NEW w, DOMAIN w = obj.changed,
           \A col \in obj.changed : w[col] = obj.cols[col]
    PROVE  Overwrite(cols, w) = Overwrite(cols, Changes(obj))
  BY DEF Overwrite, Changes

LEMMA ObjectsAreNotIdle == \A obj \in Object : obj # Idle /\ obj.at = "object"
  BY DEF Object, Idle

LEMMA WhoHoldsAnObject ==
    ASSUME StoreTyped, NEW c \in Callers, caller[c].at = "object"
    PROVE  caller[c] \in Object /\ caller[c] # Idle /\ caller[c].id \in Ids
<1>1. caller[c] \in Object \union {Idle} /\ Idle.at = "idle"
  BY DEF StoreTyped, Idle
<1>2. caller[c] \in Object
  BY <1>1
<1> QED
  BY <1>2, ObjectsAreNotIdle DEF Object

LEMMA RowsAreThere == \A entry \in TableRow : entry # NoRow
  BY DEF TableRow, NoRow

With(obj, cols, changed) == [[obj EXCEPT !.cols = cols] EXCEPT !.changed = changed]

\* The parts of an object, and the objects that the statements make of it.
LEMMA ObjectFacts ==
    ASSUME NEW obj \in Object
    PROVE  /\ obj.id \in Ids /\ obj.cols \in Cols /\ obj.changed \in SUBSET Columns
           /\ \A cols \in Cols, changed \in SUBSET Columns :
                 /\ With(obj, cols, changed) \in Object
                 /\ With(obj, cols, changed).cols = cols
                 /\ With(obj, cols, changed).changed = changed
  BY DEF Object, With

LEMMA RefreshedFacts ==
    ASSUME NEW obj \in Object, NEW entry \in TableRow
    PROVE  Refreshed(obj, entry) \in Object /\ Refreshed(obj, entry).changed = {}
  BY DEF Object, TableRow, Refreshed

LEMMA HoldingFacts ==
    ASSUME NEW ctx \in Contexts, NEW i \in Ids, NEW cols \in Cols
    PROVE  Holding(ctx, i, cols) \in Object /\ Holding(ctx, i, cols).changed = {}
  BY DEF Object, Holding

LEMMA RowFacts ==
    ASSUME NEW entry \in TableRow
    PROVE  /\ entry.cols \in Cols
           /\ \A cols \in Cols : LET new == [entry EXCEPT !.cols = cols]
                                IN  new \in TableRow /\ new.cols = cols
           /\ \A state \in {"deleted", "purged"} : LET new == [entry EXCEPT !.state = state]
                                                   IN  new \in TableRow /\ new.cols = entry.cols
  BY DEF TableRow

LEMMA StoreInitInv == StoreInit => StoreInv
<1> SUFFICES ASSUME StoreInit PROVE StoreInv
  OBVIOUS
<1>1. StoreTyped
  BY StorageAssumption DEF StoreInit, StoreTyped
<1>2. WritersToldInv /\ WishInv
  BY NothingWished DEF StoreInit, WritersToldInv, WishInv
<1> QED
  BY <1>1, <1>2 DEF StoreInv

LEMMA StoreNextInv == StoreInv /\ [StoreNext]_storeVars => StoreInv'
<1> SUFFICES ASSUME StoreInv, [StoreNext]_storeVars PROVE StoreInv'
  OBVIOUS
<1>1. StoreTyped /\ WritersToldInv /\ WishInv
  BY DEF StoreInv
<1>2. CASE UNCHANGED storeVars
  BY <1>1, <1>2 DEF storeVars, StoreInv, StoreTyped, WritersToldInv, WishInv
<1>3. ASSUME NEW i, NEW entry, Write(i, entry)
      PROVE  /\ rows' = [rows EXCEPT ![i] = entry] /\ writes' \in 0..MaxWrites /\ table' = table
  BY <1>1, <1>3, StorageAssumption DEF Write, StoreTyped
<1>4. ASSUME NEW i \in Ids, NEW owner \in Owners, NEW other \in Sharers, NEW v \in Values,
             Create(i, [col \in Columns |-> IF col = "tenant" THEN owner ELSE v], other)
      PROVE  StoreInv'
  <2> DEFINE cols == [col \in Columns |-> IF col = "tenant" THEN owner ELSE v]
             entry == [state |-> "live", cols |-> cols, other |-> other]
  <2>1. /\ Write(i, entry) /\ told' = [told EXCEPT ![i] = cols] /\ UNCHANGED <<caller, wish>>
    BY <1>4 DEF Create
  <2>2. cols \in Cols
    BY DEF Cols, Domain
  <2> HIDE DEF cols
  <2>3. entry \in TableRow /\ entry.cols = cols
    BY <2>2 DEF TableRow, Sharers, Owners
  <2> HIDE DEF entry
  <2>4. StoreTyped'
    BY <1>1, <1>3, <2>1, <2>3 DEF StoreTyped
  <2>5. WritersToldInv'
    BY <1>1, <1>3, <2>1, <2>3 DEF WritersToldInv, StoreTyped
  <2>6. WishInv'
    BY <1>1, <2>1 DEF WishInv
  <2> QED
    BY <2>4, <2>5, <2>6 DEF StoreInv
<1>5. ASSUME NEW c \in Callers, NEW i \in Ids, NEW ctx \in Contexts, Get(c, ctx, i) PROVE StoreInv'
  <2> DEFINE obj == Holding(ctx, i, rows[i].cols)
  <2>1. /\ caller[c] = Idle /\ Exists(rows[i]) /\ caller' = [caller EXCEPT ![c] = obj]
        /\ UNCHANGED <<table, rows, writes, told, wish>>
    BY <1>5 DEF Get
  <2>2. rows[i] \in TableRow
    <3>1. NoRow.state = "none"
      BY DEF NoRow
    <3> QED
      BY <1>1, <2>1, <3>1 DEF StoreTyped, Exists
  <2>3. obj \in Object /\ obj.changed = {} /\ obj # Idle
    BY <2>2, RowFacts, HoldingFacts, ObjectsAreNotIdle
  <2> HIDE DEF obj
  <2>4. StoreTyped'
    BY <1>1, <2>1, <2>3 DEF StoreTyped
  <2>5. WritersToldInv'
    BY <1>1, <2>1 DEF WritersToldInv
  <2>6. WishInv'
    BY <1>1, <2>1, <2>3, NothingWished DEF WishInv, StoreTyped
  <2> QED
    BY <2>4, <2>5, <2>6 DEF StoreInv
<1>6. ASSUME NEW c \in Callers, NEW col \in Columns, NEW v \in Domain(col), Set(c, col, v)
      PROVE  StoreInv'
  <2> DEFINE obj == caller[c]
             cols == [obj.cols EXCEPT ![col] = v]
             changed == obj.changed \union {col}
             new == With(obj, cols, changed)
  <2>1. obj \in Object
    BY <1>1, <1>6, WhoHoldsAnObject DEF Set
  <2>2. cols \in Cols /\ changed \in SUBSET Columns /\ cols[col] = v
        /\ \A x \in Columns \ {col} : cols[x] = obj.cols[x]
    <3>1. obj.cols \in Cols /\ obj.changed \in SUBSET Columns
      BY <2>1, ObjectFacts
    <3> HIDE DEF obj
    <3>2. v \in Owners \union Values
      BY DEF Domain
    <3>3. cols \in [Columns -> Owners \union Values] /\ cols[col] = v
          /\ \A x \in Columns \ {col} : cols[x] = obj.cols[x]
      BY <3>1, <3>2 DEF Cols
    <3>4. cols \in Cols
      BY <3>1, <3>3 DEF Cols
    <3> QED
      BY <3>1, <3>3, <3>4
  <2>3. caller' = [caller EXCEPT ![c] = new] /\ UNCHANGED <<table, rows, writes, told>>
    BY <1>6 DEF Set, With
  <2>4. wish' = [wish EXCEPT ![c] = [x \in DOMAIN wish[c] \union {col} |->
                                        IF x = col THEN v ELSE wish[c][x]]]
    BY <1>6 DEF Set
  <2>5. new \in Object /\ new.cols = cols /\ new.changed = changed /\ new # Idle
    <3> HIDE DEF obj, cols, changed
    <3>1. new \in Object /\ new.cols = cols /\ new.changed = changed
      BY <2>1, <2>2, ObjectFacts
    <3> QED
      BY <3>1, ObjectsAreNotIdle
  <2> HIDE DEF new, cols
  <2>6. StoreTyped'
    BY <1>1, <2>3, <2>5 DEF StoreTyped
  <2>7. WritersToldInv'
    BY <1>1, <2>3 DEF WritersToldInv
  <2>8. WishInv'
    <3>1. DOMAIN wish[c] = obj.changed /\ \A x \in obj.changed : wish[c][x] = obj.cols[x]
      BY <1>1, <2>1, ObjectsAreNotIdle DEF WishInv
    <3>2. /\ DOMAIN wish'[c] = changed
          /\ \A x \in changed : wish'[c][x] = IF x = col THEN v ELSE wish[c][x]
      BY <1>1, <2>4, <3>1 DEF WishInv
    <3>3. caller'[c] = new
      BY <1>1, <2>3 DEF StoreTyped
    <3>4. \A x \in changed : wish'[c][x] = new.cols[x]
      BY <2>1, <2>2, <2>5, <3>1, <3>2, ObjectFacts
    <3>5. ASSUME NEW d \in Callers, d # c PROVE wish'[d] = wish[d] /\ caller'[d] = caller[d]
      BY <1>1, <2>3, <2>4, <3>5 DEF WishInv, StoreTyped
    <3>6. DOMAIN wish' = Callers
      BY <1>1, <2>4 DEF WishInv
    <3>7. ASSUME NEW d \in Callers
          PROVE  IF caller'[d] = Idle THEN DOMAIN wish'[d] = {}
                 ELSE /\ DOMAIN wish'[d] = caller'[d].changed
                      /\ \A x \in caller'[d].changed : wish'[d][x] = caller'[d].cols[x]
      <4>1. CASE d = c
        BY <2>5, <3>2, <3>3, <3>4, <4>1
      <4>2. CASE d # c
        BY <1>1, <3>5, <4>2 DEF WishInv
      <4> QED
        BY <4>1, <4>2
    <3> QED
      BY <3>6, <3>7 DEF WishInv
  <2> QED
    BY <2>6, <2>7, <2>8 DEF StoreInv
<1>7. ASSUME NEW c \in Callers, Drop(c) PROVE StoreInv'
  BY <1>1, <1>7, NothingWished DEF Drop, StoreInv, StoreTyped, WritersToldInv, WishInv
<1>8. ASSUME NEW c \in Callers, Update(c) PROVE StoreInv'
  <2> DEFINE obj == caller[c]
             entry == rows[obj.id]
             cols == Overwrite(entry.cols, Changes(obj))
             new == [entry EXCEPT !.cols = cols]
  <2>1. /\ obj.at = "object" /\ Exists(entry) /\ Write(obj.id, new)
        /\ caller' = [caller EXCEPT ![c] = Refreshed(obj, new)]
        /\ told' = [told EXCEPT ![obj.id] = Overwrite(told[obj.id], wish[c])]
        /\ wish' = [wish EXCEPT ![c] = <<>>]
    BY <1>8 DEF Update
  <2>2. obj \in Object /\ obj # Idle /\ obj.id \in Ids
    BY <1>1, <2>1, WhoHoldsAnObject
  <2>3. entry \in TableRow /\ entry # NoRow
    <3>1. NoRow.state = "none"
      BY DEF NoRow
    <3> QED
      BY <1>1, <2>1, <2>2, <3>1 DEF StoreTyped, Exists
  <2>4. cols \in Cols
    BY <2>2, <2>3, RowFacts, OverwriteType
  <2>5. new \in TableRow /\ new.cols = cols
    BY <2>3, <2>4, RowFacts
  <2>6. Refreshed(obj, new) \in Object /\ Refreshed(obj, new).changed = {}
        /\ Refreshed(obj, new) # Idle
    BY <2>2, <2>5, RefreshedFacts, ObjectsAreNotIdle
  <2>7. told[obj.id] = entry.cols
    BY <1>1, <2>2, <2>3 DEF WritersToldInv
  <2>8. Overwrite(told[obj.id], wish[c]) = cols
    BY <1>1, <2>2, <2>7, OverwriteAsWished DEF WishInv
  <2> HIDE DEF new, cols, entry
  <2>9. StoreTyped'
    BY <1>1, <1>3, <2>1, <2>2, <2>5, <2>6 DEF StoreTyped
  <2>10. WritersToldInv'
    BY <1>1, <1>3, <2>1, <2>2, <2>5, <2>8 DEF WritersToldInv, StoreTyped
  <2>11. WishInv'
    BY <1>1, <2>1, <2>6, NothingWished DEF WishInv, StoreTyped
  <2> QED
    BY <2>9, <2>10, <2>11 DEF StoreInv
<1>9. ASSUME NEW c \in Callers, NEW hard \in BOOLEAN, Delete(c, hard) PROVE StoreInv'
  <2> DEFINE obj == caller[c]
             entry == rows[obj.id]
             gone == IF table.soft /\ ~hard THEN "deleted" ELSE "purged"
             new == [entry EXCEPT !.state = gone]
  <2>1. /\ obj.at = "object" /\ obj.changed = {} /\ Exists(entry) /\ Write(obj.id, new)
        /\ caller' = [caller EXCEPT ![c] = Idle] /\ UNCHANGED <<told, wish>>
    BY <1>9 DEF Delete
  <2>2. obj \in Object /\ obj # Idle /\ obj.id \in Ids
    BY <1>1, <2>1, WhoHoldsAnObject
  <2>3. entry \in TableRow /\ entry # NoRow
    <3>1. NoRow.state = "none"
      BY DEF NoRow
    <3> QED
      BY <1>1, <2>1, <2>2, <3>1 DEF StoreTyped, Exists
  <2>4. new \in TableRow /\ new.cols = entry.cols
    <3>1. gone \in {"deleted", "purged"}
      OBVIOUS
    <3> HIDE DEF gone
    <3> QED
      BY <2>3, <3>1, RowFacts
  <2>5. told[obj.id] = entry.cols
    BY <1>1, <2>2, <2>3 DEF WritersToldInv
  <2>6. DOMAIN wish[c] = {}
    BY <1>1, <2>1, <2>2 DEF WishInv
  <2> HIDE DEF new, entry
  <2>7. StoreTyped'
    BY <1>1, <1>3, <2>1, <2>2, <2>4 DEF StoreTyped
  <2>8. WritersToldInv'
    BY <1>1, <1>3, <2>1, <2>2, <2>4, <2>5 DEF WritersToldInv, StoreTyped
  <2>9. WishInv'
    BY <1>1, <2>1, <2>6 DEF WishInv, StoreTyped
  <2> QED
    BY <2>7, <2>8, <2>9 DEF StoreInv
<1>10. ASSUME NEW c \in Callers, NEW col \in Fields, NEW v \in Values, Set(c, col, v) PROVE StoreInv'
  BY <1>6, <1>10, StorageAssumption DEF Columns, Domain
<1>11. ASSUME NEW c \in Callers, NEW p \in Projects, Set(c, "tenant", p) PROVE StoreInv'
  BY <1>6, <1>11 DEF Columns, Domain, Owners
<1>12. CASE \E c \in Callers : Update(c) \/ Delete(c, FALSE) \/ Delete(c, TRUE) \/ Drop(c)
  BY <1>7, <1>8, <1>9, <1>12
<1>13. CASE \E c \in Callers, i \in Ids, ctx \in Asking \union {PurgeContext} : Get(c, ctx, i)
  BY <1>5, <1>13 DEF Contexts
<1> QED
  BY <1>2, <1>4, <1>10, <1>11, <1>12, <1>13 DEF StoreNext

-----------------------------------------------------------------------------
(* The theorems.                                                           *)

LEMMA StoreAlwaysInv == StoreSpec => []StoreInv
<1>1. StoreInit => StoreInv
  BY StoreInitInv
<1>2. StoreInv /\ [StoreNext]_storeVars => StoreInv'
  BY StoreNextInv
<1> QED
  BY <1>1, <1>2, PTL DEF StoreSpec

(* Every row has all columns of its table, with values they may have.      *)
THEOREM StorageTyped == StoreSpec => []StoreTypeOK
<1>1. StoreInv => StoreTypeOK
  <2>1. \A entry \in TableRow : IsRow(entry)
    BY DEF TableRow, IsRow, Cols
  <2> QED
    BY <2>1 DEF StoreInv, StoreTyped, StoreTypeOK
<1> QED
  BY <1>1, StoreAlwaysInv, PTL

(* Whatever callers read, set and write, and however stale their objects   *)
(* are: each column is what it was last told to be.                        *)
THEOREM StorageLastWordStands == StoreSpec => []LastWordStands
<1>1. StoreInv => LastWordStands
  BY DEF StoreInv, WritersToldInv, LastWordStands
<1> QED
  BY <1>1, StoreAlwaysInv, PTL

-----------------------------------------------------------------------------
(* Transactions.                                                           *)

Stored(r) == \E change \in changes : change[1] = r

RequestsTyped ==
    /\ plan \in [RequestIds -> Plans]
    /\ at \in [RequestIds -> {"new", "running", "committed", "failed", "done", "refused", "lost"}]
    /\ pc \in [RequestIds -> Nat]
    /\ session \in [RequestIds -> SUBSET Nat]
    /\ unmarked \in [RequestIds -> SUBSET Nat]
    /\ tries \in [RequestIds -> 0..MaxRetries]
    /\ queue \in [RequestIds -> BOOLEAN]
    /\ changes \in SUBSET (RequestIds \X Nat)
    /\ emitted \in SUBSET RequestIds
    /\ response \in [RequestIds -> {"none", "ok", "error", "timeout"}]
    /\ mishaps \in 0..MaxMishaps

\* How far an attempt has come; an object that an earlier one has unmarked is one
\* that is inserted.
AttemptInv(r) ==
    /\ session[r] \subseteq Statements(r) /\ unmarked[r] \subseteq Statements(r)
    /\ at[r] = "new" => pc[r] = 1 /\ session[r] = {}
    /\ at[r] = "running" =>
          /\ pc[r] \in 1..Len(plan[r].statements) + 1
          /\ session[r] = 1..pc[r] - 1
    /\ at[r] \in {"new", "running"} => tries[r] < MaxRetries
    /\ plan[r].deep_copy => unmarked[r] \subseteq 1..pc[r] - 1
    /\ \A i \in unmarked[r] : ~plan[r].statements[i].nested

\* What becomes of a request, by where it is.
OutcomeInv(r) ==
    /\ at[r] \in {"new", "running", "failed", "refused"} => ~Stored(r)
    /\ at[r] \in {"committed", "done"} => Stored(r)
    /\ at[r] = "done" => r \in emitted
    /\ at[r] = "committed" /\ plan[r].tells = "within" => r \in emitted

RequestsInv == RequestsTyped /\ \A r \in RequestIds : AttemptInv(r) /\ OutcomeInv(r)

-----------------------------------------------------------------------------
(* What the methods of central have in common.                             *)

\* A method either copies its arguments deeply for a retry, or all that it changes
\* itself is inserted.
StatementOK(deep_copy, statement) ==
    /\ statement.inserts \in BOOLEAN /\ statement.nested \in BOOLEAN
    /\ statement.announced \in BOOLEAN
    /\ deep_copy \/ statement.inserts \/ statement.nested

PlanOK(p) ==
    /\ Len(p.statements) \in Nat \ {0}
    /\ p.tells \in {"after", "within"}
    /\ \A i \in 1..Len(p.statements) : StatementOK(p.deep_copy, p.statements[i])

LEMMA MethodIsOK ==
    ASSUME NEW deep_copy \in BOOLEAN, NEW tells \in {"after", "within"}, NEW s,
           Len(s) \in Nat \ {0},
           \A i \in 1..Len(s) : StatementOK(deep_copy, s[i])
    PROVE  PlanOK(Method(deep_copy, tells, s))
<1> DEFINE p == Method(deep_copy, tells, s)
<1>1. p.statements = s /\ p.tells = tells /\ p.deep_copy = deep_copy
  BY DEF Method
<1> QED
  BY <1>1 DEF PlanOK

LEMMA PairIsOK ==
    ASSUME NEW deep_copy \in BOOLEAN, NEW tells \in {"after", "within"}, NEW a, NEW b,
           StatementOK(deep_copy, a), StatementOK(deep_copy, b)
    PROVE  PlanOK(Method(deep_copy, tells, <<a, b>>))
<1>1. Len(<<a, b>>) = 2 /\ <<a, b>>[1] = a /\ <<a, b>>[2] = b
  OBVIOUS
<1>2. \A i \in 1..Len(<<a, b>>) : StatementOK(deep_copy, <<a, b>>[i])
  <2>1. 1..2 = {1, 2}
    OBVIOUS
  <2> QED
    BY <1>1, <2>1
<1> QED
  BY <1>1, <1>2, MethodIsOK

LEMMA TripleIsOK ==
    ASSUME NEW deep_copy \in BOOLEAN, NEW tells \in {"after", "within"},
           NEW a, NEW b, NEW c,
           StatementOK(deep_copy, a), StatementOK(deep_copy, b), StatementOK(deep_copy, c)
    PROVE  PlanOK(Method(deep_copy, tells, <<a, b, c>>))
<1>1. Len(<<a, b, c>>) = 3 /\ <<a, b, c>>[1] = a /\ <<a, b, c>>[2] = b /\ <<a, b, c>>[3] = c
  OBVIOUS
<1>2. \A i \in 1..Len(<<a, b, c>>) : StatementOK(deep_copy, <<a, b, c>>[i])
  <2>1. 1..3 = {1, 2, 3}
    OBVIOUS
  <2> QED
    BY <1>1, <2>1
<1> QED
  BY <1>1, <1>2, MethodIsOK

LEMMA PlansAreOK == \A p \in Plans : PlanOK(p)
<1>1. StatementOK(FALSE, Insertion)
  BY DEF StatementOK, Insertion
<1>2. StatementOK(TRUE, Change)
  BY DEF StatementOK, Change
<1>3. StatementOK(FALSE, Nested) /\ StatementOK(TRUE, Nested)
  BY DEF StatementOK, Nested
<1>4. StatementOK(TRUE, Announced)
  BY DEF StatementOK, Announced
<1>5. PlanOK(Method(FALSE, "after", <<Insertion, Nested>>))
  BY <1>1, <1>3, PairIsOK
<1>6. PlanOK(Method(TRUE, "after", <<Change, Nested>>))
  BY <1>2, <1>3, PairIsOK
<1>7. PlanOK(Method(TRUE, "after", <<Change, Announced, Announced>>))
  BY <1>2, <1>4, TripleIsOK
<1>8. PlanOK(Method(TRUE, "within", <<Nested, Nested>>))
  BY <1>3, PairIsOK
<1> QED
  BY <1>5, <1>6, <1>7, <1>8 DEF Plans

\* What RequestsTyped says of the plan of a request.
LEMMA PlanFacts ==
    ASSUME RequestsTyped, NEW r \in RequestIds
    PROVE  /\ Len(plan[r].statements) \in Nat \ {0}
           /\ Statements(r) = 1..Len(plan[r].statements)
           /\ Statements(r) # {}
           /\ plan[r].tells \in {"after", "within"}
           /\ \A i \in Statements(r) : StatementOK(plan[r].deep_copy, plan[r].statements[i])
<1>1. PlanOK(plan[r])
  BY PlansAreOK DEF RequestsTyped
<1> QED
  BY <1>1 DEF PlanOK, Statements

-----------------------------------------------------------------------------
(* The invariant.                                                          *)

\* All that the invariant says of a request.
Inv(r) == AttemptInv(r) /\ OutcomeInv(r)

LEMMA RequestsInitInv == RequestsInit => RequestsInv
<1> SUFFICES ASSUME RequestsInit PROVE RequestsInv
  OBVIOUS
<1>1. RequestsTyped
  <2>1. 0 \in 0..MaxRetries /\ 0 \in 0..MaxMishaps
    BY TransactionsAssumption
  <2> QED
    BY <2>1 DEF RequestsInit, RequestsTyped
<1>2. ASSUME NEW r \in RequestIds PROVE Inv(r)
  <2>1. Len(plan[r].statements) \in Nat
    BY <1>1, PlanFacts
  <2> QED
    BY <2>1, TransactionsAssumption
    DEF RequestsInit, Inv, AttemptInv, OutcomeInv, Stored
<1> QED
  BY <1>1, <1>2 DEF RequestsInv, Inv

\* A request keeps the invariant if nothing of it changes.
LEMMA OtherRequestsStay ==
    ASSUME NEW q \in RequestIds, Inv(q),
           plan' = plan, at'[q] = at[q], pc'[q] = pc[q], session'[q] = session[q],
           unmarked'[q] = unmarked[q], tries'[q] = tries[q],
           Stored(q)' <=> Stored(q), q \in emitted => q \in emitted'
    PROVE  Inv(q)'
<1>1. AttemptInv(q)'
  BY DEF Inv, AttemptInv, Statements
<1>2. OutcomeInv(q)'
  BY DEF Inv, OutcomeInv
<1> QED
  BY <1>1, <1>2 DEF Inv

\* A step that changes nothing but one request, and commits nothing.
LEMMA StepOfOne ==
    ASSUME RequestsTyped, NEW r \in RequestIds, \A q \in RequestIds : Inv(q),
           plan' = plan, changes' = changes, emitted \subseteq emitted',
           \A q \in RequestIds \ {r} :
               /\ at'[q] = at[q] /\ pc'[q] = pc[q] /\ session'[q] = session[q]
               /\ unmarked'[q] = unmarked[q] /\ tries'[q] = tries[q],
           Inv(r)'
    PROVE  \A q \in RequestIds : Inv(q)'
<1> SUFFICES ASSUME NEW q \in RequestIds \ {r} PROVE Inv(q)'
  OBVIOUS
<1>1. Stored(q)' <=> Stored(q)
  BY DEF Stored
<1> QED
  BY <1>1, OtherRequestsStay

\* An attempt does its next statement: had it been unmarked by an earlier attempt, it
\* would be an insertion.
LEMMA ExecuteDoesAll ==
    ASSUME RequestsTyped, NEW r \in RequestIds, Inv(r), Execute(r)
    PROVE  /\ session' = [session EXCEPT ![r] = 1..pc[r]]
           /\ pc' = [pc EXCEPT ![r] = pc[r] + 1] /\ pc[r] \in Statements(r)
<1> DEFINE statement == plan[r].statements[pc[r]]
<1>1. /\ at[r] = "running" /\ pc[r] \in Statements(r) /\ pc[r] \in Nat
      /\ session[r] = 1..pc[r] - 1
  BY DEF Execute, Inv, AttemptInv, RequestsTyped
<1>2. StatementOK(plan[r].deep_copy, statement)
  BY <1>1, PlanFacts
<1>3. statement.inserts \/ pc[r] \notin unmarked[r]
  <2>1. CASE plan[r].deep_copy
    <3>1. unmarked[r] \subseteq 1..pc[r] - 1
      BY <2>1 DEF Inv, AttemptInv
    <3> QED
      BY <1>1, <3>1
  <2>2. CASE ~plan[r].deep_copy
    BY <1>2, <2>2 DEF StatementOK, Inv, AttemptInv
  <2> QED
    BY <2>1, <2>2
<1>4. session' = [session EXCEPT ![r] = session[r] \union {pc[r]}]
  BY <1>3 DEF Execute
<1>5. (1..pc[r] - 1) \union {pc[r]} = 1..pc[r]
  BY <1>1, PlanFacts
<1>6. session[r] \union {pc[r]} = 1..pc[r]
  BY <1>1, <1>5
<1> QED
  BY <1>1, <1>4, <1>6 DEF Execute

LEMMA RequestsNextInv == RequestsInv /\ [RequestsNext]_requestVars => RequestsInv'
<1> SUFFICES ASSUME RequestsInv, [RequestsNext]_requestVars PROVE RequestsInv'
  OBVIOUS
<1>1. RequestsTyped /\ \A q \in RequestIds : Inv(q)
  BY DEF RequestsInv, Inv
<1>2. ASSUME RequestsTyped', \A q \in RequestIds : Inv(q)' PROVE RequestsInv'
  BY <1>2 DEF RequestsInv, Inv
<1> HIDE DEF RequestsInv
<1>3. CASE UNCHANGED requestVars
  BY <1>1, <1>2, <1>3 DEF requestVars, RequestsTyped, Inv, AttemptInv, OutcomeInv, Statements, Stored
<1>4. ASSUME NEW r \in RequestIds, TurnAway(r) PROVE RequestsInv'
  <2>1. RequestsTyped'
    BY <1>1, <1>4 DEF TurnAway, RequestsTyped
  <2>2. Inv(r)'
    BY <1>1, <1>4 DEF TurnAway, RequestsTyped, Inv, AttemptInv, OutcomeInv, Statements, Stored
  <2>3. \A q \in RequestIds : Inv(q)'
    BY <1>1, <1>4, <2>2, StepOfOne DEF TurnAway, RequestsTyped
  <2> QED
    BY <1>2, <2>1, <2>3
<1>5. ASSUME NEW r \in RequestIds, Call(r) PROVE RequestsInv'
  <2>1. RequestsTyped'
    BY <1>1, <1>5 DEF Call, RequestsTyped
  <2>2. Inv(r)'
    <3>1. 1 \in 1..Len(plan[r].statements) + 1 /\ {} = 1..1 - 1
      BY <1>1, PlanFacts
    <3>2. /\ at[r] = "new" /\ at'[r] = "running" /\ pc[r] = 1 /\ session[r] = {}
          /\ UNCHANGED <<plan, pc, session, unmarked, tries, changes, emitted>>
      BY <1>1, <1>5 DEF Call, RequestsTyped, Inv, AttemptInv
    <3>3. AttemptInv(r)'
      BY <1>1, <3>1, <3>2 DEF Inv, AttemptInv, Statements
    <3>4. OutcomeInv(r)'
      BY <1>1, <3>2 DEF Inv, OutcomeInv, Stored
    <3> QED
      BY <3>3, <3>4 DEF Inv
  <2>3. \A q \in RequestIds : Inv(q)'
    BY <1>1, <1>5, <2>2, StepOfOne DEF Call, RequestsTyped
  <2> QED
    BY <1>2, <2>1, <2>3
<1>6. ASSUME NEW r \in RequestIds, TimeOut(r) \/ Respond(r) PROVE RequestsInv'
  <2>1. RequestsTyped'
    BY <1>1, <1>6 DEF TimeOut, Respond, RequestsTyped
  <2>2. \A q \in RequestIds : Inv(q)'
    BY <1>1, <1>6
    DEF TimeOut, Respond, RequestsTyped, Inv, AttemptInv, OutcomeInv, Statements, Stored
  <2> QED
    BY <1>2, <2>1, <2>2
<1>7. ASSUME NEW r \in RequestIds, Execute(r) PROVE RequestsInv'
  <2>1. /\ session' = [session EXCEPT ![r] = 1..pc[r]]
        /\ pc' = [pc EXCEPT ![r] = pc[r] + 1] /\ pc[r] \in Statements(r)
    BY <1>1, <1>7, ExecuteDoesAll
  <2>2. Len(plan[r].statements) \in Nat /\ pc[r] \in Nat /\ pc[r] \in 1..Len(plan[r].statements)
    BY <1>1, <2>1, PlanFacts DEF RequestsTyped
  <2>3. unmarked' \in [RequestIds -> SUBSET Nat]
    BY <1>1, <1>7, <2>2 DEF Execute, RequestsTyped
  <2>4. queue' \in [RequestIds -> BOOLEAN]
    <3>1. plan[r].statements[pc[r]].announced \in BOOLEAN
      BY <1>1, <2>1, PlanFacts DEF StatementOK
    <3>2. (queue[r] \/ plan[r].statements[pc[r]].announced) \in BOOLEAN
      BY <1>1, <3>1 DEF RequestsTyped
    <3> QED
      BY <1>1, <1>7, <3>2 DEF Execute, RequestsTyped
  <2>5. RequestsTyped'
    BY <1>1, <1>7, <2>1, <2>2, <2>3, <2>4 DEF Execute, RequestsTyped
  <2>6. /\ session'[r] = 1..pc[r] /\ pc'[r] = pc[r] + 1 /\ at'[r] = at[r] /\ at[r] = "running"
        /\ tries' = tries /\ plan' = plan /\ changes' = changes /\ emitted' = emitted
    BY <1>1, <1>7, <2>1 DEF Execute, RequestsTyped
  <2>7. /\ unmarked'[r] \subseteq Statements(r)
        /\ plan[r].deep_copy => unmarked'[r] \subseteq 1..pc[r]
        /\ \A i \in unmarked'[r] : ~plan[r].statements[i].nested
    <3>1. CASE plan[r].statements[pc[r]].nested
      <4>1. unmarked'[r] = unmarked[r]
        BY <1>7, <3>1 DEF Execute
      <4> QED
        BY <1>1, <2>2, <4>1 DEF Inv, AttemptInv
    <3>2. CASE ~plan[r].statements[pc[r]].nested
      <4>1. unmarked'[r] = unmarked[r] \union {pc[r]}
        BY <1>1, <1>7, <3>2 DEF Execute, RequestsTyped
      <4> QED
        BY <1>1, <2>1, <2>2, <3>2, <4>1 DEF Inv, AttemptInv
    <3> QED
      BY <3>1, <3>2
  <2>8. Inv(r)'
    <3>1. AttemptInv(r)'
      BY <1>1, <2>2, <2>6, <2>7 DEF Inv, AttemptInv, Statements
    <3>2. OutcomeInv(r)'
      BY <1>1, <2>6 DEF Inv, OutcomeInv, Stored
    <3> QED
      BY <3>1, <3>2 DEF Inv
  <2>9. \A q \in RequestIds : Inv(q)'
    BY <1>1, <1>7, <2>1, <2>8, StepOfOne DEF Execute, RequestsTyped
  <2> QED
    BY <1>2, <2>5, <2>9
<1>8. ASSUME NEW r \in RequestIds, EmitWithin(r) PROVE RequestsInv'
  <2>1. RequestsTyped'
    BY <1>1, <1>8 DEF EmitWithin, RequestsTyped
  <2>2. \A q \in RequestIds : Inv(q)'
    BY <1>1, <1>8
    DEF EmitWithin, RequestsTyped, Inv, AttemptInv, OutcomeInv, Statements, Stored
  <2> QED
    BY <1>2, <2>1, <2>2
<1>9. ASSUME NEW r \in RequestIds, Commit(r) PROVE RequestsInv'
  <2>1. RequestsTyped'
    BY <1>1, <1>9 DEF Commit, RequestsTyped
  <2>2. session[r] = Statements(r)
    <3>1. /\ Len(plan[r].statements) \in Nat
          /\ pc[r] \in 1..Len(plan[r].statements) + 1 /\ pc[r] \notin Statements(r)
          /\ session[r] = 1..pc[r] - 1
      BY <1>1, <1>9, PlanFacts DEF Commit, Inv, AttemptInv
    <3>2. pc[r] = Len(plan[r].statements) + 1
      BY <3>1 DEF Statements
    <3> QED
      BY <3>1, <3>2 DEF Statements
  <2>3. Stored(r)'
    <3>1. PICK i \in Statements(r) : TRUE
      BY <1>1, PlanFacts
    <3>2. <<r, i>> \in changes'
      BY <1>9, <2>2, <3>1 DEF Commit
    <3> QED
      BY <3>2 DEF Stored
  <2>4. \A q \in RequestIds \ {r} : Stored(q)' <=> Stored(q)
    BY <1>9 DEF Commit, Stored
  <2>5. Inv(r)'
    BY <1>1, <1>9, <2>3 DEF Commit, RequestsTyped, Inv, AttemptInv, OutcomeInv, Statements
  <2>6. \A q \in RequestIds \ {r} : Inv(q)'
    BY <1>1, <1>9, <2>4, OtherRequestsStay DEF Commit, RequestsTyped
  <2> QED
    BY <1>2, <2>1, <2>5, <2>6
<1>10. ASSUME NEW r \in RequestIds, Deadlock(r) PROVE RequestsInv'
  <2>1. tries[r] < MaxRetries /\ tries[r] \in Nat /\ MaxRetries \in Nat /\ MaxMishaps \in Nat
    BY <1>1, <1>10, TransactionsAssumption DEF Deadlock, RequestsTyped, Inv, AttemptInv
  <2>2. tries' \in [RequestIds -> 0..MaxRetries] /\ mishaps' \in 0..MaxMishaps
    BY <1>1, <1>10, <2>1 DEF Deadlock, RequestsTyped, Mishap
  <2>3. ForRetry(r) \in SUBSET Nat /\ ForRetry(r) \subseteq unmarked[r]
    BY <1>1 DEF ForRetry, RequestsTyped
  <2>4. RequestsTyped'
    <3>1. at' \in [RequestIds ->
                {"new", "running", "committed", "failed", "done", "refused", "lost"}]
      BY <1>1, <1>10 DEF Deadlock, RequestsTyped
    <3>2. pc' \in [RequestIds -> Nat] /\ session' \in [RequestIds -> SUBSET Nat]
      BY <1>1, <1>10 DEF Deadlock, RequestsTyped
    <3>3. unmarked' \in [RequestIds -> SUBSET Nat]
      BY <1>1, <1>10, <2>3 DEF Deadlock, RequestsTyped
    <3> QED
      BY <1>1, <1>10, <2>2, <3>1, <3>2, <3>3 DEF Deadlock, RequestsTyped
  <2>5. Inv(r)'
    <3>1. /\ session'[r] = {} /\ tries'[r] = tries[r] + 1 /\ at[r] = "running"
          /\ plan' = plan /\ changes' = changes /\ emitted' = emitted
      BY <1>1, <1>10 DEF Deadlock, RequestsTyped
    <3>2. CASE tries[r] + 1 >= MaxRetries
      <4>1. at'[r] = "failed" /\ pc' = pc /\ unmarked' = unmarked
        BY <1>1, <1>10, <3>2 DEF Deadlock, RequestsTyped
      <4> QED
        BY <1>1, <3>1, <4>1 DEF Inv, AttemptInv, OutcomeInv, Statements, Stored
    <3>3. CASE ~(tries[r] + 1 >= MaxRetries)
      <4>1. at' = at /\ pc'[r] = 1 /\ unmarked'[r] = ForRetry(r)
        BY <1>1, <1>10, <3>3 DEF Deadlock, RequestsTyped
      <4>2. AttemptInv(r)'
        <5>1. Len(plan[r].statements) \in Nat
          BY <1>1, PlanFacts
        <5>2. plan[r].deep_copy => unmarked'[r] = {}
          BY <4>1 DEF ForRetry
        <5>3. /\ unmarked'[r] \subseteq Statements(r)
              /\ \A i \in unmarked'[r] : ~plan[r].statements[i].nested
          BY <1>1, <2>3, <4>1 DEF Inv, AttemptInv
        <5>4. session'[r] = 1..pc'[r] - 1 /\ pc'[r] \in 1..Len(plan[r].statements) + 1
          BY <3>1, <4>1, <5>1
        <5>5. tries'[r] < MaxRetries
          BY <2>1, <3>1, <3>3
        <5> QED
          BY <3>1, <4>1, <5>2, <5>3, <5>4, <5>5 DEF AttemptInv, Statements
      <4>3. OutcomeInv(r)'
        BY <1>1, <3>1, <4>1 DEF Inv, OutcomeInv, Stored
      <4> QED
        BY <4>2, <4>3 DEF Inv
    <3> QED
      BY <3>2, <3>3
  <2>6. \A q \in RequestIds : Inv(q)'
    BY <1>1, <1>10, <2>5, StepOfOne DEF Deadlock, RequestsTyped
  <2> QED
    BY <1>2, <2>4, <2>6
<1>11. ASSUME NEW r \in RequestIds, Raise(r) PROVE RequestsInv'
  <2>1. RequestsTyped'
    BY <1>1, <1>11, TransactionsAssumption DEF Raise, RequestsTyped, Mishap
  <2>2. Inv(r)'
    BY <1>1, <1>11 DEF Raise, RequestsTyped, Inv, AttemptInv, OutcomeInv, Statements, Stored
  <2>3. \A q \in RequestIds : Inv(q)'
    BY <1>1, <1>11, <2>2, StepOfOne DEF Raise, RequestsTyped
  <2> QED
    BY <1>2, <2>1, <2>3
<1>12. ASSUME NEW r \in RequestIds, EndCall(r) PROVE RequestsInv'
  <2>1. RequestsTyped'
    BY <1>1, <1>12 DEF EndCall, RequestsTyped
  <2>2. Inv(r)'
    <3>1. plan[r].tells \in {"after", "within"}
      BY <1>1, PlanFacts
    <3> QED
      BY <1>1, <1>12, <3>1
      DEF EndCall, RequestsTyped, Inv, AttemptInv, OutcomeInv, Statements, Stored
  <2>3. \A q \in RequestIds : Inv(q)'
    BY <1>1, <1>12, <2>2, StepOfOne DEF EndCall, RequestsTyped
  <2> QED
    BY <1>2, <2>1, <2>3
<1>13. CASE CrashCentral
  <2>1. RequestsTyped'
    BY <1>1, <1>13, TransactionsAssumption DEF CrashCentral, RequestsTyped, Mishap
  <2>2. ASSUME NEW q \in RequestIds PROVE Inv(q)'
    <3>1. /\ session'[q] = {} /\ at'[q] = IF q \in Serving THEN "lost" ELSE at[q]
          /\ plan' = plan /\ pc' = pc /\ unmarked' = unmarked /\ tries' = tries
          /\ changes' = changes /\ emitted' = emitted
      BY <1>13 DEF CrashCentral
    <3>2. q \notin Serving => at[q] # "running"
      BY DEF Serving
    <3> QED
      BY <1>1, <3>1, <3>2 DEF Inv, AttemptInv, OutcomeInv, Statements, Stored
  <2> QED
    BY <1>2, <2>1, <2>2
<1> QED
  BY <1>3, <1>4, <1>5, <1>6, <1>7, <1>8, <1>9, <1>10, <1>11, <1>12, <1>13 DEF RequestsNext

-----------------------------------------------------------------------------
(* The refinement.                                                         *)

\* Where a request is decides its fate.
LEMMA Fates ==
    ASSUME RequestsInv, NEW r \in RequestIds
    PROVE  /\ at[r] \in {"new", "running"} => FateOf(r) = "open"
           /\ at[r] \in {"committed", "done"} => FateOf(r) = "kept"
           /\ at[r] \in {"failed", "refused"} => FateOf(r) = "dropped"
           /\ at[r] = "lost" => FateOf(r) = IF Stored(r) THEN "kept" ELSE "dropped"
  BY DEF RequestsInv, OutcomeInv, FateOf, Stored

\* What a step leaves of the abstract state.
LEMMA SameFate ==
    ASSUME RequestsInv, NEW r \in RequestIds, changes' = changes,
           at'[r] = at[r] \/ (at[r] \in {"new", "running"} /\ at'[r] \in {"new", "running"})
                          \/ (at[r] = "failed" /\ at'[r] = "refused")
                          \/ (at[r] = "committed" /\ at'[r] \in {"done", "lost"})
                          \/ (at[r] = "failed" /\ at'[r] = "lost")
    PROVE  FateOf(r)' = FateOf(r)
  BY Fates DEF FateOf, Stored, RequestsInv, OutcomeInv

LEMMA InitRefines == RequestsInit => Promised!AtomicInit
  BY DEF RequestsInit, Promised!AtomicInit, FateOf

LEMMA NextRefines ==
    ASSUME RequestsInv, [RequestsNext]_requestVars
    PROVE  [Promised!AtomicNext]_Promised!atomicVars
<1> DEFINE Fate == [r \in RequestIds |-> FateOf(r)]
           Asked == [r \in RequestIds |-> Statements(r)]
           SameBut(gone) == \A q \in RequestIds \ gone : FateOf(q)' = FateOf(q)
<1> USE DEF Promised!atomicVars, Promised!AtomicNext
<1>1. RequestsTyped /\ \A q \in RequestIds : Inv(q)
  BY DEF RequestsInv, Inv
<1>2. CASE UNCHANGED requestVars
  BY <1>2 DEF requestVars, FateOf, Statements
<1>3. ASSUME NEW r \in RequestIds, at[r] \in {"new", "running"},
             at'[r] \in {"failed", "refused"}, \A q \in RequestIds \ {r} : at'[q] = at[q],
             UNCHANGED <<plan, changes, emitted, response>>
      PROVE  Promised!Drop({r})
  <2>1. FateOf(r) = "open" /\ FateOf(r)' = "dropped"
    BY <1>3, Fates DEF FateOf, RequestsInv, OutcomeInv, Stored
  <2>2. SameBut({r})
    BY <1>3, SameFate
  <2>3. Fate' = [q \in RequestIds |-> IF q \in {r} THEN "dropped" ELSE Fate[q]]
    BY <2>1, <2>2
  <2> QED
    BY <1>3, <2>1, <2>3 DEF Promised!Drop, Statements
<1>4. ASSUME UNCHANGED <<plan, changes, emitted, response>>, SameBut({})
      PROVE  UNCHANGED Promised!atomicVars
  BY <1>4 DEF Statements
<1>5. ASSUME NEW r \in RequestIds, TurnAway(r) PROVE Promised!AtomicNext
  BY <1>1, <1>3, <1>5 DEF TurnAway, RequestsTyped
<1>6. ASSUME NEW r \in RequestIds, Call(r) PROVE UNCHANGED Promised!atomicVars
  <2>1. /\ at[r] = "new" /\ at'[r] = "running"
        /\ \A q \in RequestIds \ {r} : at'[q] = at[q]
        /\ UNCHANGED <<plan, changes, emitted, response>>
    BY <1>1, <1>6 DEF Call, RequestsTyped
  <2>2. SameBut({})
    BY <2>1, SameFate
  <2> QED
    BY <1>4, <2>1, <2>2
<1>7. ASSUME NEW r \in RequestIds, TimeOut(r) PROVE Promised!AtomicNext
  <2>1. SameBut({}) /\ UNCHANGED <<plan, changes, emitted>>
    BY <1>7, SameFate DEF TimeOut
  <2>2. Promised!Answer(r, "timeout")
    BY <1>7, <2>1 DEF TimeOut, Promised!Answer, Statements
  <2> QED
    BY <2>2
<1>8. ASSUME NEW r \in RequestIds, Respond(r) PROVE Promised!AtomicNext
  <2>1. SameBut({}) /\ UNCHANGED <<plan, changes, emitted>>
    BY <1>8, SameFate DEF Respond
  <2>2. CASE at[r] = "done"
    <3>1. FateOf(r) = "kept" /\ r \in emitted
      BY <1>1, <2>2, Fates DEF Inv, OutcomeInv
    <3>2. Promised!Answer(r, "ok")
      BY <1>8, <2>1, <2>2, <3>1 DEF Respond, Promised!Answer, Statements
    <3> QED
      BY <3>2
  <2>3. CASE at[r] = "refused"
    <3>1. FateOf(r) = "dropped"
      BY <2>3, Fates
    <3>2. Promised!Answer(r, "error")
      BY <1>8, <2>1, <2>3, <3>1 DEF Respond, Promised!Answer, Statements
    <3> QED
      BY <3>2
  <2> QED
    BY <1>8, <2>2, <2>3 DEF Respond
<1>9. ASSUME NEW r \in RequestIds, Execute(r) PROVE UNCHANGED Promised!atomicVars
  <2>1. UNCHANGED <<plan, at, changes, emitted, response>>
    BY <1>9 DEF Execute
  <2>2. SameBut({})
    BY <2>1, SameFate
  <2> QED
    BY <1>4, <2>1, <2>2
<1>10. ASSUME NEW r \in RequestIds, EmitWithin(r) PROVE Promised!AtomicNext
  <2>1. SameBut({}) /\ UNCHANGED <<plan, changes, response>> /\ emitted' = emitted \union {r}
    BY <1>10, SameFate DEF EmitWithin
  <2>2. Promised!Tell(r)
    BY <2>1 DEF Promised!Tell, Statements
  <2> QED
    BY <2>2
<1>11. ASSUME NEW r \in RequestIds, Commit(r) PROVE Promised!AtomicNext
  <2>1. at[r] = "running" /\ at'[r] = "committed" /\ session[r] = Statements(r)
    <3>1. /\ Len(plan[r].statements) \in Nat
          /\ pc[r] \in 1..Len(plan[r].statements) + 1 /\ pc[r] \notin Statements(r)
          /\ session[r] = 1..pc[r] - 1
      BY <1>1, <1>11, PlanFacts DEF Commit, Inv, AttemptInv
    <3>2. pc[r] = Len(plan[r].statements) + 1
      BY <3>1 DEF Statements
    <3> QED
      BY <1>1, <1>11, <3>1, <3>2 DEF Commit, Statements, RequestsTyped
  <2>2. changes' = changes \union ({r} \X Statements(r))
    BY <1>11, <2>1 DEF Commit
  <2>3. FateOf(r) = "open" /\ FateOf(r)' = "kept"
    <3>1. PICK i \in Statements(r) : TRUE
      BY <1>1, PlanFacts
    <3>2. <<r, i>> \in changes'
      BY <2>2, <3>1
    <3> QED
      BY <2>1, <3>2, Fates DEF FateOf
  <2>4. SameBut({r})
    BY <1>1, <1>11, <2>2 DEF Commit, FateOf, RequestsTyped
  <2>5. Fate' = [Fate EXCEPT ![r] = "kept"]
    BY <2>3, <2>4
  <2>6. Promised!Keep(r)
    BY <1>11, <2>2, <2>3, <2>5 DEF Commit, Promised!Keep, Statements
  <2> QED
    BY <2>6
<1>12. ASSUME NEW r \in RequestIds, Deadlock(r)
       PROVE  [Promised!AtomicNext]_Promised!atomicVars
  <2>1. CASE tries[r] + 1 >= MaxRetries
    <3>1. Promised!Drop({r})
      BY <1>1, <1>3, <1>12, <2>1 DEF Deadlock, RequestsTyped
    <3> QED
      BY <3>1
  <2>2. CASE ~(tries[r] + 1 >= MaxRetries)
    <3>1. UNCHANGED <<plan, at, changes, emitted, response>>
      BY <1>12, <2>2 DEF Deadlock
    <3>2. SameBut({})
      BY <3>1, SameFate
    <3> QED
      BY <1>4, <3>1, <3>2
  <2> QED
    BY <2>1, <2>2
<1>13. ASSUME NEW r \in RequestIds, Raise(r) PROVE Promised!AtomicNext
  BY <1>1, <1>3, <1>13 DEF Raise, RequestsTyped
<1>14. ASSUME NEW r \in RequestIds, EndCall(r)
       PROVE  [Promised!AtomicNext]_Promised!atomicVars
  <2>1. SameBut({}) /\ UNCHANGED <<plan, changes, response>>
    BY <1>1, <1>14, SameFate DEF EndCall, RequestsTyped
  <2>2. CASE emitted' = emitted
    BY <1>4, <2>1, <2>2
  <2>3. CASE emitted' = emitted \union {r}
    <3>1. Promised!Tell(r)
      BY <2>1, <2>3 DEF Promised!Tell, Statements
    <3> QED
      BY <3>1
  <2> QED
    BY <1>14, <2>2, <2>3 DEF EndCall
<1>15. CASE CrashCentral
  <2> DEFINE gone == {r \in RequestIds : at[r] = "running"}
  <2>1. /\ at' = [r \in RequestIds |-> IF r \in Serving THEN "lost" ELSE at[r]]
        /\ UNCHANGED <<plan, changes, emitted, response>>
    BY <1>15 DEF CrashCentral
  <2>2. SameBut(gone)
    <3> SUFFICES ASSUME NEW q \in RequestIds, at[q] # "running" PROVE FateOf(q)' = FateOf(q)
      OBVIOUS
    <3>1. at'[q] = at[q] \/ (at[q] \in {"committed", "failed"} /\ at'[q] = "lost")
      BY <2>1 DEF Serving
    <3> QED
      BY <2>1, <3>1, SameFate
  <2>3. \A q \in gone : FateOf(q) = "open" /\ FateOf(q)' = "dropped"
    BY <2>1, Fates DEF FateOf, Serving, RequestsInv, OutcomeInv, Stored
  <2>4. CASE gone = {}
    BY <1>4, <2>1, <2>2, <2>4
  <2>5. CASE gone # {}
    <3>1. Fate' = [q \in RequestIds |-> IF q \in gone THEN "dropped" ELSE Fate[q]]
      BY <2>2, <2>3
    <3>2. Promised!Drop(gone)
      BY <2>1, <2>3, <2>5, <3>1 DEF Promised!Drop, Statements
    <3> QED
      BY <3>2
  <2> QED
    BY <2>4, <2>5
<1> QED
  BY <1>2, <1>5, <1>6, <1>7, <1>8, <1>9, <1>10, <1>11, <1>12, <1>13, <1>14, <1>15 DEF RequestsNext

-----------------------------------------------------------------------------
(* The theorems.                                                           *)

(* The invariant holds always.                                             *)
LEMMA RequestsAlwaysInv == RequestsSpec => []RequestsInv
<1>1. RequestsInit => RequestsInv
  BY RequestsInitInv
<1>2. RequestsInv /\ [RequestsNext]_requestVars => RequestsInv'
  BY RequestsNextInv
<1> QED
  BY <1>1, <1>2, PTL DEF RequestsSpec

(* The wrappers keep to the types: a request is retried at most MaxRetries *)
(* times, and no statement is done, or its object unmarked, that the       *)
(* method does not have.                                                   *)
THEOREM TransactionsTyped == RequestsSpec => []RequestsTypeOK
<1>1. RequestsInv => RequestsTypeOK
  BY DEF RequestsInv, RequestsTyped, AttemptInv, RequestsTypeOK
<1> QED
  BY <1>1, RequestsAlwaysInv, PTL

(* A request is stored all at once and completely, or never; it is told    *)
(* "ok" only if it was, "error" only if it never is; with any number of    *)
(* requests, retries, deadlocks, exceptions and crashes.                   *)
THEOREM TransactionsAreAtomic == RequestsSpec => RequestsAreAtomic
<1>1. RequestsInit => Promised!AtomicInit
  BY InitRefines
<1>2. RequestsInv /\ [RequestsNext]_requestVars => [Promised!AtomicNext]_Promised!atomicVars
  BY NextRefines
<1> QED
  BY <1>1, <1>2, RequestsAlwaysInv, PTL DEF RequestsSpec, RequestsAreAtomic

-----------------------------------------------------------------------------
(* Paging.                                                                 *)

\* A row, and what a reader has of the list.
ListRow == [state : {"absent", "listed", "hidden", "removed"}, created : Times \union {0}]

PageReader ==
    [at : {"off", "next", "ids", "end", "marker_not_found"}, how : Readers,
     ids : Seq(RowIds), got : Seq(RowIds), stayed : SUBSET RowIds, cut : BOOLEAN]

PagingTyped ==
    /\ list \in [RowIds -> ListRow]
    /\ reader \in PageReader
    /\ moves \in 0..MaxMoves

\* As the database sorts them.
InOrder(s) == \A m, n \in DOMAIN s : m < n => After(s[n], s[m])

LastRow(s) == s[Len(s)]

\* What has been read is in order, and is of rows that have been created.
ReadInOrder ==
    /\ InOrder(reader.got) /\ InOrder(reader.ids)
    /\ Len(reader.ids) <= PageSize
    /\ \A i \in Items(reader.got) \union Items(reader.ids) : list[i].state # "absent"
    /\ reader.at = "ids"
          => \A i \in Items(reader.ids) : reader.got = <<>> \/ After(i, Marker)

\* Where the rows are that have been in the list all the time.
StayedAhead ==
    /\ reader.stayed \subseteq Listed
    /\ reader.at = "next"
          => \A i \in reader.stayed \ Items(reader.got) :
                reader.got = <<>> \/ After(i, Marker)
    /\ reader.at = "ids"
          => \A i \in reader.stayed \ Items(reader.got) :
                i \in Items(reader.ids)
                \/ (Len(reader.ids) = PageSize /\ After(i, LastRow(reader.ids)))
    /\ reader.at = "end" /\ ~reader.cut => reader.stayed \subseteq Items(reader.got)

\* What has been read, and what is still to come.
PagingInv == ReadInOrder /\ StayedAhead

-----------------------------------------------------------------------------
(* The order of the rows.                                                  *)

LEMMA RowIdsAreNumbers == ASSUME NEW i \in RowIds PROVE i \in Nat
  BY PagingAssumption

LEMMA CreatedTypes ==
    ASSUME PagingTyped, NEW i \in RowIds
    PROVE  list[i] \in ListRow /\ list[i].created \in Nat
<1>1. list[i] \in ListRow
  BY DEF PagingTyped
<1>2. \A t \in Times \union {0} : t \in Nat
  BY PagingAssumption
<1> QED
  BY <1>1, <1>2 DEF ListRow

LEMMA AfterIsAnOrder ==
    ASSUME PagingTyped, NEW i \in RowIds, NEW j \in RowIds, NEW k \in RowIds
    PROVE  /\ ~After(i, i)
           /\ i # j => After(i, j) \/ After(j, i)
           /\ After(i, j) /\ After(j, k) => After(i, k)
  BY CreatedTypes, RowIdsAreNumbers DEF After

LEMMA FirstOfFacts ==
    ASSUME PagingTyped, NEW set \in SUBSET RowIds
    PROVE  /\ FirstOf(set) \in Seq(set) /\ Len(FirstOf(set)) <= PageSize
           /\ InOrder(FirstOf(set))
           /\ Len(FirstOf(set)) < PageSize \/ Cardinality(set) <= PageSize
                 => set \subseteq Items(FirstOf(set))
           /\ \A i \in set \ Items(FirstOf(set)) :
                 /\ Len(FirstOf(set)) = PageSize
                 /\ \A n \in DOMAIN FirstOf(set) : After(i, FirstOf(set)[n])
<1> DEFINE before(i) == {j \in set : After(i, j)}
           rank(i) == Cardinality(before(i)) + 1
           count == Cardinality(set)
           size == IF count < PageSize THEN count ELSE PageSize
           f == [n \in 1..size |-> CHOOSE i \in set : rank(i) = n]
<1>1. FirstOf(set) = f
  BY DEF FirstOf
<1>2. IsFiniteSet(set) /\ count \in Nat /\ PageSize \in Nat \ {0}
  BY PagingAssumption, FS_Subset, FS_CardinalityType
<1>3. ASSUME NEW i \in set
      PROVE  IsFiniteSet(before(i)) /\ Cardinality(before(i)) \in Nat
            /\ rank(i) \in 1..count
  <2>1. /\ IsFiniteSet(set \ {i}) /\ Cardinality(set \ {i}) = count - 1
    BY <1>2, FS_RemoveElement
  <2>2. before(i) \in SUBSET (set \ {i})
    BY AfterIsAnOrder
  <2>3. /\ IsFiniteSet(before(i)) /\ Cardinality(before(i)) <= count - 1
    BY <2>1, <2>2, FS_Subset
  <2>4. Cardinality(before(i)) \in Nat
    BY <2>3, FS_CardinalityType
  <2> QED
    BY <1>2, <2>3, <2>4
<1>4. ASSUME NEW i \in set, NEW j \in set, After(j, i)
      PROVE  rank(i) < rank(j)
  <2>1. i \in before(j)
    BY <1>4
  <2>2. before(i) \in SUBSET (before(j) \ {i})
    BY <1>4, AfterIsAnOrder
  <2>3. /\ IsFiniteSet(before(j) \ {i})
        /\ Cardinality(before(j) \ {i}) = Cardinality(before(j)) - 1
    BY <1>3, <2>1, FS_RemoveElement
  <2>4. Cardinality(before(i)) <= Cardinality(before(j)) - 1
    BY <2>2, <2>3, FS_Subset
  <2>5. Cardinality(before(i)) \in Nat /\ Cardinality(before(j)) \in Nat
    BY <1>3
  <2> QED
    BY <2>4, <2>5
<1>ranks. \A i \in set : rank(i) \in 1..count /\ rank(i) \in Nat
  <2>1. \A n \in 1..count : n \in Nat
    BY <1>2
  <2>2. \A i \in set : rank(i) \in 1..count
    BY <1>3
  <2> HIDE DEF rank, count
  <2> QED
    BY <2>1, <2>2
<1> HIDE DEF rank, before
<1> DEFINE ranks == [i \in set |-> rank(i)]
<1>5. ranks \in Injection(set, 1..count)
  <2>1. ranks \in [set -> 1..count]
    BY <1>ranks
  <2>2. ASSUME NEW i \in set, NEW j \in set, ranks[i] = ranks[j] PROVE i = j
    <3>1. rank(i) = rank(j) /\ rank(i) \in Nat
      BY <1>ranks, <2>2
    <3>2. ~After(i, j) /\ ~After(j, i)
      BY <1>4, <3>1
    <3> QED
      BY <3>2, AfterIsAnOrder
  <2> QED
    BY <2>1, <2>2 DEF Injection, IsInjective
<1>6. ranks \in Surjection(set, 1..count)
  <2>1. IsFiniteSet(1..count) /\ Cardinality(1..count) = count
    <3>1. 1 \in Int /\ count \in Int /\ (1 > count => count = 0) /\ (count - 1) + 1 = count
      BY <1>2
    <3> HIDE DEF count
    <3> QED
      BY <3>1, FS_Interval
  <2> QED
    BY <1>5, <2>1, FS_Injection
<1>7. \A n \in 1..count : \E i \in set : rank(i) = n
  BY <1>6 DEF Surjection
<1>8. size \in Nat /\ size <= count /\ size <= PageSize
  BY <1>2
<1> HIDE DEF ranks
<1>9. \A n \in 1..size : f[n] \in set /\ rank(f[n]) = n
  <2> SUFFICES ASSUME NEW n \in 1..size PROVE f[n] \in set /\ rank(f[n]) = n
    OBVIOUS
  <2>1. n \in 1..count
    BY <1>2, <1>8
  <2>2. f[n] = CHOOSE i \in set : rank(i) = n
    OBVIOUS
  <2> QED
    BY <1>7, <2>1, <2>2
<1>10. f \in Seq(set) /\ Len(f) = size /\ DOMAIN f = 1..size
  <2>1. f \in [1..size -> set]
    BY <1>9
  <2> HIDE DEF f, size
  <2> QED
    BY <1>8, <2>1
<1> HIDE DEF f
<1>11. \A i \in set : rank(i) \in 1..size => i = f[rank(i)]
  <2> SUFFICES ASSUME NEW i \in set, rank(i) \in 1..size PROVE i = f[rank(i)]
    OBVIOUS
  <2>1. f[rank(i)] \in set /\ rank(f[rank(i)]) = rank(i) /\ rank(i) \in Nat
    BY <1>9
  <2> QED
    BY <1>4, <2>1, AfterIsAnOrder
<1>12. InOrder(f)
  <2> SUFFICES ASSUME NEW m \in 1..size, NEW n \in 1..size, m < n
               PROVE  After(f[n], f[m])
    BY <1>10 DEF InOrder
  <2>1. f[m] \in set /\ f[n] \in set /\ rank(f[m]) = m /\ rank(f[n]) = n
    BY <1>9
  <2>2. ~After(f[m], f[n]) /\ f[m] # f[n]
    BY <1>4, <2>1
  <2> QED
    BY <2>1, <2>2, AfterIsAnOrder
<1>13. ASSUME size < PageSize \/ count <= PageSize PROVE set \subseteq Items(f)
  <2>1. size = count
    BY <1>2, <1>13
  <2> QED
    BY <1>ranks, <1>10, <1>11, <2>1 DEF Items
<1>14. ASSUME NEW i \in set \ Items(f), NEW n \in 1..size PROVE After(i, f[n])
  <2>1. rank(i) \in Nat /\ rank(i) >= 1
    BY <1>2, <1>ranks
  <2>2. ~(rank(i) <= size)
    BY <1>8, <1>10, <1>11, <1>14, <2>1 DEF Items
  <2>3. f[n] \in set /\ rank(f[n]) = n
    BY <1>9
  <2>4. ~After(f[n], i) /\ i # f[n]
    BY <1>4, <1>8, <2>1, <2>2, <2>3
  <2> QED
    BY <2>3, <2>4, AfterIsAnOrder
<1>15. ASSUME NEW i \in set \ Items(f) PROVE size = PageSize
  BY <1>2, <1>13
<1> QED
  BY <1>1, <1>8, <1>10, <1>12, <1>13, <1>14, <1>15

-----------------------------------------------------------------------------
(* The reader.                                                             *)

LEMMA ReaderTypes ==
    ASSUME PagingTyped
    PROVE  /\ reader.at \in {"off", "next", "ids", "end", "marker_not_found"}
           /\ reader.how \in Readers /\ reader.cut \in BOOLEAN
           /\ reader.ids \in Seq(RowIds) /\ reader.got \in Seq(RowIds)
           /\ reader.stayed \in SUBSET RowIds
           /\ Items(reader.ids) \subseteq RowIds /\ Items(reader.got) \subseteq RowIds
<1>1. reader \in PageReader
  BY DEF PagingTyped
<1>2. /\ reader.at \in {"off", "next", "ids", "end", "marker_not_found"}
      /\ reader.how \in Readers /\ reader.cut \in BOOLEAN
      /\ reader.ids \in Seq(RowIds) /\ reader.got \in Seq(RowIds)
      /\ reader.stayed \in SUBSET RowIds
  BY <1>1 DEF PageReader
<1>3. ASSUME NEW s \in Seq(RowIds) PROVE Items(s) \subseteq RowIds
  BY DEF Items
<1> QED
  BY <1>2, <1>3

LEMMA LastIsLast ==
    ASSUME PagingTyped, NEW s \in Seq(RowIds), InOrder(s), s # <<>>
    PROVE  /\ LastRow(s) \in Items(s) /\ LastRow(s) \in RowIds
           /\ \A i \in Items(s) : i = LastRow(s) \/ After(LastRow(s), i)
<1> DEFINE l == Len(s)
<1>1. /\ l \in Nat /\ l > 0 /\ DOMAIN s = 1..l
      /\ \A n \in 1..l : s[n] \in RowIds
  OBVIOUS
<1>2. LastRow(s) = s[l]
  BY DEF LastRow
<1> HIDE DEF l
<1>3. l \in 1..l /\ \A n \in 1..l : n = l \/ n < l
  BY <1>1
<1>4. \A n \in 1..l : n = l \/ After(s[l], s[n])
  BY <1>1, <1>3 DEF InOrder
<1> QED
  BY <1>1, <1>2, <1>3, <1>4 DEF Items

LEMMA PageAppended ==
    ASSUME PagingTyped, NEW got \in Seq(RowIds), NEW page \in Seq(RowIds),
           InOrder(got), InOrder(page),
           \A i \in Items(page) : got = <<>> \/ After(i, LastRow(got))
    PROVE  /\ got \o page \in Seq(RowIds)
           /\ InOrder(got \o page)
           /\ Items(got \o page) = Items(got) \union Items(page)
           /\ page # <<>> => got \o page # <<>> /\ LastRow(got \o page) = LastRow(page)
<1> DEFINE all == got \o page
           g == Len(got)
<1>1. /\ all \in Seq(RowIds) /\ g \in Nat /\ Len(page) \in Nat
      /\ DOMAIN got = 1..g /\ DOMAIN page = 1..Len(page)
      /\ Len(all) = g + Len(page) /\ DOMAIN all = 1..(g + Len(page))
  OBVIOUS
<1>2. /\ \A n \in 1..g : all[n] = got[n]
      /\ \A n \in 1..Len(page) : all[g + n] = page[n]
  OBVIOUS
<1> HIDE DEF all
<1>3. ASSUME NEW n \in 1..(g + Len(page))
      PROVE  n \in 1..g \/ (n - g \in 1..Len(page) /\ n = g + (n - g))
  BY <1>1
<1>4. ASSUME NEW n \in 1..Len(page) PROVE g + n \in 1..(g + Len(page))
  BY <1>1
<1>5. \A n \in 1..g : n \in 1..(g + Len(page))
  BY <1>1
<1> HIDE DEF g
<1>6. Items(all) = Items(got) \union Items(page)
  <2>1. ASSUME NEW n \in DOMAIN all PROVE all[n] \in Items(got) \union Items(page)
    <3>1. CASE n \in 1..g
      BY <1>1, <1>2, <3>1 DEF Items
    <3>2. CASE n - g \in 1..Len(page) /\ n = g + (n - g)
      <4>1. all[n] = page[n - g]
        BY <1>2, <3>2
      <4> QED
        BY <1>1, <3>2, <4>1 DEF Items
    <3> QED
      BY <1>1, <1>3, <3>1, <3>2
  <2>2. \A n \in DOMAIN got : got[n] = all[n] /\ n \in DOMAIN all
    BY <1>1, <1>2, <1>5
  <2>3. \A n \in DOMAIN page : page[n] = all[g + n] /\ g + n \in DOMAIN all
    BY <1>1, <1>2, <1>4
  <2> QED
    BY <2>1, <2>2, <2>3 DEF Items
<1>7. InOrder(all)
  <2> SUFFICES ASSUME NEW m \in DOMAIN all, NEW n \in DOMAIN all, m < n
               PROVE  After(all[n], all[m])
    BY DEF InOrder
  <2>1. m \in Nat /\ n \in Nat
    BY <1>1
  <2>2. CASE n \in 1..g
    <3>1. m \in 1..g
      BY <1>1, <2>1, <2>2
    <3> QED
      BY <1>1, <1>2, <2>2, <3>1 DEF InOrder
  <2>3. CASE m \in 1..g /\ n - g \in 1..Len(page) /\ n = g + (n - g)
    <3>1. all[n] = page[n - g] /\ all[n] \in Items(page) /\ all[n] \in RowIds
      BY <1>1, <1>2, <2>3 DEF Items
    <3>2. all[m] = got[m] /\ all[m] \in Items(got) /\ all[m] \in RowIds /\ got # <<>>
      BY <1>1, <1>2, <2>3 DEF Items
    <3>3. After(all[n], LastRow(got))
      BY <3>1, <3>2
    <3>4. LastRow(got) \in RowIds /\ (all[m] = LastRow(got) \/ After(LastRow(got), all[m]))
      BY <3>2, LastIsLast
    <3> QED
      BY <3>1, <3>2, <3>3, <3>4, AfterIsAnOrder
  <2>4. CASE /\ m - g \in 1..Len(page) /\ m = g + (m - g)
             /\ n - g \in 1..Len(page) /\ n = g + (n - g)
    <3>1. all[n] = page[n - g] /\ all[m] = page[m - g]
      BY <1>2, <2>4
    <3>2. m - g < n - g
      BY <1>1, <2>1
    <3> QED
      BY <1>1, <2>4, <3>1, <3>2 DEF InOrder
  <2> QED
    BY <1>1, <1>3, <2>1, <2>2, <2>3, <2>4
<1>8. ASSUME page # <<>> PROVE all # <<>> /\ LastRow(all) = LastRow(page)
  <2>1. Len(page) \in 1..Len(page) /\ Len(all) = g + Len(page)
    BY <1>1, <1>8
  <2>2. Len(all) > 0
    BY <1>1, <2>1
  <2> QED
    BY <1>1, <1>2, <2>1, <2>2 DEF LastRow
<1> QED
  BY <1>1, <1>6, <1>7, <1>8 DEF all

LEMMA TakeFacts ==
    ASSUME PagingTyped, NEW page \in Seq(RowIds)
    PROVE  /\ Take(page).got = reader.got \o page /\ Take(page).ids = <<>>
           /\ Take(page).stayed = reader.stayed /\ Take(page).cut = reader.cut
           /\ Take(page).how = reader.how
           /\ \/ Take(page).at = "next" /\ page # <<>>
              \/ Take(page).at = "end" /\ Len(page) < PageSize
           /\ Take(page) \in PageReader
<1>1. reader \in PageReader
  BY DEF PagingTyped
<1>2. reader.got \o page \in Seq(RowIds) /\ <<>> \in Seq(RowIds)
  BY ReaderTypes
<1>3. CASE page = <<>> \/ (reader.how.links /\ Len(page) < PageSize)
  <2>1. Len(page) < PageSize
    BY <1>3, PagingAssumption
  <2>2. Take(page) = [reader EXCEPT !.at = "end", !.ids = <<>>, !.got = @ \o page]
    BY <1>3 DEF Take
  <2> QED
    BY <1>1, <1>2, <2>1, <2>2 DEF PageReader
<1>4. CASE ~(page = <<>> \/ (reader.how.links /\ Len(page) < PageSize))
  <2>1. Take(page) = [reader EXCEPT !.at = "next", !.ids = <<>>, !.got = @ \o page]
    BY <1>4 DEF Take
  <2> QED
    BY <1>1, <1>2, <1>4, <2>1 DEF PageReader
<1> QED
  BY <1>3, <1>4

-----------------------------------------------------------------------------
(* The steps of the reader.                                                *)

LEMMA PageTaken ==
    ASSUME PagingTyped, PagingInv, list' = list, reader' \in PageReader,
           NEW page \in Seq(RowIds), InOrder(page),
           \A i \in Items(page) : /\ list[i].state # "absent"
                                  /\ reader.got = <<>> \/ After(i, LastRow(reader.got)),
           reader'.got = reader.got \o page, reader'.ids = <<>>,
           reader'.stayed = reader.stayed,
           \/ /\ reader'.at = "next" /\ page # <<>>
              /\ \A i \in reader.stayed \ Items(reader.got) :
                    i \in Items(page) \/ After(i, LastRow(page))
           \/ /\ reader'.at = "end"
              /\ ~reader'.cut
                    => reader.stayed \subseteq Items(reader.got) \union Items(page)
    PROVE  PagingInv'
<1>1. PICK got \in Seq(RowIds) : got = reader.got
  BY ReaderTypes
<1>2. PICK all : all = got \o page
  OBVIOUS
<1>3. InOrder(got)
  BY <1>1 DEF PagingInv, ReadInOrder
<1>4. /\ InOrder(all) /\ Items(all) = Items(got) \union Items(page)
      /\ page # <<>> => all # <<>> /\ LastRow(all) = LastRow(page)
  BY <1>1, <1>2, <1>3, PageAppended
<1>5. reader'.got = all /\ reader'.ids = <<>> /\ Len(<<>>) = 0 /\ Items(<<>>) = {}
  BY <1>1, <1>2 DEF Items
<1>6. ReadInOrder'
  <2>1. InOrder(all)' /\ InOrder(<<>>)'
    BY <1>4 DEF InOrder, After
  <2>2. 0 <= PageSize
    BY PagingAssumption
  <2>3. \A i \in Items(all) : list'[i].state # "absent"
    BY <1>1, <1>4 DEF PagingInv, ReadInOrder
  <2>4. reader'.at # "ids"
    OBVIOUS
  <2>5. Items(reader.got)' = Items(all) /\ Items(reader.ids)' = {}
    BY <1>5 DEF Items
  <2> QED
    BY <1>5, <2>1, <2>2, <2>3, <2>4, <2>5 DEF ReadInOrder, InOrder, After
<1>7. StayedAhead'
  <2>1. reader'.stayed \subseteq Listed'
    BY DEF PagingInv, StayedAhead, Listed
  <2>2. Items(reader.got)' = Items(all) /\ Marker' = LastRow(all)
    BY <1>5 DEF Items, Marker, LastRow
  <2>3. \A i, j : After(i, j)' <=> After(i, j)
    BY DEF After
  <2>4. ASSUME reader'.at = "next", NEW i \in reader.stayed, i \notin Items(all)
        PROVE  After(i, LastRow(all))
    BY <1>1, <1>4, <2>4
  <2>5. ASSUME reader'.at = "next", NEW i \in reader.stayed, i \notin Items(all)
        PROVE  After(i, Marker)'
    <3>1. PICK m : m = LastRow(all)
      OBVIOUS
    <3>2. After(i, m) /\ Marker' = m
      BY <2>2, <2>4, <2>5, <3>1
    <3> QED
      BY <3>2 DEF After
  <2>6. reader'.at = "end" /\ ~reader'.cut => reader'.stayed \subseteq Items(all)
    BY <1>1, <1>4
  <2> QED
    BY <2>1, <2>2, <2>5, <2>6 DEF StayedAhead
<1> QED
  BY <1>6, <1>7 DEF PagingInv

LEMMA FollowingRows ==
    ASSUME PagingTyped, PagingInv, reader.at = "next"
    PROVE  /\ FirstOf(Following) \in Seq(RowIds) /\ Len(FirstOf(Following)) <= PageSize
           /\ InOrder(FirstOf(Following))
           /\ \A i \in Items(FirstOf(Following)) :
                 /\ list[i].state # "absent"
                 /\ reader.got = <<>> \/ After(i, LastRow(reader.got))
           /\ \A i \in reader.stayed \ Items(reader.got) :
                 \/ i \in Items(FirstOf(Following))
                 \/ /\ Len(FirstOf(Following)) = PageSize /\ FirstOf(Following) # <<>>
                    /\ After(i, LastRow(FirstOf(Following)))
<1>1. PICK page : page = FirstOf(Following)
  OBVIOUS
<1>2. Following \in SUBSET RowIds
  BY DEF Following, Listed
<1>3. /\ page \in Seq(Following) /\ Len(page) <= PageSize /\ InOrder(page)
      /\ \A i \in Following \ Items(page) :
            Len(page) = PageSize /\ \A n \in DOMAIN page : After(i, page[n])
  BY <1>1, <1>2, FirstOfFacts
<1>4. Items(page) \subseteq Following
  BY <1>3 DEF Items
<1>5. \A i \in Following : /\ list[i].state # "absent"
                           /\ reader.got = <<>> \/ After(i, LastRow(reader.got))
  BY DEF Following, Listed, Marker, LastRow
<1>6. reader.stayed \ Items(reader.got) \subseteq Following
  BY DEF PagingInv, StayedAhead, Following
<1>7. ASSUME NEW i \in Following, i \notin Items(page)
      PROVE  Len(page) = PageSize /\ page # <<>> /\ After(i, LastRow(page))
  <2>1. Len(page) = PageSize /\ PageSize \in Nat \ {0}
    BY <1>3, <1>7, PagingAssumption
  <2>2. Len(page) \in DOMAIN page /\ page # <<>>
    BY <1>3, <2>1
  <2> QED
    BY <1>3, <1>7, <2>1, <2>2 DEF LastRow
<1>8. page \in Seq(RowIds)
  BY <1>2, <1>3
<1> QED
  BY <1>1, <1>3, <1>4, <1>5, <1>6, <1>7, <1>8

LEMMA FetchPageInv ==
    ASSUME PagingTyped, PagingInv, FetchPage
    PROVE  PagingTyped' /\ PagingInv'
<1>1. PICK page : page = FirstOf(Following)
  OBVIOUS
<1>2. reader.at = "next" /\ reader' = Take(page) /\ list' = list /\ moves' = moves
  BY <1>1 DEF FetchPage
<1>3. /\ page \in Seq(RowIds) /\ InOrder(page)
      /\ \A i \in Items(page) : /\ list[i].state # "absent"
                                /\ reader.got = <<>> \/ After(i, LastRow(reader.got))
      /\ \A i \in reader.stayed \ Items(reader.got) :
            i \in Items(page)
            \/ (Len(page) = PageSize /\ page # <<>> /\ After(i, LastRow(page)))
  BY <1>1, <1>2, FollowingRows
<1>4. /\ reader'.got = reader.got \o page /\ reader'.ids = <<>>
      /\ reader'.stayed = reader.stayed /\ reader' \in PageReader
      /\ \/ reader'.at = "next" /\ page # <<>>
         \/ reader'.at = "end" /\ Len(page) < PageSize
  BY <1>2, <1>3, TakeFacts
<1>5. PageSize \in Nat /\ Len(page) \in Nat
  BY <1>3, PagingAssumption
<1>6. CASE reader'.at = "next" /\ page # <<>>
  <2>1. PagingInv'
    BY <1>2, <1>3, <1>4, <1>6, PageTaken
  <2> QED
    BY <1>2, <1>4, <2>1 DEF PagingTyped
<1>7. CASE reader'.at = "end" /\ Len(page) < PageSize
  <2>1. reader.stayed \subseteq Items(reader.got) \union Items(page)
    BY <1>3, <1>5, <1>7
  <2>2. PagingInv'
    BY <1>2, <1>3, <1>4, <1>7, <2>1, PageTaken
  <2> QED
    BY <1>2, <1>4, <2>2 DEF PagingTyped
<1> QED
  BY <1>4, <1>6, <1>7

LEMMA FetchIdsInv ==
    ASSUME PagingTyped, PagingInv, FetchIds
    PROVE  PagingTyped' /\ PagingInv'
<1>1. PICK page : page = FirstOf(Following)
  OBVIOUS
<1>2. /\ reader.at = "next" /\ list' = list /\ moves' = moves
      /\ reader' = [reader EXCEPT !.at = "ids", !.ids = page]
  BY <1>1 DEF FetchIds
<1>3. /\ page \in Seq(RowIds) /\ InOrder(page) /\ Len(page) <= PageSize
      /\ \A i \in Items(page) : /\ list[i].state # "absent"
                                /\ reader.got = <<>> \/ After(i, LastRow(reader.got))
      /\ \A i \in reader.stayed \ Items(reader.got) :
            i \in Items(page)
            \/ (Len(page) = PageSize /\ page # <<>> /\ After(i, LastRow(page)))
  BY <1>1, <1>2, FollowingRows
<1>4. /\ reader'.got = reader.got /\ reader'.ids = page /\ reader'.at = "ids"
      /\ reader'.stayed = reader.stayed /\ reader' \in PageReader
  <2>1. reader \in PageReader
    BY DEF PagingTyped
  <2> QED
    BY <1>2, <1>3, <2>1 DEF PageReader
<1>5. ReadInOrder'
  <2>1. InOrder(page)' /\ InOrder(reader.got)'
    BY <1>2, <1>3, <1>4 DEF InOrder, After, PagingInv, ReadInOrder
  <2>2. Items(reader.got)' = Items(reader.got) /\ Items(reader.ids)' = Items(page)
    BY <1>4 DEF Items
  <2>3. ASSUME NEW i \in Items(page) PROVE reader'.got = <<>> \/ After(i, Marker)'
    BY <1>2, <1>3, <1>4 DEF After, Marker, LastRow
  <2> QED
    BY <1>2, <1>3, <1>4, <2>1, <2>2, <2>3 DEF ReadInOrder, PagingInv
<1>6. StayedAhead'
  <2>1. Items(reader.got)' = Items(reader.got) /\ Items(reader.ids)' = Items(page)
    BY <1>4 DEF Items
  <2>2. ASSUME NEW i \in reader.stayed \ Items(reader.got), i \notin Items(page)
        PROVE  Len(reader'.ids) = PageSize /\ After(i, LastRow(reader.ids))'
    BY <1>2, <1>3, <1>4, <2>2 DEF After, LastRow
  <2>3. reader'.stayed \subseteq Listed'
    BY <1>2, <1>4 DEF PagingInv, StayedAhead, Listed
  <2> QED
    BY <1>4, <2>1, <2>2, <2>3 DEF StayedAhead
<1> QED
  BY <1>2, <1>4, <1>5, <1>6 DEF PagingTyped, PagingInv

LEMMA FewItems ==
    ASSUME NEW s \in Seq(RowIds), Len(s) <= PageSize, NEW set \in SUBSET Items(s)
    PROVE  Cardinality(set) <= PageSize
<1> DEFINE l == Len(s)
<1>1. l \in Nat /\ DOMAIN s = 1..l /\ l <= PageSize /\ PageSize \in Nat
  BY PagingAssumption
<1>2. s \in Surjection(1..l, Items(s))
  <2>1. s \in [1..l -> Items(s)]
    BY <1>1 DEF Items
  <2> QED
    BY <1>1, <2>1 DEF Surjection, Items
<1> HIDE DEF l
<1>3. IsFiniteSet(1..l) /\ Cardinality(1..l) = l
  <2>1. 1 \in Int /\ l \in Int /\ (1 > l => l = 0) /\ (l - 1) + 1 = l
    BY <1>1
  <2> QED
    BY <2>1, FS_Interval
<1>4. IsFiniteSet(Items(s)) /\ Cardinality(Items(s)) <= l
  BY <1>2, <1>3, FS_Surjection
<1>5. IsFiniteSet(set) /\ Cardinality(set) <= Cardinality(Items(s))
  BY <1>4, FS_Subset
<1>6. Cardinality(set) \in Nat /\ Cardinality(Items(s)) \in Nat
  BY <1>4, <1>5, FS_CardinalityType
<1> QED
  BY <1>1, <1>4, <1>5, <1>6

LEMMA FetchRowsInv ==
    ASSUME PagingTyped, PagingInv, FetchRows
    PROVE  PagingTyped' /\ PagingInv'
<1>1. PICK page, ids, set : /\ set = {i \in Items(reader.ids) : There(i)}
                            /\ page = FirstOf(set) /\ ids = reader.ids
  OBVIOUS
<1>2. /\ reader.at = "ids" /\ list' = list /\ moves' = moves
      /\ reader' = [Take(page) EXCEPT !.cut = @ \/ Len(page) < Len(ids)]
  BY <1>1 DEF FetchRows
<1>3. /\ ids \in Seq(RowIds) /\ Items(ids) \subseteq RowIds /\ InOrder(ids)
      /\ Len(ids) <= PageSize /\ set \in SUBSET RowIds /\ set \in SUBSET Items(ids)
      /\ \A i \in Items(ids) : reader.got = <<>> \/ After(i, LastRow(reader.got))
  BY <1>1, <1>2, ReaderTypes DEF PagingInv, ReadInOrder, Marker, LastRow
<1>4. Cardinality(set) <= PageSize
  BY <1>3, FewItems
<1>5. page \in Seq(set) /\ InOrder(page) /\ set \subseteq Items(page)
  BY <1>1, <1>3, <1>4, FirstOfFacts
<1>6. page \in Seq(RowIds) /\ Items(page) = set
  <2>1. page \in Seq(RowIds) /\ Items(page) \subseteq set
    BY <1>3, <1>5 DEF Items
  <2> QED
    BY <1>5, <2>1
<1>7. /\ reader'.got = reader.got \o page /\ reader'.ids = <<>>
      /\ reader'.stayed = reader.stayed /\ reader' \in PageReader
      /\ reader'.cut = (reader.cut \/ Len(page) < Len(ids))
      /\ \/ reader'.at = "next" /\ page # <<>>
         \/ reader'.at = "end" /\ Len(page) < PageSize
  <2>1. PICK taken \in PageReader : taken = Take(page)
    BY <1>6, TakeFacts
  <2>2. reader' = [taken EXCEPT !.cut = @ \/ Len(page) < Len(ids)]
    BY <1>2, <2>1
  <2>3. /\ reader'.got = taken.got /\ reader'.ids = taken.ids /\ reader'.at = taken.at
        /\ reader'.stayed = taken.stayed
        /\ reader'.cut = (taken.cut \/ Len(page) < Len(ids))
        /\ reader' \in PageReader
    BY <2>1, <2>2 DEF PageReader
  <2> QED
    BY <1>6, <2>1, <2>3, TakeFacts
<1>8. \A i \in Items(page) : /\ list[i].state # "absent"
                             /\ reader.got = <<>> \/ After(i, LastRow(reader.got))
  BY <1>1, <1>3, <1>6 DEF There
<1>9. \A i \in reader.stayed \ Items(reader.got) :
         i \in Items(page) \/ (Len(ids) = PageSize /\ i \in RowIds
                               /\ After(i, LastRow(ids)))
  BY <1>1, <1>2, <1>6, ReaderTypes DEF PagingInv, StayedAhead, Listed, There
<1>10. CASE reader'.at = "next" /\ page # <<>>
  <2>1. LastRow(page) \in Items(ids) /\ LastRow(page) \in RowIds
    BY <1>3, <1>5, <1>6, <1>10, LastIsLast
  <2>2. ids # <<>>
    BY <2>1 DEF Items
  <2>3. LastRow(ids) \in RowIds
        /\ (LastRow(page) = LastRow(ids) \/ After(LastRow(ids), LastRow(page)))
    BY <1>3, <2>1, <2>2, LastIsLast
  <2>4. \A i \in reader.stayed \ Items(reader.got) :
        i \in Items(page) \/ After(i, LastRow(page))
    BY <1>9, <2>1, <2>3, AfterIsAnOrder
  <2>5. PagingInv'
    BY <1>2, <1>5, <1>6, <1>7, <1>8, <1>10, <2>4, PageTaken
  <2> QED
    BY <1>2, <1>7, <2>5 DEF PagingTyped
<1>11. CASE reader'.at = "end" /\ Len(page) < PageSize
  <2>1. ASSUME ~reader'.cut PROVE reader.stayed \subseteq Items(reader.got) \union Items(page)
    <3>1. ~(Len(page) < Len(ids))
      BY <1>7, <2>1, Zenon
    <3>2. Len(page) \in Nat /\ Len(ids) \in Nat /\ PageSize \in Nat
      BY <1>3, <1>6, PagingAssumption
    <3>3. Len(ids) # PageSize
      BY <1>11, <3>1, <3>2
    <3> QED
      BY <1>9, <3>3
  <2>2. PagingInv'
    BY <1>2, <1>5, <1>6, <1>7, <1>8, <1>11, <2>1, PageTaken
  <2> QED
    BY <1>2, <1>7, <2>2 DEF PagingTyped
<1> QED
  BY <1>7, <1>10, <1>11

LEMMA MarkerNotFoundInv ==
    ASSUME PagingTyped, PagingInv, MarkerNotFound
    PROVE  PagingTyped' /\ PagingInv'
<1>1. reader \in PageReader /\ list' = list /\ moves' = moves
      /\ reader' = [reader EXCEPT !.at = "marker_not_found"]
  BY DEF MarkerNotFound, PagingTyped
<1>2. /\ reader' \in PageReader /\ reader'.at = "marker_not_found"
      /\ reader'.got = reader.got /\ reader'.ids = reader.ids
      /\ reader'.stayed = reader.stayed
  BY <1>1 DEF PageReader
<1>3. /\ InOrder(reader.got)' /\ InOrder(reader.ids)' /\ Listed' = Listed
      /\ Items(reader.got)' = Items(reader.got) /\ Items(reader.ids)' = Items(reader.ids)
  BY <1>1, <1>2 DEF InOrder, After, Items, Listed, PagingInv, ReadInOrder
<1> QED
  BY <1>1, <1>2, <1>3 DEF PagingTyped, PagingInv, ReadInOrder, StayedAhead

LEMMA StartInv ==
    ASSUME PagingTyped, PagingInv, NEW how \in Readers, Start(how)
    PROVE  PagingTyped' /\ PagingInv'
<1>1. /\ list' = list /\ moves' = moves
      /\ reader' = [Off EXCEPT !.at = "next", !.how = how, !.stayed = Listed]
  BY DEF Start
<1>2. Off \in PageReader
  BY DEF Off, PageReader, Readers
<1>3. Listed \in SUBSET RowIds /\ Listed' = Listed
  BY <1>1 DEF Listed
<1>4. /\ reader' \in PageReader /\ reader'.at = "next" /\ reader'.stayed = Listed
      /\ reader'.got = <<>> /\ reader'.ids = <<>>
  BY <1>1, <1>2, <1>3 DEF PageReader, Off
<1>5. Items(reader.got)' = {} /\ Items(reader.ids)' = {} /\ Len(<<>>) = 0 /\ 0 <= PageSize
  BY <1>4, PagingAssumption DEF Items
<1>6. InOrder(reader.got)' /\ InOrder(reader.ids)'
  BY <1>4 DEF InOrder
<1> QED
  BY <1>1, <1>3, <1>4, <1>5, <1>6 DEF PagingTyped, PagingInv, ReadInOrder, StayedAhead

-----------------------------------------------------------------------------
(* The steps of others.                                                    *)

\* Rows that come or change, which the reader does not see before it asks.
LEMMA ListChanges ==
    ASSUME PagingTyped, PagingInv,
           \A i \in RowIds : list[i].state # "absent" =>
              list'[i].state # "absent" /\ list'[i].created = list[i].created,
           reader'.at = reader.at, reader'.got = reader.got, reader'.ids = reader.ids,
           reader'.cut = reader.cut, reader'.stayed \subseteq reader.stayed,
           reader'.stayed \subseteq Listed'
    PROVE  PagingInv'
<1>1. PICK got \in Seq(RowIds), ids \in Seq(RowIds) : got = reader.got /\ ids = reader.ids
  BY ReaderTypes
<1>2. /\ \A i \in Items(got) \union Items(ids) : i \in RowIds /\ list[i].state # "absent"
      /\ \A i \in reader.stayed : i \in RowIds /\ list[i].state # "absent"
  BY <1>1, ReaderTypes DEF PagingInv, ReadInOrder, StayedAhead, Listed
<1>3. ASSUME NEW i \in RowIds, list[i].state # "absent",
             NEW j \in RowIds, list[j].state # "absent"
      PROVE  After(i, j)' <=> After(i, j)
  BY <1>3 DEF After
<1>4. ASSUME NEW s \in {got, ids}
      PROVE  InOrder(s)'
  <2>1. InOrder(s)
    BY <1>1 DEF PagingInv, ReadInOrder
  <2>2. \A n \in DOMAIN s : s[n] \in RowIds /\ list[s[n]].state # "absent"
    BY <1>2 DEF Items
  <2> QED
    BY <1>3, <2>1, <2>2 DEF InOrder
<1>5. ASSUME NEW s \in {got, ids}, s # <<>>
      PROVE  LastRow(s) \in RowIds /\ list[LastRow(s)].state # "absent"
  <2>1. LastRow(s) \in Items(s)
    BY <1>1, <1>5, LastIsLast DEF PagingInv, ReadInOrder
  <2> QED
    BY <1>2, <2>1
<1>6. /\ Items(reader.got)' = Items(got) /\ Items(reader.ids)' = Items(ids)
      /\ Items(reader.got) = Items(got) /\ Items(reader.ids) = Items(ids)
  BY <1>1 DEF Items
<1>7. ASSUME NEW i \in RowIds, list[i].state # "absent",
             reader.got = <<>> \/ After(i, Marker)
      PROVE  reader'.got = <<>> \/ After(i, Marker)'
  <2>1. CASE got # <<>>
    <3>1. PICK m : m = LastRow(got)
      OBVIOUS
    <3>2. m \in RowIds /\ list[m].state # "absent" /\ After(i, m)
      BY <1>1, <1>5, <1>7, <2>1, <3>1 DEF Marker, LastRow
    <3>3. After(i, m)'
      BY <1>3, <1>7, <3>2
    <3>4. Marker' = m
      BY <1>1, <3>1 DEF Marker, LastRow
    <3> QED
      BY <3>3, <3>4 DEF After
  <2> QED
    BY <1>1, <2>1
<1>8. ReadInOrder'
  <2>1. InOrder(reader.got)' /\ InOrder(reader.ids)'
    BY <1>1, <1>4 DEF InOrder, After
  <2> QED
    BY <1>1, <1>2, <1>6, <1>7, <2>1 DEF PagingInv, ReadInOrder
<1>9. ASSUME reader.at = "ids", NEW i \in reader.stayed, i \notin Items(got),
             i \notin Items(ids)
      PROVE  Len(ids) = PageSize /\ After(i, LastRow(reader.ids))'
  <2>1. PICK m : m = LastRow(ids)
    OBVIOUS
  <2>2. Len(ids) = PageSize /\ After(i, m)
    BY <1>1, <1>6, <1>9, <2>1 DEF PagingInv, StayedAhead
  <2>3. ids # <<>>
    BY <2>2, PagingAssumption
  <2>4. After(i, m)'
    BY <1>2, <1>3, <1>5, <2>1, <2>2, <2>3
  <2>5. LastRow(reader.ids)' = m
    BY <1>1, <2>1 DEF LastRow
  <2> QED
    BY <2>2, <2>4, <2>5 DEF After
<1>10. StayedAhead'
  <2>1. reader.at = "next" => \A i \in reader'.stayed \ Items(got) :
                                 reader'.got = <<>> \/ After(i, Marker)'
    BY <1>2, <1>6, <1>7 DEF PagingInv, StayedAhead
  <2>2. reader.at = "end" /\ ~reader.cut => reader'.stayed \subseteq Items(got)
    BY <1>6 DEF PagingInv, StayedAhead
  <2> QED
    BY <1>1, <1>6, <1>9, <2>1, <2>2 DEF StayedAhead
<1> QED
  BY <1>8, <1>10 DEF PagingInv

LEMMA MoveInv ==
    ASSUME PagingTyped, PagingInv, NEW i \in RowIds, There(i),
           NEW state \in {"listed", "hidden", "removed"}, Move(i, state)
    PROVE  PagingTyped' /\ PagingInv'
<1>1. /\ moves < MaxMoves /\ moves' = moves + 1
      /\ list' = [list EXCEPT ![i].state = state]
      /\ reader' = [reader EXCEPT !.stayed = IF state = "listed" THEN @ ELSE @ \ {i}]
  BY DEF Move
<1>2. list \in [RowIds -> ListRow] /\ list[i] \in ListRow /\ reader \in PageReader
  BY DEF PagingTyped
<1>3. /\ list'[i].state = state /\ list'[i].created = list[i].created
      /\ \A j \in RowIds \ {i} : list'[j] = list[j]
      /\ list' \in [RowIds -> ListRow]
  BY <1>1, <1>2 DEF ListRow
<1>4. /\ reader'.at = reader.at /\ reader'.got = reader.got /\ reader'.ids = reader.ids
      /\ reader'.cut = reader.cut /\ reader' \in PageReader
      /\ reader'.stayed = IF state = "listed" THEN reader.stayed ELSE reader.stayed \ {i}
  BY <1>1, <1>2 DEF PageReader
<1>5. reader'.stayed \subseteq reader.stayed
  BY <1>4
<1>6. reader'.stayed \subseteq Listed'
  <2>1. reader.stayed \subseteq Listed
    BY DEF PagingInv, StayedAhead
  <2>2. CASE state = "listed"
    BY <1>3, <1>4, <2>1, <2>2 DEF Listed
  <2>3. CASE state # "listed"
    BY <1>3, <1>4, <2>1, <2>3 DEF Listed
  <2> QED
    BY <2>2, <2>3
<1>7. moves' \in 0..MaxMoves
  BY <1>1, PagingAssumption DEF PagingTyped
<1>8. PagingInv'
  BY <1>3, <1>4, <1>5, <1>6, ListChanges
<1> QED
  BY <1>3, <1>4, <1>7, <1>8 DEF PagingTyped

LEMMA InsertInv ==
    ASSUME PagingTyped, PagingInv, NEW i \in RowIds, NEW t \in Times, Insert(i, t)
    PROVE  PagingTyped' /\ PagingInv'
<1>1. /\ moves < MaxMoves /\ moves' = moves + 1 /\ reader' = reader
      /\ list[i].state = "absent"
      /\ list' = [list EXCEPT ![i] = [state |-> "listed", created |-> t]]
  BY DEF Insert, NotYet
<1>2. /\ list \in [RowIds -> ListRow]
      /\ [state |-> "listed", created |-> t] \in ListRow
  BY DEF PagingTyped, ListRow
<1>3. /\ \A j \in RowIds \ {i} : list'[j] = list[j]
      /\ list'[i].state = "listed" /\ list' \in [RowIds -> ListRow]
  BY <1>1, <1>2
<1>4. reader'.stayed \subseteq Listed'
  BY <1>1, <1>3 DEF PagingInv, StayedAhead, Listed
<1>5. moves' \in 0..MaxMoves
  BY <1>1, PagingAssumption DEF PagingTyped
<1>6. PagingInv'
  BY <1>1, <1>3, <1>4, ListChanges
<1> QED
  BY <1>1, <1>3, <1>5, <1>6 DEF PagingTyped

-----------------------------------------------------------------------------
(* All of them.                                                            *)

LEMMA PagingInitInv == PagingInit => PagingTyped /\ PagingInv
<1> SUFFICES ASSUME PagingInit PROVE PagingTyped /\ PagingInv
  OBVIOUS
<1>1. list \in [RowIds -> ListRow] /\ 0 \in 0..MaxMoves /\ 0 <= PageSize
  BY PagingAssumption DEF PagingInit, NotYet, ListRow
<1>2. reader = Off /\ Off \in PageReader
  BY DEF PagingInit, Off, PageReader, Readers
<1>3. /\ reader.at = "off" /\ reader.got = <<>> /\ reader.ids = <<>>
      /\ reader.stayed = {} /\ Len(<<>>) = 0 /\ Items(<<>>) = {}
  BY <1>2 DEF Off, Items
<1> QED
  BY <1>1, <1>2, <1>3 DEF PagingInit, PagingTyped, PagingInv, ReadInOrder, StayedAhead,
                          InOrder

LEMMA PagingNextInv ==
    PagingTyped /\ PagingInv /\ [PagingNext]_pagingVars => PagingTyped' /\ PagingInv'
<1> SUFFICES ASSUME PagingTyped, PagingInv, [PagingNext]_pagingVars
             PROVE  PagingTyped' /\ PagingInv'
  OBVIOUS
<1>1. ASSUME NEW i \in RowIds, NEW t \in Times, Insert(i, t)
      PROVE  PagingTyped' /\ PagingInv'
  BY <1>1, InsertInv
<1>2. ASSUME NEW i \in RowIds, Hide(i) \/ Show(i) \/ RemoveRowOf(i)
      PROVE  PagingTyped' /\ PagingInv'
  <2>1. /\ There(i)
        /\ \E state \in {"listed", "hidden", "removed"} : Move(i, state)
    BY <1>2 DEF Hide, Show, RemoveRowOf, There
  <2> QED
    BY <2>1, MoveInv
<1>3. ASSUME NEW how \in Readers, Start(how)
      PROVE  PagingTyped' /\ PagingInv'
  BY <1>3, StartInv
<1>4. ASSUME Read PROVE PagingTyped' /\ PagingInv'
  BY <1>4, MarkerNotFoundInv, FetchPageInv, FetchIdsInv, FetchRowsInv DEF Read
<1>5. ASSUME UNCHANGED pagingVars PROVE PagingTyped' /\ PagingInv'
  <2>1. list' = list /\ reader' = reader /\ moves' = moves
    BY <1>5 DEF pagingVars
  <2>2. Listed' = Listed
    BY <2>1 DEF Listed
  <2>3. PagingInv'
    BY <2>1, <2>2, ListChanges DEF PagingInv, StayedAhead
  <2> QED
    BY <2>1, <2>3 DEF PagingTyped
<1> QED
  BY <1>1, <1>2, <1>3, <1>4, <1>5 DEF PagingNext

LEMMA AlwaysPagingInv == PagingSpec => [](PagingTyped /\ PagingInv)
<1> QED
  BY PagingInitInv, PagingNextInv, PTL DEF PagingSpec

(* The rows, the reader and its pages are of their types.                  *)
THEOREM PagingIsTyped == PagingSpec => []PagingTypeOK
<1>1. PagingTyped => PagingTypeOK
  <2> SUFFICES ASSUME PagingTyped PROVE PagingTypeOK
    OBVIOUS
  <2>1. \A i \in RowIds : /\ list[i].state \in {"absent", "listed", "hidden", "removed"}
                          /\ list[i].created \in Times \union {0}
    BY DEF PagingTyped, ListRow
  <2>2. moves \in 0..MaxMoves
    BY DEF PagingTyped
  <2> QED
    BY <2>1, <2>2, ReaderTypes DEF PagingTypeOK
<1> QED
  BY <1>1, AlwaysPagingInv, PTL

(* A reader that comes to the end has every row that was in the list all   *)
(* the time, and none twice (storage, paginate_query and check_marker):    *)
(* for any number of rows, times and page sizes, however many rows come,   *)
(* go or change between the pages.                                         *)
THEOREM NothingIsMissed == PagingSpec => []PagesMissNothing
<1>1. PagingTyped /\ PagingInv => PagesMissNothing
  <2> SUFFICES ASSUME PagingTyped, PagingInv PROVE PagesMissNothing
    OBVIOUS
  <2>1. ASSUME NEW m \in DOMAIN reader.got, NEW n \in DOMAIN reader.got,
               reader.got[m] = reader.got[n]
        PROVE  m = n
    <3>1. reader.got[m] \in RowIds /\ m \in Nat /\ n \in Nat
      BY ReaderTypes
    <3>2. ~After(reader.got[m], reader.got[n]) /\ ~After(reader.got[n], reader.got[m])
      BY <2>1, <3>1, AfterIsAnOrder
    <3> QED
      BY <3>1, <3>2 DEF PagingInv, ReadInOrder, InOrder
  <2>2. reader.at = "end" /\ ~reader.cut => reader.stayed \subseteq Items(reader.got)
    BY DEF PagingInv, StayedAhead
  <2> QED
    BY <2>1, <2>2 DEF PagesMissNothing
<1> QED
  BY <1>1, AlwaysPagingInv, PTL

-----------------------------------------------------------------------------
(* The parts together.                                                     *)

\* Each part is a behaviour of its own specification, whichever part moves.
LEMMA StorageInParts == Spec => StoreSpec /\ RequestsSpec /\ PagingSpec
<1>1. Init => StoreInit /\ RequestsInit /\ PagingInit
  BY DEF Init
<1>2. [Next]_allVars => [StoreNext]_storeVars
  BY DEF Next, Only, Moves, allVars
<1>3. [Next]_allVars => [RequestsNext]_requestVars
  BY DEF Next, Only, Moves, allVars
<1>4. [Next]_allVars => [PagingNext]_pagingVars
  BY DEF Next, Only, Moves, allVars
<1> QED
  BY <1>1, <1>2, <1>3, <1>4, PTL DEF Spec, StoreSpec, RequestsSpec, PagingSpec

=============================================================================
