------------------------------- MODULE Storage -------------------------------
(***************************************************************************)
(* The rows of one table, as the storage layer reads and writes them for   *)
(* its callers.  A caller gets an object, a copy of a row, sets some of    *)
(* its fields and hands it back some time later; each statement has its    *)
(* WHERE clause checked at the moment it runs.                             *)
(***************************************************************************)
EXTENDS Integers, Sequences, FiniteSets

CONSTANTS
    Ids,
    Projects,
    NoProject,      \* NULL in the column tenant_id
    Callers,
    Fields,         \* the columns a caller may set, besides tenant_id
    Values,
    MaxWrites       \* statements that write a row

ASSUME StorageAssumption ==
    /\ MaxWrites \in Nat
    /\ NoProject \notin Projects
    /\ "tenant" \notin Fields

VARIABLES
    table,          \* what the table is, of Tables; never changes
    rows,
    caller,         \* the context and the object of each caller
    writes,
    told,           \* history: what each column of a row was last told to be
    wish            \* history: what each caller has set since it last wrote

storeVars == <<table, rows, caller, writes, told, wish>>

-----------------------------------------------------------------------------
(* The tables: whether a row is only marked as deleted, who may read a row *)
(* and who may write it.  A caller who is not of "any" project reads the   *)
(* rows of its own project and of none, and where the code says so the     *)
(* rows shared with it or meant for it.                                    *)

Open == [soft |-> FALSE, read |-> "anyone", write |-> "anyone"]
Owned == [soft |-> FALSE, read |-> "owner", write |-> "owner"]

Quotas == Owned
Tlds == Open
TsigKeys == Open
Zones == [soft |-> TRUE, read |-> "parties", write |-> "owner"]
SharedZones == [soft |-> FALSE, read |-> "parties", write |-> "anyone"]
ZoneAttributes == Open
ZoneMasters == Open
RecordSets == Owned
Records == Owned
Blacklists == Open
Pools == Owned
PoolAttributes == Open
PoolNsRecords == Open
PoolNameservers == Open
PoolTargets == Open
PoolTargetOptions == Open
PoolTargetMasters == Open
PoolAlsoNotifies == Open
ZoneTransferRequests == [soft |-> FALSE, read |-> "parties", write |-> "owner"]
ZoneTransferAccepts == Owned
ZoneImports == Owned
ZoneExports == Owned
ServiceStatuses == Open

Tables ==
    { Quotas, Tlds, TsigKeys, Zones, SharedZones, ZoneAttributes, ZoneMasters,
      RecordSets, Records, Blacklists, Pools, PoolAttributes, PoolNsRecords,
      PoolNameservers, PoolTargets, PoolTargetOptions, PoolTargetMasters,
      PoolAlsoNotifies, ZoneTransferRequests, ZoneTransferAccepts, ZoneImports,
      ZoneExports, ServiceStatuses }

-----------------------------------------------------------------------------
(* Contexts, rows and objects.                                             *)

Columns == Fields \union {"tenant"}
Owners == Projects \union {NoProject}

\* The values a column may have.
Domain(col) == IF col = "tenant" THEN Owners ELSE Values

\* The context of a request, the admin context, and the one of the purge.
Request(p) == [project |-> p, all_tenants |-> FALSE, show_deleted |-> FALSE]
Admin == [Request(NoProject) EXCEPT !.all_tenants = TRUE]
PurgeContext == [Admin EXCEPT !.show_deleted = TRUE]

NoRow == [state |-> "none"]

\* state is "live", "deleted" or "purged"; other, the project a row is shared with.
IsRow(r) ==
    /\ DOMAIN r = {"state", "cols", "other"}
    /\ r.state \in {"live", "deleted", "purged"}
    /\ DOMAIN r.cols = Columns
    /\ \A col \in Columns : r.cols[col] \in Domain(col)
    /\ r.other \in Owners

Idle == [at |-> "idle"]

Holding(ctx, i, cols) ==
    [at |-> "object", ctx |-> ctx, id |-> i, cols |-> cols, changed |-> {}]

\* The row is in the table.
Exists(row) == row.state \in {"live", "deleted"}

DeletedCriteria(ctx, row) ==
    row.state = "live" \/ (row.state = "deleted" /\ ctx.show_deleted)

OwnTenant(ctx, row) ==
    ctx.all_tenants \/ row.cols["tenant"] \in {ctx.project, NoProject}

\* The WHERE clause of a query, and of an UPDATE or a DELETE.
Readable(ctx, row) ==
    /\ DeletedCriteria(ctx, row)
    /\ \/ table.read = "anyone"
       \/ OwnTenant(ctx, row)
       \/ table.read = "parties" /\ row.other = ctx.project

Writable(ctx, row) ==
    /\ DeletedCriteria(ctx, row)
    /\ table.write = "owner" => OwnTenant(ctx, row)

-----------------------------------------------------------------------------
(* The statements of a caller.                                             *)

Write(i, row) ==
    /\ writes < MaxWrites
    /\ writes' = writes + 1
    /\ rows' = [rows EXCEPT ![i] = row]
    /\ UNCHANGED table

\* _create: a new row, its columns as the caller says.
Create(i, cols, other) ==
    LET row == [state |-> "live", cols |-> cols, other |-> other]
    IN  /\ rows[i] = NoRow
        /\ Write(i, row)
        /\ told' = [told EXCEPT ![i] = cols]
        /\ UNCHANGED <<caller, wish>>

\* _find with one=True: a copy of the row.
Get(c, ctx, i) ==
    /\ caller[c] = Idle
    /\ Exists(rows[i]) /\ Readable(ctx, rows[i])
    /\ caller' = [caller EXCEPT ![c] = Holding(ctx, i, rows[i].cols)]
    /\ UNCHANGED <<table, rows, writes, told, wish>>

\* The setter of a field: a field that is set has changed, whatever its value.
Set(c, col, v) ==
    /\ caller[c].at = "object" /\ col \notin caller[c].changed
    /\ caller' = [caller EXCEPT ![c].cols[col] = v, ![c].changed = @ \union {col}]
    /\ wish' = [wish EXCEPT ![c] = [x \in DOMAIN @ \union {col} |->
                                        IF x = col THEN v ELSE @[x]]]
    /\ UNCHANGED <<table, rows, writes, told>>

\* The caller gives up, or is told that there is no such row.
Drop(c) ==
    /\ caller[c].at = "object"
    /\ caller' = [caller EXCEPT ![c] = Idle]
    /\ wish' = [wish EXCEPT ![c] = <<>>]
    /\ UNCHANGED <<table, rows, writes, told>>

\* Every column is written back, as it was read.
ChangesAll(obj) == obj.cols

\* obj_get_changes
Changes(obj) == [col \in obj.changed |-> obj.cols[col]]

\* _set_object_from_model: the object becomes a copy of the row again.
Refreshed(obj, row) == [obj EXCEPT !.cols = row.cols, !.changed = {}]

Overwrite(cols, values) ==
    [col \in Columns |-> IF col \in DOMAIN values THEN values[col] ELSE cols[col]]

\* _update: the columns that have changed, in the row as it is now.
Update(c) ==
    LET obj == caller[c]
        row == rows[obj.id]
        new == [row EXCEPT !.cols = Overwrite(@, Changes(obj))]
    IN  /\ obj.at = "object"
        /\ obj.changed # {}
        /\ Exists(row) /\ Writable(obj.ctx, row)
        /\ Write(obj.id, new)
        /\ caller' = [caller EXCEPT ![c] = Refreshed(obj, new)]
        /\ told' = [told EXCEPT ![obj.id] = Overwrite(@, wish[c])]
        /\ wish' = [wish EXCEPT ![c] = <<>>]

\* _delete: of an object just read, so that no field of it has changed.
Delete(c, hard) ==
    LET obj == caller[c]
        row == rows[obj.id]
        gone == IF table.soft /\ ~hard THEN "deleted" ELSE "purged"
    IN  /\ obj.at = "object"
        /\ obj.changed = {}
        /\ Exists(row) /\ Writable(obj.ctx, row)
        /\ Write(obj.id, [row EXCEPT !.state = gone])
        /\ caller' = [caller EXCEPT ![c] = Idle]
        /\ UNCHANGED <<told, wish>>

-----------------------------------------------------------------------------

StoreInit ==
    /\ table \in Tables
    /\ rows = [i \in Ids |-> NoRow]
    /\ caller = [c \in Callers |-> Idle]
    /\ writes = 0
    /\ told = [i \in Ids |-> <<>>]
    /\ wish = [c \in Callers |-> <<>>]

\* Only the purge shows what is deleted.
Asking == {Request(p) : p \in Projects} \union {Admin}

\* A new row may be shared with a project where the table has such a column.
Sharers == IF table.read = "parties" THEN Projects ELSE {NoProject}

StoreNext ==
    \/ \E i \in Ids, owner \in Owners, other \in Sharers, v \in Values :
          Create(i, [col \in Columns |-> IF col = "tenant" THEN owner ELSE v], other)
    \/ \E c \in Callers, i \in Ids, ctx \in Asking \union {PurgeContext} : Get(c, ctx, i)
    \/ \E c \in Callers, col \in Fields, v \in Values : Set(c, col, v)
    \/ \E c \in Callers, p \in Projects :
          caller[c].at = "object" /\ caller[c].ctx.all_tenants /\ Set(c, "tenant", p)
    \/ \E c \in Callers : Update(c) \/ Delete(c, FALSE) \/ Drop(c)
    \/ \E c \in Callers :
          /\ caller[c].at = "object" /\ caller[c].ctx.show_deleted
          /\ Delete(c, TRUE)

StoreSpec == StoreInit /\ [][StoreNext]_storeVars

-----------------------------------------------------------------------------

StoreTypeOK ==
    /\ table \in Tables
    /\ \A i \in Ids : rows[i] = NoRow \/ IsRow(rows[i])
    /\ writes \in 0..MaxWrites

(* Each column of a row is what it was last told to be: an object that has *)
(* become stale since it was read never takes a column back to what it was *)
(* when the object's holder did not set it, and an object that is used for *)
(* a second update does not repeat the first.                              *)
LastWordStands ==
    \A i \in Ids : rows[i] # NoRow => rows[i].cols = told[i]

=============================================================================
