------------------------------ MODULE ZoneStatus ------------------------------
(***************************************************************************)
(* The status algebra of Designate: what designate-central does with the   *)
(* (status, serial) pair that a worker reports for a zone.  Zones and      *)
(* records share it.  The operators return the columns that the code       *)
(* ASSIGNS, not a new row: designate.objects marks a column as changed     *)
(* whenever it is assigned, even to the value it holds, and storage writes *)
(* exactly the changed columns into whatever the row has become meanwhile. *)
(***************************************************************************)
EXTENDS Naturals

Action == {"NONE", "CREATE", "UPDATE", "DELETE"}
Status == {"ACTIVE", "PENDING", "ERROR", "DELETED"}

\* What UpdateStatus in the worker may send; central adds NO_ZONE itself.
Report == {"SUCCESS", "ERROR", "NO_ZONE"}

\* "This column was not assigned."
Keep == "KEEP"

Assignment == [action : Action \union {Keep}, status : Status \union {Keep}]

Unassigned == [action |-> Keep, status |-> Keep]

Assign(a, s) == [action |-> a, status |-> s]

\* DEFECT: the worker's word is stored as it is.
UpdateZoneOrRecordStatusVerbatim(x, status, serial) ==
    IF status = "SUCCESS" /\ serial >= x.serial
    THEN Assign("NONE", status)
    ELSE Unassigned

\* DEFECT: NO_ZONE is taken as the end of the zone, whatever its action.
UpdateZoneOrRecordStatusGone(x, status, serial) ==
    IF status = "NO_ZONE"
    THEN Assign("NONE", "DELETED")
    ELSE Unassigned

\* DEFECT: an error ends the action, and with it the recovery of the zone.
UpdateZoneOrRecordStatusGivesUp(x, status, serial) ==
    IF status = "ERROR" /\ x.status = "PENDING"
    THEN Assign("NONE", "ERROR")
    ELSE Unassigned

\* Central.Service._update_zone_or_record_status
UpdateZoneOrRecordStatus(x, status, serial) ==
    CASE /\ status = "SUCCESS"
         /\ x.status \in {"PENDING", "ERROR"}
         /\ serial >= x.serial
         /\ x.action \in {"CREATE", "UPDATE"}      -> Assign("NONE", "ACTIVE")
      [] /\ status = "SUCCESS"
         /\ x.status \in {"PENDING", "ERROR"}
         /\ serial >= x.serial
         /\ x.action = "DELETE"                    -> Assign("NONE", "DELETED")
      [] /\ status = "ERROR"
         /\ x.status = "PENDING"
         /\ serial >= x.serial \/ serial = 0       -> Assign(Keep, "ERROR")
      [] /\ status = "NO_ZONE"
         /\ x.action \in {"CREATE", "UPDATE"}      -> Assign("CREATE", "ERROR")
      [] /\ status = "NO_ZONE"
         /\ x.action = "DELETE"                    -> Assign("NONE", "DELETED")
      [] OTHER                                     -> Unassigned

\* The criterion of _update_record_status: which records a report is about.
RecordMatches(r, status, serial) ==
    CASE status = "SUCCESS"              -> /\ r.status \in {"PENDING", "ERROR"}
                                            /\ r.serial <= serial
      [] status = "ERROR" /\ serial = 0  -> r.status = "PENDING"
      [] status = "ERROR" /\ serial # 0  -> /\ r.status = "PENDING"
                                            /\ r.serial <= serial
      [] OTHER                           -> TRUE

\* The part of update_status that turns the report into what is applied: a
\* report for a zone whose row says DELETE is taken as "the zone is gone",
\* unless an earlier report has already put the row in ERROR.
EffectiveReport(z, status, action) ==
    IF z.action = action /\ z.action = "DELETE" /\ z.status # "ERROR"
    THEN "NO_ZONE"
    ELSE status

\* storage._update: the UPDATE statement writes the assigned columns only.
WriteColumns(x, assigned) ==
    [x EXCEPT !.action = IF assigned.action = Keep THEN @ ELSE assigned.action,
              !.status = IF assigned.status = Keep THEN @ ELSE assigned.status]

=============================================================================
