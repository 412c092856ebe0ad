------------------------------ MODULE Policies -------------------------------
(***************************************************************************)
(* Who may do what: the default rules of each kind of resource, without    *)
(* the deprecated ones, which oslo.policy leaves out by default.  A rule   *)
(* is the set of the reasons for which it lets a request pass; the rules   *)
(* are in tables, a few for each kind of resource.                         *)
(***************************************************************************)

\* The check strings that several kinds of resource use.
ADMIN == {"admin"}
ADMIN_OR_PROJECT_MEMBER == {"admin", "member"}
ADMIN_OR_PROJECT_READER == {"admin", "reader"}
ADMIN_OR_PROJECT_READER_OR_SHARED == {"admin", "reader", "shared"}
ALL_TENANTS_READER == {"all_tenants_reader"}
RULE_ZONE_TRANSFER == {"admin", "member", "target"}
RULE_ANY == {"anyone"}

ZONE_TYPE == {"member_of_primary", "admin_of_any_type", "shared_primary"}
RECORD_OWNER == {"member_of_primary", "admin_of_any_type", "record_owner_of_primary"}

-----------------------------------------------------------------------------
(* The rules.                                                              *)

BlacklistRules ==
    { [rule \in {"create_blacklist", "find_blacklists", "get_blacklist", "update_blacklist",
                 "delete_blacklist", "use_blacklisted_zone"} |-> ADMIN] }

ContextRules ==
    { [rule \in {"all_tenants", "edit_managed_records", "use_low_ttl", "use_sudo",
                 "hard_delete"} |-> ADMIN] }

PoolRules ==
    { [rule \in {"create_pool", "find_pools", "find_pool", "get_pool", "update_pool",
                 "delete_pool", "zone_create_forced_pool"} |-> ADMIN] }

QuotaRules ==
    { [get_quotas |-> ADMIN_OR_PROJECT_READER \union ALL_TENANTS_READER,
       set_quota |-> ADMIN, reset_quotas |-> ADMIN] }

RecordRules ==
    { [rule \in {"find_records", "count_records"} |-> ADMIN_OR_PROJECT_READER] }

RecordSetRules ==
    { [create_recordset |-> ZONE_TYPE,
       get_recordsets |-> ADMIN_OR_PROJECT_READER,
       get_recordset |-> ADMIN_OR_PROJECT_READER_OR_SHARED,
       find_recordset |-> ADMIN_OR_PROJECT_READER,
       find_recordsets |-> ADMIN_OR_PROJECT_READER,
       update_recordset |-> RECORD_OWNER,
       delete_recordset |-> RECORD_OWNER,
       count_recordset |-> ADMIN_OR_PROJECT_READER] }

ServiceStatusRules ==
    { [rule \in {"find_service_status", "find_service_statuses", "update_service_status",
                 "delete_service_status"} |-> ADMIN] }

SharedZoneRules ==
    { [get_zone_share |-> ADMIN_OR_PROJECT_MEMBER,
       share_zone |-> ADMIN_OR_PROJECT_MEMBER,
       find_zone_shares |-> RULE_ANY,
       find_project_zone_share |-> ADMIN_OR_PROJECT_MEMBER,
       unshare_zone |-> ADMIN_OR_PROJECT_MEMBER] }

TenantRules ==
    { [rule \in {"find_tenants", "get_tenant", "count_tenants"} |-> ADMIN] }

TldRules ==
    { [rule \in {"create_tld", "find_tlds", "get_tld", "update_tld", "delete_tld"} |-> ADMIN] }

TsigKeyRules ==
    { [rule \in {"create_tsigkey", "find_tsigkeys", "get_tsigkey", "update_tsigkey",
                 "delete_tsigkey"} |-> ADMIN] }

ZoneRules ==
    { [get_zone |-> ADMIN_OR_PROJECT_READER_OR_SHARED],
      [rule \in {"create_zone", "update_zone", "delete_zone", "xfr_zone"}
          |-> ADMIN_OR_PROJECT_MEMBER],
      [rule \in {"get_zones", "get_zone_servers", "get_zone_ns_records", "find_zones",
                 "count_zones", "count_zones_pending_notify"} |-> ADMIN_OR_PROJECT_READER],
      [rule \in {"abandon_zone", "purge_zones", "pool_move_zone"} |-> ADMIN] }

ZoneExportRules ==
    { [rule \in {"find_zone_exports", "get_zone_export"} |-> ADMIN_OR_PROJECT_READER],
      [rule \in {"zone_export", "create_zone_export", "update_zone_export",
                 "delete_zone_export"} |-> ADMIN_OR_PROJECT_MEMBER] }

ZoneImportRules ==
    { [rule \in {"find_zone_imports", "get_zone_import"} |-> ADMIN_OR_PROJECT_READER],
      [rule \in {"create_zone_import", "update_zone_import", "delete_zone_import"}
          |-> ADMIN_OR_PROJECT_MEMBER] }

ZoneTransferAcceptRules ==
    { [create_zone_transfer_accept |-> RULE_ZONE_TRANSFER,
       get_zone_transfer_accept |-> ADMIN_OR_PROJECT_READER,
       find_zone_transfer_accepts |-> ADMIN] }

ZoneTransferRequestRules ==
    { [create_zone_transfer_request |-> ADMIN_OR_PROJECT_MEMBER,
       get_zone_transfer_request |-> RULE_ZONE_TRANSFER,
       get_zone_transfer_request_detailed |-> ADMIN_OR_PROJECT_READER,
       find_zone_transfer_requests |-> RULE_ANY,
       update_zone_transfer_request |-> ADMIN_OR_PROJECT_MEMBER,
       delete_zone_transfer_request |-> ADMIN_OR_PROJECT_MEMBER] }

\* list_rules: all of them, one after the other.
Rules ==
    UNION { BlacklistRules, ContextRules, PoolRules, QuotaRules, RecordRules, RecordSetRules,
            ServiceStatusRules, SharedZoneRules, TenantRules, TldRules, TsigKeyRules, ZoneRules,
            ZoneExportRules, ZoneImportRules, ZoneTransferAcceptRules,
            ZoneTransferRequestRules }

-----------------------------------------------------------------------------

\* A user is the project and the roles of a context; a target names the owner of
\* the zone and of the recordset, the type of the zone, the project a transfer is
\* meant for, and whether the zone is shared with the user.
Applies(reason, user, target) ==
    LET of(project, role) == user.project = project /\ role \in user.roles
        primary == target.type = "PRIMARY"
    IN  \/ reason = "anyone"
        \/ reason \in {"admin", "admin_of_any_type"} /\ "admin" \in user.roles
        \/ reason \in {"member", "reader"} /\ of(target.owner, reason)
        \/ reason = "all_tenants_reader" /\ user.all_tenants /\ "reader" \in user.roles
        \/ reason = "shared" /\ target.shared
        \/ reason = "target" /\ target.meant_for \in {user.project, "anyone"}
        \/ reason = "member_of_primary" /\ primary /\ of(target.owner, "member")
        \/ reason = "shared_primary" /\ primary /\ target.shared
        \/ reason = "record_owner_of_primary" /\ primary /\ of(target.record_owner, "member")

\* policy.check
Allowed(rule, user, target) ==
    \E table \in Rules :
        /\ rule \in DOMAIN table
        /\ \E reason \in table[rule] : Applies(reason, user, target)

=============================================================================
