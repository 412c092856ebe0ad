----------------------------- MODULE ZoneOwners ------------------------------
(***************************************************************************)
(* Who owns a zone and its recordsets: one zone is shared with projects,   *)
(* offered to others, accepted, and deleted.  A call looks whether it may  *)
(* go on, and writes some time later; two calls may look before either     *)
(* writes.  Quotas are in Quotas, subzones in ZoneTree.                    *)
(***************************************************************************)
EXTENDS Integers, FiniteSets, Policies

CONSTANTS
    Users,          \* a project, the roles it has, and whether it acts for all
    Nobody,         \* no project
    RecordSetIds,
    OfferIds,       \* zone transfer requests
    Calls

VARIABLES
    hosted,         \* the zone
    shares,         \* its shares, by whom and with whom
    rrsets,         \* the project of each of its recordsets
    offers,         \* its transfer requests
    call,           \* the calls that have looked and not yet written
    clashed         \* history: two calls of kinds that clash were under way at once

ownersVars == <<hosted, shares, rrsets, offers, call, clashed>>

Accounts == {u.project : u \in Users}
NoOffer == [status |-> "none"]
NoCall == [kind |-> "none"]

-----------------------------------------------------------------------------
(* What a call looks at.                                                   *)

\* The row is not deleted yet.
InUse == hosted.state \in {"live", "deleting"}

SharedWith(p) == \E share \in shares : share[2] = p

\* _find_zones: the zones of the project, and those shared with it.
Visible(u) ==
    /\ InUse
    /\ u.all_tenants \/ u.project = hosted.owner \/ SharedWith(u.project)

\* The target of a rule about the zone.
ZoneTarget(u) ==
    [owner |-> hosted.owner, record_owner |-> Nobody, type |-> hosted.type,
     shared |-> u.project # hosted.owner /\ ~u.all_tenants /\ SharedWith(u.project),
     meant_for |-> Nobody]

\* The target of a rule about something of project p, meant for a project or for any.
TargetOf(p, to) ==
    [owner |-> p, record_owner |-> Nobody, type |-> hosted.type, shared |-> FALSE,
     meant_for |-> IF to = Nobody THEN "anyone" ELSE to]

\* _apply_tenant_criteria: the projects whose zones a call of the user writes.
Scope(u) == IF u.all_tenants THEN Accounts ELSE {u.project}

\* The kinds of calls of which two at once do harm.
Clashing ==
    { {"recordset", "unshare"}, {"recordset", "accept"}, {"recordset", "delete"},
      {"rewrite", "delete"}, {"remove", "delete"}, {"update", "delete"},
      {"offer"}, {"accept"} }

Look(c, next) ==
    /\ call[c] = NoCall
    /\ call' = [call EXCEPT ![c] = next]
    /\ clashed' = (clashed \/ \E d \in Calls : {call[d].kind, next.kind} \in Clashing)
    /\ UNCHANGED <<hosted, shares, rrsets, offers>>

\* The call ends; what it writes comes in one transaction.
Finish(c) == call' = [call EXCEPT ![c] = NoCall] /\ UNCHANGED clashed

InTheTable == hosted.state \in {"live", "deleting", "gone"}

-----------------------------------------------------------------------------
(* share_zone and unshare_zone                                             *)

LookToShare(c, u, to) ==
    /\ Visible(u) /\ to # hosted.owner
    /\ Allowed("share_zone", u, ZoneTarget(u))
    /\ Look(c, [kind |-> "share", share |-> <<u.project, to>>])

Share(c) ==
    /\ call[c].kind = "share"
    /\ shares' = IF InTheTable THEN shares \union {call[c].share} ELSE shares
    /\ Finish(c)
    /\ UNCHANGED <<hosted, rrsets, offers>>

\* Without a look at the recordsets of the project.
LookToUnshareAnyway(c, u, share) ==
    /\ share \in shares
    /\ u.all_tenants \/ u.project \in {share[1], share[2]}
    /\ Allowed("unshare_zone", u, TargetOf(share[1], Nobody))
    /\ Look(c, [kind |-> "unshare", share |-> share])

LookToUnshare(c, u, share) ==
    /\ share \in shares
    /\ u.all_tenants \/ u.project \in {share[1], share[2]}
    /\ Allowed("unshare_zone", u, TargetOf(share[1], Nobody))
    /\ \A r \in RecordSetIds : rrsets[r] # share[2]
    /\ Look(c, [kind |-> "unshare", share |-> share])

Unshare(c) ==
    /\ call[c].kind = "unshare"
    /\ shares' = shares \ {call[c].share}
    /\ Finish(c)
    /\ UNCHANGED <<hosted, rrsets, offers>>

-----------------------------------------------------------------------------
(* create_recordset, update_recordset, delete_recordset and update_zone.   *)
(* Each refuses a zone that is being deleted, and makes the zone UPDATE    *)
(* and PENDING when it writes, whatever the zone is by then.               *)

LookToCreate(c, u) ==
    /\ Visible(u) /\ hosted.state = "live"
    /\ Allowed("create_recordset", u, ZoneTarget(u))
    /\ Look(c, [kind |-> "recordset", by |-> u.project])

\* No call that is under way knows the id of the new one.
CreateRecordSet(c, r) ==
    /\ call[c].kind = "recordset"
    /\ rrsets[r] = Nobody
    /\ \A d \in Calls : call[d].kind \in {"rewrite", "remove"} => call[d].rrset # r
    /\ IF InUse
       THEN /\ rrsets' = [rrsets EXCEPT ![r] = call[c].by]
            /\ hosted' = [hosted EXCEPT !.state = "live"]
       ELSE UNCHANGED <<hosted, rrsets>>
    /\ Finish(c)
    /\ UNCHANGED <<shares, offers>>

\* The target of a rule about the recordset.
RecordSetTarget(u, r) == [ZoneTarget(u) EXCEPT !.record_owner = rrsets[r]]

LookToRewrite(c, u, r) ==
    /\ rrsets[r] # Nobody
    /\ Visible(u) /\ hosted.state = "live"
    /\ Allowed("get_recordset", u, ZoneTarget(u))
    /\ Allowed("update_recordset", u, RecordSetTarget(u, r))
    /\ Look(c, [kind |-> "rewrite", rrset |-> r])

\* No share is asked for: a project may always delete its own recordset.
LookToRemove(c, u, r) ==
    /\ rrsets[r] # Nobody
    /\ hosted.state = "live"
    /\ Allowed("delete_recordset", u, RecordSetTarget(u, r))
    /\ Look(c, [kind |-> "remove", rrset |-> r])

\* A recordset that is gone by now is not found, nor is its zone.
WriteRecordSet(c) ==
    /\ call[c].kind \in {"rewrite", "remove"}
    /\ IF InUse /\ rrsets[call[c].rrset] # Nobody
       THEN /\ rrsets' = IF call[c].kind = "remove"
                         THEN [rrsets EXCEPT ![call[c].rrset] = Nobody] ELSE rrsets
            /\ hosted' = [hosted EXCEPT !.state = "live"]
       ELSE UNCHANGED <<hosted, rrsets>>
    /\ Finish(c)
    /\ UNCHANGED <<shares, offers>>

\* patch_one of the API looks, update_zone writes.
LookToUpdate(c, u) ==
    /\ Visible(u) /\ hosted.state = "live"
    /\ Allowed("get_zone", u, ZoneTarget(u))
    /\ Allowed("update_zone", u, ZoneTarget(u))
    /\ Look(c, [kind |-> "update", of |-> Scope(u)])

UpdateZone(c) ==
    /\ call[c].kind = "update"
    /\ hosted' = IF InUse /\ hosted.owner \in call[c].of
                 THEN [hosted EXCEPT !.state = "live"] ELSE hosted
    /\ Finish(c)
    /\ UNCHANGED <<shares, rrsets, offers>>

-----------------------------------------------------------------------------
(* Zone transfer requests and accepts                                      *)

\* An ACTIVE request that the user sees.
SeesAnOffer(u) ==
    \E o \in OfferIds :
        /\ offers[o].status = "ACTIVE"
        /\ u.all_tenants \/ u.project \in {offers[o].by, offers[o].to}

LookToOffer(c, u, to) ==
    /\ Visible(u) /\ hosted.state = "live" /\ ~SeesAnOffer(u)
    /\ Allowed("get_zone", u, ZoneTarget(u))
    /\ Allowed("create_zone_transfer_request", u, ZoneTarget(u))
    /\ Look(c, [kind |-> "offer", by |-> u.project, to |-> to])

Offer(c, o) ==
    /\ call[c].kind = "offer"
    /\ offers[o] = NoOffer
    /\ offers' = IF InTheTable
                 THEN [offers EXCEPT ![o] = [status |-> "ACTIVE", by |-> call[c].by,
                                             to |-> call[c].to]]
                 ELSE offers
    /\ Finish(c)
    /\ UNCHANGED <<hosted, shares, rrsets>>

\* update_zone_transfer_request
ChangeOffer(u, o, to) ==
    /\ offers[o] # NoOffer
    /\ Allowed("get_zone_transfer_request", u, TargetOf(offers[o].by, offers[o].to))
    /\ Allowed("update_zone_transfer_request", u, TargetOf(offers[o].by, Nobody))
    /\ offers' = [offers EXCEPT ![o].to = to]
    /\ UNCHANGED <<hosted, shares, rrsets, call, clashed>>

\* delete_zone_transfer_request
Withdraw(u, o) ==
    /\ offers[o] # NoOffer
    /\ u.all_tenants \/ u.project \in {offers[o].by, offers[o].to}
    /\ Allowed("delete_zone_transfer_request", u, TargetOf(offers[o].by, Nobody))
    /\ offers' = [offers EXCEPT ![o] = NoOffer]
    /\ UNCHANGED <<hosted, shares, rrsets, call, clashed>>

\* A request that is COMPLETE is accepted again.
LookToAcceptAgain(c, u, o) ==
    /\ offers[o] # NoOffer
    /\ hosted.state = "live"
    /\ Allowed("get_zone_transfer_request", u, TargetOf(offers[o].by, offers[o].to))
    /\ Allowed("create_zone_transfer_accept", u, TargetOf(Nobody, offers[o].to))
    /\ Look(c, [kind |-> "accept", by |-> u.project, offer |-> o])

\* Whoever knows the key accepts; whose the zone is by then is not looked at.
LookToAccept(c, u, o) ==
    /\ offers[o].status = "ACTIVE"
    /\ hosted.state = "live"
    /\ Allowed("get_zone_transfer_request", u, TargetOf(offers[o].by, offers[o].to))
    /\ Allowed("create_zone_transfer_accept", u, TargetOf(Nobody, offers[o].to))
    /\ Look(c, [kind |-> "accept", by |-> u.project, offer |-> o])

\* The zone and all of its recordsets change hands.
Accept(c) ==
    LET o == call[c].offer
    IN  /\ call[c].kind = "accept"
        /\ IF InUse /\ offers[o] # NoOffer
           THEN /\ hosted' = [hosted EXCEPT !.owner = call[c].by]
                /\ rrsets' = [r \in RecordSetIds |->
                                IF rrsets[r] = Nobody THEN Nobody ELSE call[c].by]
                /\ offers' = [offers EXCEPT ![o].status = "COMPLETE"]
           ELSE UNCHANGED <<hosted, rrsets, offers>>
        /\ Finish(c)
        /\ UNCHANGED shares

-----------------------------------------------------------------------------
(* delete_zone: the shares go first, the zone is marked in a transaction   *)
(* of its own.                                                             *)

LookToDelete(c, u, delete_shares, state) ==
    /\ \A d \in Calls : call[d].kind # "delete"
    /\ Visible(u) /\ (shares # {} => delete_shares)
    /\ Allowed(IF state = "gone" THEN "abandon_zone" ELSE "delete_zone", u, ZoneTarget(u))
    /\ Look(c, [kind |-> "delete", state |-> state, shared |-> shares # {}, of |-> Scope(u)])

DeleteShares(c) ==
    /\ call[c].kind = "delete" /\ call[c].shared
    /\ shares' = {}
    /\ call' = [call EXCEPT ![c].shared = FALSE]
    /\ UNCHANGED <<hosted, rrsets, offers, clashed>>

MarkAsDeleted(c) ==
    /\ call[c].kind = "delete" /\ ~call[c].shared
    /\ hosted' = IF InUse /\ hosted.owner \in call[c].of
                 THEN [hosted EXCEPT !.state = call[c].state] ELSE hosted
    /\ Finish(c)
    /\ UNCHANGED <<shares, rrsets, offers>>

\* The worker's report.
ConfirmGone ==
    /\ hosted.state = "deleting"
    /\ hosted' = [hosted EXCEPT !.state = "gone"]
    /\ UNCHANGED <<shares, rrsets, offers, call, clashed>>

\* purge_zone: what refers to the row goes with it.
PurgeRow ==
    /\ hosted.state = "gone"
    /\ hosted' = [hosted EXCEPT !.state = "purged"]
    /\ shares' = {}
    /\ rrsets' = [r \in RecordSetIds |-> Nobody]
    /\ offers' = [o \in OfferIds |-> NoOffer]
    /\ UNCHANGED <<call, clashed>>

-----------------------------------------------------------------------------

OwnersInit ==
    /\ hosted \in [state : {"live"}, owner : Accounts, type : {"PRIMARY", "SECONDARY"}]
    /\ shares = {}
    /\ rrsets = [r \in RecordSetIds |-> Nobody]
    /\ offers = [o \in OfferIds |-> NoOffer]
    /\ call = [c \in Calls |-> NoCall]
    /\ clashed = FALSE

LookingBy(u, c) ==
    /\ call[c] = NoCall
    /\ \/ \E to \in Accounts : LookToShare(c, u, to)
       \/ \E share \in shares : LookToUnshare(c, u, share)
       \/ LookToCreate(c, u) \/ LookToUpdate(c, u)
       \/ \E r \in RecordSetIds : LookToRewrite(c, u, r) \/ LookToRemove(c, u, r)
       \/ \E to \in (Accounts \ {u.project}) \union {Nobody} : LookToOffer(c, u, to)
       \/ \E o \in OfferIds : LookToAccept(c, u, o)
       \/ \E delete_shares \in BOOLEAN, state \in {"deleting", "gone"} :
             LookToDelete(c, u, delete_shares, state)

WritingBy(c) ==
    \/ Share(c) \/ Unshare(c) \/ Accept(c) \/ DeleteShares(c) \/ MarkAsDeleted(c)
    \/ WriteRecordSet(c) \/ UpdateZone(c)
    \/ \E r \in RecordSetIds : CreateRecordSet(c, r)
    \/ \E o \in OfferIds : Offer(c, o)

AtOnce(u) ==
    \E o \in OfferIds :
        \/ Withdraw(u, o)
        \/ \E to \in (Accounts \ {u.project}) \union {Nobody} : ChangeOffer(u, o, to)

OwnersNext ==
    \/ \E u \in Users : AtOnce(u) \/ \E c \in Calls : LookingBy(u, c)
    \/ \E c \in Calls : WritingBy(c)
    \/ ConfirmGone \/ PurgeRow

OwnersSpec == OwnersInit /\ [][OwnersNext]_ownersVars

-----------------------------------------------------------------------------

OwnersTypeOK ==
    /\ hosted \in [state : {"live", "deleting", "gone", "purged"}, owner : Accounts,
                   type : {"PRIMARY", "SECONDARY"}]
    /\ shares \subseteq Accounts \X Accounts
    /\ rrsets \in [RecordSetIds -> Accounts \union {Nobody}]
    /\ \A o \in OfferIds :
          offers[o] = NoOffer \/ offers[o] \in [status : {"ACTIVE", "COMPLETE"},
                                    by : Accounts, to : Accounts \union {Nobody}]
    /\ clashed \in BOOLEAN

(* As long as neither an administrator nor a service lends a hand:         *)
(* whatever is shared, written, offered, accepted, taken back or deleted,  *)
(* and in whatever order, a recordset of a zone belongs to the owner or to *)
(* a project that the zone is shared with; and at most one offer of the    *)
(* zone is open, and it is the owner's.  Only two calls at once of the     *)
(* kinds listed as clashing can break this: a write to the zone among them *)
(* that looks before delete_zone does brings the zone back without its     *)
(* shares.                                                                 *)
NoStrangers ==
    hosted.state = "live" /\ ~clashed =>
        /\ \/ \E c \in Calls : call[c].kind = "delete"
           \/ \A r \in RecordSetIds :
                 rrsets[r] \in {Nobody, hosted.owner} \/ SharedWith(rrsets[r])
        /\ \A o, p \in OfferIds :
              offers[o].status = "ACTIVE" =>
                /\ offers[o].by = hosted.owner
                /\ offers[p].status = "ACTIVE" => o = p

(* A zone is taken only from a project that offers it at that moment; only *)
(* calls that clash can take it from one that does not.                    *)
TakenFromWhoOffers ==
    [][hosted'.owner # hosted.owner /\ ~clashed =>
          \E o \in OfferIds : offers[o].status = "ACTIVE" /\ offers[o].by = hosted.owner]_ownersVars

=============================================================================
