---------------------------- MODULE MdnsTransfers ----------------------------
(***************************************************************************)
(* What a nameserver gets of a zone from mDNS.  The serial of a zone is    *)
(* the second of its last increment, which the producer makes some time    *)
(* after the changes; the SOA record is built again then, from the zone as *)
(* the producer has read it.  A transfer is read in several queries, one   *)
(* after another, the SOA record first.                                    *)
(***************************************************************************)
EXTENDS Naturals, Sequences

CONSTANTS
    Nameservers,
    MaxSeconds,
    MaxRecordChanges,
    MaxZoneChanges,
    MaxTransferFaults   \* transfers that break off, producers that die

ASSUME TransfersAssumption ==
    /\ MaxSeconds \in Nat \ {0}
    /\ MaxRecordChanges \in Nat /\ MaxZoneChanges \in Nat /\ MaxTransferFaults \in Nat

VARIABLES
    second,         \* the time
    due,            \* increment_serial of the zone's row
    settings,       \* its e-mail address and times, by their number
    records,        \* how many changes of its records there were
    soa,            \* the SOA record
    producer,       \* the zone's settings as the producer has read them
    transfer,       \* what each nameserver is being sent
    received,           \* what it has
    missed,         \* history: nameservers that had the serial when it was given again
    outdated,       \* history: the SOA record was built from settings changed since
    transfer_faults

transferVars ==
    <<second, due, settings, records, soa, producer, transfer, received, missed, outdated,
      transfer_faults>>

NotRead == [read |-> FALSE]
NoSoa == [serial |-> 0, settings |-> 0]
NoTransfer == [step |-> 0, soa |-> NoSoa, records |-> 0]
TransferFault == transfer_faults < MaxTransferFaults /\ transfer_faults' = transfer_faults + 1

\* The queries of _handle_axfr in the other order.
AxfrRestFirst == <<"rest", "soa">>

AxfrQueries == <<"soa", "rest">>

-----------------------------------------------------------------------------
(* Central and the producer.                                               *)

Tick ==
    /\ second < MaxSeconds
    /\ second' = second + 1
    /\ UNCHANGED <<due, settings, records, soa, producer, transfer, received, missed, outdated,
                   transfer_faults>>

ChangeRecords ==
    /\ records < MaxRecordChanges
    /\ records' = records + 1 /\ due' = TRUE
    /\ UNCHANGED <<second, settings, soa, producer, transfer, received, missed, outdated,
                   transfer_faults>>

ChangeZone ==
    /\ settings < MaxZoneChanges
    /\ settings' = settings + 1 /\ due' = TRUE
    /\ UNCHANGED <<second, records, soa, producer, transfer, received, missed, outdated,
                   transfer_faults>>

\* PeriodicIncrementSerialTask lists what is due.
ReadZone ==
    /\ ~producer.read /\ due
    /\ producer' = [read |-> TRUE, settings |-> settings]
    /\ UNCHANGED <<second, due, settings, records, soa, transfer, received, missed, outdated,
                   transfer_faults>>

Has(n, serial) == serial \in {received[n].serial, transfer[n].soa.serial}

\* increment_zone_serial: nothing is due any more, whatever was changed meanwhile.
IncrementZoneSerial ==
    /\ producer.read
    /\ soa' = [serial |-> second, settings |-> producer.settings]
    /\ due' = FALSE
    /\ producer' = NotRead
    /\ missed' = IF second = soa.serial THEN missed \union {n \in Nameservers : Has(n, second)}
                 ELSE {}
    /\ outdated' = (producer.settings # settings)
    /\ UNCHANGED <<second, settings, records, transfer, received, transfer_faults>>

ProducerDies ==
    /\ producer.read
    /\ producer' = NotRead
    /\ TransferFault
    /\ UNCHANGED <<second, due, settings, records, soa, transfer, received, missed, outdated>>

-----------------------------------------------------------------------------
(* mDNS and a nameserver, which asks upon a NOTIFY or by itself.           *)

\* The SOA record of the answer to its question has a higher serial.
AskForTransfer(n) ==
    /\ transfer[n].step = 0 /\ soa.serial > received[n].serial
    /\ transfer' = [transfer EXCEPT ![n].step = 1]
    /\ UNCHANGED <<second, due, settings, records, soa, producer, received, missed, outdated,
                   transfer_faults>>

\* find_recordsets_axfr
RunAxfrQuery(n) ==
    /\ transfer[n].step \in DOMAIN AxfrQueries
    /\ LET it == transfer[n]
       IN  transfer' = [transfer EXCEPT ![n] =
                IF AxfrQueries[it.step] = "soa"
                THEN [it EXCEPT !.step = it.step + 1, !.soa = soa]
                ELSE [it EXCEPT !.step = it.step + 1, !.records = records]]
    /\ UNCHANGED <<second, due, settings, records, soa, producer, received, missed, outdated,
                   transfer_faults>>

EndTransfer(n) ==
    /\ transfer[n].step = Len(AxfrQueries) + 1
    /\ received' = [received EXCEPT ![n] =
            [serial |-> transfer[n].soa.serial, settings |-> transfer[n].soa.settings,
             records |-> transfer[n].records]]
    /\ transfer' = [transfer EXCEPT ![n] = NoTransfer]
    /\ UNCHANGED <<second, due, settings, records, soa, producer, missed, outdated,
                   transfer_faults>>

\* A record set that is too big, a connection that is lost.
BreakOff(n) ==
    /\ transfer[n].step > 0
    /\ transfer' = [transfer EXCEPT ![n] = NoTransfer]
    /\ TransferFault
    /\ UNCHANGED <<second, due, settings, records, soa, producer, received, missed, outdated>>

-----------------------------------------------------------------------------

TransfersInit ==
    /\ second = 1 /\ due = FALSE /\ settings = 0 /\ records = 0
    /\ soa = [serial |-> 1, settings |-> 0]
    /\ producer = NotRead
    /\ transfer = [n \in Nameservers |-> NoTransfer]
    /\ received = [n \in Nameservers |-> [serial |-> 1, settings |-> 0, records |-> 0]]
    /\ missed = {} /\ outdated = FALSE /\ transfer_faults = 0

GoOnTransferring(n) == AskForTransfer(n) \/ RunAxfrQuery(n) \/ EndTransfer(n)

TransfersNext ==
    \/ Tick \/ ChangeRecords \/ ChangeZone
    \/ ReadZone \/ IncrementZoneSerial \/ ProducerDies
    \/ \E n \in Nameservers : GoOnTransferring(n) \/ BreakOff(n)

\* The producer's task is periodic, and a nameserver asks again after its refresh time.
TransfersFairness ==
    /\ WF_transferVars(ReadZone \/ IncrementZoneSerial)
    /\ \A n \in Nameservers : WF_transferVars(GoOnTransferring(n))

TransfersTypeOK ==
    /\ second \in 1..MaxSeconds /\ soa.serial \in 1..second
    /\ settings \in 0..MaxZoneChanges /\ soa.settings \in 0..settings
    /\ records \in 0..MaxRecordChanges
    /\ \A n \in Nameservers :
          /\ received[n].serial \in 1..soa.serial /\ received[n].records \in 0..records
          /\ transfer[n].step \in 0..Len(AxfrQueries) + 1
    /\ missed \subseteq Nameservers /\ transfer_faults \in 0..MaxTransferFaults

(* A serial says what a nameserver has: one with the serial of the zone,   *)
(* when nothing is due, has all the changes there were, whenever they were *)
(* made while it was being sent the zone; but not when it had that serial  *)
(* before a second increment within the same second, nor, as to a setting  *)
(* changed after the producer had read the zone, until the next increment. *)
SerialsAreWhole ==
    \A n \in Nameservers :
        n \notin missed /\ ~due /\ received[n].serial = soa.serial =>
            received[n].records = records /\ (~outdated => received[n].settings = settings)

(* Every nameserver has all changes of the zone in the end, whenever they  *)
(* are made while it is being sent the zone: a transfer never has a serial *)
(* that belongs to later changes than it has.  But it may miss one when it *)
(* had the serial before a second increment within the same second; and a  *)
(* setting that was changed after the producer had read the zone is in no  *)
(* SOA record, though nothing is due any more, until the next increment.   *)
TransfersAreWhole ==
    <>[](\A n \in Nameservers : n \notin missed =>
            received[n].records = records /\ (~outdated => received[n].settings = settings))

=============================================================================
