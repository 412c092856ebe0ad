------------------------------ MODULE DnsServer ------------------------------
(***************************************************************************)
(* The DNS service of mDNS.  Two listeners, for TCP and UDP, hand          *)
(* connections and queries to the threads of one pool.  A TCP client sends *)
(* a stream of queries, each after its length, in pieces of any size, and  *)
(* may fall silent or close at any byte; its queries are handled in order. *)
(***************************************************************************)
EXTENDS Naturals, FiniteSets

CONSTANTS
    Clients,        \* by TCP
    Queries,        \* by UDP
    SpareThreads,   \* threads beyond the two of the listeners
    QueryBytes,     \* of a query
    MaxBytes,       \* that each client sends
    MaxFaults       \* failed accepts, and queries that raise an exception

ASSUME DnsServerAssumption ==
    /\ IsFiniteSet(Clients) /\ IsFiniteSet(Queries)
    /\ SpareThreads \in Nat \ {0} /\ QueryBytes \in Nat \ {0}
    /\ MaxBytes \in [Clients -> Nat] /\ MaxFaults \in Nat

VARIABLES
    conn,           \* each TCP connection
    sent, closed,   \* what its client has sent; has it closed?
    query,          \* where each UDP query is
    last,           \* the connection accepted last: client, in _dns_handle_tcp
    serving,        \* _running
    faults

dnsVars == <<conn, sent, closed, query, last, serving, faults>>

LengthBytes == 2
Frame == LengthBytes + QueryBytes

\* read: bytes taken from the stream; got: of the query; handled: whole queries.
NoConn == [at |-> "none", read |-> 0, got |-> 0, handled |-> 0]

Busy == Cardinality({c \in Clients : conn[c].at \in {"length", "query", "app"}})
        + Cardinality({q \in Queries : query[q] = "app"})

Fault == faults < MaxFaults /\ faults' = faults + 1

Put(c, at) == conn' = [conn EXCEPT ![c].at = at]
Available(c) == sent[c] - conn[c].read

Calm == UNCHANGED <<query, last, serving, faults>>

-----------------------------------------------------------------------------
(* The clients.                                                            *)

Connect(c) ==
    /\ serving /\ conn[c].at = "none"
    /\ Put(c, "backlog")
    /\ Calm /\ UNCHANGED <<sent, closed>>

Send(c) ==
    /\ conn[c].at # "none" /\ ~closed[c]
    /\ \E n \in 1..MaxBytes[c] - sent[c] : sent' = [sent EXCEPT ![c] = @ + n]
    /\ Calm /\ UNCHANGED <<conn, closed>>

Close(c) ==
    /\ conn[c].at # "none" /\ ~closed[c]
    /\ closed' = [closed EXCEPT ![c] = TRUE]
    /\ Calm /\ UNCHANGED <<conn, sent>>

SendUdp(q) ==
    /\ serving /\ query[q] = "none"
    /\ query' = [query EXCEPT ![q] = "socket"]
    /\ UNCHANGED <<conn, sent, closed, last, serving, faults>>

-----------------------------------------------------------------------------
(* _dns_handle_tcp and _dns_handle_udp.  When all threads are taken, the   *)
(* pool makes the work wait, or refuses it by an exception.                *)

Accept(c) ==
    /\ serving /\ conn[c].at = "backlog"
    /\ last' = {c}
    /\ Put(c, "waiting") \/ (Busy >= SpareThreads /\ Put(c, "cut"))
    /\ UNCHANGED <<sent, closed, query, serving, faults>>

\* The connection that was accepted before is closed, whether it is done or not.
AcceptError ==
    /\ serving /\ Fault
    /\ conn' = [c \in Clients |->
                   IF c \in last /\ conn[c].at # "ended" THEN [conn[c] EXCEPT !.at = "cut"]
                   ELSE conn[c]]
    /\ UNCHANGED <<sent, closed, query, last, serving>>

Receive(q) ==
    /\ serving /\ query[q] = "socket"
    /\ \/ query' = [query EXCEPT ![q] = "waiting"]
       \/ Busy >= SpareThreads /\ query' = [query EXCEPT ![q] = "dropped"]
    /\ UNCHANGED <<conn, sent, closed, last, serving, faults>>

\* The pool has no limit.
RunConnAtOnce(c) ==
    /\ conn[c].at = "waiting"
    /\ Put(c, "length")
    /\ Calm /\ UNCHANGED <<sent, closed>>

RunConn(c) ==
    /\ conn[c].at = "waiting" /\ Busy < SpareThreads
    /\ Put(c, "length")
    /\ Calm /\ UNCHANGED <<sent, closed>>

RunQuery(q) ==
    /\ query[q] = "waiting" /\ Busy < SpareThreads
    /\ query' = [query EXCEPT ![q] = "app"]
    /\ UNCHANGED <<conn, sent, closed, last, serving, faults>>

\* The answer is sent, or there is none: a query that cannot be read, an exception.
HandleQuery(q) ==
    /\ query[q] = "app"
    /\ query' = [query EXCEPT ![q] = "done"]
    /\ UNCHANGED <<conn, sent, closed, last, serving, faults>>

-----------------------------------------------------------------------------
(* _dns_handle_tcp_conn                                                    *)

\* One byte of the length alone is an error.
ReadLength(c) ==
    /\ conn[c].at = "length"
    /\ Available(c) > 0 \/ closed[c]
    /\ conn' = [conn EXCEPT ![c] =
            IF Available(c) = 0 THEN [@ EXCEPT !.at = "ended"]
            ELSE IF Available(c) = 1 THEN [@ EXCEPT !.at = "cut"]
            ELSE [@ EXCEPT !.at = "query", !.read = conn[c].read + LengthBytes, !.got = 0]]
    /\ Calm /\ UNCHANGED <<sent, closed>>

\* All that is there, and with it the beginning of the next query.
AtMostAvailable(c) == Available(c)

\* How much of what is there is taken at once.
AtMost(c) == QueryBytes - conn[c].got

\* Until the query is whole, or the client has closed.
ReadQuery(c) ==
    /\ conn[c].at = "query"
    /\ \/ /\ Available(c) > 0
          /\ \E n \in 1..AtMost(c) :
                /\ n <= Available(c)
                /\ conn' = [conn EXCEPT ![c] = [@ EXCEPT
                        !.read = conn[c].read + n, !.got = conn[c].got + n,
                        !.at = IF conn[c].got + n >= QueryBytes THEN "app" ELSE "query"]]
       \/ Available(c) = 0 /\ closed[c] /\ Put(c, "app")
    /\ Calm /\ UNCHANGED <<sent, closed>>

\* The middleware yields no answer for what it cannot read, a part of a query above
\* all; an exception closes the connection, as when a TSIG key was just deleted.
HandleConn(c) ==
    /\ conn[c].at = "app"
    /\ \/ /\ conn' = [conn EXCEPT ![c] =
                [@ EXCEPT !.at = "length",
                          !.handled = conn[c].handled + (IF conn[c].got >= QueryBytes
                                                         THEN 1 ELSE 0)]]
          /\ UNCHANGED faults
       \/ Put(c, "cut") /\ Fault
    /\ UNCHANGED <<sent, closed, query, last, serving>>

\* tcp_recv_timeout
Expires(c) == conn[c].at \in {"length", "query"} /\ Available(c) = 0 /\ ~closed[c]

Expire(c) ==
    /\ Expires(c)
    /\ Put(c, "cut")
    /\ Calm /\ UNCHANGED <<sent, closed>>

-----------------------------------------------------------------------------

\* The listening sockets are closed; what has been accepted goes on.
StopServing ==
    /\ serving
    /\ serving' = FALSE
    /\ conn' = [c \in Clients |-> IF conn[c].at = "backlog" THEN [conn[c] EXCEPT !.at = "cut"]
                                  ELSE conn[c]]
    /\ query' = [q \in Queries |-> IF query[q] = "socket" THEN "dropped" ELSE query[q]]
    /\ UNCHANGED <<sent, closed, last, faults>>

DnsInit ==
    /\ conn = [c \in Clients |-> NoConn]
    /\ sent = [c \in Clients |-> 0] /\ closed = [c \in Clients |-> FALSE]
    /\ query = [q \in Queries |-> "none"]
    /\ last = {} /\ serving = TRUE /\ faults = 0

ServeConn(c) == RunConn(c) \/ ReadLength(c) \/ ReadQuery(c) \/ HandleConn(c) \/ Expire(c)
ServeQuery(q) == RunQuery(q) \/ HandleQuery(q)

DnsNext ==
    \/ \E c \in Clients : Connect(c) \/ Send(c) \/ Close(c) \/ Accept(c) \/ ServeConn(c)
    \/ \E q \in Queries : SendUdp(q) \/ Receive(q) \/ ServeQuery(q)
    \/ AcceptError \/ StopServing

\* The listeners and the threads go on, and a thread that is free takes what waits.
DnsFairness ==
    /\ \A c \in Clients : WF_dnsVars(Accept(c)) /\ WF_dnsVars(ServeConn(c))
    /\ \A q \in Queries : WF_dnsVars(Receive(q)) /\ WF_dnsVars(ServeQuery(q))

DnsTypeOK ==
    /\ \A c \in Clients :
          /\ conn[c].at \in {"none", "backlog", "waiting", "length", "query", "app", "ended", "cut"}
          /\ conn[c].read \in 0..sent[c] /\ sent[c] \in 0..MaxBytes[c]
    /\ Busy <= SpareThreads /\ faults \in 0..MaxFaults

(* A connection that ends because its client has closed it has had every   *)
(* whole query handled, in whatever pieces the queries came, and nothing   *)
(* that was not whole counted as one.                                      *)
QueriesAreHandled ==
    \A c \in Clients : conn[c].at = "ended" => conn[c].handled = sent[c] \div Frame

(* However few threads there are, clients that connect and fall silent,    *)
(* send half a query, or are cut off keep no other waiting for ever: in    *)
(* the end all connections and queries that were taken up are done with.   *)
DnsIsServed ==
    <>[](/\ \A c \in Clients : conn[c].at \in {"none", "ended", "cut"}
         /\ \A q \in Queries : query[q] \in {"none", "done", "dropped"})

=============================================================================
