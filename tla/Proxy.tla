-------------------------------- MODULE Proxy --------------------------------
(***************************************************************************)
(* The proxy between a host's stdin and stdout and the socket of the mux   *)
(* (run_proxy of src/src/runtime/proxy.rs).  A turn of its select loop is  *)
(* a step: it handles one message of either side.  Of the messages only    *)
(* how they count matters, so the socket holds numbers of them.            *)
(*                                                                         *)
(* A message of the host that is not a request, a notification or an       *)
(* answer of the host, is passed on and changes nothing here.              *)
(***************************************************************************)
EXTENDS Integers

CONSTANTS
    MaxRequests, \* bound: the requests of the host
    MaxNotices,  \* bound: the messages of the mux that answer no request
    Environment  \* the events outside the proxy that may happen

ASSUME BoundsAssumption == MaxRequests \in Nat /\ MaxNotices \in Nat
ASSUME EnvironmentAssumption ==
    Environment \subseteq {"null_id",  \* an error with a null id
                           "broken"}   \* the mux or the host closes a connection

VARIABLES
    running,     \* the loop has not been left
    stdinClosed, \* stdin_closed
    pending,     \* pending_requests
    sent,        \* the requests read from stdin
    asked,       \* those the mux has not answered yet
    responses,   \* the responses on the socket
    notices,     \* the notifications and requests of the mux on the socket
    nullIds,     \* the messages with a null id on the socket
    noticed,     \* the notifications and requests the mux has sent
    nulled,      \* the messages with a null id it has sent
    socketOpen,  \* the mux has not closed the socket
    stdoutOpen   \* the host has not closed stdout

vars == <<running, stdinClosed, pending, sent, asked, responses, notices,
          nullIds, noticed, nulled, socketOpen, stdoutOpen>>
connections == <<socketOpen, stdoutOpen>>
others == <<noticed, nulled, connections>>

Init ==
    /\ running = TRUE
    /\ stdinClosed = FALSE
    /\ pending = 0
    /\ sent = 0
    /\ asked = 0
    /\ responses = 0
    /\ notices = 0
    /\ nullIds = 0
    /\ noticed = 0
    /\ nulled = 0
    /\ socketOpen = TRUE
    /\ stdoutOpen = TRUE

-----------------------------------------------------------------------------
\* A request of the host is counted and written to the socket.
StdinRequest ==
    /\ running
    /\ ~stdinClosed
    /\ sent < MaxRequests
    /\ sent' = sent + 1
    /\ pending' = pending + 1
    /\ asked' = IF socketOpen THEN asked + 1 ELSE asked
    /\ running' = socketOpen
    /\ UNCHANGED <<stdinClosed, responses, notices, nullIds, others>>

\* The end of stdin, or a frame that does not decode.
StdinEnds ==
    /\ running
    /\ ~stdinClosed
    /\ stdinClosed' = TRUE
    /\ UNCHANGED <<running, pending, sent, asked, responses, notices, nullIds,
                   others>>

PendingAfterRequestToHostWrong == IF pending > 0 THEN pending - 1 ELSE 0
\* A message with a method is no response, also when it has an id.
PendingAfterNotice == pending

PendingKeptWrong == pending
\* saturating_sub
PendingAfterResponse == IF pending > 0 THEN pending - 1 ELSE 0

GoesUntilStdinEndsWrong(n) == stdoutOpen /\ ~stdinClosed
\* The loop is left when stdin is closed and n requests, none, are pending,
\* or when the message cannot be written to stdout.
Goes(n) == stdoutOpen /\ ~(stdinClosed /\ n = 0)

SocketResponse ==
    /\ running
    /\ responses > 0
    /\ responses' = responses - 1
    /\ pending' = PendingAfterResponse
    /\ running' = Goes(PendingAfterResponse)
    /\ UNCHANGED <<stdinClosed, sent, asked, notices, nullIds, others>>

SocketNotice ==
    /\ running
    /\ notices > 0
    /\ notices' = notices - 1
    /\ pending' = PendingAfterNotice
    /\ running' = Goes(PendingAfterNotice)
    /\ UNCHANGED <<stdinClosed, sent, asked, responses, nullIds, others>>

\* A null id is an id: get("id").is_some() holds.
SocketNullId ==
    /\ running
    /\ nullIds > 0
    /\ nullIds' = nullIds - 1
    /\ pending' = PendingAfterResponse
    /\ running' = Goes(PendingAfterResponse)
    /\ UNCHANGED <<stdinClosed, sent, asked, responses, notices, others>>

\* The end of the socket, after what the mux wrote to it.
SocketEnds ==
    /\ running
    /\ ~socketOpen
    /\ responses + notices + nullIds = 0
    /\ running' = FALSE
    /\ UNCHANGED <<stdinClosed, pending, sent, asked, responses, notices,
                   nullIds, others>>

-----------------------------------------------------------------------------
\* The mux answers a request, or sends something else.
MuxAnswers ==
    /\ socketOpen
    /\ asked > 0
    /\ asked' = asked - 1
    /\ responses' = responses + 1
    /\ UNCHANGED <<running, stdinClosed, pending, sent, notices, nullIds,
                   others>>

MuxNotifies ==
    /\ socketOpen
    /\ noticed < MaxNotices
    /\ noticed' = noticed + 1
    /\ notices' = notices + 1
    /\ UNCHANGED <<running, stdinClosed, pending, sent, asked, responses,
                   nullIds, nulled, connections>>

MuxSendsNullId ==
    /\ "null_id" \in Environment
    /\ socketOpen
    /\ nulled < MaxNotices
    /\ nulled' = nulled + 1
    /\ nullIds' = nullIds + 1
    /\ UNCHANGED <<running, stdinClosed, pending, sent, asked, responses,
                   notices, noticed, connections>>

Breaks ==
    /\ "broken" \in Environment
    /\ \/ socketOpen /\ socketOpen' = FALSE /\ UNCHANGED stdoutOpen
       \/ stdoutOpen /\ stdoutOpen' = FALSE /\ UNCHANGED socketOpen
    /\ UNCHANGED <<running, stdinClosed, pending, sent, asked, responses,
                   notices, nullIds, noticed, nulled>>

ProxyNext ==
    \/ StdinRequest
    \/ StdinEnds
    \/ SocketResponse
    \/ SocketNotice
    \/ SocketNullId
    \/ SocketEnds

Next == ProxyNext \/ MuxAnswers \/ MuxNotifies \/ MuxSendsNullId \/ Breaks

Spec == Init /\ [][Next]_vars

\* The proxy reads what is on its socket, and the mux answers every request.
FairSpec ==
    /\ Spec
    /\ WF_vars(SocketResponse \/ SocketNotice \/ SocketNullId \/ SocketEnds)
    /\ WF_vars(MuxAnswers)

-----------------------------------------------------------------------------
(* Every variable keeps its type.                                          *)
TypeOK ==
    /\ running \in BOOLEAN
    /\ stdinClosed \in BOOLEAN
    /\ pending \in Nat
    /\ sent \in 0..MaxRequests
    /\ asked \in Nat
    /\ responses \in Nat
    /\ notices \in Nat
    /\ nullIds \in Nat
    /\ noticed \in 0..MaxNotices
    /\ nulled \in 0..MaxNotices
    /\ socketOpen \in BOOLEAN
    /\ stdoutOpen \in BOOLEAN

(* While the proxy runs, its count is the number of requests that are still *)
(* unanswered on its stdout, whatever else the mux sends, until a message   *)
(* with a null id comes (run_proxy).                                        *)
PendingExact == running /\ nulled = 0 => pending = asked + responses

(* The proxy leaves its loop only when every request was answered on       *)
(* stdout, unless a connection breaks or a message with a null id came     *)
(* (run_proxy).                                                            *)
AnsweredAtExit ==
    ~running /\ socketOpen /\ stdoutOpen /\ nulled = 0
        => asked = 0 /\ responses = 0

(* Once stdin is closed with requests pending the proxy comes to an end.   *)
ExitsAfterResponses == (stdinClosed /\ pending > 0) ~> ~running

-----------------------------------------------------------------------------
(* The doc comment of run_proxy: "Only exit when BOTH directions are done  *)
(* (stdin closed AND socket closed)".                                      *)
ExitsWhenBothClosed == ~running => stdinClosed /\ ~socketOpen

(* "If stdin is closed and no more pending requests, we're done", a        *)
(* comment of run_proxy.                                                   *)
ExitsWhenNothingPends == (stdinClosed /\ pending = 0) ~> ~running

(* "We keep reading from socket until we get all responses", the module's  *)
(* comment: the proxy leaves only when every request was answered, unless  *)
(* a connection breaks.                                                    *)
AllAnsweredAtExit ==
    ~running /\ socketOpen /\ stdoutOpen => asked = 0 /\ responses = 0
=============================================================================
