----------------------------- MODULE ProxyProofs -----------------------------
(***************************************************************************)
(* The proxy's count of pending requests is exact, and it answers all of   *)
(* them before it leaves, for any number of requests.  Both rest on one    *)
(* invariant: the count while it runs, and what its last turn left behind. *)
(***************************************************************************)
EXTENDS Proxy, TLAPS

\* Until a null id is sent: what is counted is what is to come.
ExactInv == nulled = 0 =>
    /\ nullIds = 0
    /\ running => pending = asked + responses
    /\ AnsweredAtExit

\* The actions of the proxy and of its surroundings, one by one.
LEMMA ProxyTypeInit == Init => TypeOK
<1> SUFFICES ASSUME Init PROVE TypeOK
  OBVIOUS
<1>1. sent \in 0..MaxRequests /\ noticed \in 0..MaxNotices
       /\ nulled \in 0..MaxNotices
  BY BoundsAssumption DEF Init
<1> QED
  BY <1>1 DEF Init, TypeOK

LEMMA ProxyTypeNext == TypeOK /\ [Next]_vars => TypeOK'
<1> SUFFICES ASSUME TypeOK, [Next]_vars PROVE TypeOK'
  OBVIOUS
<1> USE BoundsAssumption DEF TypeOK
<1>1. CASE StdinRequest
  BY <1>1 DEF StdinRequest, others, connections
<1>2. CASE StdinEnds
  BY <1>2 DEF StdinEnds, others, connections
<1>3. CASE SocketResponse
  BY <1>3 DEF SocketResponse, PendingAfterResponse, Goes, others, connections
<1>4. CASE SocketNotice
  BY <1>4 DEF SocketNotice, PendingAfterNotice, Goes, others, connections
<1>5. CASE SocketNullId
  BY <1>5 DEF SocketNullId, PendingAfterResponse, Goes, others, connections
<1>6. CASE SocketEnds
  BY <1>6 DEF SocketEnds, others, connections
<1>7. CASE MuxAnswers
  BY <1>7 DEF MuxAnswers, others, connections
<1>8. CASE MuxNotifies
  BY <1>8 DEF MuxNotifies, others, connections
<1>9. CASE Breaks
  BY <1>9 DEF Breaks
<1>10. CASE UNCHANGED vars
  BY <1>10 DEF vars, connections
<1>11. CASE MuxSendsNullId
  BY <1>11 DEF MuxSendsNullId, connections
<1> QED
  BY <1>1, <1>2, <1>3, <1>4, <1>5, <1>6, <1>7, <1>8, <1>9, <1>10, <1>11
     DEF Next, ProxyNext

(* Every variable of the proxy keeps its type; its unsigned count never    *)
(* goes below zero (run_proxy).                                            *)
THEOREM ProxyTypeCorrect == Spec => []TypeOK
  BY ProxyTypeInit, ProxyTypeNext, PTL DEF Spec

LEMMA ExactInit == Init => ExactInv
  BY DEF Init, ExactInv, AnsweredAtExit

LEMMA ExactNext == TypeOK /\ ExactInv /\ [Next]_vars => ExactInv'
<1> SUFFICES ASSUME TypeOK, ExactInv, [Next]_vars PROVE ExactInv'
  OBVIOUS
<1> USE DEF TypeOK, ExactInv, AnsweredAtExit
<1>1. CASE StdinRequest
  BY <1>1 DEF StdinRequest, others, connections
<1>2. CASE StdinEnds
  BY <1>2 DEF StdinEnds, others, connections
<1>3. CASE SocketResponse
  BY <1>3 DEF SocketResponse, PendingAfterResponse, Goes, others, connections
<1>4. CASE SocketNotice
  BY <1>4 DEF SocketNotice, PendingAfterNotice, Goes, others, connections
<1>5. CASE SocketNullId
  BY <1>5 DEF SocketNullId, others, connections
<1>6. CASE SocketEnds
  BY <1>6 DEF SocketEnds, others, connections
<1>7. CASE MuxAnswers
  BY <1>7 DEF MuxAnswers, others, connections
<1>8. CASE MuxNotifies
  BY <1>8 DEF MuxNotifies, others, connections
<1>9. CASE Breaks
  BY <1>9 DEF Breaks
<1>10. CASE UNCHANGED vars
  BY <1>10 DEF vars, connections
<1>11. CASE MuxSendsNullId
  BY <1>11 DEF MuxSendsNullId, connections
<1> QED
  BY <1>1, <1>2, <1>3, <1>4, <1>5, <1>6, <1>7, <1>8, <1>9, <1>10, <1>11
     DEF Next, ProxyNext

LEMMA ExactAlways == Spec => []ExactInv
  BY ExactInit, ExactNext, ProxyTypeCorrect, PTL DEF Spec

(* The count of pending requests is exact as long as the proxy runs and no *)
(* null id came (run_proxy).                                               *)
THEOREM ProxyCountExact == Spec => []PendingExact
<1>1. ExactInv => PendingExact
  BY DEF ExactInv, PendingExact
<1> QED
  BY <1>1, ExactAlways, PTL

(* A proxy that leaves while both connections are open and no null id came *)
(* has answered every request (run_proxy).                                 *)
THEOREM ProxyAnswersAll == Spec => []AnsweredAtExit
<1>1. ExactInv => AnsweredAtExit
  BY DEF ExactInv, AnsweredAtExit
<1> QED
  BY <1>1, ExactAlways, PTL
=============================================================================
