------------------------------ MODULE MuxProofs ------------------------------
(***************************************************************************)
(* What holds of Mux for any number of clients, requests and restarts and  *)
(* for every capacity.  Global ids name requests for good; hence an answer *)
(* belongs to the request it reaches.  What an earlier child said is not   *)
(* cached for good.  The capacities hold, the handshake holds requests     *)
(* back, and no entry outlives its connection.                             *)
(***************************************************************************)
EXTENDS Mux, FiniteSetTheorems, TLAPS

LEMMA HeadTailType ==
  ASSUME NEW S, NEW s \in Seq(S), s # <<>>
  PROVE  Head(s) \in S /\ Tail(s) \in Seq(S)
  OBVIOUS

(* Answering keeps the inboxes well typed.                                 *)
LEMMA SendAllType ==
  ASSUME inbox \in [Clients -> [Lids -> Seq(Answer)]],
         NEW S, NEW kind \in {"result", "initialize", "error"},
         SendAll(S, kind)
  PROVE  inbox' \in [Clients -> [Lids -> Seq(Answer)]]
<1> SUFFICES ASSUME NEW c \in Clients, NEW l \in Lids
             PROVE  inbox'[c][l] \in Seq(Answer)
  BY DEF SendAll
<1> DEFINE answer == [kind |-> kind, of |-> [client |-> c, lid |-> l]]
<1>1. answer \in Answer
  BY DEF Answer, Address
<1>2. inbox[c][l] \in Seq(Answer)
  OBVIOUS
<1>3. \/ inbox'[c][l] = inbox[c][l]
      \/ inbox'[c][l] = Append(inbox[c][l], answer)
  BY DEF SendAll
<1> HIDE DEF answer
<1>4. Append(inbox[c][l], answer) \in Seq(Answer)
  BY <1>1, <1>2
<1>5. QED
  BY <1>2, <1>3, <1>4

LEMMA SendToType ==
  ASSUME inbox \in [Clients -> [Lids -> Seq(Answer)]],
         NEW to \in Address, NEW answer \in Answer,
         SendTo(to, answer)
  PROVE  inbox' \in [Clients -> [Lids -> Seq(Answer)]]
<1>1. to.client \in Clients /\ to.lid \in Lids
  BY DEF Address
<1>2. inbox[to.client][to.lid] \in Seq(Answer)
  BY <1>1
<1>3. Append(inbox[to.client][to.lid], answer) \in Seq(Answer)
  BY <1>2
<1>4. QED
  BY <1>1, <1>3 DEF SendTo

LEMMA TrySendType ==
  ASSUME ChannelTypeOK, NEW m \in Message, TrySend(m)
  PROVE  toServer' \in Seq(Message) /\ Len(toServer') <= MaxQueue
  BY BoundsAssumption DEF ChannelTypeOK, TrySend, HasRoom

LEMMA NotificationType ==
  \A c \in Clients, m \in {"initialized", "notification"} :
     NotificationOf(c, m) \in Message
  BY DEF NotificationOf, Message, Notification

LEMMA NewRequestType ==
  ASSUME SharedTypeOK, NEW c \in Clients, NEW l \in Lids,
         NEW method \in {"request", "initialize"}
  PROVE  NewRequest(c, method, l) \in Request
  BY DEF SharedTypeOK, NewRequest, Request, FreshId

LEMMA AddressType == \A m \in Request : AddressOf(m) \in Address
  BY DEF AddressOf, Address, Request

-----------------------------------------------------------------------------
(* Type correctness.                                                       *)
USE DEF Lids

LEMMA NoChild == 0 \in 0..MaxEpoch
  BY BoundsAssumption

LEMMA InitType == Init => TypeOK
<1> SUFFICES ASSUME Init PROVE TypeOK
  OBVIOUS
<1> USE BoundsAssumption, NoChild DEF Init
<1>1. SharedTypeOK
  <2>1. buffer \in [Clients -> Seq(Lids)]
    BY DEF SharedInit
  <2>2. cached \in 0..MaxEpoch
    BY DEF SharedInit
  <2>3. initializing \in BOOLEAN /\ serverInitialized \in BOOLEAN
    BY DEF SharedInit
  <2>4. nextId \in Nat \ {0}
    BY DEF SharedInit
  <2>5. clients = {} /\ complete = {} /\ pending = {} /\ initWaiting = {}
    BY DEF SharedInit
  <2>6. QED
    BY <2>1, <2>2, <2>3, <2>4, <2>5 DEF SharedTypeOK
<1>2. ChannelTypeOK
  BY DEF ChannelInit, ChannelTypeOK
<1>3. HandlerTypeOK
  BY DEF HandlerInit, HandlerTypeOK, HandlerStates
<1>4. TaskTypeOK /\ ManagerTypeOK
  BY DEF TaskInit, TaskTypeOK, ManagerInit, ManagerTypeOK, ManagerStates
<1>5. QED
  BY <1>1, <1>2, <1>3, <1>4 DEF TypeOK

LEMMA UnregisterType ==
  ASSUME SharedTypeOK, NEW c \in Clients, UnregisterClient(c)
  PROVE  SharedTypeOK'
  BY DEF SharedTypeOK, UnregisterClient, PendingWithout

(* Admission of a request, as initialize and forward_request do it.        *)
LEMMA AdmitType ==
  ASSUME TypeOK, NEW c \in Clients, NEW l \in Lids, NEW rest \in Seq(Lids),
         NEW method \in {"request", "initialize"},
         Admit(c, method, l, rest)
  PROVE  /\ pending' \subseteq Request
         /\ nextId' \in Nat \ {0}
         /\ hand' \in [Clients -> SUBSET Request]
         /\ pc' \in [Clients -> HandlerStates]
         /\ \A d \in Clients :
               pc'[d] = "forward" => IF d = c THEN rest # <<>>
                                              ELSE pc[d] = "forward"
         /\ inbox' \in [Clients -> [Lids -> Seq(Answer)]]
<1> USE DEF TypeOK, SharedTypeOK, HandlerTypeOK
<1>1. CASE Overloaded
  <2>1. SendError(c, l) /\ UNCHANGED <<pending, nextId, hand>>
        /\ pc' = [pc EXCEPT ![c] = After(rest)]
    BY <1>1 DEF Admit
  <2>2. inbox' \in [Clients -> [Lids -> Seq(Answer)]]
    BY <2>1, SendAllType DEF SendError, ChannelTypeOK
  <2>3. QED
    BY <2>1, <2>2 DEF After, HandlerStates
<1>2. CASE ~Overloaded
  <2>1. NewRequest(c, method, l) \in Request
    BY NewRequestType
  <2>2. /\ pending' = pending \cup {NewRequest(c, method, l)}
        /\ nextId' = nextId + 1
        /\ hand' = [hand EXCEPT ![c] = {NewRequest(c, method, l)}]
        /\ pc' = [pc EXCEPT ![c] = "enqueue"]
        /\ inbox' = inbox
    BY <1>2 DEF Admit
  <2>3. pending' \subseteq Request /\ hand' \in [Clients -> SUBSET Request]
    BY <2>1, <2>2
  <2>4. QED
    BY <2>2, <2>3 DEF HandlerStates, ChannelTypeOK
<1>3. QED
  BY <1>1, <1>2

LEMMA HandlerType ==
  ASSUME TypeOK, NEW c \in Clients, HandlerNext(c)
  PROVE  TypeOK'
<1> USE DEF TypeOK, sharedVars, channelVars, handlerVars, taskVars, managerVars
<1>1. CASE Connect(c)
  BY <1>1 DEF Connect, HandlerStates, SharedTypeOK, ChannelTypeOK, HandlerTypeOK,
      TaskTypeOK, ManagerTypeOK
<1>2. CASE Register(c)
  BY <1>2 DEF Register, RegisterClient, HandlerStates, SharedTypeOK, ChannelTypeOK, HandlerTypeOK,
      TaskTypeOK, ManagerTypeOK
<1>3. CASE RecvOversized(c)
  <2>1. inbox' \in [Clients -> [Lids -> Seq(Answer)]]
    BY <1>3, SendAllType DEF RecvOversized, SendError, ChannelTypeOK
  <2>2. sent' \in [Clients -> 0..MaxReqs]
    BY <1>3, BoundsAssumption DEF RecvOversized, Reads, HandlerTypeOK
  <2>3. QED
    BY <1>3, <2>1, <2>2 DEF RecvOversized, SharedTypeOK, ChannelTypeOK, HandlerTypeOK,
      TaskTypeOK, ManagerTypeOK
<1>4. CASE RecvNotification(c)
  <2>1. toServer' \in Seq(Message) /\ Len(toServer') <= MaxQueue
    BY <1>4, TrySendType, NotificationType DEF RecvNotification
  <2>2. QED
    BY <1>4, <2>1 DEF RecvNotification, SharedTypeOK, ChannelTypeOK, HandlerTypeOK,
      TaskTypeOK, ManagerTypeOK
<1>5. CASE RecvInitialized(c)
  BY <1>5 DEF RecvInitialized, HandlerStates, SharedTypeOK, ChannelTypeOK, HandlerTypeOK,
      TaskTypeOK, ManagerTypeOK
<1>6. CASE Announce(c)
  <2>1. toServer' \in Seq(Message) /\ Len(toServer') <= MaxQueue
    BY <1>6, TrySendType, NotificationType DEF Announce
  <2>2. QED
    BY <1>6, <2>1 DEF Announce, HandlerStates, SharedTypeOK, ChannelTypeOK, HandlerTypeOK,
      TaskTypeOK, ManagerTypeOK
<1>7. CASE CompleteHandshake(c)
  BY <1>7 DEF CompleteHandshake, Buffered, After, HandlerStates, SharedTypeOK, ChannelTypeOK, HandlerTypeOK,
      TaskTypeOK, ManagerTypeOK
<1>8. CASE RecvInitializeCached(c)
  <2>1. sent[c] + 1 \in Lids /\ sent' \in [Clients -> 0..MaxReqs]
    BY <1>8, BoundsAssumption DEF RecvInitializeCached, Reads, HandlerTypeOK
  <2>2. inbox' \in [Clients -> [Lids -> Seq(Answer)]]
    BY <1>8, <2>1, SendToType
    DEF RecvInitializeCached, ChannelTypeOK, Answer, Address
  <2>3. QED
    BY <1>8, <2>1, <2>2 DEF RecvInitializeCached, SharedTypeOK, ChannelTypeOK, HandlerTypeOK,
      TaskTypeOK, ManagerTypeOK
<1>9. CASE RecvInitialize(c)
  <2>1. sent[c] + 1 \in Lids /\ sent' \in [Clients -> 0..MaxReqs]
    BY <1>9, BoundsAssumption DEF RecvInitialize, Reads, HandlerTypeOK
  <2>2. CASE initializing
    <3>1. /\ initWaiting' \subseteq Address
          /\ UNCHANGED <<initializing, pc, work, hand, channelVars, taskVars,
                         managerVars, clients, complete, buffer, pending, cached,
                         serverInitialized, nextId>>
      BY <1>9, <2>1, <2>2 DEF RecvInitialize, Address, SharedTypeOK
    <3>2. SharedTypeOK'
      BY <3>1 DEF SharedTypeOK
    <3>3. ChannelTypeOK' /\ TaskTypeOK' /\ ManagerTypeOK'
      BY <3>1 DEF ChannelTypeOK, TaskTypeOK, ManagerTypeOK
    <3>4. HandlerTypeOK'
      BY <2>1, <3>1 DEF HandlerTypeOK
    <3>5. QED
      BY <3>2, <3>3, <3>4
  <2>3. CASE ~initializing
    <3> USE <1>9, <2>3 DEF RecvInitialize
    <3>1. Admit(c, "initialize", sent[c] + 1, <<>>)
      OBVIOUS
    <3>2. /\ pending' \subseteq Request
          /\ nextId' \in Nat \ {0}
          /\ hand' \in [Clients -> SUBSET Request]
          /\ pc' \in [Clients -> HandlerStates]
          /\ \A d \in Clients : pc'[d] = "forward" => pc[d] = "forward"
          /\ inbox' \in [Clients -> [Lids -> Seq(Answer)]]
      <4>1. <<>> \in Seq(Lids)
        OBVIOUS
      <4>2. \A d \in Clients :
               pc'[d] = "forward" => IF d = c THEN <<>> # <<>>
                                              ELSE pc[d] = "forward"
        BY <2>1, <3>1, <4>1, AdmitType
      <4>3. QED
        BY <2>1, <3>1, <4>1, <4>2, AdmitType
    <3>3. QED
      BY <2>1, <3>2 DEF SharedTypeOK, ChannelTypeOK, HandlerTypeOK,
         TaskTypeOK, ManagerTypeOK
  <2>4. QED
    BY <2>2, <2>3
<1>10. CASE RecvRequest(c)
  <2>1. sent[c] + 1 \in Lids /\ sent' \in [Clients -> 0..MaxReqs]
    BY <1>10, BoundsAssumption DEF RecvRequest, Reads, HandlerTypeOK
  <2>2. <<sent[c] + 1>> \in Seq(Lids) /\ <<sent[c] + 1>> # <<>>
    BY <2>1
  <2>3. QED
    BY <1>10, <2>1, <2>2 DEF RecvRequest, HandlerStates, SharedTypeOK, ChannelTypeOK, HandlerTypeOK,
      TaskTypeOK, ManagerTypeOK
<1>11. CASE Disconnect(c)
  BY <1>11 DEF Disconnect, HandlerStates, SharedTypeOK, ChannelTypeOK, HandlerTypeOK,
      TaskTypeOK, ManagerTypeOK
<1>12. CASE RecvMalformed(c)
  BY <1>12 DEF RecvMalformed, HandlerStates, SharedTypeOK, ChannelTypeOK, HandlerTypeOK,
      TaskTypeOK, ManagerTypeOK
<1>13. CASE WriterFails(c)
  BY <1>13, UnregisterType DEF WriterFails, SharedTypeOK, ChannelTypeOK, HandlerTypeOK,
      TaskTypeOK, ManagerTypeOK
<1>14. CASE BufferRequest(c)
  <2>1. buffer[c] \o work[c] \in Seq(Lids)
    BY DEF SharedTypeOK, HandlerTypeOK
  <2>2. QED
    BY <1>14, <2>1 DEF BufferRequest, HandlerStates, SharedTypeOK, ChannelTypeOK, HandlerTypeOK,
      TaskTypeOK, ManagerTypeOK
<1>15. CASE Forward(c)
  <2>1. /\ Head(work[c]) \in Lids /\ Tail(work[c]) \in Seq(Lids)
        /\ work' = [work EXCEPT ![c] = Tail(work[c])]
    <3>1. work[c] \in Seq(Lids) /\ work[c] # <<>>
      BY <1>15 DEF Forward, HandlerTypeOK
    <3>2. Head(work[c]) \in Lids /\ Tail(work[c]) \in Seq(Lids)
      BY <3>1, HeadTailType
    <3>3. QED
      BY <1>15, <3>2 DEF Forward
  <2>2. Admit(c, "request", Head(work[c]), Tail(work[c]))
    BY <1>15 DEF Forward
  <2>3. /\ pending' \subseteq Request
        /\ nextId' \in Nat \ {0}
        /\ hand' \in [Clients -> SUBSET Request]
        /\ pc' \in [Clients -> HandlerStates]
        /\ \A d \in Clients :
              pc'[d] = "forward" => IF d = c THEN Tail(work[c]) # <<>>
                                             ELSE pc[d] = "forward"
        /\ inbox' \in [Clients -> [Lids -> Seq(Answer)]]
    BY <2>1, <2>2, AdmitType
  <2>4. HandlerTypeOK'
    BY <1>15, <2>1, <2>3 DEF Forward, HandlerTypeOK
  <2>5. QED
    BY <1>15, <2>3, <2>4 DEF Forward, SharedTypeOK, ChannelTypeOK,
       TaskTypeOK, ManagerTypeOK
<1>16. CASE Enqueue(c)
  <2>1. PICK r \in hand[c] : toServer' = Append(toServer, r)
    BY <1>16 DEF Enqueue
  <2>2. r \in Message
    BY <2>1 DEF HandlerTypeOK, Message
  <2>3. toServer' \in Seq(Message) /\ Len(toServer') <= MaxQueue
    BY <1>16, <2>1, <2>2, BoundsAssumption
    DEF Enqueue, HasRoom, ChannelTypeOK
  <2>4. HandlerTypeOK'
    BY <1>16 DEF Enqueue, After, HandlerStates, HandlerTypeOK
  <2>5. QED
    BY <1>16, <2>3, <2>4 DEF Enqueue, SharedTypeOK, ChannelTypeOK,
       TaskTypeOK, ManagerTypeOK
<1>20. CASE EnqueueFails(c)
  <2>1. HandlerTypeOK'
    BY <1>20 DEF EnqueueFails, After, HandlerStates, HandlerTypeOK
  <2>2. QED
    BY <1>20, <2>1 DEF EnqueueFails, SharedTypeOK, ChannelTypeOK, TaskTypeOK,
       ManagerTypeOK
<1>17. CASE HandshakeTimeout(c)
  BY <1>17 DEF HandshakeTimeout, HandlerStates, SharedTypeOK, ChannelTypeOK, HandlerTypeOK,
      TaskTypeOK, ManagerTypeOK
<1>18. CASE Leave(c)
  BY <1>18, UnregisterType DEF Leave, HandlerStates, SharedTypeOK, ChannelTypeOK, HandlerTypeOK,
      TaskTypeOK, ManagerTypeOK
<1>19. QED
  BY <1>1, <1>2, <1>3, <1>4, <1>5, <1>6, <1>7, <1>8, <1>9, <1>10, <1>11,
     <1>12, <1>13, <1>14, <1>15, <1>16, <1>17, <1>18, <1>20
  DEF HandlerNext, HandlerProceeds

LEMMA HeadEvent ==
  ASSUME ChannelTypeOK, events # <<>>
  PROVE  /\ Head(events) \in Event
         /\ Tail(events) \in Seq(Event)
         /\ Head(events).kind = "response" => Head(events) \in Response
  BY DEF ChannelTypeOK, Event, ResetEvent, Response

LEMMA RouterType ==
  ASSUME TypeOK, RouterNext \/ ReaperNext
  PROVE  TypeOK'
<1> USE DEF TypeOK, sharedVars, channelVars, handlerVars, taskVars,
            managerVars
<1>1. CASE RouteResponse
  <2>1. Head(events) \in Response /\ Tail(events) \in Seq(Event)
    BY <1>1, HeadEvent DEF RouteResponse
  <2>2. pending' \subseteq pending
    BY <1>1 DEF RouteResponse, PendingAfter
  <2>3. routing' \subseteq Routed
    BY <1>1, <2>1 DEF RouteResponse, Routed, StageOf, SharedTypeOK, TaskTypeOK
  <2>4. QED
    BY <1>1, <2>1, <2>2, <2>3 DEF RouteResponse, SharedTypeOK, ChannelTypeOK, HandlerTypeOK,
      TaskTypeOK, ManagerTypeOK
<1>2. CASE CacheInitialize
  <2>1. PICK r \in routing :
          /\ cached' = r.resp.child
          /\ SendAll(initWaiting, "initialize")
          /\ routing' = {[r EXCEPT !.stage = "deliver"]}
    BY <1>2 DEF CacheInitialize
  <2>2. r \in Routed
    BY DEF TaskTypeOK
  <2>3. cached' \in 0..MaxEpoch /\ routing' \subseteq Routed
    BY <2>1, <2>2 DEF Routed, Response
  <2>4. inbox' \in [Clients -> [Lids -> Seq(Answer)]]
    BY <2>1, SendAllType DEF ChannelTypeOK
  <2>5. QED
    BY <1>2, <2>3, <2>4 DEF CacheInitialize, SharedTypeOK, ChannelTypeOK, HandlerTypeOK,
      TaskTypeOK, ManagerTypeOK
<1>3. CASE DeliverResponse
  <2>1. PICK r \in routing :
          SendTo(AddressOf(r.entry), [kind |-> AnswerKind(r.resp.req),
                                      of |-> AddressOf(r.resp.req)])
    BY <1>3 DEF DeliverResponse
  <2>2. r.entry \in Request /\ r.resp.req \in Request
    BY DEF TaskTypeOK, Routed, Response
  <2>3. /\ AddressOf(r.entry) \in Address
        /\ [kind |-> AnswerKind(r.resp.req), of |-> AddressOf(r.resp.req)]
              \in Answer
    BY <2>2, AddressType DEF AnswerKind, Answer
  <2>4. inbox' \in [Clients -> [Lids -> Seq(Answer)]]
    BY <2>1, <2>3, SendToType DEF ChannelTypeOK
  <2>5. QED
    BY <1>3, <2>4 DEF DeliverResponse, SharedTypeOK, ChannelTypeOK, HandlerTypeOK,
      TaskTypeOK, ManagerTypeOK
<1>4. CASE ResetState
  <2>1. inbox' \in [Clients -> [Lids -> Seq(Answer)]]
    BY <1>4, SendAllType DEF ResetState, ChannelTypeOK
  <2>2. Tail(events) \in Seq(Event)
    BY <1>4, HeadEvent DEF ResetState
  <2>3. SharedTypeOK'
    BY <1>4, NoChild DEF ResetState, CacheAfterReset, SharedTypeOK
  <2>4. QED
    BY <1>4, <2>1, <2>2, <2>3
    DEF ResetState, ChannelTypeOK, HandlerTypeOK, TaskTypeOK, ManagerTypeOK
<1>5. CASE Expire
  BY <1>5 DEF Expire, Expired, SharedTypeOK, ChannelTypeOK, HandlerTypeOK,
      TaskTypeOK, ManagerTypeOK
<1>6. CASE AnswerExpired
  <2>1. inbox' \in [Clients -> [Lids -> Seq(Answer)]]
    BY <1>6, SendAllType DEF AnswerExpired, ChannelTypeOK
  <2>2. QED
    BY <1>6, <2>1 DEF AnswerExpired, SharedTypeOK, ChannelTypeOK, HandlerTypeOK,
      TaskTypeOK, ManagerTypeOK
<1>7. QED
  BY <1>1, <1>2, <1>3, <1>4, <1>5, <1>6 DEF RouterNext, ReaperNext

LEMMA WriteType ==
  ASSUME ManagerTypeOK, epoch # 0, NEW m \in Message, Write(m)
  PROVE  /\ atChild' \subseteq ChildRequest
         /\ childSaw' \subseteq {"initialize", "initialized"}
  BY DEF Write, ChildRequest, ManagerTypeOK

LEMMA ManagerType ==
  ASSUME TypeOK, ManagerNext
  PROVE  TypeOK'
<1> USE DEF TypeOK, sharedVars, channelVars, handlerVars, taskVars
<1>0. HandlerTypeOK' /\ TaskTypeOK'
  <2>1. UNCHANGED <<handlerVars, taskVars>>
    BY DEF ManagerNext, ManagerProceeds, Spawn, WriteToChild, WriteFails,
           ChildStops, ChildAnswers, SendReset, ClearCache, TakeFirst, GiveUp,
           Return, SpawnFails, ManagerReturns, WriteFirst, FirstWriteFails
  <2>2. QED
    BY <2>1 DEF HandlerTypeOK, TaskTypeOK
<1>1. SharedTypeOK'
  <2>1. CASE ClearCache
    BY <2>1, NoChild DEF ClearCache, SharedTypeOK
  <2>2. CASE ~ClearCache
    BY <2>2
    DEF ManagerNext, ManagerProceeds, Spawn, WriteToChild, WriteFails,
        ChildStops, ChildAnswers, SendReset, TakeFirst, GiveUp, Return,
        SpawnFails, ManagerReturns, WriteFirst, FirstWriteFails, SharedTypeOK
  <2>3. QED
    BY <2>1, <2>2
<1>2. toServer # <<>> => /\ Head(toServer) \in Message
                         /\ Tail(toServer) \in Seq(Message)
                         /\ Len(Tail(toServer)) <= MaxQueue
  BY BoundsAssumption DEF ChannelTypeOK
<1>3. CASE Spawn
  BY <1>0, <1>1, <1>3, BoundsAssumption
  DEF Spawn, ManagerStates, ChannelTypeOK, ManagerTypeOK
<1>4. CASE TakeFirst
  <2>1. PICK m \in Message : m = Head(toServer)
    BY <1>2, <1>4 DEF TakeFirst
  <2>2. ChannelTypeOK' /\ first' = {m}
    BY <1>2, <1>4, <2>1 DEF TakeFirst, ChannelTypeOK
  <2>3. QED
    BY <1>0, <1>1, <1>4, <2>2 DEF TakeFirst, ManagerStates, ManagerTypeOK
<1>5. CASE GiveUp \/ ChildStops \/ FirstWriteFails
  <2>1. CASE GiveUp
    BY <1>0, <1>1, <2>1, ManagerAssumption
    DEF GiveUp, AtLimit, ManagerStates, ChannelTypeOK, ManagerTypeOK
  <2>2. CASE ChildStops
    BY <1>0, <1>1, <2>2
    DEF ChildStops, ManagerStates, ChannelTypeOK, ManagerTypeOK
  <2>3. CASE FirstWriteFails
    <3>1. ManagerTypeOK'
      BY <2>3 DEF FirstWriteFails, ManagerStates, ManagerTypeOK
    <3>2. QED
      BY <1>0, <1>1, <2>3, <3>1 DEF FirstWriteFails, ChannelTypeOK
  <2>4. QED
    BY <1>5, <2>1, <2>2, <2>3
<1>6. CASE SpawnFails \/ ManagerReturns
  <2>1. <<>> \in Seq(Message) /\ Len(<<>>) <= MaxQueue
    BY BoundsAssumption
  <2>2. QED
    BY <1>0, <1>1, <1>6, <2>1
    DEF SpawnFails, ManagerReturns, Return, ManagerStates, ChannelTypeOK,
        ManagerTypeOK
<1>7. CASE WriteToChild
  <2>1. PICK m \in Message : m = Head(toServer)
    BY <1>2, <1>7 DEF WriteToChild
  <2>2. ChannelTypeOK'
    BY <1>2, <1>7 DEF WriteToChild, ChannelTypeOK
  <2>3. epoch # 0 /\ Write(m)
    BY <1>7, <2>1 DEF WriteToChild, ManagerTypeOK
  <2>4. /\ atChild' \subseteq ChildRequest
        /\ childSaw' \subseteq {"initialize", "initialized"}
    BY <2>3, WriteType
  <2>5. QED
    BY <1>0, <1>1, <1>7, <2>2, <2>4 DEF WriteToChild, ManagerTypeOK
<1>8. CASE WriteFirst
  <2>1. PICK m \in Message : Write(m)
    BY <1>8 DEF WriteFirst, ManagerTypeOK
  <2>2. /\ atChild' \subseteq ChildRequest
        /\ childSaw' \subseteq {"initialize", "initialized"}
    BY <1>8, <2>1, WriteType DEF WriteFirst, ManagerTypeOK
  <2>3. QED
    BY <1>0, <1>1, <1>8, <2>2
    DEF WriteFirst, ManagerStates, ChannelTypeOK, ManagerTypeOK
<1>9. CASE WriteFails
  BY <1>0, <1>1, <1>2, <1>9
  DEF WriteFails, ManagerStates, ChannelTypeOK, ManagerTypeOK
<1>10. CASE ChildAnswers
  <2>1. PICK w \in atChild :
          /\ events' = Append(events, [kind |-> "response", req |-> w.req,
                                       child |-> w.child])
          /\ atChild' = atChild \ {w} \/ atChild' = atChild
    BY <1>10 DEF ChildAnswers
  <2>2. [kind |-> "response", req |-> w.req, child |-> w.child] \in Event
    BY DEF ManagerTypeOK, ChildRequest, Event, Response
  <2>3. ChannelTypeOK'
    BY <1>10, <2>1, <2>2 DEF ChildAnswers, ChannelTypeOK
  <2>4. QED
    BY <1>0, <1>1, <1>10, <2>1, <2>3 DEF ChildAnswers, ManagerTypeOK
<1>11. CASE SendReset
  <2>1. events' \in Seq(Event)
    BY <1>11 DEF SendReset, EventsAfterReset, Event, ResetEvent, ChannelTypeOK
  <2>2. QED
    BY <1>0, <1>1, <1>11, <2>1
    DEF SendReset, ManagerStates, ChannelTypeOK, ManagerTypeOK
<1>12. CASE ClearCache
  BY <1>0, <1>1, <1>12 DEF ClearCache, ManagerStates, ChannelTypeOK, ManagerTypeOK
<1>13. QED
  BY <1>3, <1>4, <1>5, <1>6, <1>7, <1>8, <1>9, <1>10, <1>11, <1>12
  DEF ManagerNext, ManagerProceeds

(* Every reachable state is well typed, the queue to the child never       *)
(* exceeds its capacity, and no handler runs forward_request on nothing.   *)
THEOREM TypeCorrect == Spec => []TypeOK
<1>1. Init => TypeOK
  BY InitType
<1>2. TypeOK /\ [Next]_vars => TypeOK'
  <2>1. CASE Next
    BY <2>1, HandlerType, RouterType, ManagerType DEF Next
  <2>2. CASE UNCHANGED vars
    BY <2>2 DEF vars, sharedVars, channelVars, handlerVars, taskVars,
       managerVars, TypeOK, SharedTypeOK, ChannelTypeOK, HandlerTypeOK,
      TaskTypeOK, ManagerTypeOK
  <2>3. QED
    BY <2>1, <2>2
<1>3. QED
  BY <1>1, <1>2, PTL DEF Spec

-----------------------------------------------------------------------------
(* What Append and Tail do to the elements of a sequence.                  *)
LEMMA AppendElements ==
  ASSUME NEW S, NEW s \in Seq(S), NEW e \in S
  PROVE  /\ \A i \in DOMAIN Append(s, e) :
               (i \in DOMAIN s /\ Append(s, e)[i] = s[i]) \/ Append(s, e)[i] = e
         /\ \A i \in DOMAIN s :
               i \in DOMAIN Append(s, e) /\ Append(s, e)[i] = s[i]
         /\ Len(s) + 1 \in DOMAIN Append(s, e)
         /\ Append(s, e)[Len(s) + 1] = e
  OBVIOUS

LEMMA TailElements ==
  ASSUME NEW S, NEW s \in Seq(S), s # <<>>
  PROVE  /\ 1 \in DOMAIN s /\ Head(s) = s[1]
         /\ \A i \in DOMAIN Tail(s) : i + 1 \in DOMAIN s /\ Tail(s)[i] = s[i + 1]
         /\ \A i \in DOMAIN s : i # 1 => i - 1 \in DOMAIN Tail(s)
                                         /\ Tail(s)[i - 1] = s[i]
  OBVIOUS

-----------------------------------------------------------------------------
(* Where the requests in the mux can come from in one step.                *)
LEMMA QueueAppend ==
  ASSUME ChannelTypeOK, NEW m \in Message, toServer' = Append(toServer, m)
  PROVE  /\ QueuedRequests' \subseteq QueuedRequests \cup {m}
         /\ m.method \notin {"request", "initialize"}
              => QueuedRequests' \subseteq QueuedRequests
  BY AppendElements DEF ChannelTypeOK, QueuedRequests

LEMMA QueueTail ==
  ASSUME ChannelTypeOK, toServer # <<>>, toServer' = Tail(toServer)
  PROVE  QueuedRequests' \subseteq QueuedRequests
  BY TailElements DEF ChannelTypeOK, QueuedRequests

LEMMA QueueHead ==
  ASSUME ChannelTypeOK, toServer # <<>>, Head(toServer) \in Request
  PROVE  Head(toServer) \in QueuedRequests
  BY TailElements DEF ChannelTypeOK, QueuedRequests, Request

LEMMA Held ==
  /\ \A r : r \in HeldRequests <=> \E c \in Clients : r \in hand[c]
  /\ \A r : r \in HeldRequests' <=> \E c \in Clients : r \in hand'[c]
  BY DEF HeldRequests

LEMMA NotificationQueued ==
  ASSUME ChannelTypeOK, NEW c \in Clients,
         NEW method \in {"initialized", "notification"},
         TrySend(NotificationOf(c, method))
  PROVE  QueuedRequests' \subseteq QueuedRequests
<1>1. CASE HasRoom /\ QueueOpen
  <2>1. toServer' = Append(toServer, NotificationOf(c, method))
    BY <1>1 DEF TrySend
  <2>2. NotificationOf(c, method) \in Message
    BY NotificationType
  <2>3. NotificationOf(c, method).method \notin {"request", "initialize"}
    BY DEF NotificationOf
  <2>4. QED
    BY <2>1, <2>2, <2>3, QueueAppend
<1>2. CASE ~(HasRoom /\ QueueOpen)
  BY <1>2 DEF TrySend, QueuedRequests
<1>3. QED
  BY <1>1, <1>2

LEMMA EventsAppend ==
  ASSUME ChannelTypeOK, NEW e \in Event, events' = Append(events, e)
  PROVE  /\ e.kind = "response" => ResponsesQueued' \subseteq
                                     ResponsesQueued \cup {e}
         /\ e.kind # "response" => ResponsesQueued' \subseteq ResponsesQueued
         /\ ResetQueued => ResetQueued'
         /\ e.kind = "reset" => ResetQueued'
  BY AppendElements DEF ChannelTypeOK, ResponsesQueued, ResetQueued

LEMMA EventsTail ==
  ASSUME ChannelTypeOK, events # <<>>, events' = Tail(events)
  PROVE  /\ ResponsesQueued' \subseteq ResponsesQueued
         /\ Head(events).kind = "response" => /\ Head(events) \in ResponsesQueued
                                              /\ ResetQueued => ResetQueued'
<1>1. ResponsesQueued' \subseteq ResponsesQueued
  BY TailElements DEF ChannelTypeOK, ResponsesQueued
<1>2. ASSUME Head(events).kind = "response"
      PROVE  Head(events) \in ResponsesQueued
  BY <1>2, TailElements DEF ChannelTypeOK, ResponsesQueued
<1>3. ASSUME Head(events).kind = "response", ResetQueued
      PROVE  ResetQueued'
  <2>1. PICK i \in DOMAIN events : events[i].kind = "reset"
    BY <1>3 DEF ResetQueued
  <2>2. i # 1
    BY <1>3, <2>1, TailElements DEF ChannelTypeOK
  <2>3. i - 1 \in DOMAIN Tail(events) /\ Tail(events)[i - 1] = events[i]
    BY <2>2, TailElements DEF ChannelTypeOK
  <2>4. QED
    BY <2>1, <2>3 DEF ResetQueued
<1>4. QED
  BY <1>1, <1>2, <1>3

-----------------------------------------------------------------------------
(* A step creates at most one request, under the next id.                  *)
LEMMA AdmitTickets ==
  ASSUME TypeOK, NEW c \in Clients, NEW l \in Lids, NEW rest,
         NEW method \in {"request", "initialize"}, Admit(c, method, l, rest),
         UNCHANGED <<toServer, events, routing, atChild, first>>
  PROVE  \/ /\ Tickets' \subseteq Tickets
            /\ nextId' = nextId
            /\ pending' \subseteq pending
         \/ /\ Tickets' \subseteq Tickets \cup {NewRequest(c, method, l)}
            /\ nextId' = nextId + 1
            /\ pending' = pending \cup {NewRequest(c, method, l)}
<1>1. CASE Overloaded
  BY <1>1 DEF Admit, Tickets, FirstRequest, HeldRequests, QueuedRequests, ResponsesQueued
<1>2. CASE ~Overloaded
  <2> DEFINE r == NewRequest(c, method, l)
  <2>1. /\ pending' = pending \cup {r}
        /\ nextId' = nextId + 1
        /\ hand' = [hand EXCEPT ![c] = {r}]
    BY <1>2 DEF Admit
  <2> HIDE DEF r
  <2>2. HeldRequests' \subseteq HeldRequests \cup {r}
    <3>1. \A d \in Clients : hand'[d] \subseteq hand[d] \cup {r}
      BY <2>1 DEF TypeOK, HandlerTypeOK
    <3>2. QED
      BY <3>1, Held
  <2>3. /\ QueuedRequests' = QueuedRequests
        /\ FirstRequest' = FirstRequest
        /\ ResponsesQueued' = ResponsesQueued
        /\ {w.req : w \in atChild'} = {w.req : w \in atChild}
        /\ {q.entry : q \in routing'} = {q.entry : q \in routing}
        /\ {q.resp.req : q \in routing'} = {q.resp.req : q \in routing}
        /\ {e.req : e \in ResponsesQueued'} = {e.req : e \in ResponsesQueued}
    BY DEF FirstRequest, QueuedRequests, ResponsesQueued
  <2>4. Tickets' \subseteq Tickets \cup {r}
    BY <2>1, <2>2, <2>3 DEF Tickets
  <2>5. QED
    BY <2>1, <2>4 DEF r
<1>3. QED
  BY <1>1, <1>2

LEMMA HandlerTickets ==
  ASSUME TypeOK, NEW c \in Clients, HandlerNext(c)
  PROVE  \/ /\ Tickets' \subseteq Tickets
            /\ nextId' = nextId
            /\ pending' \subseteq pending
         \/ \E r \in Request :
            /\ r.id = nextId
            /\ Tickets' \subseteq Tickets \cup {r}
            /\ nextId' = nextId + 1
            /\ pending' = pending \cup {r}
<1> USE DEF sharedVars, channelVars, handlerVars, taskVars, managerVars
<1>1. ASSUME UNCHANGED <<hand, first, toServer, events, routing, atChild,
                         nextId>>,
             pending' \subseteq pending
      PROVE  Tickets' \subseteq Tickets
  BY <1>1 DEF Tickets, FirstRequest, HeldRequests, QueuedRequests, ResponsesQueued
<1>2. CASE Connect(c) \/ Register(c) \/ RecvOversized(c)
           \/ RecvInitialized(c) \/ CompleteHandshake(c)
           \/ RecvInitializeCached(c) \/ RecvRequest(c) \/ BufferRequest(c)
           \/ Disconnect(c) \/ RecvMalformed(c) \/ HandshakeTimeout(c)
  BY <1>1, <1>2
  DEF Connect, Register, RegisterClient, RecvOversized, RecvInitialized,
      CompleteHandshake, RecvInitializeCached, RecvRequest, BufferRequest,
      Disconnect, RecvMalformed, HandshakeTimeout
<1>3. CASE Leave(c) \/ WriterFails(c)
  BY <1>1, <1>3
  DEF Leave, WriterFails, UnregisterClient, PendingWithout
<1>4. CASE RecvNotification(c) \/ Announce(c)
  <2>1. QueuedRequests' \subseteq QueuedRequests
    BY <1>4, NotificationQueued DEF RecvNotification, Announce, TypeOK
  <2>2. ResponsesQueued' = ResponsesQueued
    BY <1>4 DEF RecvNotification, Announce, ResponsesQueued
  <2>3. QED
    BY <1>4, <2>1, <2>2 DEF RecvNotification, Announce, Tickets, FirstRequest, HeldRequests
<1>5. CASE RecvInitialize(c)
  <2>1. CASE initializing
    BY <1>1, <1>5, <2>1 DEF RecvInitialize
  <2>2. CASE ~initializing
    <3>1. sent[c] + 1 \in Lids
      BY <1>5, BoundsAssumption DEF RecvInitialize, Reads, TypeOK,
         HandlerTypeOK, Lids
    <3>2. Admit(c, "initialize", sent[c] + 1, <<>>)
          /\ UNCHANGED <<toServer, events, routing, atChild, first>>
      BY <1>5, <2>2 DEF RecvInitialize
    <3>3. NewRequest(c, "initialize", sent[c] + 1) \in Request
          /\ NewRequest(c, "initialize", sent[c] + 1).id = nextId
      BY <3>1, NewRequestType DEF TypeOK, NewRequest, FreshId
    <3>4. QED
      BY <3>1, <3>2, <3>3, AdmitTickets
  <2>3. QED
    BY <2>1, <2>2
<1>6. CASE Forward(c)
  <2>1. Head(work[c]) \in Lids
    BY <1>6, HeadTailType DEF Forward, TypeOK, HandlerTypeOK
  <2>2. Admit(c, "request", Head(work[c]), Tail(work[c]))
        /\ UNCHANGED <<toServer, events, routing, atChild, first>>
    BY <1>6 DEF Forward
  <2>3. NewRequest(c, "request", Head(work[c])) \in Request
        /\ NewRequest(c, "request", Head(work[c])).id = nextId
    BY <2>1, NewRequestType DEF TypeOK, NewRequest, FreshId
  <2>4. QED
    BY <2>1, <2>2, <2>3, AdmitTickets
<1>7. CASE Enqueue(c)
  <2>1. PICK r \in hand[c] : toServer' = Append(toServer, r)
    BY <1>7 DEF Enqueue
  <2>2. r \in Message
    BY <2>1 DEF TypeOK, HandlerTypeOK, Message
  <2>3. QueuedRequests' \subseteq QueuedRequests \cup {r}
    BY <2>1, <2>2, QueueAppend DEF TypeOK
  <2>4. HeldRequests' \subseteq HeldRequests
    <3>1. \A d \in Clients : hand'[d] \subseteq hand[d]
      BY <1>7 DEF Enqueue, TypeOK, HandlerTypeOK
    <3>2. QED
      BY <3>1, Held
  <2>5. r \in HeldRequests
    BY <2>1, Held
  <2>6. ResponsesQueued' = ResponsesQueued
    BY <1>7 DEF Enqueue, ResponsesQueued
  <2>7. Tickets' \subseteq Tickets
    <3>1. UNCHANGED <<pending, atChild, routing>>
      BY <1>7 DEF Enqueue
    <3>2. /\ {w.req : w \in atChild'} = {w.req : w \in atChild}
          /\ {q.entry : q \in routing'} = {q.entry : q \in routing}
          /\ {q.resp.req : q \in routing'} = {q.resp.req : q \in routing}
          /\ {e.req : e \in ResponsesQueued'}
               = {e.req : e \in ResponsesQueued}
          /\ FirstRequest' = FirstRequest
      BY <1>7, <2>6, <3>1 DEF Enqueue, FirstRequest
    <3>3. QED
      BY <2>3, <2>4, <2>5, <3>1, <3>2 DEF Tickets
  <2>8. QED
    BY <1>7, <2>7 DEF Enqueue
<1>8. CASE EnqueueFails(c)
  <2>1. HeldRequests' \subseteq HeldRequests
    <3>1. \A d \in Clients : hand'[d] \subseteq hand[d]
      BY <1>8 DEF EnqueueFails, TypeOK, HandlerTypeOK
    <3>2. QED
      BY <3>1, Held
  <2>2. QED
    BY <1>8, <2>1
    DEF EnqueueFails, Tickets, FirstRequest, QueuedRequests, ResponsesQueued
<1>9. QED
  BY <1>2, <1>3, <1>4, <1>5, <1>6, <1>7, <1>8 DEF HandlerNext, HandlerProceeds

LEMMA TaskTickets ==
  ASSUME TypeOK, RouterNext \/ ReaperNext \/ ManagerNext
  PROVE  /\ Tickets' \subseteq Tickets
         /\ nextId' = nextId
         /\ pending' \subseteq pending
<1> USE DEF sharedVars, channelVars, handlerVars, taskVars, managerVars
<1>1. CASE RouteResponse
  <2>1. ResponsesQueued' \subseteq ResponsesQueued
        /\ Head(events) \in ResponsesQueued
    BY <1>1, EventsTail DEF RouteResponse, TypeOK
  <2>2. pending' \subseteq pending
    BY <1>1 DEF RouteResponse, PendingAfter
  <2>3. {r.entry : r \in routing'} \subseteq pending
        /\ {r.resp.req : r \in routing'} \subseteq {Head(events).req}
    BY <1>1 DEF RouteResponse
  <2>4. QueuedRequests' = QueuedRequests
    BY <1>1 DEF RouteResponse, QueuedRequests
  <2>5. QED
    BY <1>1, <2>1, <2>2, <2>3, <2>4 DEF RouteResponse, Tickets, FirstRequest, HeldRequests
<1>2. CASE CacheInitialize
  <2>1. PICK r \in routing : routing' = {[r EXCEPT !.stage = "deliver"]}
    BY <1>2 DEF CacheInitialize
  <2>2. r \in Routed
    BY DEF TypeOK, TaskTypeOK
  <2>3. {q.entry : q \in routing'} = {r.entry}
        /\ {q.resp.req : q \in routing'} = {r.resp.req}
    BY <2>1, <2>2 DEF Routed
  <2>4. QED
    BY <1>2, <2>3 DEF CacheInitialize, Tickets, FirstRequest, HeldRequests, QueuedRequests,
       ResponsesQueued
<1>3. CASE DeliverResponse
  BY <1>3 DEF DeliverResponse, Tickets, FirstRequest, HeldRequests, QueuedRequests, ResponsesQueued
<1>4. CASE ResetState
  <2>1. ResponsesQueued' \subseteq ResponsesQueued
    BY <1>4, EventsTail DEF ResetState, TypeOK
  <2>2. QED
    BY <1>4, <2>1 DEF ResetState, Tickets, FirstRequest, HeldRequests, QueuedRequests
<1>5. CASE Expire \/ AnswerExpired
  BY <1>5 DEF Expire, AnswerExpired, Expired, Tickets, FirstRequest, HeldRequests, QueuedRequests,
     ResponsesQueued
<1>6. CASE Spawn \/ ChildStops \/ ClearCache \/ GiveUp \/ FirstWriteFails
  BY <1>6 DEF Spawn, ChildStops, ClearCache, GiveUp, FirstWriteFails, Tickets, FirstRequest, HeldRequests, QueuedRequests,
     ResponsesQueued
<1>7. CASE WriteToChild
  <2>1. QueuedRequests' \subseteq QueuedRequests
    BY <1>7, QueueTail DEF WriteToChild, TypeOK
  <2>2. {w.req : w \in atChild'} \subseteq
        {w.req : w \in atChild} \cup QueuedRequests
    <3>1. CASE Head(toServer) \in Request
      BY <1>7, <3>1, QueueHead DEF WriteToChild, Write, TypeOK
    <3>2. CASE Head(toServer) \notin Request
      BY <1>7, <3>2 DEF WriteToChild, Write
    <3>3. QED
      BY <3>1, <3>2
  <2>3. QED
    BY <1>7, <2>1, <2>2 DEF WriteToChild, Tickets, FirstRequest, HeldRequests, ResponsesQueued
<1>8. CASE WriteFails
  <2>1. QueuedRequests' \subseteq QueuedRequests
    BY <1>8, QueueTail DEF WriteFails, TypeOK
  <2>2. QED
    BY <1>8, <2>1 DEF WriteFails, Tickets, FirstRequest, HeldRequests, ResponsesQueued
<1>9. CASE ChildAnswers
  <2>1. PICK w \in atChild :
          /\ events' = Append(events, [kind |-> "response", req |-> w.req,
                                       child |-> w.child])
          /\ atChild' \subseteq atChild
    BY <1>9 DEF ChildAnswers
  <2> DEFINE e == [kind |-> "response", req |-> w.req, child |-> w.child]
  <2>2. e \in Event /\ e.kind = "response" /\ e.req = w.req
    BY DEF TypeOK, ManagerTypeOK, ChildRequest, Event, Response
  <2> HIDE DEF e
  <2>3. ResponsesQueued' \subseteq ResponsesQueued \cup {e}
    BY <2>1, <2>2, EventsAppend DEF TypeOK, e
  <2>4. QED
    BY <1>9, <2>1, <2>2, <2>3 DEF ChildAnswers, Tickets, FirstRequest, HeldRequests, QueuedRequests
<1>10. CASE SendReset
  <2>1. ResponsesQueued' \subseteq ResponsesQueued
    BY <1>10, EventsAppend DEF SendReset, EventsAfterReset, Event,
       ResetEvent, TypeOK
  <2>2. QED
    BY <1>10, <2>1 DEF SendReset, Tickets, FirstRequest, HeldRequests, QueuedRequests
<1>11. CASE TakeFirst
  <2>1. QueuedRequests' \subseteq QueuedRequests
    BY <1>11, QueueTail DEF TakeFirst, TypeOK
  <2>2. FirstRequest' \subseteq QueuedRequests
    <3>1. Head(toServer) = toServer[1] /\ 1 \in DOMAIN toServer
      BY <1>11, TailElements DEF TakeFirst, TypeOK, ChannelTypeOK
    <3>2. QED
      BY <1>11, <3>1 DEF TakeFirst, FirstRequest, QueuedRequests
  <2>3. QED
    BY <1>11, <2>1, <2>2 DEF TakeFirst, Tickets, HeldRequests, ResponsesQueued
<1>12. CASE SpawnFails \/ ManagerReturns
  <2>1. QueuedRequests' = {} /\ FirstRequest' = {}
    BY <1>12 DEF SpawnFails, ManagerReturns, Return, QueuedRequests, FirstRequest
  <2>2. QED
    BY <1>12, <2>1
    DEF SpawnFails, ManagerReturns, Return, Tickets, HeldRequests,
        ResponsesQueued
<1>13. CASE WriteFirst
  <2>1. PICK m \in first : Write(m)
    BY <1>13 DEF WriteFirst
  <2>2. {w.req : w \in atChild'} \subseteq
        {w.req : w \in atChild} \cup FirstRequest
    <3>1. m \in Request => m \in FirstRequest
      BY DEF Request, FirstRequest
    <3>2. QED
      BY <2>1, <3>1 DEF Write
  <2>3. FirstRequest' = {}
    BY <1>13 DEF WriteFirst, FirstRequest
  <2>4. QED
    BY <1>13, <2>2, <2>3 DEF WriteFirst, Tickets, HeldRequests, QueuedRequests,
       ResponsesQueued
<1>14. QED
  BY <1>1, <1>2, <1>3, <1>4, <1>5, <1>6, <1>7, <1>8, <1>9, <1>10, <1>11,
     <1>12, <1>13
  DEF RouterNext, ReaperNext, ManagerNext, ManagerProceeds

LEMMA NextTickets ==
  ASSUME TypeOK, Next
  PROVE  \/ /\ Tickets' \subseteq Tickets
            /\ nextId' = nextId
            /\ pending' \subseteq pending
         \/ \E r \in Request :
            /\ r.id = nextId
            /\ Tickets' \subseteq Tickets \cup {r}
            /\ nextId' = nextId + 1
            /\ pending' = pending \cup {r}
  BY HandlerTickets, TaskTickets DEF Next

LEMMA TicketType == TypeOK => Tickets \subseteq Request
<1> SUFFICES ASSUME TypeOK PROVE Tickets \subseteq Request
  OBVIOUS
<1>1. HeldRequests \subseteq Request
  BY Held DEF TypeOK, HandlerTypeOK
<1>2. QueuedRequests \subseteq Request
  <2>1. \A i \in DOMAIN toServer : toServer[i] \in Message
    BY DEF TypeOK, ChannelTypeOK
  <2>2. QED
    BY <2>1 DEF QueuedRequests, Message, Notification
<1>3. {e.req : e \in ResponsesQueued} \subseteq Request
  BY DEF ResponsesQueued, TypeOK, ChannelTypeOK, Event, Response, ResetEvent
<1>4. FirstRequest \subseteq Request
  BY DEF FirstRequest, TypeOK, ManagerTypeOK, Message, Notification
<1>5. QED
  BY <1>1, <1>2, <1>3, <1>4
  DEF Tickets, TypeOK, SharedTypeOK, TaskTypeOK, ManagerTypeOK, Routed,
      Response, ChildRequest

-----------------------------------------------------------------------------
(* A response is routed to the entry of its own request.                   *)
LEMMA RoutedIds ==
  ASSUME TypeOK, IdsNameRequests, Next
  PROVE  \A r \in routing' : r.entry = r.resp.req
<1>1. CASE RouteResponse
  <2>1. Head(events) \in ResponsesQueued
    BY <1>1, EventsTail DEF RouteResponse, TypeOK
  <2>2. Head(events).req \in Tickets /\ pending \subseteq Tickets
    BY <2>1 DEF Tickets
  <2>3. \A p \in pending : p.id = Head(events).req.id => p = Head(events).req
    BY <2>2 DEF IdsNameRequests
  <2>4. QED
    BY <1>1, <2>3 DEF RouteResponse, SameKey
<1>2. CASE CacheInitialize
  <2>1. PICK r \in routing : routing' = {[r EXCEPT !.stage = "deliver"]}
    BY <1>2 DEF CacheInitialize
  <2>2. r \in Routed /\ r.entry = r.resp.req
    BY DEF TypeOK, TaskTypeOK, IdsNameRequests
  <2>3. QED
    BY <2>1, <2>2 DEF Routed
<1>3. CASE ~RouteResponse /\ ~CacheInitialize
  <2>1. routing' \subseteq routing
    BY <1>3
    DEF Next, HandlerNext, HandlerProceeds, RouterNext, ReaperNext,
        ManagerNext, ManagerProceeds, handlerVars, taskVars, managerVars,
        Connect, Register, RecvOversized, RecvNotification, RecvInitialized,
        RecvInitializeCached, RecvInitialize, RecvRequest, Disconnect,
        RecvMalformed, WriterFails, Announce, CompleteHandshake,
        BufferRequest, Forward, Enqueue, EnqueueFails, HandshakeTimeout, Leave,
        DeliverResponse, ResetState, Expire, AnswerExpired, Spawn,
        WriteToChild, WriteFails, ChildStops, ChildAnswers, SendReset,
        ClearCache,
        TakeFirst, GiveUp, Return, SpawnFails,
        ManagerReturns, WriteFirst, FirstWriteFails
  <2>2. QED
    BY <2>1 DEF IdsNameRequests
<1>4. QED
  BY <1>1, <1>2, <1>3

LEMMA IdsStep ==
  ASSUME TypeOK, TypeOK', IdsNameRequests, Next
  PROVE  IdsNameRequests'
<1>1. /\ \A s \in Tickets' : s.id < nextId'
      /\ \A s, t \in Tickets' : s.id = t.id => s = t
  <2>1. Tickets \subseteq Request /\ nextId \in Nat
    BY TicketType DEF TypeOK, SharedTypeOK
  <2>2. CASE Tickets' \subseteq Tickets /\ nextId' = nextId
    BY <2>2 DEF IdsNameRequests
  <2>3. ASSUME NEW r \in Request, r.id = nextId,
               Tickets' \subseteq Tickets \cup {r}, nextId' = nextId + 1
        PROVE  /\ \A s \in Tickets' : s.id < nextId'
               /\ \A s, t \in Tickets' : s.id = t.id => s = t
    <3>1. \A s \in Tickets : s.id \in Nat /\ s.id < nextId
      BY <2>1 DEF IdsNameRequests, Request
    <3>2. QED
      BY <2>1, <2>3, <3>1 DEF IdsNameRequests
  <2>4. QED
    BY <2>2, <2>3, NextTickets
<1>2. QED
  BY <1>1, RoutedIds DEF IdsNameRequests

(* Global ids name requests for good, over disconnects, timeouts and       *)
(* restarts of the child (next_request_id, unregister_client, reset_state).*)
THEOREM IdsCorrect == Spec => []IdsNameRequests
<1>1. Init => IdsNameRequests
  <2> SUFFICES ASSUME Init PROVE IdsNameRequests
    OBVIOUS
  <2>1. /\ HeldRequests = {} /\ FirstRequest = {} /\ QueuedRequests = {}
        /\ ResponsesQueued = {}
    BY DEF Init, HandlerInit, ChannelInit, ManagerInit, HeldRequests,
       FirstRequest, QueuedRequests, ResponsesQueued
  <2>2. routing = {} /\ atChild = {} /\ pending = {}
    BY DEF Init, TaskInit, ManagerInit, SharedInit
  <2>3. QED
    BY <2>1, <2>2 DEF IdsNameRequests, Tickets
<1>2. TypeOK /\ TypeOK' /\ IdsNameRequests /\ [Next]_vars => IdsNameRequests'
  <2>1. CASE Next
    BY <2>1, IdsStep
  <2>2. CASE UNCHANGED vars
    BY <2>2 DEF vars, sharedVars, channelVars, handlerVars, taskVars,
       managerVars, IdsNameRequests, Tickets, FirstRequest, HeldRequests, QueuedRequests,
       ResponsesQueued
  <2>3. QED
    BY <2>1, <2>2
<1>3. QED
  BY <1>1, <1>2, TypeCorrect, PTL DEF Spec

-----------------------------------------------------------------------------
(* Answers.                                                                *)
LEMMA SendAllMatches ==
  ASSUME TypeOK, AnswersMatchRequests, NEW S,
         NEW kind \in {"result", "initialize", "error"}, SendAll(S, kind)
  PROVE  AnswersMatchRequests'
<1> SUFFICES ASSUME NEW c \in Clients, NEW l \in Lids,
                    NEW i \in DOMAIN inbox'[c][l]
             PROVE  inbox'[c][l][i].of = [client |-> c, lid |-> l]
  BY DEF AnswersMatchRequests
<1> DEFINE answer == [kind |-> kind, of |-> [client |-> c, lid |-> l]]
<1>1. inbox[c][l] \in Seq(Answer) /\ answer \in Answer
  BY DEF TypeOK, ChannelTypeOK, Answer, Address
<1>2. answer.of = [client |-> c, lid |-> l]
  OBVIOUS
<1>3. inbox'[c][l] = inbox[c][l] \/ inbox'[c][l] = Append(inbox[c][l], answer)
  BY DEF SendAll
<1> HIDE DEF answer
<1>4. CASE inbox'[c][l] = inbox[c][l]
  BY <1>4 DEF AnswersMatchRequests
<1>5. CASE inbox'[c][l] = Append(inbox[c][l], answer)
  <2>1. (i \in DOMAIN inbox[c][l] /\ inbox'[c][l][i] = inbox[c][l][i])
        \/ inbox'[c][l][i] = answer
    BY <1>1, <1>5, AppendElements
  <2>2. QED
    BY <1>2, <2>1 DEF AnswersMatchRequests
<1>6. QED
  BY <1>3, <1>4, <1>5

LEMMA SendToMatches ==
  ASSUME TypeOK, AnswersMatchRequests, NEW to \in Address,
         NEW answer \in Answer, answer.of = to, SendTo(to, answer)
  PROVE  AnswersMatchRequests'
<1> SUFFICES ASSUME NEW c \in Clients, NEW l \in Lids,
                    NEW i \in DOMAIN inbox'[c][l]
             PROVE  inbox'[c][l][i].of = [client |-> c, lid |-> l]
  BY DEF AnswersMatchRequests
<1>1. /\ inbox[c][l] \in Seq(Answer)
      /\ inbox \in [Clients -> [Lids -> Seq(Answer)]]
      /\ to.client \in Clients /\ to.lid \in Lids
      /\ to = [client |-> to.client, lid |-> to.lid]
  BY DEF TypeOK, ChannelTypeOK, Address
<1>2. \/ inbox'[c][l] = inbox[c][l]
      \/ inbox'[c][l] = Append(inbox[c][l], answer)
         /\ to = [client |-> c, lid |-> l]
  BY <1>1 DEF SendTo
<1>3. CASE inbox'[c][l] = inbox[c][l]
  BY <1>3 DEF AnswersMatchRequests
<1>4. CASE /\ inbox'[c][l] = Append(inbox[c][l], answer)
           /\ to = [client |-> c, lid |-> l]
  <2>1. (i \in DOMAIN inbox[c][l] /\ inbox'[c][l][i] = inbox[c][l][i])
        \/ inbox'[c][l][i] = answer
    BY <1>1, <1>4, AppendElements
  <2>2. QED
    BY <1>4, <2>1 DEF AnswersMatchRequests
<1>5. QED
  BY <1>2, <1>3, <1>4

LEMMA AnswersStep ==
  ASSUME TypeOK, IdsNameRequests, AnswersMatchRequests, Next
  PROVE  AnswersMatchRequests'
<1>1. CASE UNCHANGED inbox
  BY <1>1 DEF AnswersMatchRequests
<1>2. ASSUME NEW c \in Clients, HandlerNext(c), inbox' # inbox
      PROVE  AnswersMatchRequests'
  <2>1. CASE RecvInitializeCached(c)
    <3> DEFINE to == [client |-> c, lid |-> sent[c] + 1]
    <3>1. sent[c] + 1 \in Lids
      BY <2>1, BoundsAssumption DEF RecvInitializeCached, Reads, TypeOK,
         HandlerTypeOK, Lids
    <3>2. to \in Address /\ [kind |-> "initialize", of |-> to] \in Answer
      BY <3>1 DEF Address, Answer
    <3>3. SendTo(to, [kind |-> "initialize", of |-> to])
      BY <2>1 DEF RecvInitializeCached
    <3>4. QED
      BY <3>2, <3>3, SendToMatches
  <2>2. CASE RecvOversized(c) \/ RecvInitialize(c) \/ Forward(c)
    <3>1. \E l : SendError(c, l)
      BY <1>2, <2>2 DEF RecvOversized, RecvInitialize, Forward, Admit
    <3>2. QED
      BY <3>1, SendAllMatches DEF SendError
  <2>3. CASE ~(RecvInitializeCached(c) \/ RecvOversized(c)
                \/ RecvInitialize(c) \/ Forward(c))
    BY <1>2, <2>3
    DEF HandlerNext, HandlerProceeds, channelVars, Connect, Register,
        RecvNotification, RecvInitialized, RecvRequest, Disconnect,
        RecvMalformed, WriterFails, Announce, CompleteHandshake,
        BufferRequest, Enqueue, EnqueueFails, HandshakeTimeout, Leave
  <2>4. QED
    BY <2>1, <2>2, <2>3
<1>3. CASE CacheInitialize \/ ResetState \/ AnswerExpired
  BY <1>3, SendAllMatches DEF CacheInitialize, ResetState, AnswerExpired
<1>4. CASE DeliverResponse
  <2>1. PICK r \in routing :
          SendTo(AddressOf(r.entry), [kind |-> AnswerKind(r.resp.req),
                                      of |-> AddressOf(r.resp.req)])
    BY <1>4 DEF DeliverResponse
  <2>2. r.entry \in Request /\ r.entry = r.resp.req
    BY DEF TypeOK, TaskTypeOK, Routed, IdsNameRequests
  <2>3. /\ AddressOf(r.entry) \in Address
        /\ [kind |-> AnswerKind(r.resp.req), of |-> AddressOf(r.resp.req)]
              \in Answer
    BY <2>2, AddressType DEF AnswerKind, Answer
  <2>4. QED
    BY <2>1, <2>2, <2>3, SendToMatches
<1>5. CASE RouteResponse \/ Expire \/ ManagerNext
  BY <1>1, <1>5
  DEF RouteResponse, Expire, ManagerNext, ManagerProceeds, channelVars,
      Spawn, WriteToChild, WriteFails, ChildStops, ChildAnswers, SendReset,
      ClearCache,
      TakeFirst, GiveUp, Return, SpawnFails,
      ManagerReturns, WriteFirst, FirstWriteFails
<1>6. QED
  BY <1>1, <1>2, <1>3, <1>4, <1>5 DEF Next, RouterNext, ReaperNext

(* No answer is ever delivered to another request than the one the child   *)
(* computed it for, whatever clients disconnect, expire or collide in the  *)
(* ids they choose (forward_request, handle_server_message).               *)
THEOREM AnswersCorrect == Spec => []AnswersMatchRequests
<1>1. Init => AnswersMatchRequests
  BY DEF Init, ChannelInit, AnswersMatchRequests
<1>2. TypeOK /\ IdsNameRequests /\ AnswersMatchRequests /\ [Next]_vars
        => AnswersMatchRequests'
  <2>1. CASE Next
    BY <2>1, AnswersStep
  <2>2. CASE UNCHANGED vars
    BY <2>2 DEF vars, channelVars, AnswersMatchRequests
  <2>3. QED
    BY <2>1, <2>2
<1>3. QED
  BY <1>1, <1>2, TypeCorrect, IdsCorrect, PTL DEF Spec

-----------------------------------------------------------------------------
(* The cache.                                                              *)
StaleInv == StaleCacheIsDoomed /\ StaleResponsesAreDoomed

\* Only the Reset itself ends what it dooms.
LEMMA LiveKept ==
  ASSUME TypeOK, Next, ~ResetState, NEW k \in Nat, Live(k)
  PROVE  Live(k)'
<1> USE DEF sharedVars, channelVars, handlerVars, taskVars, managerVars
<1>1. CASE UNCHANGED <<epoch, mgr, events>>
  BY <1>1 DEF Live, ResetQueued
<1>2. ASSUME NEW c \in Clients, HandlerNext(c)
      PROVE  UNCHANGED <<epoch, mgr, events>>
  BY <1>2
  DEF HandlerNext, HandlerProceeds, Connect, Register, RecvOversized,
      RecvNotification, RecvInitialized, RecvInitializeCached,
      RecvInitialize, RecvRequest, Disconnect, RecvMalformed, WriterFails,
      Announce, CompleteHandshake, BufferRequest, Forward, Enqueue, EnqueueFails,
      HandshakeTimeout, Leave
<1>3. CASE CacheInitialize \/ DeliverResponse \/ ReaperNext
  BY <1>1, <1>3
  DEF CacheInitialize, DeliverResponse, ReaperNext, Expire, AnswerExpired
<1>4. CASE RouteResponse
  <2>1. ResetQueued => ResetQueued'
    BY <1>4, EventsTail DEF RouteResponse, TypeOK
  <2>2. QED
    BY <1>4, <2>1 DEF RouteResponse, Live
<1>5. CASE Spawn \/ ClearCache \/ TakeFirst \/ GiveUp \/ SpawnFails
           \/ ManagerReturns \/ WriteFirst \/ FirstWriteFails
  BY <1>5 DEF Spawn, ClearCache, TakeFirst, GiveUp, SpawnFails, ManagerReturns,
              Return, WriteFirst, FirstWriteFails, Live, ResetQueued
<1>6. CASE WriteToChild \/ WriteFails \/ ChildStops
  BY <1>6 DEF WriteToChild, WriteFails, ChildStops, Live, ResetQueued
<1>7. CASE ChildAnswers
  <2>1. PICK w \in atChild :
          events' = Append(events, [kind |-> "response", req |-> w.req,
                                    child |-> w.child])
    BY <1>7 DEF ChildAnswers
  <2>2. [kind |-> "response", req |-> w.req, child |-> w.child] \in Event
    BY DEF TypeOK, ManagerTypeOK, ChildRequest, Event, Response
  <2>3. ResetQueued => ResetQueued'
    BY <2>1, <2>2, EventsAppend DEF TypeOK
  <2>4. QED
    BY <1>7, <2>3 DEF ChildAnswers, Live
<1>8. CASE SendReset
  <2>1. ResetQueued'
    BY <1>8, EventsAppend DEF SendReset, EventsAfterReset, Event,
       ResetEvent, TypeOK
  <2>2. QED
    BY <2>1 DEF Live
<1>9. QED
  BY <1>1, <1>2, <1>3, <1>4, <1>5, <1>6, <1>7, <1>8
  DEF Next, RouterNext, ManagerNext, ManagerProceeds

\* A request that is pending after a step and was around before it was
\* pending before it.
LEMMA StillPending ==
  ASSUME TypeOK, IdsNameRequests, Next, NEW m \in Tickets, m \in pending'
  PROVE  m \in pending
<1>1. m.id < nextId /\ m.id \in Nat /\ nextId \in Nat
  BY TicketType DEF IdsNameRequests, Request, TypeOK, SharedTypeOK
<1>2. CASE pending' \subseteq pending
  BY <1>2
<1>3. ASSUME NEW r \in Request, r.id = nextId, pending' = pending \cup {r}
      PROVE  m \in pending
  BY <1>1, <1>3
<1>4. QED
  BY <1>2, <1>3, NextTickets

LEMMA RoutedIsLive ==
  ASSUME TypeOK, IdsNameRequests, StaleInv, Next, ~ResetState
  PROVE  \A r \in routing' : r.stage = "cache" => Live(r.resp.child)'
<1>1. CASE RouteResponse
  <2>1. Head(events) \in ResponsesQueued /\ Head(events) \in Response
    BY <1>1, EventsTail, HeadEvent DEF RouteResponse, TypeOK
  <2>2. PICK resp \in Response : resp = Head(events)
    BY <2>1
  <2>3. resp.req \in Tickets /\ pending \subseteq Tickets
    BY <2>1, <2>2 DEF Tickets
  <2>4. \A p \in pending : p.id = resp.req.id => p = resp.req
    BY <2>3 DEF IdsNameRequests
  <2>5. \A r \in routing' : r.resp = resp /\ resp.req \in pending
    BY <1>1, <2>2, <2>4 DEF RouteResponse, SameKey
  <2>6. resp.req \in pending => Live(resp.child)
    BY <2>1, <2>2 DEF StaleInv, StaleResponsesAreDoomed
  <2>7. resp.child \in Nat
    BY DEF Response
  <2>8. Live(resp.child) => Live(resp.child)'
    BY <2>7, LiveKept
  <2>9. QED
    BY <2>5, <2>6, <2>8
<1>2. CASE ~RouteResponse
  <2>1. \A r \in routing' : r.stage = "cache" => r \in routing
    <3>1. CASE CacheInitialize
      <4>1. PICK r \in routing : routing' = {[r EXCEPT !.stage = "deliver"]}
        BY <3>1 DEF CacheInitialize
      <4>2. r \in Routed
        BY DEF TypeOK, TaskTypeOK
      <4>3. QED
        BY <4>1, <4>2 DEF Routed
    <3>2. CASE ~CacheInitialize
      BY <1>2, <3>2
      DEF Next, HandlerNext, HandlerProceeds, RouterNext, ReaperNext,
          ManagerNext, ManagerProceeds, handlerVars, taskVars, managerVars,
          Connect, Register, RecvOversized, RecvNotification,
          RecvInitialized, RecvInitializeCached, RecvInitialize,
          RecvRequest, Disconnect, RecvMalformed, WriterFails, Announce,
          CompleteHandshake, BufferRequest, Forward, Enqueue, EnqueueFails,
          HandshakeTimeout, Leave, DeliverResponse, ResetState, Expire,
          AnswerExpired, Spawn, WriteToChild, WriteFails, ChildStops,
          ChildAnswers, SendReset, ClearCache,
          TakeFirst, GiveUp, Return, SpawnFails,
          ManagerReturns, WriteFirst, FirstWriteFails
    <3>3. QED
      BY <3>1, <3>2
  <2>2. \A r \in routing : r.resp.child \in Nat
    BY DEF TypeOK, TaskTypeOK, Routed, Response
  <2>3. QED
    BY <2>1, <2>2, LiveKept DEF StaleInv, StaleResponsesAreDoomed
<1>3. QED
  BY <1>1, <1>2

LEMMA QueuedIsLive ==
  ASSUME TypeOK, IdsNameRequests, StaleInv, Next, ~ResetState
  PROVE  \A e \in ResponsesQueued' : e.req \in pending' => Live(e.child)'
<1>1. \A e \in ResponsesQueued : e.child \in Nat /\ e.req \in Tickets
  BY DEF TypeOK, ChannelTypeOK, ResponsesQueued, Event, Response, ResetEvent,
     Tickets
<1>2. ASSUME NEW e \in ResponsesQueued, e.req \in pending'
      PROVE  Live(e.child)'
  BY <1>1, <1>2, StillPending, LiveKept DEF StaleInv, StaleResponsesAreDoomed
<1>3. CASE ChildAnswers
  <2>1. PICK w \in atChild :
          events' = Append(events, [kind |-> "response", req |-> w.req,
                                    child |-> w.child])
    BY <1>3 DEF ChildAnswers
  <2> DEFINE new == [kind |-> "response", req |-> w.req, child |-> w.child]
  <2>2. /\ new \in Event /\ new.kind = "response"
        /\ new.req = w.req /\ new.child = w.child /\ w.child \in Nat
    BY DEF TypeOK, ManagerTypeOK, ChildRequest, Event, Response
  <2> HIDE DEF new
  <2>3. ResponsesQueued' \subseteq ResponsesQueued \cup {new}
    BY <2>1, <2>2, EventsAppend DEF TypeOK, new
  <2>4. w.req \in Tickets
    BY DEF Tickets
  <2>5. w.req \in pending' => Live(w.child)'
    BY <2>2, <2>4, StillPending, LiveKept DEF StaleInv, StaleResponsesAreDoomed
  <2>6. new.req \in pending' => Live(new.child)'
    <3>1. PICK k \in Nat, m \in Tickets : k = w.child /\ m = w.req
      BY <2>2, <2>4
    <3>2. m \in pending' => Live(k)'
      BY <3>1, StillPending, LiveKept DEF StaleInv, StaleResponsesAreDoomed
    <3>3. QED
      BY <3>1, <3>2, <2>2
  <2>7. QED
    BY <1>2, <2>3, <2>6
<1>4. CASE ~ChildAnswers
  <2>1. ResponsesQueued' \subseteq ResponsesQueued
    <3>1. CASE UNCHANGED events
      BY <3>1 DEF ResponsesQueued
    <3>2. CASE RouteResponse
      BY <3>2, EventsTail DEF RouteResponse, TypeOK
    <3>3. CASE SendReset
      BY <3>3, EventsAppend DEF SendReset, EventsAfterReset, Event,
         ResetEvent, TypeOK
    <3>4. CASE ~RouteResponse /\ ~SendReset
      <4>1. UNCHANGED events
        BY <1>4, <3>4
        DEF Next, HandlerNext, HandlerProceeds, RouterNext, ReaperNext,
            ManagerNext, ManagerProceeds, channelVars,
            Connect, Register, RecvOversized, RecvNotification,
            RecvInitialized, RecvInitializeCached, RecvInitialize,
            RecvRequest, Disconnect, RecvMalformed, WriterFails, Announce,
            CompleteHandshake, BufferRequest, Forward, Enqueue, EnqueueFails,
            HandshakeTimeout, Leave, CacheInitialize, DeliverResponse,
            Expire, AnswerExpired, Spawn, WriteToChild, WriteFails,
            ChildStops, ClearCache,
            TakeFirst, GiveUp, Return, SpawnFails,
            ManagerReturns, WriteFirst, FirstWriteFails
      <4>2. QED
        BY <3>1, <4>1
    <3>5. QED
      BY <3>2, <3>3, <3>4
  <2>2. QED
    BY <1>2, <2>1
<1>5. QED
  BY <1>3, <1>4

LEMMA AtChildIsLive ==
  ASSUME TypeOK, IdsNameRequests, StaleInv, Next, ~ResetState
  PROVE  \A w \in atChild' : w.req \in pending' => Live(w.child)'
<1>1. \A w \in atChild : w.child \in Nat /\ w.req \in Tickets
  BY DEF TypeOK, ManagerTypeOK, ChildRequest, Tickets
<1>2. ASSUME NEW w \in atChild, w.req \in pending'
      PROVE  Live(w.child)'
  BY <1>1, <1>2, StillPending, LiveKept DEF StaleInv, StaleResponsesAreDoomed
<1>3. CASE WriteToChild \/ WriteFirst
  <2>1. \A w \in atChild' : w \in atChild \/ w.child = epoch
    BY <1>3 DEF WriteToChild, WriteFirst, Write
  <2>2. mgr' = "run" /\ epoch' = epoch
    BY <1>3 DEF WriteToChild, WriteFirst
  <2>3. QED
    BY <1>2, <2>1, <2>2 DEF Live
<1>4. CASE ~WriteToChild /\ ~WriteFirst
  <2>1. atChild' \subseteq atChild
    BY <1>4
    DEF Next, HandlerNext, HandlerProceeds, RouterNext, ReaperNext,
        ManagerNext, ManagerProceeds, managerVars,
        Connect, Register, RecvOversized, RecvNotification,
        RecvInitialized, RecvInitializeCached, RecvInitialize, RecvRequest,
        Disconnect, RecvMalformed, WriterFails, Announce, CompleteHandshake,
        BufferRequest, Forward, Enqueue, EnqueueFails, HandshakeTimeout, Leave,
        RouteResponse, CacheInitialize, DeliverResponse, Expire,
        AnswerExpired, Spawn, WriteFails, ChildStops, ChildAnswers,
        SendReset, ClearCache,
        TakeFirst, GiveUp, Return, SpawnFails,
        ManagerReturns, WriteFirst, FirstWriteFails
  <2>2. QED
    BY <1>2, <2>1
<1>5. QED
  BY <1>3, <1>4

LEMMA CacheIsLive ==
  ASSUME TypeOK, IdsNameRequests, StaleInv, Next, ~ResetState
  PROVE  cached' # 0 => Live(cached)'
<1>1. CASE CacheInitialize
  <2>1. PICK r \in routing : r.stage = "cache" /\ cached' = r.resp.child
    BY <1>1 DEF CacheInitialize
  <2>2. PICK k \in Nat : k = r.resp.child
    BY DEF TypeOK, TaskTypeOK, Routed, Response
  <2>3. Live(k)'
    BY <2>1, <2>2, LiveKept DEF StaleInv, StaleResponsesAreDoomed
  <2>4. QED
    BY <2>1, <2>2, <2>3 DEF Live, ResetQueued
<1>2. CASE ~CacheInitialize
  <2>1. cached' = cached \/ cached' = 0
    BY <1>2
    DEF Next, HandlerNext, HandlerProceeds, RouterNext, ReaperNext,
        ManagerNext, ManagerProceeds, sharedVars,
        Connect, Register, RegisterClient, UnregisterClient, RecvOversized,
        RecvNotification, RecvInitialized, RecvInitializeCached,
        RecvInitialize, RecvRequest, Disconnect, RecvMalformed, WriterFails,
        Announce, CompleteHandshake, BufferRequest, Forward, Enqueue, EnqueueFails,
        HandshakeTimeout, Leave, RouteResponse, DeliverResponse, Expire,
        AnswerExpired, Spawn, WriteToChild, WriteFails, ChildStops,
        ChildAnswers, SendReset, ClearCache,
        TakeFirst, GiveUp, Return, SpawnFails,
        ManagerReturns, WriteFirst, FirstWriteFails
  <2>2. PICK k \in Nat : k = cached
    BY DEF TypeOK, SharedTypeOK
  <2>3. cached # 0 => Live(k)
    BY <2>2 DEF StaleInv, StaleCacheIsDoomed, Live
  <2>4. cached # 0 => Live(k)'
    BY <2>3, LiveKept
  <2>5. QED
    BY <2>1, <2>2, <2>4 DEF Live, ResetQueued
<1>3. QED
  BY <1>1, <1>2

LEMMA StaleStep ==
  ASSUME TypeOK, IdsNameRequests, StaleInv, Next
  PROVE  StaleInv'
<1>1. CASE ResetState
  <2>1. pending' = {} /\ routing' = {} /\ cached' = 0
    BY <1>1 DEF ResetState, CacheAfterReset, taskVars
  <2>2. QED
    BY <2>1 DEF StaleInv, StaleResponsesAreDoomed, StaleCacheIsDoomed
<1>2. CASE ~ResetState
  <2>1. StaleResponsesAreDoomed'
    BY <1>2, RoutedIsLive, QueuedIsLive, AtChildIsLive
    DEF StaleResponsesAreDoomed
  <2>2. StaleCacheIsDoomed'
    BY <1>2, CacheIsLive DEF StaleCacheIsDoomed, Live
  <2>3. QED
    BY <2>1, <2>2 DEF StaleInv
<1>3. QED
  BY <1>1, <1>2

(* However restarts, late output of a dead child and the router interleave,*)
(* the cached initialize response is that of the running child or a Reset  *)
(* that drops it is on its way (server_manager, handle_server_message,     *)
(* reset_state).                                                           *)
THEOREM CacheCorrect == Spec => []StaleCacheIsDoomed
<1>1. Init => StaleInv
  BY DEF Init, SharedInit, ChannelInit, TaskInit, ManagerInit, StaleInv,
     StaleCacheIsDoomed, StaleResponsesAreDoomed, ResponsesQueued
<1>2. TypeOK /\ IdsNameRequests /\ StaleInv /\ [Next]_vars => StaleInv'
  <2>1. CASE Next
    BY <2>1, StaleStep
  <2>2. CASE UNCHANGED vars
    BY <2>2 DEF vars, sharedVars, channelVars, taskVars, managerVars,
       StaleInv, StaleCacheIsDoomed, StaleResponsesAreDoomed, Live,
       ResponsesQueued, ResetQueued
  <2>3. QED
    BY <2>1, <2>2
<1>3. StaleInv => StaleCacheIsDoomed
  BY DEF StaleInv
<1>4. QED
  BY <1>1, <1>2, <1>3, TypeCorrect, IdsCorrect, PTL DEF Spec

-----------------------------------------------------------------------------
(* The limits.  pending only grows by one entry, and only past the         *)
(* admission check.                                                        *)
LEMMA PendingSteps ==
  ASSUME [Next]_vars
  PROVE  \/ pending' \subseteq pending
         \/ ~Overloaded /\ \E r : pending' = pending \cup {r}
<1>1. ASSUME NEW c \in Clients, HandlerNext(c)
      PROVE  \/ pending' \subseteq pending
             \/ ~Overloaded /\ \E r : pending' = pending \cup {r}
  <2>1. CASE Forward(c)
    BY <2>1 DEF Forward, Admit
  <2>2. CASE RecvInitialize(c)
    BY <2>2 DEF RecvInitialize, Admit
  <2>3. CASE Leave(c) \/ WriterFails(c)
    BY <2>3 DEF Leave, WriterFails, UnregisterClient, PendingWithout
  <2>4. QED
    BY <1>1, <2>1, <2>2, <2>3
    DEF HandlerNext, HandlerProceeds, Connect, Register, RegisterClient,
        RecvOversized, RecvNotification, RecvInitialized,
        RecvInitializeCached, RecvRequest, Disconnect, RecvMalformed,
        Announce, CompleteHandshake, BufferRequest, Enqueue, EnqueueFails,
        HandshakeTimeout, sharedVars
<1>2. CASE RouterNext
  BY <1>2 DEF RouterNext, RouteResponse, CacheInitialize, DeliverResponse,
              ResetState, PendingAfter, sharedVars
<1>3. CASE ReaperNext
  BY <1>3 DEF ReaperNext, Expire, AnswerExpired, Expired, sharedVars
<1>4. CASE ManagerNext
  BY <1>4 DEF ManagerNext, ManagerProceeds, Spawn, WriteToChild,
              WriteFails, ChildStops, ChildAnswers, SendReset, ClearCache,
              TakeFirst, GiveUp, Return, SpawnFails,
              ManagerReturns, WriteFirst, FirstWriteFails,
              sharedVars
<1>5. QED
  BY <1>1, <1>2, <1>3, <1>4 DEF Next, vars, sharedVars

(* The table of pending requests never outgrows MAX_PENDING, whichever     *)
(* handlers insert into it and whatever takes entries out (handle_client,  *)
(* forward_request).                                                       *)
THEOREM PendingCorrect == Spec => []PendingBounded
<1> DEFINE Inv == IsFiniteSet(pending) /\ PendingBounded
<1>1. Init => Inv
  BY FS_EmptySet, BoundsAssumption DEF Init, SharedInit, PendingBounded
<1>2. Inv /\ [Next]_vars => Inv'
  <2> SUFFICES ASSUME Inv, [Next]_vars PROVE Inv'
    OBVIOUS
  <2>1. Cardinality(pending) \in Nat
    BY FS_CardinalityType
  <2>2. CASE pending' \subseteq pending
    BY <2>1, <2>2, FS_Subset, FS_CardinalityType, BoundsAssumption
    DEF PendingBounded
  <2>3. ASSUME ~Overloaded, NEW r, pending' = pending \cup {r} PROVE Inv'
    BY <2>1, <2>3, FS_AddElement, BoundsAssumption
    DEF PendingBounded, Overloaded
  <2>4. QED
    BY <2>2, <2>3, PendingSteps
<1>3. QED
  BY <1>1, <1>2, PTL DEF Spec

(* Only the handler that gets a permit begins to hold one.                 *)
LEMMA PermitSteps ==
  ASSUME [Next]_vars, TypeOK
  PROVE  \/ PermitHolders' \subseteq PermitHolders
         \/ PermitFree /\ \E c : PermitHolders' = PermitHolders \cup {c}
<1>1. ASSUME NEW c \in Clients, Register(c)
      PROVE  PermitFree /\ PermitHolders' = PermitHolders \cup {c}
  BY <1>1 DEF Register, PermitHolders, TypeOK, HandlerTypeOK
<1>2. ASSUME NEW c \in Clients, HandlerNext(c), ~Register(c)
      PROVE  PermitHolders' \subseteq PermitHolders
  <2>1. \/ pc' = pc
        \/ /\ pc[c] # "absent" /\ pc[c] # "accepted" /\ pc[c] # "gone"
           /\ \E s : pc' = [pc EXCEPT ![c] = s]
        \/ pc' = [pc EXCEPT ![c] = "accepted"]
    BY <1>2
    DEF HandlerNext, HandlerProceeds, Connect, RecvOversized, Reads,
        RecvNotification, RecvInitialized, RecvInitializeCached,
        RecvInitialize, RecvRequest, Disconnect, RecvMalformed, WriterFails,
        Announce, CompleteHandshake, BufferRequest, Forward, Admit, Enqueue, EnqueueFails,
        HandshakeTimeout, Leave, handlerVars
  <2>2. QED
    BY <2>1 DEF PermitHolders, TypeOK, HandlerTypeOK
<1>3. pc' = pc => PermitHolders' \subseteq PermitHolders
  BY DEF PermitHolders
<1>4. CASE RouterNext \/ ReaperNext \/ ManagerNext \/ UNCHANGED vars
  BY <1>3, <1>4
  DEF RouterNext, RouteResponse, CacheInitialize, DeliverResponse, ResetState,
      ReaperNext, Expire, AnswerExpired, ManagerNext, ManagerProceeds, Spawn,
      WriteToChild, WriteFails, ChildStops, ChildAnswers, SendReset,
      ClearCache,
      TakeFirst, GiveUp, Return, SpawnFails,
      ManagerReturns, WriteFirst, FirstWriteFails, handlerVars, vars
<1>5. QED
  BY <1>1, <1>2, <1>4 DEF Next

(* A registered client was given a permit once.                            *)
LEMMA RegisteredSteps ==
  ASSUME [Next]_vars, TypeOK,
         \A c \in clients : pc[c] \notin {"absent", "accepted"}
  PROVE  \A c \in clients' : pc'[c] \notin {"absent", "accepted"}
<1>1. ASSUME NEW c \in Clients, HandlerNext(c)
      PROVE  \A d \in clients' : pc'[d] \notin {"absent", "accepted"}
  <2>1. \/ clients' \subseteq clients /\ pc' = pc
        \/ /\ clients' \subseteq clients \cup {c}
           /\ \E s : s \notin {"absent", "accepted"}
                    /\ pc' = [pc EXCEPT ![c] = s]
        \/ pc[c] = "absent" /\ clients' = clients
           /\ pc' = [pc EXCEPT ![c] = "accepted"]
    BY <1>1
    DEF HandlerNext, HandlerProceeds, Connect, Register, RegisterClient,
        UnregisterClient, RecvOversized, RecvNotification, RecvInitialized,
        RecvInitializeCached, RecvInitialize, RecvRequest, Disconnect,
        RecvMalformed, WriterFails, Announce, CompleteHandshake,
        BufferRequest, Forward, Admit, After, Enqueue, EnqueueFails, HandshakeTimeout,
        Leave, Reads, handlerVars, sharedVars
  <2>2. QED
    BY <2>1 DEF TypeOK, SharedTypeOK, HandlerTypeOK
<1>2. CASE RouterNext \/ ReaperNext \/ ManagerNext \/ UNCHANGED vars
  <2>1. pc' = pc /\ clients' = clients
    BY <1>2
    DEF RouterNext, RouteResponse, CacheInitialize, DeliverResponse,
        ResetState, ReaperNext, Expire, AnswerExpired, ManagerNext,
        ManagerProceeds, Spawn, WriteToChild, WriteFails, ChildStops,
        ChildAnswers, SendReset, ClearCache,
        TakeFirst, GiveUp, Return, SpawnFails,
        ManagerReturns, WriteFirst, FirstWriteFails, handlerVars, sharedVars, vars
  <2>2. QED
    BY <2>1
<1>3. QED
  BY <1>1, <1>2 DEF Next

(* No more clients are registered and served than there are permits, over  *)
(* any order of connections, failures and ends (handle_client).            *)
THEOREM ServedCorrect == Spec => []ServedWithinLimit
<1> DEFINE Inv == /\ Cardinality(PermitHolders) <= MaxClients
                  /\ \A c \in clients : pc[c] \notin {"absent", "accepted"}
<1>1. IsFiniteSet(PermitHolders) /\ Cardinality(PermitHolders) \in Nat
  BY ClientsAssumption, FS_Subset, FS_CardinalityType DEF PermitHolders
<1>2. Init => Inv
  <2>1. Init => PermitHolders = {} /\ clients = {}
    BY DEF Init, SharedInit, HandlerInit, PermitHolders
  <2>2. QED
    BY <2>1, FS_EmptySet, BoundsAssumption
<1>3. TypeOK /\ Inv /\ [Next]_vars => Inv'
  <2> SUFFICES ASSUME TypeOK, Inv, [Next]_vars PROVE Inv'
    OBVIOUS
  <2>1. CASE PermitHolders' \subseteq PermitHolders
    <3>1. Cardinality(PermitHolders') <= Cardinality(PermitHolders)
          /\ Cardinality(PermitHolders') \in Nat
      BY <1>1, <2>1, FS_Subset, FS_CardinalityType
    <3>2. QED
      BY <1>1, <3>1, RegisteredSteps, BoundsAssumption
  <2>2. ASSUME PermitFree, NEW c, PermitHolders' = PermitHolders \cup {c}
        PROVE  Inv'
    <3>1. Cardinality(PermitHolders') <= Cardinality(PermitHolders) + 1
          /\ Cardinality(PermitHolders') \in Nat
      BY <1>1, <2>2, FS_AddElement, FS_CardinalityType
    <3>2. QED
      BY <1>1, <2>2, <3>1, RegisteredSteps, BoundsAssumption DEF PermitFree
  <2>3. QED
    BY <2>1, <2>2, PermitSteps
<1>4. TypeOK /\ Inv => ServedWithinLimit
  <2> SUFFICES ASSUME TypeOK, Inv PROVE ServedWithinLimit
    OBVIOUS
  <2>1. {c \in clients : pc[c] # "gone"} \subseteq PermitHolders
    BY DEF PermitHolders, TypeOK, SharedTypeOK
  <2>2. Cardinality({c \in clients : pc[c] # "gone"})
          <= Cardinality(PermitHolders)
        /\ Cardinality({c \in clients : pc[c] # "gone"}) \in Nat
    BY <1>1, <2>1, FS_Subset, FS_CardinalityType
  <2>3. QED
    BY <1>1, <2>2, BoundsAssumption DEF ServedWithinLimit
<1>5. QED
  BY <1>2, <1>3, <1>4, TypeCorrect, PTL DEF Spec

-----------------------------------------------------------------------------
(* What a client sends before its handshake is held back.                  *)

\* The handler of the connection has begun to serve it.
Began(c) == pc[c] \notin {"absent", "accepted"}
Unmet(c) == c \in clients /\ c \notin complete

\* Until the handshake of a registered client is complete, forward_request
\* runs on none of its requests.
Gate(c) ==
    /\ c \in clients => Began(c)
    /\ pc[c] \in {"absent", "accepted", "ready", "announce", "complete"}
          => work[c] = <<>>
    /\ Unmet(c) => pc[c] # "forward" /\ (pc[c] = "enqueue" => work[c] = <<>>)
    /\ \A p \in pending :
          p.client = c => Began(c) /\ (p.method = "request" => ~Unmet(c))

GateInv == \A c \in Clients : Gate(c)

(* A step of one handler leaves the other connections alone.               *)
LEMMA OtherClients ==
  ASSUME TypeOK, NEW c \in Clients, HandlerNext(c), NEW d \in Clients, d # c
  PROVE  /\ pc'[d] = pc[d] /\ work'[d] = work[d] /\ hand'[d] = hand[d]
         /\ buffer'[d] = buffer[d] /\ sent'[d] = sent[d]
         /\ d \in clients' <=> d \in clients
         /\ d \in complete' <=> d \in complete
         /\ \A p \in pending' : p.client = d => p \in pending
<1>1. CASE Forward(c)
  BY <1>1 DEF Forward, Admit, NewRequest, TypeOK, HandlerTypeOK, SharedTypeOK
<1>2. CASE RecvInitialize(c)
  BY <1>2 DEF RecvInitialize, Reads, Admit, NewRequest, TypeOK, HandlerTypeOK, SharedTypeOK
<1>3. CASE Leave(c) \/ WriterFails(c)
  BY <1>3 DEF Leave, WriterFails, UnregisterClient, PendingWithout, handlerVars, TypeOK,
              HandlerTypeOK, SharedTypeOK
<1>4. QED
  BY <1>1, <1>2, <1>3
  DEF HandlerNext, HandlerProceeds, Connect, Register, RegisterClient,
      RecvOversized, RecvNotification, RecvInitialized, Reads,
      RecvInitializeCached, RecvRequest, Disconnect, RecvMalformed,
      Announce, CompleteHandshake, BufferRequest, Enqueue, EnqueueFails,
      HandshakeTimeout, sharedVars, handlerVars, TypeOK, HandlerTypeOK, SharedTypeOK

(* Router, reaper and manager touch no connection.                         *)
LEMMA OtherTasks ==
  ASSUME RouterNext \/ ReaperNext \/ ManagerNext \/ UNCHANGED vars
  PROVE  /\ UNCHANGED <<handlerVars, clients, complete, buffer>>
         /\ pending' \subseteq pending
  BY DEF RouterNext, RouteResponse, CacheInitialize, DeliverResponse, PendingAfter,
         ResetState, ReaperNext, Expire, Expired, AnswerExpired, ManagerNext,
         ManagerProceeds, Spawn, WriteToChild, WriteFails, ChildStops,
         ChildAnswers, SendReset, ClearCache,
         TakeFirst, GiveUp, Return, SpawnFails,
         ManagerReturns, WriteFirst, FirstWriteFails, handlerVars, sharedVars, vars

LEMMA AdmitPending ==
  ASSUME NEW c \in Clients, NEW method, NEW l, NEW rest, Admit(c, method, l, rest)
  PROVE  \A p \in pending' : p \in pending \/ (p.client = c /\ p.method = method)
  BY DEF Admit, NewRequest

LEMMA GateOfHandler ==
  ASSUME TypeOK, NEW c \in Clients, HandlerNext(c), Gate(c)
  PROVE  Gate(c)'
<1> USE DEF Gate, Began, Unmet
<1>1. CASE Connect(c) \/ Register(c)
  BY <1>1 DEF Connect, Register, RegisterClient, sharedVars, TypeOK, HandlerTypeOK
<1>2. CASE RecvOversized(c) \/ RecvNotification(c) \/ RecvInitializeCached(c)
  BY <1>2 DEF RecvOversized, RecvNotification, RecvInitializeCached, Reads,
              handlerVars, sharedVars
<1>3. CASE RecvInitialized(c) \/ Announce(c)
  BY <1>3 DEF RecvInitialized, Announce, sharedVars, TypeOK, HandlerTypeOK
<1>4. CASE CompleteHandshake(c)
  BY <1>4 DEF CompleteHandshake, After, TypeOK, HandlerTypeOK, SharedTypeOK
<1>5. CASE RecvInitialize(c)
  <2>1. \A p \in pending' :
           p \in pending \/ (p.client = c /\ p.method = "initialize")
    BY <1>5, AdmitPending DEF RecvInitialize
  <2>2. /\ pc[c] = "ready" /\ work[c] = <<>> /\ work' = work
        /\ clients' = clients /\ complete' = complete
        /\ pc'[c] \in {"ready", "enqueue"}
    BY <1>5 DEF RecvInitialize, Reads, Admit, After, TypeOK, HandlerTypeOK
  <2>3. QED
    BY <2>1, <2>2
<1>6. CASE RecvRequest(c)
  BY <1>6 DEF RecvRequest, Reads, IsHandshakeComplete, sharedVars, TypeOK,
              HandlerTypeOK
<1>7. CASE BufferRequest(c)
  BY <1>7 DEF BufferRequest, TypeOK, HandlerTypeOK
<1>8. CASE Forward(c)
  <2>1. \A p \in pending' :
           p \in pending \/ (p.client = c /\ p.method = "request")
    BY <1>8, AdmitPending DEF Forward
  <2>2. /\ pc[c] = "forward"
        /\ work'[c] = Tail(work[c])
        /\ clients' = clients /\ complete' = complete
        /\ pc'[c] \in {After(Tail(work[c])), "enqueue"}
    BY <1>8 DEF Forward, Admit, TypeOK, HandlerTypeOK
  <2>3. QED
    BY <2>1, <2>2 DEF After
<1>9. CASE Enqueue(c) \/ EnqueueFails(c)
  BY <1>9 DEF Enqueue, EnqueueFails, After, sharedVars, TypeOK, HandlerTypeOK
<1>10. CASE Disconnect(c) \/ HandshakeTimeout(c) \/ RecvMalformed(c)
  BY <1>10 DEF Disconnect, HandshakeTimeout, RecvMalformed, sharedVars, TypeOK,
               HandlerTypeOK
<1>11. CASE Leave(c) \/ WriterFails(c)
  BY <1>11 DEF Leave, WriterFails, UnregisterClient, PendingWithout,
               handlerVars, TypeOK, HandlerTypeOK
<1>12. QED
  BY <1>1, <1>2, <1>3, <1>4, <1>5, <1>6, <1>7, <1>8, <1>9, <1>10, <1>11
  DEF HandlerNext, HandlerProceeds

LEMMA GateStep == TypeOK /\ GateInv /\ [Next]_vars => GateInv'
<1> SUFFICES ASSUME TypeOK, GateInv, [Next]_vars, NEW d \in Clients
             PROVE  Gate(d)'
  BY DEF GateInv
<1>1. ASSUME NEW c \in Clients, HandlerNext(c) PROVE Gate(d)'
  <2>1. CASE c = d
    BY <1>1, <2>1, GateOfHandler DEF GateInv
  <2>2. CASE c # d
    BY <1>1, <2>2, OtherClients DEF GateInv, Gate, Began, Unmet
  <2>3. QED
    BY <2>1, <2>2
<1>2. CASE RouterNext \/ ReaperNext \/ ManagerNext \/ UNCHANGED vars
  BY <1>2, OtherTasks DEF GateInv, Gate, Began, Unmet, handlerVars
<1>3. QED
  BY <1>1, <1>2 DEF Next

LEMMA GateInit == Init => GateInv
  BY DEF Init, SharedInit, HandlerInit, GateInv, Gate, Began, Unmet

(* Only a client that has completed its handshake has a request other than *)
(* initialize pending, for any number of clients and over restarts         *)
(* (handle_client_message).                                                *)
THEOREM HandshakeCorrect == Spec => []HandshakeGatesRequests
<1>1. TypeOK /\ GateInv => HandshakeGatesRequests
  BY DEF TypeOK, SharedTypeOK, Request, GateInv, Gate, Unmet,
         HandshakeGatesRequests
<1>2. QED
  BY <1>1, GateInit, GateStep, TypeCorrect, PTL DEF Spec

-----------------------------------------------------------------------------
(* No entry outlives its connection.                                       *)
OneFault == ~({"malformed", "write_failure"} \subseteq Environment)

\* Without failing writers a client that is served is registered, and one
\* that is over and unregistered has no entry.
Owned(c) ==
    /\ "write_failure" \notin Environment /\ Began(c) /\ pc[c] # "gone"
          => c \in clients
    /\ pc[c] = "gone" /\ c \notin clients => \A p \in pending : p.client # c

OwnedInv == \A c \in Clients : Owned(c)

LEMMA OwnedOfHandler ==
  ASSUME OneFault, TypeOK, NEW c \in Clients, HandlerNext(c), Gate(c), Owned(c)
  PROVE  Owned(c)'
<1> USE DEF Owned, Began
<1>1. CASE Leave(c) \/ WriterFails(c)
  BY <1>1 DEF Leave, WriterFails, UnregisterClient, PendingWithout,
              handlerVars, TypeOK, HandlerTypeOK
<1>2. CASE RecvMalformed(c)
  BY <1>2 DEF RecvMalformed, OneFault, sharedVars, TypeOK, HandlerTypeOK
<1>3. CASE Connect(c) \/ Register(c)
  BY <1>3 DEF Connect, Register, RegisterClient, sharedVars, TypeOK,
              HandlerTypeOK
<1>4. CASE HandlerNext(c) /\ ~(Leave(c) \/ WriterFails(c) \/ RecvMalformed(c)
                               \/ Connect(c) \/ Register(c))
  <2>1. /\ clients' = clients
        /\ pc'[c] # "gone" \/ (pc' = pc /\ pc[c] # "gone")
        /\ Began(c)
    BY <1>4
    DEF HandlerNext, HandlerProceeds, RecvOversized, RecvNotification,
        RecvInitialized, Reads, RecvInitializeCached, RecvInitialize,
        RecvRequest, Disconnect, Announce, CompleteHandshake, BufferRequest,
        Forward, Admit, After, Enqueue, EnqueueFails, HandshakeTimeout, sharedVars,
        handlerVars, TypeOK, HandlerTypeOK
  <2>2. pc[c] # "gone"
    BY <1>4
    DEF HandlerNext, HandlerProceeds, RecvOversized, RecvNotification,
        RecvInitialized, Reads, RecvInitializeCached, RecvInitialize,
        RecvRequest, Disconnect, Announce, CompleteHandshake, BufferRequest,
        Forward, Enqueue, EnqueueFails, HandshakeTimeout
  <2>3. QED
    BY <2>1, <2>2
<1>5. QED
  BY <1>1, <1>2, <1>3, <1>4

LEMMA OwnedStep ==
  OneFault /\ TypeOK /\ GateInv /\ OwnedInv /\ [Next]_vars => OwnedInv'
<1> SUFFICES ASSUME OneFault, TypeOK, GateInv, OwnedInv, [Next]_vars,
                    NEW d \in Clients
             PROVE  Owned(d)'
  BY DEF OwnedInv
<1>1. ASSUME NEW c \in Clients, HandlerNext(c) PROVE Owned(d)'
  <2>1. CASE c = d
    BY <1>1, <2>1, OwnedOfHandler DEF GateInv, OwnedInv
  <2>2. CASE c # d
    BY <1>1, <2>2, OtherClients DEF OwnedInv, Owned, Began
  <2>3. QED
    BY <2>1, <2>2
<1>2. CASE RouterNext \/ ReaperNext \/ ManagerNext \/ UNCHANGED vars
  BY <1>2, OtherTasks DEF OwnedInv, Owned, Began, handlerVars
<1>3. QED
  BY <1>1, <1>2 DEF Next

(* A pending entry belongs to a registered client, or to one whose handler *)
(* is still to unregister it, unless clients both stop reading and send    *)
(* malformed frames (unregister_client).                                   *)
THEOREM NoOrphanCorrect ==
    ASSUME OneFault
    PROVE  Spec => []NoOrphanPending
<1>1. Init => OwnedInv
  BY DEF Init, SharedInit, HandlerInit, OwnedInv, Owned, Began
<1>2. TypeOK /\ GateInv /\ OwnedInv => NoOrphanPending
  BY DEF TypeOK, SharedTypeOK, Request, GateInv, Gate, OwnedInv, Owned, Began,
         NoOrphanPending
<1>3. QED
  BY <1>1, <1>2, GateInit, GateStep, OwnedStep, TypeCorrect, PTL DEF Spec
=============================================================================
