--------------------------- MODULE MuxAnswerProofs ---------------------------
(***************************************************************************)
(* The requests of a client stay in order, none is answered twice, and     *)
(* none is forgotten.  Whatever owes an answer to a request holds its      *)
(* address in one place, and a step moves addresses from place to place    *)
(* without leaving a copy.  A pending entry is matched by its message, by  *)
(* the response to it, or by a Reset.  Last, the mux implements            *)
(* ChildLifecycle and RequestService.                                      *)
(***************************************************************************)
EXTENDS MuxProofs

-----------------------------------------------------------------------------
(* The order of the requests of one client.                                *)
Before(A, B) == \A a \in A, b \in B : a < b
Elements(s) == {s[i] : i \in DOMAIN s}
Ascending(s) == \A i, j \in DOMAIN s : i < j => s[i] < s[j]

\* The requests of c in the queue, and the one on its way there.
Lined(c) == {toServer[i].lid : i \in {j \in DOMAIN toServer :
                toServer[j].method = "request" /\ toServer[j].client = c}}
InHand(c) == {r.lid : r \in hand[c]}

\* What is still to be forwarded comes behind what is queued, and everything
\* was read before what is read next.
Order(c) ==
    /\ Ascending(work[c])
    /\ Ascending(buffer[c])
    /\ \A l \in Lined(c) \cup InHand(c) \cup Elements(work[c])
                \cup Elements(buffer[c]) : l <= sent[c]
    /\ Before(Lined(c), InHand(c))
    /\ Before(Lined(c) \cup InHand(c), Elements(work[c]))
    /\ Before(Lined(c), Elements(buffer[c]))
    /\ pc[c] = "buffer" => /\ c \notin complete
                           /\ Before(Elements(buffer[c]), Elements(work[c]))
    /\ pc[c] # "enqueue" => hand[c] = {}
    /\ \A r \in hand[c] : r.client = c /\ (r.method = "request" => ~Unmet(c))
    /\ buffer[c] # <<>> => Unmet(c)

OrderInv == (\A c \in Clients : Order(c)) /\ FifoPerClient

(* The elements of sequences that grow, shrink and are joined.             *)
LEMMA TailOrder ==
  ASSUME NEW s \in Seq(Lids), s # <<>>, Ascending(s)
  PROVE  /\ Ascending(Tail(s))
         /\ Elements(Tail(s)) \subseteq Elements(s)
         /\ Head(s) \in Elements(s)
         /\ Before({Head(s)}, Elements(Tail(s)))
<1>1. Lids \subseteq Nat
  BY BoundsAssumption DEF Lids
<1>2. QED
  BY <1>1, TailElements DEF Ascending, Elements, Before

LEMMA JoinOrder ==
  ASSUME NEW s \in Seq(Lids), NEW t \in Seq(Lids), Ascending(s), Ascending(t),
         Before(Elements(s), Elements(t))
  PROVE  /\ Ascending(s \o t)
         /\ Elements(s \o t) \subseteq Elements(s) \cup Elements(t)
<1>1. Lids \subseteq Nat
  BY BoundsAssumption DEF Lids
<1>2. \A i \in DOMAIN (s \o t) :
         \/ i \in DOMAIN s /\ (s \o t)[i] = s[i]
         \/ /\ i - Len(s) \in DOMAIN t
            /\ i > Len(s)
            /\ (s \o t)[i] = t[i - Len(s)]
  OBVIOUS
<1>3. \A i \in DOMAIN s : i <= Len(s)
  OBVIOUS
<1>4. QED
  BY <1>1, <1>2, <1>3 DEF Ascending, Elements, Before

LEMMA NoElements == Elements(<<>>) = {} /\ Ascending(<<>>)
  BY DEF Elements, Ascending

LEMMA OneElement ==
  ASSUME NEW l PROVE Elements(<<l>>) = {l} /\ Ascending(<<l>>)
  BY DEF Elements, Ascending

(* What a step of the queue does to its order.                             *)
LEMMA QueueTailOrder ==
  ASSUME ChannelTypeOK, FifoPerClient, toServer # <<>>,
         toServer' = Tail(toServer)
  PROVE  FifoPerClient' /\ \A c \in Clients : Lined(c)' \subseteq Lined(c)
<1>1. \A i \in DOMAIN Tail(toServer) :
         i \in Nat /\ i + 1 \in DOMAIN toServer
         /\ Tail(toServer)[i] = toServer[i + 1]
  BY TailElements DEF ChannelTypeOK
<1>2. QED
  BY <1>1 DEF FifoPerClient, Lined

LEMMA QueueAppendOrder ==
  ASSUME ChannelTypeOK, FifoPerClient, NEW m \in Message,
         toServer' = Append(toServer, m),
         m.method = "request" => Before(Lined(m.client), {m.lid})
  PROVE  /\ FifoPerClient'
         /\ \A c \in Clients : Lined(c)' \subseteq
               Lined(c) \cup {l \in {m.lid} : m.method = "request" /\ m.client = c}
<1>1. /\ toServer \in Seq(Message) /\ toServer' = Append(toServer, m)
      /\ DOMAIN toServer' = 1..(Len(toServer) + 1)
      /\ DOMAIN toServer = 1..Len(toServer)
      /\ Len(toServer) \in Nat
      /\ \A i \in DOMAIN toServer : toServer'[i] = toServer[i]
      /\ toServer'[Len(toServer) + 1] = m
  BY DEF ChannelTypeOK
<1>2. FifoPerClient'
  <2> SUFFICES ASSUME NEW i \in DOMAIN toServer', NEW j \in DOMAIN toServer',
                      i < j, toServer'[i].method = "request",
                      toServer'[j].method = "request",
                      toServer'[i].client = toServer'[j].client
               PROVE  toServer'[i].lid < toServer'[j].lid
    BY DEF FifoPerClient
  <2>1. i \in DOMAIN toServer
    BY <1>1
  <2>2. CASE j \in DOMAIN toServer
    BY <1>1, <2>1, <2>2 DEF FifoPerClient
  <2>3. CASE j = Len(toServer) + 1
    BY <1>1, <2>1, <2>3 DEF Before, Lined
  <2>4. QED
    BY <1>1, <2>2, <2>3
<1>3. QED
  BY <1>1, <1>2 DEF Lined

LEMMA NotificationOrder ==
  ASSUME ChannelTypeOK, FifoPerClient, NEW c \in Clients,
         NEW method \in {"initialized", "notification"},
         TrySend(NotificationOf(c, method))
  PROVE  FifoPerClient' /\ \A d \in Clients : Lined(d)' \subseteq Lined(d)
<1>1. CASE HasRoom /\ QueueOpen
  <2>1. NotificationOf(c, method) \in Message
        /\ NotificationOf(c, method).method # "request"
    BY DEF NotificationOf, Message, Notification
  <2>2. toServer' = Append(toServer, NotificationOf(c, method))
    BY <1>1 DEF TrySend
  <2>3. QED
    BY <2>1, <2>2, QueueAppendOrder
<1>2. CASE ~(HasRoom /\ QueueOpen)
  BY <1>2 DEF TrySend, FifoPerClient, Lined
<1>3. QED
  BY <1>1, <1>2

\* The numbers that Order speaks of.
LEMMA OrderTypes ==
  ASSUME TypeOK, NEW c \in Clients
  PROVE  /\ Lined(c) \subseteq Nat /\ InHand(c) \subseteq Nat
         /\ Elements(work[c]) \subseteq Nat /\ Elements(buffer[c]) \subseteq Nat
         /\ sent[c] \in Nat /\ work[c] \in Seq(Lids) /\ buffer[c] \in Seq(Lids)
<1>1. Lids \subseteq Nat
  BY BoundsAssumption DEF Lids
<1>2. work[c] \in Seq(Lids) /\ buffer[c] \in Seq(Lids) /\ sent[c] \in Nat
      /\ hand[c] \subseteq Request /\ toServer \in Seq(Message)
  BY BoundsAssumption DEF TypeOK, HandlerTypeOK, SharedTypeOK, ChannelTypeOK
<1>3. InHand(c) \subseteq Nat
  BY <1>1, <1>2 DEF InHand, Request
<1>4. Lined(c) \subseteq Nat
  <2>1. ASSUME NEW m \in Message PROVE m.lid \in Nat
    <3>1. CASE m \in Request
      BY <1>1, <3>1 DEF Request
    <3>2. CASE m \in Notification
      BY <3>2 DEF Notification
    <3>3. QED
      BY <3>1, <3>2 DEF Message
  <2>2. \A i \in DOMAIN toServer : toServer[i].lid \in Nat
    BY <1>2, <2>1
  <2>3. QED
    BY <2>2 DEF Lined
<1>5. ASSUME NEW s \in Seq(Lids) PROVE Elements(s) \subseteq Nat
  <2>1. \A i \in DOMAIN s : s[i] \in Lids
    OBVIOUS
  <2>2. QED
    BY <1>1, <2>1 DEF Elements
<1>6. QED
  BY <1>2, <1>3, <1>4, <1>5

\* Nothing about the connection grows.
LEMMA OrderKept ==
  ASSUME TypeOK, NEW c \in Clients, Order(c),
         Lined(c)' \subseteq Lined(c), hand'[c] = hand[c],
         work'[c] = work[c], buffer'[c] \in {buffer[c], <<>>},
         sent'[c] \in Nat, sent[c] <= sent'[c],
         Unmet(c)' /\ ~Unmet(c) => hand[c] = {},
         Unmet(c) /\ ~Unmet(c)' => buffer'[c] = <<>>,
         pc'[c] = "buffer" => pc[c] = "buffer" /\ (c \in complete' => c \in complete),
         pc[c] = "enqueue" => pc'[c] = "enqueue" \/ hand[c] = {}
  PROVE  Order(c)'
<1>1. InHand(c)' = InHand(c)
  BY DEF InHand
<1>2. Elements(work[c])' = Elements(work[c])
  BY DEF Elements
<1>3. Elements(buffer[c])' \subseteq Elements(buffer[c])
  BY NoElements DEF Elements
<1>4. Ascending(work[c])' /\ Ascending(buffer[c])'
  BY NoElements DEF Order, Ascending
<1>5. \A l \in Lined(c)' \cup InHand(c)' \cup Elements(work[c])'
                \cup Elements(buffer[c])' : l <= sent'[c]
  <2>1. \A l \in Nat : l <= sent[c] => l <= sent'[c]
    BY OrderTypes
  <2>2. QED
    BY <1>1, <1>2, <1>3, <2>1, OrderTypes DEF Order
<1>6. Before(Lined(c)', InHand(c)')
      /\ Before(Lined(c)' \cup InHand(c)', Elements(work[c])')
      /\ Before(Lined(c)', Elements(buffer[c])')
  BY <1>1, <1>2, <1>3 DEF Order, Before
<1>7. pc'[c] = "buffer" => /\ c \notin complete'
                           /\ Before(Elements(buffer[c])', Elements(work[c])')
  BY <1>2, <1>3 DEF Order, Before
<1>8. QED
  BY <1>4, <1>5, <1>6, <1>7 DEF Order, Before

LEMMA QueueKept ==
  ASSUME FifoPerClient, UNCHANGED toServer
  PROVE  FifoPerClient' /\ \A c \in Clients : Lined(c)' = Lined(c)
  BY DEF FifoPerClient, Lined

LEMMA OrderOfIdle ==
  ASSUME TypeOK, NEW c \in Clients, Gate(c), Order(c), FifoPerClient,
         \/ Connect(c) \/ Register(c) \/ RecvOversized(c) \/ RecvNotification(c)
         \/ RecvInitialized(c) \/ RecvInitializeCached(c) \/ Disconnect(c)
         \/ RecvMalformed(c) \/ WriterFails(c) \/ Announce(c)
         \/ HandshakeTimeout(c) \/ Leave(c)
  PROVE  /\ Order(c)' /\ FifoPerClient'
         /\ \A d \in Clients \ {c} : Lined(d)' \subseteq Lined(d)
<1>1. FifoPerClient' /\ \A d \in Clients : Lined(d)' \subseteq Lined(d)
  <2>1. CASE RecvNotification(c) \/ Announce(c)
    BY <2>1, NotificationOrder DEF RecvNotification, Announce, TypeOK
  <2>2. CASE UNCHANGED toServer
    BY <2>2, QueueKept
  <2>3. QED
    BY <2>1, <2>2
    DEF Connect, Register, RecvOversized, RecvInitialized,
        RecvInitializeCached, Disconnect, RecvMalformed, WriterFails,
        HandshakeTimeout, Leave, channelVars
<1>2. /\ hand' = hand /\ work' = work
      /\ sent'[c] \in {sent[c], sent[c] + 1}
      /\ pc'[c] # "buffer" \/ (pc' = pc /\ complete' \subseteq complete)
      /\ pc[c] # "enqueue" \/ pc' = pc
  BY DEF Connect, Register, RegisterClient, RecvOversized, RecvNotification,
         RecvInitialized, RecvInitializeCached, Disconnect, RecvMalformed,
         WriterFails, UnregisterClient, Announce, HandshakeTimeout, Leave,
         Reads, sharedVars, handlerVars, TypeOK, HandlerTypeOK
<1> DEFINE Kept == /\ Lined(c)' \subseteq Lined(c) /\ hand'[c] = hand[c]
                   /\ work'[c] = work[c]
                   /\ sent'[c] \in Nat /\ sent[c] <= sent'[c]
                   /\ pc'[c] = "buffer" => pc[c] = "buffer"
                         /\ (c \in complete' => c \in complete)
                   /\ pc[c] = "enqueue" => pc'[c] = "enqueue"
                   /\ buffer[c] # <<>> => Unmet(c)
                   /\ pc[c] # "enqueue" => hand[c] = {}
<1>3. Kept
  BY <1>1, <1>2, OrderTypes DEF Order
<1>4. CASE Leave(c) \/ WriterFails(c)
  <2>1. buffer'[c] = <<>> /\ c \notin clients'
    BY <1>4 DEF Leave, WriterFails, UnregisterClient, TypeOK, SharedTypeOK
  <2>2. ~Unmet(c)'
    BY <2>1 DEF Unmet
  <2>3. Order(c)'
    BY <1>3, <2>1, <2>2, OrderKept
  <2>4. QED
    BY <1>1, <2>3
<1>5. CASE Register(c)
  <2>1. pc[c] = "accepted" /\ buffer' = buffer /\ complete' = complete
        /\ clients' = clients \cup {c}
    BY <1>5 DEF Register, RegisterClient
  <2>2. hand[c] = {} /\ (Unmet(c) => Unmet(c)')
    BY <1>3, <2>1 DEF Unmet
  <2>3. Order(c)'
    BY <1>3, <2>1, <2>2, OrderKept
  <2>4. QED
    BY <1>1, <2>3
<1>6. CASE UNCHANGED <<clients, complete, buffer>>
  <2>1. Unmet(c)' <=> Unmet(c)
    BY <1>6 DEF Unmet
  <2>2. Order(c)'
    BY <1>3, <1>6, <2>1, OrderKept
  <2>3. QED
    BY <1>1, <2>2
<1>7. QED
  BY <1>4, <1>5, <1>6
  DEF Connect, RecvOversized, RecvNotification, RecvInitialized,
      RecvInitializeCached, Disconnect, RecvMalformed, Announce,
      HandshakeTimeout, sharedVars

LEMMA OrderOfInitialize ==
  ASSUME TypeOK, NEW c \in Clients, Gate(c), Order(c), RecvInitialize(c)
  PROVE  Order(c)'
<1>1. /\ pc[c] = "ready" /\ work[c] = <<>> /\ work' = work /\ buffer' = buffer
      /\ hand[c] = {} /\ clients' = clients /\ complete' = complete
      /\ UNCHANGED toServer /\ sent'[c] = sent[c] + 1
  BY DEF RecvInitialize, Reads, Gate, Order, TypeOK, HandlerTypeOK
<1>2. \/ pc'[c] = "ready" /\ hand' = hand
      \/ /\ pc'[c] = "enqueue"
         /\ hand'[c] = {NewRequest(c, "initialize", sent[c] + 1)}
  <2>1. \/ pc' = pc /\ hand' = hand
        \/ Admit(c, "initialize", sent[c] + 1, <<>>)
    BY DEF RecvInitialize
  <2>2. pc \in [Clients -> HandlerStates] /\ hand \in [Clients -> SUBSET Request]
    BY DEF TypeOK, HandlerTypeOK
  <2>3. QED
    BY <1>1, <2>1, <2>2 DEF Admit, After
<1>3. /\ InHand(c)' \subseteq {sent[c] + 1}
      /\ Lined(c)' = Lined(c)
      /\ Elements(work[c])' = {} /\ Ascending(work[c])'
      /\ Elements(buffer[c])' = Elements(buffer[c])
      /\ \A r \in hand'[c] : r.client = c /\ r.method # "request"
  BY <1>1, <1>2, NoElements DEF InHand, Lined, Elements, Ascending, NewRequest
<1>4. \A l \in Lined(c) \cup Elements(buffer[c]) : l \in Nat /\ l < sent[c] + 1
  BY OrderTypes DEF Order
<1>5. sent[c] + 1 \in Nat /\ sent[c] + 1 <= sent'[c]
  BY <1>1, OrderTypes
<1>6. \A l \in Lined(c) \cup Elements(buffer[c]) : l <= sent'[c]
  BY <1>1, <1>4, OrderTypes
<1>7. Before(Lined(c)', InHand(c)') /\ Before(Lined(c)', Elements(buffer[c])')
  BY <1>3, <1>4 DEF Order, Before
<1>8. Ascending(buffer[c])' /\ (buffer'[c] # <<>> => Unmet(c)')
  BY <1>1 DEF Order, Ascending, Unmet
<1>9. QED
  BY <1>1, <1>2, <1>3, <1>5, <1>6, <1>7, <1>8 DEF Order, Before

LEMMA OrderOfRequest ==
  ASSUME TypeOK, NEW c \in Clients, Gate(c), Order(c), RecvRequest(c)
  PROVE  Order(c)'
<1>1. /\ pc[c] = "ready" /\ buffer' = buffer /\ hand' = hand /\ hand[c] = {}
      /\ work'[c] = <<sent[c] + 1>> /\ sent'[c] = sent[c] + 1
      /\ clients' = clients /\ complete' = complete /\ UNCHANGED toServer
      /\ pc'[c] = IF c \in complete THEN "forward" ELSE "buffer"
  BY DEF RecvRequest, Reads, IsHandshakeComplete, Order, sharedVars,
         channelVars, TypeOK, HandlerTypeOK
<1>2. /\ InHand(c)' = {} /\ Lined(c)' = Lined(c)
      /\ Elements(work[c])' = {sent[c] + 1} /\ Ascending(work[c])'
      /\ Elements(buffer[c])' = Elements(buffer[c])
      /\ Ascending(buffer[c])'
  BY <1>1, OneElement DEF InHand, Lined, Elements, Ascending, Order
<1>3. /\ \A l \in Lined(c) \cup Elements(buffer[c]) :
            l <= sent'[c] /\ l < sent[c] + 1
      /\ sent[c] + 1 <= sent'[c]
  <2>1. \A l \in Lined(c) \cup Elements(buffer[c]) :
           l \in Nat /\ l <= sent[c]
    BY OrderTypes DEF Order
  <2>2. sent[c] \in Nat
    BY OrderTypes
  <2>3. QED
    BY <1>1, <2>1, <2>2
<1>4. Before(Lined(c)', InHand(c)') /\ Before(Lined(c)', Elements(buffer[c])')
      /\ Before(Lined(c)' \cup InHand(c)', Elements(work[c])')
      /\ Before(Elements(buffer[c])', Elements(work[c])')
  BY <1>2, <1>3 DEF Order, Before
<1>5. (buffer'[c] # <<>> => Unmet(c)') /\ hand'[c] = {}
      /\ (pc'[c] = "buffer" => c \notin complete')
  BY <1>1 DEF Order, Unmet
<1>6. QED
  BY <1>2, <1>3, <1>4, <1>5 DEF Order

LEMMA OrderOfBuffer ==
  ASSUME TypeOK, NEW c \in Clients, Gate(c), Order(c), BufferRequest(c)
  PROVE  Order(c)'
<1>1. /\ pc[c] = "buffer" /\ pc'[c] = "ready" /\ hand' = hand /\ hand[c] = {}
      /\ work'[c] = <<>> /\ sent' = sent /\ UNCHANGED toServer
      /\ clients' = clients /\ complete' = complete /\ c \notin complete
      /\ buffer'[c] = IF c \in clients THEN buffer[c] \o work[c] ELSE buffer[c]
  BY DEF BufferRequest, channelVars, Order, TypeOK, HandlerTypeOK, SharedTypeOK
<1>2. /\ Ascending(buffer[c])'
      /\ Elements(buffer[c])' \subseteq Elements(buffer[c]) \cup Elements(work[c])
  <2>1. /\ Ascending(buffer[c]) /\ Ascending(work[c])
        /\ Before(Elements(buffer[c]), Elements(work[c]))
    BY <1>1 DEF Order
  <2>2. /\ Ascending(buffer[c] \o work[c])
        /\ Elements(buffer[c] \o work[c])
              \subseteq Elements(buffer[c]) \cup Elements(work[c])
    BY <2>1, JoinOrder, OrderTypes
  <2>3. CASE c \in clients
    BY <1>1, <2>2, <2>3 DEF Ascending, Elements
  <2>4. CASE c \notin clients
    BY <1>1, <2>1, <2>4 DEF Ascending, Elements
  <2>5. QED
    BY <2>3, <2>4
<1>3. /\ InHand(c)' = {} /\ Lined(c)' = Lined(c)
      /\ Elements(work[c])' = {} /\ Ascending(work[c])'
  BY <1>1, NoElements DEF InHand, Lined, Elements, Ascending
<1>4. \A l \in Lined(c)' \cup Elements(buffer[c])' : l <= sent'[c]
  BY <1>1, <1>2, <1>3 DEF Order
<1>5. Before(Lined(c)', Elements(buffer[c])')
  <2>1. Before(Lined(c), Elements(work[c])) /\ Before(Lined(c), Elements(buffer[c]))
    BY DEF Order, Before
  <2>2. QED
    BY <1>2, <1>3, <2>1 DEF Before
<1>6. (buffer'[c] # <<>> => Unmet(c)') /\ hand'[c] = {} /\ pc'[c] # "buffer"
  BY <1>1 DEF Order, Unmet
<1>7. Before(Lined(c)', InHand(c)')
      /\ Before(Lined(c)' \cup InHand(c)', Elements(work[c])')
  BY <1>3 DEF Before
<1>8. QED
  BY <1>2, <1>3, <1>4, <1>5, <1>6, <1>7 DEF Order

LEMMA OrderOfComplete ==
  ASSUME TypeOK, NEW c \in Clients, Gate(c), Order(c), CompleteHandshake(c)
  PROVE  Order(c)'
<1>1. /\ pc[c] = "complete" /\ hand' = hand /\ hand[c] = {}
      /\ pc'[c] \notin {"buffer", "enqueue"}
      /\ buffer'[c] = <<>> /\ work'[c] = buffer[c]
      /\ sent' = sent /\ UNCHANGED toServer
  BY DEF CompleteHandshake, Buffered, After, channelVars, Order, TypeOK,
         HandlerTypeOK, SharedTypeOK
<1>2. /\ InHand(c)' = {} /\ Lined(c)' = Lined(c)
      /\ Elements(work[c])' = Elements(buffer[c]) /\ Ascending(work[c])'
      /\ Elements(buffer[c])' = {} /\ Ascending(buffer[c])'
  <2>1. Ascending(buffer[c])
    BY DEF Order
  <2>2. QED
    BY <1>1, <2>1, NoElements DEF InHand, Lined, Elements, Ascending
<1>3. \A l \in Lined(c)' \cup Elements(work[c])' : l <= sent'[c]
  BY <1>1, <1>2 DEF Order
<1>4. Before(Lined(c)' \cup InHand(c)', Elements(work[c])')
  <2>1. Before(Lined(c), Elements(buffer[c]))
    BY DEF Order
  <2>2. QED
    BY <1>2, <2>1 DEF Before
<1>5. Before(Lined(c)', InHand(c)') /\ Before(Lined(c)', Elements(buffer[c])')
  BY <1>2 DEF Before
<1>6. hand'[c] = {} /\ buffer'[c] = <<>> /\ pc'[c] # "buffer"
  BY <1>1
<1>7. QED
  BY <1>2, <1>3, <1>4, <1>5, <1>6 DEF Order

LEMMA OrderOfForward ==
  ASSUME TypeOK, NEW c \in Clients, Gate(c), Order(c), Forward(c)
  PROVE  Order(c)'
<1>1. /\ pc[c] = "forward" /\ work[c] # <<>> /\ ~Unmet(c) /\ hand[c] = {}
      /\ buffer[c] = <<>> /\ buffer' = buffer /\ sent' = sent
      /\ work'[c] = Tail(work[c]) /\ UNCHANGED toServer
      /\ clients' = clients /\ complete' = complete
  BY DEF Forward, Gate, Order, TypeOK, HandlerTypeOK
<1>2. \/ pc'[c] \notin {"buffer", "enqueue"} /\ hand' = hand
      \/ /\ pc'[c] = "enqueue"
         /\ hand'[c] = {NewRequest(c, "request", Head(work[c]))}
  <2>1. pc \in [Clients -> HandlerStates] /\ hand \in [Clients -> SUBSET Request]
    BY DEF TypeOK, HandlerTypeOK
  <2>2. Admit(c, "request", Head(work[c]), Tail(work[c]))
    BY DEF Forward
  <2>3. QED
    BY <2>1, <2>2 DEF Admit, After
<1>3. /\ Ascending(Tail(work[c]))
      /\ Elements(Tail(work[c])) \subseteq Elements(work[c])
      /\ Head(work[c]) \in Elements(work[c])
      /\ Before({Head(work[c])}, Elements(Tail(work[c])))
  <2>1. Ascending(work[c])
    BY DEF Order
  <2>2. QED
    BY <1>1, <2>1, TailOrder, OrderTypes
<1>4. /\ InHand(c)' \subseteq {Head(work[c])}
      /\ Lined(c)' = Lined(c)
      /\ Elements(work[c])' = Elements(Tail(work[c])) /\ Ascending(work[c])'
      /\ Elements(buffer[c])' = {} /\ Ascending(buffer[c])'
      /\ \A r \in hand'[c] : r.client = c
      /\ pc'[c] # "enqueue" => hand'[c] = {}
      /\ pc'[c] # "buffer"
  BY <1>1, <1>2, <1>3, NoElements
  DEF InHand, Lined, Elements, Ascending, NewRequest
<1>5. \A l \in Lined(c)' \cup InHand(c)' \cup Elements(work[c])' : l <= sent'[c]
  <2>1. \A l \in Lined(c) \cup Elements(work[c]) : l <= sent[c]
    BY DEF Order
  <2>2. QED
    BY <1>1, <1>3, <1>4, <2>1
<1>6. Before(Lined(c)', InHand(c)')
      /\ Before(Lined(c)' \cup InHand(c)', Elements(work[c])')
      /\ Before(Lined(c)', Elements(buffer[c])')
  <2>1. Before(Lined(c), Elements(work[c]))
    BY DEF Order, Before
  <2>2. QED
    BY <1>3, <1>4, <2>1 DEF Before
<1>7. ~Unmet(c)' /\ buffer'[c] = <<>>
  BY <1>1 DEF Unmet
<1>8. QED
  BY <1>4, <1>5, <1>6, <1>7 DEF Order

LEMMA OrderOfEnqueue ==
  ASSUME TypeOK, NEW c \in Clients, Gate(c), Order(c), FifoPerClient, Enqueue(c)
  PROVE  /\ Order(c)' /\ FifoPerClient'
         /\ \A d \in Clients \ {c} : Lined(d)' \subseteq Lined(d)
<1>1. PICK r \in hand[c] : toServer' = Append(toServer, r)
  BY DEF Enqueue
<1>2. /\ hand'[c] = {} /\ pc'[c] \notin {"buffer", "enqueue"}
      /\ work' = work /\ sent' = sent
      /\ clients' = clients /\ complete' = complete /\ buffer' = buffer
  BY DEF Enqueue, After, sharedVars, TypeOK, HandlerTypeOK
<1>3. /\ r \in Message /\ r.client = c /\ r.lid \in InHand(c)
      /\ r.method = "request" => buffer[c] = <<>>
  BY DEF Order, InHand, TypeOK, HandlerTypeOK, Message
<1>4. Before(Lined(c), InHand(c))
  BY DEF Order
<1>5. /\ FifoPerClient'
      /\ \A d \in Clients : Lined(d)' \subseteq
            Lined(d) \cup {l \in {r.lid} : r.method = "request" /\ r.client = d}
  <2>1. r.method = "request" => Before(Lined(r.client), {r.lid})
    BY <1>3, <1>4 DEF Before
  <2>2. ChannelTypeOK
    BY DEF TypeOK
  <2>3. QED
    BY <1>1, <1>3, <2>1, <2>2, QueueAppendOrder
<1>6. /\ Lined(c)' \subseteq Lined(c) \cup InHand(c)
      /\ r.method # "request" => Lined(c)' \subseteq Lined(c)
      /\ \A d \in Clients \ {c} : Lined(d)' \subseteq Lined(d)
  BY <1>3, <1>5
<1>7. /\ InHand(c)' = {}
      /\ Elements(work[c])' = Elements(work[c]) /\ Ascending(work[c])'
      /\ Elements(buffer[c])' = Elements(buffer[c]) /\ Ascending(buffer[c])'
  BY <1>2 DEF InHand, Elements, Ascending, Order
<1>8. \A l \in Lined(c)' \cup Elements(work[c])' \cup Elements(buffer[c])' :
         l <= sent'[c]
  BY <1>2, <1>6, <1>7 DEF Order
<1>9. Before(Lined(c)' \cup InHand(c)', Elements(work[c])')
  <2>1. Before(Lined(c) \cup InHand(c), Elements(work[c]))
    BY DEF Order
  <2>2. QED
    BY <1>6, <1>7, <2>1 DEF Before
<1>10. Before(Lined(c)', Elements(buffer[c])')
  <2>1. Before(Lined(c), Elements(buffer[c]))
    BY DEF Order
  <2>2. CASE r.method = "request"
    BY <1>3, <1>7, <2>2, NoElements DEF Before
  <2>3. CASE r.method # "request"
    BY <1>6, <1>7, <2>1, <2>3 DEF Before
  <2>4. QED
    BY <2>2, <2>3
<1>11. buffer'[c] # <<>> => Unmet(c)'
  BY <1>2 DEF Order, Unmet
<1>12. Before(Lined(c)', InHand(c)')
  BY <1>7 DEF Before
<1>13. Order(c)'
  BY <1>2, <1>7, <1>8, <1>9, <1>10, <1>11, <1>12 DEF Order
<1>14. QED
  BY <1>5, <1>6, <1>13

\* A request that is given up leaves the handler without joining the queue.
LEMMA OrderOfClosed ==
  ASSUME TypeOK, NEW c \in Clients, Order(c), FifoPerClient, EnqueueFails(c)
  PROVE  /\ Order(c)' /\ FifoPerClient'
         /\ \A d \in Clients \ {c} : Lined(d)' \subseteq Lined(d)
<1>1. /\ hand'[c] = {} /\ pc'[c] \notin {"buffer", "enqueue"}
      /\ UNCHANGED <<work, sent, toServer, clients, complete, buffer>>
  BY DEF EnqueueFails, After, sharedVars, channelVars, TypeOK, HandlerTypeOK
<1>2. FifoPerClient' /\ \A d \in Clients : Lined(d)' = Lined(d)
  BY <1>1, QueueKept
<1>3. InHand(c)' = {}
  BY <1>1 DEF InHand
<1>4. (Unmet(c)' <=> Unmet(c)) /\ Elements(work[c])' = Elements(work[c])
      /\ Elements(buffer[c])' = Elements(buffer[c])
      /\ Ascending(work[c])' /\ Ascending(buffer[c])'
  BY <1>1 DEF Unmet, Elements, Ascending, Order
<1>5. Order(c)'
  BY <1>1, <1>2, <1>3, <1>4 DEF Order, Before
<1>6. QED
  BY <1>2, <1>5

LEMMA OrderOfHandler ==
  ASSUME TypeOK, NEW c \in Clients, Gate(c), Order(c), FifoPerClient,
         HandlerNext(c)
  PROVE  /\ Order(c)' /\ FifoPerClient'
         /\ \A d \in Clients \ {c} : Lined(d)' \subseteq Lined(d)
<1>1. CASE \/ RecvInitialize(c) \/ RecvRequest(c) \/ BufferRequest(c)
           \/ CompleteHandshake(c) \/ Forward(c)
  <2>1. UNCHANGED toServer
    BY <1>1 DEF RecvInitialize, RecvRequest, BufferRequest, CompleteHandshake,
                Forward, channelVars
  <2>2. Order(c)'
    BY <1>1, OrderOfInitialize, OrderOfRequest, OrderOfBuffer, OrderOfComplete,
       OrderOfForward
  <2>3. QED
    BY <2>1, <2>2, QueueKept
<1>2. CASE Enqueue(c)
  BY <1>2, OrderOfEnqueue
<1>3. CASE EnqueueFails(c)
  BY <1>3, OrderOfClosed
<1>4. QED
  BY <1>1, <1>2, <1>3, OrderOfIdle DEF HandlerNext, HandlerProceeds

\* A step that touches no connection and takes from the queue at most.
LEMMA OrderOfOthers ==
  ASSUME TypeOK, OrderInv, RouterNext \/ ReaperNext \/ ManagerNext \/ UNCHANGED vars
  PROVE  OrderInv'
<1>1. \/ UNCHANGED toServer
      \/ toServer # <<>> /\ toServer' = Tail(toServer)
      \/ toServer' = <<>>
  BY DEF RouterNext, RouteResponse, CacheInitialize, DeliverResponse,
         ResetState, ReaperNext, Expire, AnswerExpired, ManagerNext,
         ManagerProceeds, Spawn, WriteToChild, WriteFails, ChildStops,
         ChildAnswers, SendReset, ClearCache,
         TakeFirst, GiveUp, Return, SpawnFails,
         ManagerReturns, WriteFirst, FirstWriteFails, channelVars, vars
<1>2. FifoPerClient' /\ \A c \in Clients : Lined(c)' \subseteq Lined(c)
  <2>1. CASE toServer' = <<>>
    BY <2>1 DEF FifoPerClient, Lined
  <2>2. QED
    BY <1>1, <2>1, QueueKept, QueueTailOrder DEF OrderInv, TypeOK
<1>3. ASSUME NEW c \in Clients PROVE Order(c)'
  <2>1. UNCHANGED <<pc, work, hand, sent, clients, complete, buffer>>
    BY OtherTasks DEF handlerVars
  <2>2. Unmet(c)' <=> Unmet(c)
    BY <2>1 DEF Unmet
  <2>3. Order(c) /\ sent[c] \in Nat
    BY OrderTypes DEF OrderInv
  <2>4. sent[c] <= sent'[c] /\ sent'[c] \in Nat
    BY <2>1, <2>3
  <2>5. QED
    BY <1>2, <2>1, <2>2, <2>3, <2>4, OrderKept
<1>4. QED
  BY <1>2, <1>3 DEF OrderInv

LEMMA OrderStep == TypeOK /\ GateInv /\ OrderInv /\ [Next]_vars => OrderInv'
<1> SUFFICES ASSUME TypeOK, GateInv, OrderInv, [Next]_vars
             PROVE  OrderInv'
  OBVIOUS
<1>1. ASSUME NEW c \in Clients, HandlerNext(c) PROVE OrderInv'
  <2>1. Gate(c) /\ Order(c) /\ FifoPerClient
    BY DEF GateInv, OrderInv
  <2>2. /\ Order(c)' /\ FifoPerClient'
        /\ \A d \in Clients \ {c} : Lined(d)' \subseteq Lined(d)
    BY <1>1, <2>1, OrderOfHandler
  <2>3. ASSUME NEW d \in Clients, d # c PROVE Order(d)'
    <3>1. /\ pc'[d] = pc[d] /\ work'[d] = work[d] /\ hand'[d] = hand[d]
          /\ buffer'[d] = buffer[d] /\ sent'[d] = sent[d]
          /\ d \in clients' <=> d \in clients
          /\ d \in complete' <=> d \in complete
      BY <1>1, <2>3, OtherClients
    <3>2. Unmet(d)' <=> Unmet(d)
      BY <3>1 DEF Unmet
    <3>3. Order(d) /\ sent[d] \in Nat
      BY OrderTypes DEF OrderInv
    <3>4. sent[d] <= sent'[d] /\ sent'[d] \in Nat
      BY <3>1, <3>3
    <3>5. Lined(d)' \subseteq Lined(d)
      BY <2>2, <2>3
    <3>6. QED
      BY <3>1, <3>2, <3>3, <3>4, <3>5, OrderKept
  <2>4. QED
    BY <2>2, <2>3 DEF OrderInv
<1>2. CASE RouterNext \/ ReaperNext \/ ManagerNext \/ UNCHANGED vars
  BY <1>2, OrderOfOthers
<1>3. QED
  BY <1>1, <1>2 DEF Next

LEMMA OrderInit == Init => OrderInv
<1> SUFFICES ASSUME Init PROVE OrderInv
  OBVIOUS
<1>1. toServer = <<>>
  BY DEF Init, ChannelInit
<1>2. ASSUME NEW c \in Clients PROVE Order(c)
  <2>1. /\ work[c] = <<>> /\ buffer[c] = <<>> /\ hand[c] = {} /\ sent[c] = 0
        /\ pc[c] = "absent"
    BY DEF Init, SharedInit, HandlerInit
  <2>2. /\ Lined(c) = {} /\ InHand(c) = {} /\ Elements(work[c]) = {}
        /\ Elements(buffer[c]) = {} /\ Ascending(work[c]) /\ Ascending(buffer[c])
    BY <1>1, <2>1, NoElements DEF Lined, InHand
  <2>3. QED
    BY <2>1, <2>2 DEF Order, Before
<1>3. QED
  BY <1>1, <1>2 DEF OrderInv, FifoPerClient

(* The requests of a client reach the queue to the child in the order it   *)
(* sent them, those buffered before the handshake first, for any number of *)
(* clients, any queue and over restarts (handle_client_message).           *)
THEOREM FifoCorrect == Spec => []FifoPerClient
<1>1. OrderInv => FifoPerClient
  BY DEF OrderInv
<1>2. QED
  BY <1>1, GateInit, GateStep, OrderInit, OrderStep, TypeCorrect, PTL DEF Spec

-----------------------------------------------------------------------------
Places == {"pending", "waiting", "reaped", "routing", "work", "buffer",
           "answered"}

\* The addresses of the requests that are at a place.
Where(place) ==
    CASE place = "pending" -> {AddressOf(p) : p \in pending}
      [] place = "waiting" -> initWaiting
      [] place = "reaped" -> {AddressOf(p) : p \in reaped}
      [] place = "routing" -> {AddressOf(r.entry) : r \in routing}
      [] place = "work" ->
            {a \in Address : \E i \in DOMAIN work[a.client] :
                                work[a.client][i] = a.lid}
      [] place = "buffer" ->
            {a \in Address : \E i \in DOMAIN buffer[a.client] :
                                buffer[a.client][i] = a.lid}
      [] place = "answered" ->
            {a \in Address : inbox[a.client][a.lid] # <<>>}

\* No request is at two places.
Apart == \A h, g \in Places : h # g => Where(h) \cap Where(g) = {}

\* What is anywhere was read from the socket before.
Read == \A h \in Places : \A a \in Where(h) : a.lid <= sent[a.client]

Distinct(s) == \A i, j \in DOMAIN s : s[i] = s[j] => i = j
\* No request is twice at one place.
Single ==
    /\ \A p, q \in pending : AddressOf(p) = AddressOf(q) => p = q
    /\ \A c \in Clients : Distinct(work[c]) /\ Distinct(buffer[c])

AnswerInv == AtMostOneAnswer /\ Apart /\ Read /\ Single

-----------------------------------------------------------------------------
(* The addresses in X go to a place, from wherever they were.              *)
Moves(X, to) ==
    \A h \in Places :
        Where(h)' \subseteq IF h = to THEN Where(h) \cup X ELSE Where(h) \ X

LEMMA MovesKeepApart ==
  ASSUME Apart, NEW X, NEW to \in Places, Moves(X, to)
  PROVE  Apart'
  BY DEF Apart, Moves

LEMMA MovesKeepRead ==
  ASSUME Read, NEW X, NEW to \in Places, Moves(X, to), TypeOK, TypeOK',
         \A a \in X : a.lid <= sent'[a.client],
         \A h \in Places : Where(h) \subseteq Address,
         \A c \in Clients : sent[c] <= sent'[c]
  PROVE  Read'
<1> SUFFICES ASSUME NEW h \in Places, NEW a \in Where(h)'
             PROVE  a.lid <= sent'[a.client]
  BY DEF Read
<1>1. CASE a \in X
  BY <1>1
<1>2. CASE a \in Where(h)
  <2>1. a.client \in Clients /\ a.lid \in Int
    BY <1>2, BoundsAssumption DEF Address, Lids
  <2>2. sent[a.client] \in Int /\ sent'[a.client] \in Int
    BY <2>1, BoundsAssumption DEF TypeOK, HandlerTypeOK
  <2>3. QED
    BY <1>2, <2>1, <2>2 DEF Read
<1>3. QED
  BY <1>1, <1>2 DEF Moves

LEMMA WhereType == TypeOK => \A h \in Places : Where(h) \subseteq Address
<1> SUFFICES ASSUME TypeOK, NEW h \in Places PROVE Where(h) \subseteq Address
  OBVIOUS
<1>1. \A p \in pending \cup reaped : AddressOf(p) \in Address
  BY AddressType DEF TypeOK, SharedTypeOK, TaskTypeOK
<1>2. \A r \in routing : AddressOf(r.entry) \in Address
  BY AddressType DEF TypeOK, TaskTypeOK, Routed
<1>3. initWaiting \subseteq Address
  BY DEF TypeOK, SharedTypeOK
<1>4. QED
  BY <1>1, <1>2, <1>3 DEF Where, Places

(* A place changes only with the variable that makes it up.                *)
LEMMA WhereKept ==
  /\ UNCHANGED pending => Where("pending")' = Where("pending")
  /\ UNCHANGED initWaiting => Where("waiting")' = Where("waiting")
  /\ UNCHANGED reaped => Where("reaped")' = Where("reaped")
  /\ UNCHANGED routing => Where("routing")' = Where("routing")
  /\ UNCHANGED work => Where("work")' = Where("work")
  /\ UNCHANGED buffer => Where("buffer")' = Where("buffer")
  /\ UNCHANGED inbox => Where("answered")' = Where("answered")
  BY DEF Where

(* Answering every address of a set moves them to the inboxes.             *)
LEMMA SendAllAnswers ==
  ASSUME TypeOK, AtMostOneAnswer, NEW S,
         NEW kind \in {"result", "initialize", "error"}, SendAll(S, kind)
  PROVE  /\ Where("answered")' \subseteq Where("answered") \cup S
         /\ S \cap Where("answered") = {} => AtMostOneAnswer'
<1>1. \A c \in Clients, l \in Lids :
         \/ inbox'[c][l] = inbox[c][l]
         \/ /\ [client |-> c, lid |-> l] \in S
            /\ inbox'[c][l] = Append(inbox[c][l],
                  [kind |-> kind, of |-> [client |-> c, lid |-> l]])
  BY DEF SendAll
<1>2. \A a \in Address : /\ a.client \in Clients /\ a.lid \in Lids
                         /\ a = [client |-> a.client, lid |-> a.lid]
  BY DEF Address
<1>3. Where("answered")' \subseteq Where("answered") \cup S
  <2>1. \A c \in Clients, l \in Lids :
           inbox'[c][l] = inbox[c][l] \/ [client |-> c, lid |-> l] \in S
    BY <1>1
  <2>2. QED
    BY <1>2, <2>1 DEF Where
<1>4. ASSUME S \cap Where("answered") = {}, NEW c \in Clients, NEW l \in Lids
      PROVE  Len(inbox'[c][l]) <= 1
  <2> DEFINE answer == [kind |-> kind, of |-> [client |-> c, lid |-> l]]
  <2>1. CASE inbox'[c][l] = inbox[c][l]
    BY <2>1 DEF AtMostOneAnswer
  <2>2. CASE /\ [client |-> c, lid |-> l] \in S
             /\ inbox'[c][l] = Append(inbox[c][l], answer)
    <3>1. [client |-> c, lid |-> l] \in Address
      BY DEF Address
    <3>2. inbox[c][l] = <<>>
      BY <1>4, <2>2, <3>1 DEF Where
    <3> HIDE DEF answer
    <3>3. Len(Append(<<>>, answer)) = 1
      OBVIOUS
    <3>4. QED
      BY <2>2, <3>2, <3>3
  <2>3. QED
    BY <1>1, <2>1, <2>2
<1>5. QED
  BY <1>3, <1>4 DEF AtMostOneAnswer

LEMMA SendToAnswers ==
  ASSUME TypeOK, AtMostOneAnswer, NEW to \in Address,
         NEW answer \in Answer, SendTo(to, answer)
  PROVE  /\ Where("answered")' \subseteq Where("answered") \cup {to}
         /\ to \notin Where("answered") => AtMostOneAnswer'
<1>1. /\ inbox \in [Clients -> [Lids -> Seq(Answer)]]
      /\ to.client \in Clients /\ to.lid \in Lids
      /\ to = [client |-> to.client, lid |-> to.lid]
  BY DEF TypeOK, ChannelTypeOK, Address
<1>2. \A c \in Clients, l \in Lids :
         \/ inbox'[c][l] = inbox[c][l]
         \/ /\ to = [client |-> c, lid |-> l]
            /\ inbox'[c][l] = Append(inbox[c][l], answer)
  BY <1>1 DEF SendTo
<1>3. \A a \in Address : /\ a.client \in Clients /\ a.lid \in Lids
                         /\ a = [client |-> a.client, lid |-> a.lid]
  BY DEF Address
<1>4. Where("answered")' \subseteq Where("answered") \cup {to}
  BY <1>2, <1>3 DEF Where
<1>5. ASSUME to \notin Where("answered"), NEW c \in Clients, NEW l \in Lids
      PROVE  Len(inbox'[c][l]) <= 1
  <2>1. CASE inbox'[c][l] = inbox[c][l]
    BY <2>1 DEF AtMostOneAnswer
  <2>2. CASE /\ to = [client |-> c, lid |-> l]
             /\ inbox'[c][l] = Append(inbox[c][l], answer)
    <3>1. inbox[c][l] = <<>>
      BY <1>5, <2>2 DEF Where
    <3>2. Len(Append(<<>>, answer)) = 1
      OBVIOUS
    <3>3. QED
      BY <2>2, <3>1, <3>2
  <2>3. QED
    BY <1>2, <2>1, <2>2
<1>6. QED
  BY <1>4, <1>5 DEF AtMostOneAnswer

LEMMA SingleKept ==
  UNCHANGED <<pending, work, buffer>> /\ Single => Single'
  BY DEF Single, Distinct

LEMMA AnswersKept ==
  UNCHANGED inbox /\ AtMostOneAnswer => AtMostOneAnswer'
  BY DEF AtMostOneAnswer

LEMMA Finish ==
  ASSUME TypeOK, TypeOK', AnswerInv, NEW X, NEW to \in Places, Moves(X, to),
         \A a \in X : a.lid <= sent'[a.client],
         \A c \in Clients : sent[c] <= sent'[c],
         AtMostOneAnswer', Single'
  PROVE  AnswerInv'
<1>1. Apart'
  BY MovesKeepApart DEF AnswerInv
<1>2. Read'
  BY MovesKeepRead, WhereType DEF AnswerInv
<1>3. QED
  BY <1>1, <1>2 DEF AnswerInv

LEMMA Quiet ==
  ASSUME AnswerInv, UNCHANGED <<pending, initWaiting, reaped, routing, work,
                                buffer, inbox, sent>>
  PROVE  AnswerInv'
<1>1. \A h \in Places : Where(h)' = Where(h)
  BY WhereKept DEF Places
<1>2. Apart' /\ Read'
  BY <1>1 DEF AnswerInv, Apart, Read
<1>3. QED
  BY <1>2, SingleKept, AnswersKept DEF AnswerInv

(* The request a handler reads is nowhere yet.                             *)
LEMMA Fresh ==
  ASSUME TypeOK, Read, NEW c \in Clients, Reads(c)
  PROVE  /\ \A h \in Places : [client |-> c, lid |-> sent[c] + 1] \notin Where(h)
         /\ [client |-> c, lid |-> sent[c] + 1] \in Address
         /\ sent'[c] = sent[c] + 1
         /\ \A d \in Clients : sent[d] <= sent'[d]
<1>1. sent \in [Clients -> 0..MaxReqs] /\ MaxReqs \in Nat
  BY BoundsAssumption DEF TypeOK, HandlerTypeOK
<1>2. \A h \in Places : [client |-> c, lid |-> sent[c] + 1] \notin Where(h)
  <2> SUFFICES ASSUME NEW h \in Places,
                      [client |-> c, lid |-> sent[c] + 1] \in Where(h)
               PROVE  FALSE
    OBVIOUS
  <2>1. sent[c] + 1 <= sent[c]
    BY DEF Read
  <2>2. QED
    BY <1>1, <2>1
<1>3. QED
  BY <1>1, <1>2 DEF Reads, Address, Lids

LEMMA SentKept ==
  ASSUME TypeOK, UNCHANGED sent
  PROVE  \A c \in Clients : sent[c] <= sent'[c]
  BY BoundsAssumption DEF TypeOK, HandlerTypeOK

-----------------------------------------------------------------------------
(* The handler.                                                            *)

LEMMA OversizedAnswers ==
  ASSUME TypeOK, TypeOK', AnswerInv, NEW c \in Clients, RecvOversized(c)
  PROVE  AnswerInv'
<1> DEFINE a == [client |-> c, lid |-> sent[c] + 1]
<1>1. Reads(c) /\ SendAll({a}, "error")
      /\ UNCHANGED <<pending, initWaiting, reaped, routing, work, buffer>>
  BY DEF RecvOversized, SendError, sharedVars, taskVars
<1>2. /\ \A h \in Places : a \notin Where(h)
      /\ sent'[c] = sent[c] + 1
      /\ \A d \in Clients : sent[d] <= sent'[d]
  BY <1>1, Fresh DEF AnswerInv
<1>3. a.client = c /\ a.lid = sent[c] + 1
  OBVIOUS
<1> HIDE DEF a
<1>4. /\ Where("answered")' \subseteq Where("answered") \cup {a}
      /\ AtMostOneAnswer'
  BY <1>1, <1>2, SendAllAnswers DEF AnswerInv, Places
<1>5. Moves({a}, "answered")
  BY <1>1, <1>2, <1>4, WhereKept DEF Moves, Places
<1>6. a.lid <= sent'[a.client]
  BY <1>2, <1>3, BoundsAssumption DEF TypeOK, HandlerTypeOK
<1>7. QED
  BY <1>1, <1>2, <1>4, <1>5, <1>6, Finish, SingleKept DEF AnswerInv, Places

LEMMA CachedAnswers ==
  ASSUME TypeOK, TypeOK', AnswerInv, NEW c \in Clients,
         RecvInitializeCached(c)
  PROVE  AnswerInv'
<1> DEFINE a == [client |-> c, lid |-> sent[c] + 1]
           answer == [kind |-> "initialize", of |-> a]
<1>1. Reads(c) /\ SendTo(a, answer)
      /\ UNCHANGED <<pending, initWaiting, reaped, routing, work, buffer>>
  BY DEF RecvInitializeCached, sharedVars, taskVars
<1>2. /\ \A h \in Places : a \notin Where(h)
      /\ a \in Address
      /\ sent'[c] = sent[c] + 1
      /\ \A d \in Clients : sent[d] <= sent'[d]
  BY <1>1, Fresh DEF AnswerInv
<1>3. a.client = c /\ a.lid = sent[c] + 1
  OBVIOUS
<1>4. answer \in Answer
  BY <1>2 DEF Answer
<1> HIDE DEF a, answer
<1>5. /\ Where("answered")' \subseteq Where("answered") \cup {a}
      /\ AtMostOneAnswer'
  BY <1>1, <1>2, <1>4, SendToAnswers DEF AnswerInv, Places
<1>6. Moves({a}, "answered")
  BY <1>1, <1>2, <1>5, WhereKept DEF Moves, Places
<1>7. a.lid <= sent'[a.client]
  BY <1>2, <1>3, BoundsAssumption DEF TypeOK, HandlerTypeOK
<1>8. QED
  BY <1>1, <1>2, <1>5, <1>6, <1>7, Finish, SingleKept DEF AnswerInv, Places

(* What the admission check does with a request that is nowhere but among  *)
(* the work of its handler.                                                *)
LEMMA AdmitAnswers ==
  ASSUME TypeOK, TypeOK', AnswerInv, NEW c \in Clients, NEW l \in Lids,
         NEW method \in {"request", "initialize"}, NEW rest,
         Admit(c, method, l, rest),
         UNCHANGED <<initWaiting, reaped, routing, buffer>>,
         \A h \in Places \ {"work"} : [client |-> c, lid |-> l] \notin Where(h),
         Where("work")' \subseteq Where("work") \ {[client |-> c, lid |-> l]},
         l <= sent'[c],
         \A d \in Clients : sent[d] <= sent'[d],
         \A d \in Clients : Distinct(work'[d])
  PROVE  AnswerInv'
<1> DEFINE a == [client |-> c, lid |-> l]
           r == NewRequest(c, method, l)
<1>1. a.client = c /\ a.lid = l /\ AddressOf(r) = a
  BY DEF AddressOf, NewRequest
<1>2. CASE UNCHANGED pending /\ SendAll({a}, "error")
  <2> HIDE DEF a, r
  <2>1. /\ Where("answered")' \subseteq Where("answered") \cup {a}
        /\ AtMostOneAnswer'
    BY <1>2, SendAllAnswers DEF AnswerInv, Places, a
  <2>2. Moves({a}, "answered")
    BY <1>2, <2>1, WhereKept DEF Moves, Places, a
  <2>3. Single'
    BY <1>2 DEF AnswerInv, Single
  <2>4. QED
    BY <1>1, <2>1, <2>2, <2>3, Finish DEF AnswerInv, Places
<1>3. CASE pending' = pending \cup {r} /\ UNCHANGED inbox
  <2> HIDE DEF a, r
  <2>1. Where("pending")' \subseteq Where("pending") \cup {a}
    BY <1>1, <1>3 DEF Where
  <2>2. Moves({a}, "pending")
    BY <1>3, <2>1, WhereKept DEF Moves, Places, a
  <2>3. Single'
    <3>1. a \notin Where("pending")
      BY DEF Places, a
    <3>2. \A p \in pending : AddressOf(p) # a
      BY <3>1 DEF Where
    <3>3. QED
      BY <1>1, <1>3, <3>2 DEF AnswerInv, Single
  <2>4. QED
    BY <1>1, <1>3, <2>2, <2>3, Finish, AnswersKept DEF AnswerInv, Places
<1>4. QED
  BY <1>2, <1>3 DEF Admit, SendError

LEMMA InitializeAnswers ==
  ASSUME TypeOK, TypeOK', AnswerInv, NEW c \in Clients, RecvInitialize(c)
  PROVE  AnswerInv'
<1> DEFINE a == [client |-> c, lid |-> sent[c] + 1]
<1>1. Reads(c) /\ UNCHANGED <<reaped, routing, work, buffer>>
  BY DEF RecvInitialize, taskVars
<1>2. /\ \A h \in Places : a \notin Where(h)
      /\ a \in Address
      /\ sent'[c] = sent[c] + 1
      /\ \A d \in Clients : sent[d] <= sent'[d]
  BY <1>1, Fresh DEF AnswerInv
<1>3. a.client = c /\ a.lid = sent[c] + 1 /\ sent[c] + 1 \in Lids
  BY <1>2 DEF Address
<1>4. CASE /\ initWaiting' = initWaiting \cup {a}
           /\ UNCHANGED <<pending, inbox>>
  <2> HIDE DEF a
  <2>1. Where("waiting")' \subseteq Where("waiting") \cup {a}
    BY <1>4 DEF Where
  <2>2. Moves({a}, "waiting")
    BY <1>1, <1>2, <1>4, <2>1, WhereKept DEF Moves, Places
  <2>3. a.lid <= sent'[a.client]
    BY <1>2, <1>3, BoundsAssumption DEF TypeOK, HandlerTypeOK
  <2>4. QED
    BY <1>1, <1>2, <1>4, <2>2, <2>3, Finish, SingleKept, AnswersKept
    DEF AnswerInv, Places
<1>5. CASE /\ Admit(c, "initialize", sent[c] + 1, <<>>)
           /\ UNCHANGED initWaiting
  <2>1. sent[c] + 1 <= sent'[c]
    BY <1>2, <1>3, BoundsAssumption DEF Lids
  <2>2. Where("work")' \subseteq Where("work") \ {a}
    BY <1>1, <1>2, WhereKept DEF Places
  <2>3. \A d \in Clients : Distinct(work'[d])
    BY <1>1 DEF AnswerInv, Single
  <2>4. QED
    BY <1>1, <1>2, <1>3, <1>5, <2>1, <2>2, <2>3, AdmitAnswers
<1>6. QED
  BY <1>4, <1>5 DEF RecvInitialize

LEMMA ForwardAnswers ==
  ASSUME TypeOK, TypeOK', AnswerInv, NEW c \in Clients, Forward(c)
  PROVE  AnswerInv'
<1> DEFINE l == Head(work[c])
           a == [client |-> c, lid |-> l]
<1>1. /\ work \in [Clients -> Seq(Lids)] /\ work[c] # <<>>
      /\ work' = [work EXCEPT ![c] = Tail(@)]
      /\ Admit(c, "request", l, Tail(work[c]))
      /\ UNCHANGED <<initWaiting, reaped, routing, buffer, sent>>
  BY DEF Forward, TypeOK, HandlerTypeOK, taskVars
<1>2. /\ 1 \in DOMAIN work[c] /\ l = work[c][1] /\ l \in Lids
      /\ \A i \in DOMAIN Tail(work[c]) :
            i + 1 \in DOMAIN work[c] /\ Tail(work[c])[i] = work[c][i + 1]
            /\ i \in Nat \ {0}
  BY <1>1
<1>3. work'[c] = Tail(work[c]) /\ \A d \in Clients \ {c} : work'[d] = work[d]
  BY <1>1
<1>4. Distinct(work[c])
  BY DEF AnswerInv, Single
<1>5. \A d \in Clients : Distinct(work'[d])
  <2>1. Distinct(Tail(work[c]))
    BY <1>2, <1>4 DEF Distinct
  <2>2. QED
    BY <1>3, <2>1 DEF AnswerInv, Single
<1>6. a \in Where("work")
  BY <1>2 DEF Where, Address
<1>7. \A h \in Places \ {"work"} : a \notin Where(h)
  BY <1>6 DEF AnswerInv, Apart, Places
<1>8. Where("work")' \subseteq Where("work") \ {a}
  <2> SUFFICES ASSUME NEW b \in Address,
                      NEW i \in DOMAIN work'[b.client],
                      work'[b.client][i] = b.lid
               PROVE  b # a /\ \E j \in DOMAIN work[b.client] :
                                  work[b.client][j] = b.lid
    BY DEF Where
  <2>1. CASE b.client = c
    <3> HIDE DEF l
    <3>1. i \in DOMAIN Tail(work[c]) /\ Tail(work[c])[i] = b.lid
      BY <1>3, <2>1
    <3>2. work[c][i + 1] = b.lid /\ i + 1 \in DOMAIN work[c] /\ i + 1 # 1
      BY <1>2, <3>1
    <3>3. b.lid # l
      BY <1>2, <1>4, <3>2 DEF Distinct
    <3>4. QED
      BY <2>1, <3>2, <3>3
  <2>2. CASE b.client # c
    BY <1>3, <2>2 DEF Address
  <2>3. QED
    BY <2>1, <2>2
<1>9. l <= sent'[c]
  BY <1>1, <1>6 DEF AnswerInv, Read, Places
<1>10. QED
  BY <1>1, <1>2, <1>5, <1>7, <1>8, <1>9, SentKept, AdmitAnswers

LEMMA RequestAnswers ==
  ASSUME TypeOK, TypeOK', AnswerInv, NEW c \in Clients, RecvRequest(c)
  PROVE  AnswerInv'
<1> DEFINE a == [client |-> c, lid |-> sent[c] + 1]
<1>1. /\ Reads(c) /\ work' = [work EXCEPT ![c] = <<sent[c] + 1>>]
      /\ UNCHANGED <<pending, initWaiting, reaped, routing, buffer, inbox>>
  BY DEF RecvRequest, sharedVars, taskVars, channelVars
<1>2. /\ \A h \in Places : a \notin Where(h)
      /\ sent'[c] = sent[c] + 1
      /\ \A d \in Clients : sent[d] <= sent'[d]
  BY <1>1, Fresh DEF AnswerInv
<1>3. a.client = c /\ a.lid = sent[c] + 1
  OBVIOUS
<1>4. work'[c] = <<sent[c] + 1>> /\ \A d \in Clients \ {c} : work'[d] = work[d]
  BY <1>1 DEF TypeOK, HandlerTypeOK
<1>5. Where("work")' \subseteq Where("work") \cup {a}
  <2> SUFFICES ASSUME NEW b \in Address,
                      NEW i \in DOMAIN work'[b.client],
                      work'[b.client][i] = b.lid
               PROVE  b = a \/ \E j \in DOMAIN work[b.client] :
                                  work[b.client][j] = b.lid
    BY DEF Where
  <2>1. CASE b.client = c
    BY <1>4, <2>1 DEF Address
  <2>2. CASE b.client # c
    BY <1>4, <2>2 DEF Address
  <2>3. QED
    BY <2>1, <2>2
<1>6. Single'
  <2>1. Distinct(<<sent[c] + 1>>)
    BY DEF Distinct
  <2>2. QED
    BY <1>1, <1>4, <2>1 DEF AnswerInv, Single
<1> HIDE DEF a
<1>7. Moves({a}, "work")
  BY <1>1, <1>2, <1>5, WhereKept DEF Moves, Places
<1>8. a.lid <= sent'[a.client]
  BY <1>2, <1>3, BoundsAssumption DEF TypeOK, HandlerTypeOK
<1>9. QED
  BY <1>1, <1>2, <1>6, <1>7, <1>8, Finish, AnswersKept DEF AnswerInv, Places

LEMMA BufferAnswers ==
  ASSUME TypeOK, TypeOK', AnswerInv, NEW c \in Clients, BufferRequest(c)
  PROVE  AnswerInv'
<1> DEFINE X == {a \in Where("work") : a.client = c}
<1>1. /\ work \in [Clients -> Seq(Lids)] /\ buffer \in [Clients -> Seq(Lids)]
      /\ work' = [work EXCEPT ![c] = <<>>]
      /\ buffer' = buffer \/ buffer' = [buffer EXCEPT ![c] = @ \o work[c]]
      /\ UNCHANGED <<pending, initWaiting, reaped, routing, inbox, sent>>
  BY DEF BufferRequest, TypeOK, SharedTypeOK, HandlerTypeOK, taskVars,
         channelVars
<1>2. /\ work'[c] = <<>> /\ \A d \in Clients \ {c} : work'[d] = work[d]
      /\ \A d \in Clients \ {c} : buffer'[d] = buffer[d]
      /\ buffer'[c] = buffer[c] \/ buffer'[c] = buffer[c] \o work[c]
  BY <1>1
<1>3. \A i \in DOMAIN (buffer[c] \o work[c]) :
         \/ /\ i \in DOMAIN buffer[c]
            /\ (buffer[c] \o work[c])[i] = buffer[c][i]
         \/ /\ i \notin DOMAIN buffer[c] /\ i - Len(buffer[c]) \in DOMAIN work[c]
            /\ (buffer[c] \o work[c])[i] = work[c][i - Len(buffer[c])]
            /\ i \in Nat
  BY <1>1
<1>4. Where("work")' \subseteq Where("work") \ X
  <2> SUFFICES ASSUME NEW b \in Address,
                      NEW i \in DOMAIN work'[b.client],
                      work'[b.client][i] = b.lid
               PROVE  b.client # c /\ \E j \in DOMAIN work[b.client] :
                                         work[b.client][j] = b.lid
    BY DEF Where
  <2>1. b.client # c
    BY <1>2
  <2>2. QED
    BY <1>2, <2>1 DEF Address
<1>5. Where("buffer")' \subseteq Where("buffer") \cup X
  <2> SUFFICES ASSUME NEW b \in Address,
                      NEW i \in DOMAIN buffer'[b.client],
                      buffer'[b.client][i] = b.lid
               PROVE  \/ \E j \in DOMAIN buffer[b.client] :
                             buffer[b.client][j] = b.lid
                      \/ b.client = c /\ \E j \in DOMAIN work[b.client] :
                                            work[b.client][j] = b.lid
    BY DEF Where
  <2>1. CASE b.client = c /\ buffer'[c] = buffer[c] \o work[c]
    <3>1. /\ i \in DOMAIN (buffer[c] \o work[c])
          /\ (buffer[c] \o work[c])[i] = b.lid
      BY <2>1
    <3>2. QED
      BY <1>3, <2>1, <3>1
  <2>2. CASE buffer'[b.client] = buffer[b.client]
    BY <2>2
  <2>3. QED
    BY <1>2, <2>1, <2>2 DEF Address
<1>6. Distinct(buffer'[c])
  <2>1. Distinct(buffer[c]) /\ Distinct(work[c])
    BY DEF AnswerInv, Single
  <2>2. \A i \in DOMAIN buffer[c], j \in DOMAIN work[c] :
           buffer[c][i] # work[c][j]
    <3> SUFFICES ASSUME NEW i \in DOMAIN buffer[c], NEW j \in DOMAIN work[c],
                        buffer[c][i] = work[c][j]
                 PROVE  FALSE
      OBVIOUS
    <3> DEFINE a == [client |-> c, lid |-> buffer[c][i]]
    <3>1. a \in Address /\ a.client = c /\ a.lid = buffer[c][i]
      BY <1>1 DEF Address
    <3>2. a \in Where("work") /\ a \in Where("buffer")
      BY <3>1 DEF Where
    <3>3. QED
      BY <3>2 DEF AnswerInv, Apart, Places
  <2>3. Distinct(buffer[c] \o work[c])
    <3> SUFFICES ASSUME NEW i \in DOMAIN (buffer[c] \o work[c]),
                        NEW j \in DOMAIN (buffer[c] \o work[c]),
                        (buffer[c] \o work[c])[i] = (buffer[c] \o work[c])[j]
                 PROVE  i = j
      BY DEF Distinct
    <3>1. CASE i \in DOMAIN buffer[c] /\ j \in DOMAIN buffer[c]
      BY <1>3, <2>1, <3>1 DEF Distinct
    <3>2. CASE i \notin DOMAIN buffer[c] /\ j \notin DOMAIN buffer[c]
      <4>1. i - Len(buffer[c]) = j - Len(buffer[c])
        BY <1>3, <2>1, <3>2 DEF Distinct
      <4>2. i \in Nat /\ j \in Nat /\ Len(buffer[c]) \in Nat
        BY <1>1, <1>3, <3>2
      <4>3. QED
        BY <4>1, <4>2
    <3>3. CASE ~((i \in DOMAIN buffer[c]) <=> (j \in DOMAIN buffer[c]))
      BY <1>3, <2>2, <3>3
    <3>4. QED
      BY <3>1, <3>2, <3>3
  <2>4. QED
    BY <1>2, <2>1, <2>3
<1>7. Single'
  <2>1. Distinct(<<>>)
    BY DEF Distinct
  <2>2. QED
    BY <1>1, <1>2, <1>6, <2>1 DEF AnswerInv, Single
<1>8. \A a \in X : a.lid <= sent'[a.client]
  BY <1>1 DEF AnswerInv, Read, Places
<1>9. Moves(X, "buffer")
  <2>1. \A h \in Places \ {"work"} : X \cap Where(h) = {}
    BY DEF AnswerInv, Apart, Places
  <2> HIDE DEF X
  <2>2. QED
    BY <1>1, <1>4, <1>5, <2>1, WhereKept DEF Moves, Places
<1> HIDE DEF X
<1>10. QED
  BY <1>1, <1>7, <1>8, <1>9, Finish, SentKept, AnswersKept DEF AnswerInv, Places

LEMMA FlushAnswers ==
  ASSUME TypeOK, TypeOK', AnswerInv, NEW c \in Clients, CompleteHandshake(c)
  PROVE  AnswerInv'
<1> DEFINE X == {a \in Where("buffer") : a.client = c}
<1>1. /\ work \in [Clients -> Seq(Lids)] /\ buffer \in [Clients -> Seq(Lids)]
      /\ work' = [work EXCEPT ![c] = buffer[c]]
      /\ buffer' = [buffer EXCEPT ![c] = <<>>]
      /\ UNCHANGED <<pending, initWaiting, reaped, routing, inbox, sent>>
  BY DEF CompleteHandshake, Buffered, TypeOK, SharedTypeOK, HandlerTypeOK,
         taskVars, channelVars
<1>2. /\ work'[c] = buffer[c] /\ buffer'[c] = <<>>
      /\ \A d \in Clients \ {c} : work'[d] = work[d] /\ buffer'[d] = buffer[d]
  BY <1>1
<1>3. Where("buffer")' \subseteq Where("buffer") \ X
  <2> SUFFICES ASSUME NEW b \in Address,
                      NEW i \in DOMAIN buffer'[b.client],
                      buffer'[b.client][i] = b.lid
               PROVE  b.client # c /\ \E j \in DOMAIN buffer[b.client] :
                                         buffer[b.client][j] = b.lid
    BY DEF Where
  <2>1. b.client # c
    BY <1>2
  <2>2. QED
    BY <1>2, <2>1 DEF Address
<1>4. Where("work")' \subseteq Where("work") \cup X
  <2> SUFFICES ASSUME NEW b \in Address,
                      NEW i \in DOMAIN work'[b.client],
                      work'[b.client][i] = b.lid
               PROVE  \/ \E j \in DOMAIN work[b.client] :
                             work[b.client][j] = b.lid
                      \/ b.client = c /\ \E j \in DOMAIN buffer[b.client] :
                                            buffer[b.client][j] = b.lid
    BY DEF Where
  <2>1. CASE b.client = c
    BY <1>2, <2>1
  <2>2. CASE b.client # c
    BY <1>2, <2>2 DEF Address
  <2>3. QED
    BY <2>1, <2>2
<1>5. Single'
  <2>1. Distinct(<<>>)
    BY DEF Distinct
  <2>2. QED
    BY <1>1, <1>2, <2>1 DEF AnswerInv, Single
<1>6. \A a \in X : a.lid <= sent'[a.client]
  BY <1>1 DEF AnswerInv, Read, Places
<1>7. Moves(X, "work")
  <2>1. \A h \in Places \ {"buffer"} : X \cap Where(h) = {}
    BY DEF AnswerInv, Apart, Places
  <2> HIDE DEF X
  <2>2. QED
    BY <1>1, <1>3, <1>4, <2>1, WhereKept DEF Moves, Places
<1> HIDE DEF X
<1>8. QED
  BY <1>1, <1>5, <1>6, <1>7, Finish, SentKept, AnswersKept DEF AnswerInv, Places

LEMMA UnregisterAnswers ==
  ASSUME TypeOK, TypeOK', AnswerInv, NEW c \in Clients, UnregisterClient(c),
         UNCHANGED <<reaped, routing, work, inbox, sent>>
  PROVE  AnswerInv'
<1>1. /\ buffer \in [Clients -> Seq(Lids)]
      /\ buffer' = [buffer EXCEPT ![c] = <<>>]
      /\ pending' \subseteq pending /\ initWaiting' \subseteq initWaiting
  BY DEF UnregisterClient, PendingWithout, TypeOK, SharedTypeOK
<1>2. Where("pending")' \subseteq Where("pending")
      /\ Where("waiting")' \subseteq Where("waiting")
  BY <1>1 DEF Where
<1>3. Where("buffer")' \subseteq Where("buffer")
  BY <1>1 DEF Where, Address
<1>4. Moves({}, "pending")
  BY <1>2, <1>3, WhereKept DEF Moves, Places
<1>5. Single'
  <2>1. Distinct(<<>>)
    BY DEF Distinct
  <2>2. QED
    BY <1>1, <2>1 DEF AnswerInv, Single
<1>6. QED
  BY <1>4, <1>5, Finish, SentKept, AnswersKept DEF AnswerInv, Places

LEMMA HandlerAnswers ==
  ASSUME TypeOK, TypeOK', AnswerInv, NEW c \in Clients, HandlerNext(c)
  PROVE  AnswerInv'
<1>1. CASE RecvOversized(c) \/ RecvInitializeCached(c) \/ RecvInitialize(c)
  BY <1>1, OversizedAnswers, CachedAnswers, InitializeAnswers
<1>2. CASE RecvRequest(c) \/ BufferRequest(c) \/ CompleteHandshake(c)
  BY <1>2, RequestAnswers, BufferAnswers, FlushAnswers
<1>3. CASE Forward(c)
  BY <1>3, ForwardAnswers
<1>4. CASE Leave(c) \/ WriterFails(c)
  BY <1>4, UnregisterAnswers
  DEF Leave, WriterFails, handlerVars, channelVars, taskVars
<1>5. CASE Connect(c) \/ Register(c) \/ RecvNotification(c)
           \/ RecvInitialized(c) \/ Announce(c) \/ Enqueue(c) \/ EnqueueFails(c)
           \/ Disconnect(c) \/ HandshakeTimeout(c) \/ RecvMalformed(c)
  BY <1>5, Quiet
  DEF Connect, Register, RegisterClient, RecvNotification, RecvInitialized,
      Announce, Enqueue, EnqueueFails, Disconnect, HandshakeTimeout, RecvMalformed,
      sharedVars, handlerVars, channelVars, taskVars
<1>6. QED
  BY <1>1, <1>2, <1>3, <1>4, <1>5 DEF HandlerNext, HandlerProceeds

-----------------------------------------------------------------------------
(* The other tasks.                                                        *)

LEMMA RouteAnswers ==
  ASSUME TypeOK, TypeOK', AnswerInv, RouteResponse
  PROVE  AnswerInv'
<1>1. UNCHANGED <<initWaiting, reaped, work, buffer, inbox, sent>>
  BY DEF RouteResponse, handlerVars
<1>2. CASE UNCHANGED <<pending, routing>>
  BY <1>1, <1>2, Quiet
<1>3. ASSUME NEW entry \in pending, pending' = PendingAfter(entry),
             NEW r, routing' = {r}, r.entry = entry
      PROVE  AnswerInv'
  <2> DEFINE a == AddressOf(entry)
  <2>1. a \in Where("pending")
    BY DEF Where
  <2>2. Where("pending")' \subseteq Where("pending") \ {a}
    BY <1>3 DEF Where, PendingAfter, AnswerInv, Single
  <2>3. Where("routing")' \subseteq Where("routing") \cup {a}
    BY <1>3 DEF Where
  <2>4. \A h \in Places \ {"pending"} : a \notin Where(h)
    BY <2>1 DEF AnswerInv, Apart, Places
  <2>5. a.lid <= sent'[a.client]
    BY <1>1, <2>1 DEF AnswerInv, Read, Places
  <2>6. Single'
    BY <1>1, <1>3 DEF AnswerInv, Single, PendingAfter, Distinct
  <2> HIDE DEF a
  <2>7. Moves({a}, "routing")
    BY <1>1, <2>2, <2>3, <2>4, WhereKept DEF Moves, Places
  <2>8. QED
    BY <1>1, <2>5, <2>6, <2>7, Finish, SentKept, AnswersKept
    DEF AnswerInv, Places
<1>4. \/ UNCHANGED <<pending, routing>>
      \/ \E entry \in pending : \E r :
           pending' = PendingAfter(entry) /\ routing' = {r} /\ r.entry = entry
  BY DEF RouteResponse
<1>5. QED
  BY <1>2, <1>3, <1>4

LEMMA CacheAnswers ==
  ASSUME TypeOK, TypeOK', AnswerInv, CacheInitialize
  PROVE  AnswerInv'
<1>1. /\ UNCHANGED <<pending, reaped, work, buffer, sent>>
      /\ SendAll(initWaiting, "initialize")
      /\ initWaiting' = {}
  BY DEF CacheInitialize, handlerVars
<1>2. Where("routing")' \subseteq Where("routing")
  <2>1. PICK r \in routing : routing' = {[r EXCEPT !.stage = "deliver"]}
    BY DEF CacheInitialize
  <2>2. [r EXCEPT !.stage = "deliver"].entry = r.entry
    BY DEF TypeOK, TaskTypeOK, Routed
  <2>3. QED
    BY <2>1, <2>2 DEF Where
<1>3. Where("waiting") = initWaiting /\ Where("waiting")' = {}
  BY <1>1 DEF Where
<1>4. \A h \in Places \ {"waiting"} : initWaiting \cap Where(h) = {}
  BY <1>3 DEF AnswerInv, Apart, Places
<1>5. /\ Where("answered")' \subseteq Where("answered") \cup initWaiting
      /\ AtMostOneAnswer'
  BY <1>1, <1>4, SendAllAnswers DEF AnswerInv, Places
<1>6. Moves(initWaiting, "answered")
  BY <1>1, <1>2, <1>3, <1>4, <1>5, WhereKept DEF Moves, Places
<1>7. \A a \in initWaiting : a.lid <= sent'[a.client]
  BY <1>1, <1>3 DEF AnswerInv, Read, Places
<1>8. QED
  BY <1>1, <1>5, <1>6, <1>7, Finish, SentKept, SingleKept
  DEF AnswerInv, Places

LEMMA DeliverAnswers ==
  ASSUME TypeOK, TypeOK', IdsNameRequests, AnswerInv, DeliverResponse
  PROVE  AnswerInv'
<1>1. UNCHANGED <<pending, initWaiting, reaped, work, buffer, sent>>
      /\ routing' = {}
  BY DEF DeliverResponse, sharedVars, handlerVars
<1>2. PICK r \in routing :
        SendTo(AddressOf(r.entry), [kind |-> AnswerKind(r.resp.req),
                                    of |-> AddressOf(r.resp.req)])
  BY DEF DeliverResponse
<1> DEFINE a == AddressOf(r.entry)
           answer == [kind |-> AnswerKind(r.resp.req),
                      of |-> AddressOf(r.resp.req)]
<1>3. a \in Where("routing") /\ Where("routing")' = {}
  BY <1>1 DEF Where
<1>4. /\ a \in Address /\ answer \in Answer
      /\ \A h \in Places \ {"routing"} : a \notin Where(h)
      /\ a.lid <= sent'[a.client]
  <2>1. r.entry \in Request /\ r.entry = r.resp.req
    BY DEF TypeOK, TaskTypeOK, Routed, IdsNameRequests
  <2>2. a \in Address /\ answer \in Answer
    BY <2>1, AddressType DEF AnswerKind, Answer
  <2>3. QED
    BY <1>1, <1>3, <2>2 DEF AnswerInv, Apart, Read, Places
<1>5. SendTo(a, answer)
  BY <1>2
<1> HIDE DEF a, answer
<1>6. /\ Where("answered")' \subseteq Where("answered") \cup {a}
      /\ AtMostOneAnswer'
  BY <1>4, <1>5, SendToAnswers DEF AnswerInv, Places
<1>7. Moves({a}, "answered")
  BY <1>1, <1>3, <1>4, <1>6, WhereKept DEF Moves, Places
<1>8. QED
  BY <1>1, <1>4, <1>6, <1>7, Finish, SentKept, SingleKept
  DEF AnswerInv, Places

LEMMA ResetAnswers ==
  ASSUME TypeOK, TypeOK', AnswerInv, ResetState
  PROVE  AnswerInv'
<1> DEFINE X == Where("pending") \cup Where("waiting")
<1>1. /\ UNCHANGED <<reaped, routing, work, buffer, sent>>
      /\ pending' = {} /\ initWaiting' = {}
      /\ SendAll(X, "error")
  BY DEF ResetState, handlerVars, taskVars, Where
<1>2. Where("pending")' = {} /\ Where("waiting")' = {}
  BY <1>1 DEF Where
<1>3. \A h \in Places \ {"pending", "waiting"} : X \cap Where(h) = {}
  BY DEF AnswerInv, Apart, Places
<1>4. \A a \in X : a.lid <= sent'[a.client]
  BY <1>1 DEF AnswerInv, Read, Places
<1> HIDE DEF X
<1>5. /\ Where("answered")' \subseteq Where("answered") \cup X
      /\ AtMostOneAnswer'
  BY <1>1, <1>3, SendAllAnswers DEF AnswerInv, Places
<1>6. Moves(X, "answered")
  BY <1>1, <1>2, <1>3, <1>5, WhereKept DEF Moves, Places
<1>7. Single'
  BY <1>1 DEF AnswerInv, Single, Distinct
<1>8. QED
  BY <1>1, <1>4, <1>5, <1>6, <1>7, Finish, SentKept DEF AnswerInv, Places

LEMMA ReaperAnswers ==
  ASSUME TypeOK, TypeOK', AnswerInv, ReaperNext
  PROVE  AnswerInv'
<1>1. ASSUME NEW gone \in SUBSET pending, reaped' = gone,
             pending' = pending \ gone,
             UNCHANGED <<initWaiting, routing, work, buffer, inbox, sent>>
      PROVE  AnswerInv'
  <2> DEFINE X == {AddressOf(p) : p \in gone}
  <2>1. X \subseteq Where("pending")
    BY DEF Where
  <2>2. Where("pending")' \subseteq Where("pending") \ X
    BY <1>1 DEF Where, AnswerInv, Single
  <2>3. Where("reaped")' \subseteq Where("reaped") \cup X
    BY <1>1 DEF Where
  <2>4. \A a \in X : a.lid <= sent'[a.client]
    BY <1>1, <2>1 DEF AnswerInv, Read, Places
  <2>5. Single'
    BY <1>1 DEF AnswerInv, Single, Distinct
  <2> HIDE DEF X
  <2>6. \A h \in Places \ {"pending"} : X \cap Where(h) = {}
    BY <2>1 DEF AnswerInv, Apart, Places
  <2>7. Moves(X, "reaped")
    BY <1>1, <2>2, <2>3, <2>6, WhereKept DEF Moves, Places
  <2>8. QED
    BY <1>1, <2>4, <2>5, <2>7, Finish, SentKept, AnswersKept
    DEF AnswerInv, Places
<1>2. CASE Expire
  BY <1>1, <1>2 DEF Expire, Expired, channelVars, handlerVars
<1>3. CASE AnswerExpired
  <2> DEFINE X == Where("reaped")
  <2>1. /\ UNCHANGED <<pending, initWaiting, routing, work, buffer, sent>>
        /\ reaped' = {}
        /\ SendAll(X, "error")
    BY <1>3 DEF AnswerExpired, sharedVars, handlerVars, Where
  <2>2. Where("reaped")' = {}
    BY <2>1 DEF Where
  <2>3. \A h \in Places \ {"reaped"} : X \cap Where(h) = {}
    BY DEF AnswerInv, Apart, Places
  <2>4. \A a \in X : a.lid <= sent'[a.client]
    BY <2>1 DEF AnswerInv, Read, Places
  <2> HIDE DEF X
  <2>5. /\ Where("answered")' \subseteq Where("answered") \cup X
        /\ AtMostOneAnswer'
    BY <2>1, <2>3, SendAllAnswers DEF AnswerInv, Places
  <2>6. Moves(X, "answered")
    BY <2>1, <2>2, <2>3, <2>5, WhereKept DEF Moves, Places
  <2>7. QED
    BY <2>1, <2>4, <2>5, <2>6, Finish, SentKept, SingleKept
    DEF AnswerInv, Places
<1>4. QED
  BY <1>2, <1>3 DEF ReaperNext

LEMMA ManagerAnswers ==
  ASSUME TypeOK, AnswerInv, ManagerNext
  PROVE  AnswerInv'
<1>1. UNCHANGED <<pending, initWaiting, reaped, routing, work, buffer, inbox,
                  sent>>
  BY DEF ManagerNext, ManagerProceeds, Spawn, WriteToChild, WriteFails,
         ChildStops, ChildAnswers, SendReset, ClearCache,
         TakeFirst, GiveUp, Return, SpawnFails,
         ManagerReturns, WriteFirst, FirstWriteFails, sharedVars,
         channelVars, handlerVars, taskVars
<1>2. QED
  BY <1>1, Quiet

-----------------------------------------------------------------------------
LEMMA AnswerInit == Init => AnswerInv
<1> SUFFICES ASSUME Init PROVE AnswerInv
  OBVIOUS
<1> USE DEF Init, SharedInit, ChannelInit, HandlerInit, TaskInit
<1>1. \A a \in Address : a.client \in Clients /\ a.lid \in Lids
  BY DEF Address
<1>2. \A h \in Places : Where(h) = {}
  BY <1>1 DEF Where, Places
<1>3. AtMostOneAnswer /\ Single
  BY DEF AtMostOneAnswer, Single, Distinct
<1>4. QED
  BY <1>2, <1>3 DEF AnswerInv, Apart, Read

LEMMA AnswerStep ==
  TypeOK /\ TypeOK' /\ IdsNameRequests /\ AnswerInv /\ [Next]_vars => AnswerInv'
<1>1. CASE Next
  BY <1>1, HandlerAnswers, RouteAnswers, CacheAnswers, DeliverAnswers,
     ResetAnswers, ReaperAnswers, ManagerAnswers DEF Next, RouterNext
<1>2. CASE UNCHANGED vars
  BY <1>2, Quiet DEF vars, sharedVars, channelVars, handlerVars, taskVars
<1>3. QED
  BY <1>1, <1>2

(* No request is answered twice: over restarts and resets, answers that    *)
(* come late or twice, timeouts, parked and buffered requests, whoever     *)
(* takes the request out of its place answers it, and nobody else finds it *)
(* (handle_server_message, reset_state, reap_timeouts, handle_client).     *)
THEOREM AnswersOnce == Spec => []AtMostOneAnswer
<1>1. AnswerInv => AtMostOneAnswer
  BY DEF AnswerInv
<1>2. QED
  BY <1>1, AnswerInit, AnswerStep, TypeCorrect, IdsCorrect, PTL DEF Spec

-----------------------------------------------------------------------------
(* A pending request is on its way.                                        *)
InQueue(p) == \E i \in DOMAIN toServer : toServer[i] = p
AtChild(p) == \E w \in atChild : w.req = p
ResponseQueued(p) ==
    \E i \in DOMAIN events : events[i].kind = "response" /\ events[i].req = p

Traced(p) ==
    \/ p \in hand[p.client]
    \/ p \in first
    \/ InQueue(p)
    \/ AtChild(p)
    \/ ResponseQueued(p)
    \/ ResetQueued
    \/ mgr = "stopping"

\* A handler holds one request at a time.
OneHeld == \A c \in Clients : \A r, s \in hand[c] : r = s

\* One request may be nowhere: the one whose write before the loop failed.
Excused == LazyStart /\ mgr = "run" /\ epoch = 1

TracedInv ==
    /\ OneHeld
    /\ mgr # "gone" =>
          \A p, q \in pending : Traced(p) \/ (Excused /\ (Traced(q) \/ p = q))

\* A step that loses the trace of nothing, and ends the excuse only when it
\* gives everything a trace.
LEMMA TracedKept ==
  ASSUME TracedInv, OneHeld', mgr = "gone" => mgr' = "gone",
         \A p \in pending' : Traced(p)' \/ (p \in pending /\ (Traced(p) => Traced(p)')),
         Excused => Excused' \/ \A p \in pending' : Traced(p)'
  PROVE  TracedInv'
<1> SUFFICES ASSUME mgr' # "gone", NEW p \in pending', NEW q \in pending',
                    ~Traced(p)'
             PROVE  Excused' /\ (Traced(q)' \/ p = q)
  BY DEF TracedInv
<1>1. p \in pending /\ ~Traced(p) /\ mgr # "gone"
  OBVIOUS
<1>2. Excused
  BY <1>1 DEF TracedInv
<1>3. Excused'
  BY <1>2
<1>4. q \in pending => Traced(q) \/ p = q
  BY <1>1 DEF TracedInv
<1>5. QED
  BY <1>3, <1>4

\* The same for a step that leaves the manager alone.
LEMMA TracedBeside ==
  ASSUME TracedInv, OneHeld', UNCHANGED managerVars,
         \A p \in pending' : Traced(p)' \/ (p \in pending /\ (Traced(p) => Traced(p)'))
  PROVE  TracedInv'
<1>1. (mgr = "gone" => mgr' = "gone") /\ (Excused => Excused')
  BY DEF managerVars, Excused
<1>2. QED
  BY <1>1, TracedKept

\* What a channel held it still holds when something is added to it.
LEMMA QueueGrows ==
  ASSUME ChannelTypeOK, NEW m \in Message,
         UNCHANGED toServer \/ toServer' = Append(toServer, m)
  PROVE  \A p : InQueue(p) => InQueue(p)'
  BY AppendElements DEF ChannelTypeOK, InQueue

LEMMA EventsGrow ==
  ASSUME ChannelTypeOK, NEW e \in Event, events' = Append(events, e)
  PROVE  /\ \A p : ResponseQueued(p) => ResponseQueued(p)'
         /\ ResetQueued => ResetQueued'
         /\ e.kind = "reset" => ResetQueued'
         /\ e.kind = "response" => ResponseQueued(e.req)'
  BY AppendElements DEF ChannelTypeOK, ResponseQueued, ResetQueued

\* What was behind the head is in the tail.
LEMMA BehindHead ==
  ASSUME NEW S, NEW s \in Seq(S), s # <<>>
  PROVE  \A i \in DOMAIN s :
            s[i] = Head(s) \/ \E j \in DOMAIN Tail(s) : Tail(s)[j] = s[i]
<1>1. ASSUME NEW i \in DOMAIN s, i # 1
      PROVE  i - 1 \in DOMAIN Tail(s) /\ Tail(s)[i - 1] = s[i]
  BY <1>1, TailElements
<1>2. Head(s) = s[1]
  BY TailElements
<1>3. QED
  BY <1>1, <1>2

LEMMA TracedByHandler ==
  ASSUME TypeOK, NEW c \in Clients, Order(c), TracedInv, HandlerNext(c)
  PROVE  TracedInv'
<1>1. UNCHANGED <<events, managerVars>>
  BY DEF HandlerNext, HandlerProceeds, Connect, Register, RecvOversized,
         RecvNotification, RecvInitialized, RecvInitializeCached,
         RecvInitialize, RecvRequest, Disconnect, RecvMalformed, WriterFails,
         Announce, CompleteHandshake, BufferRequest, Forward, Enqueue, EnqueueFails,
         HandshakeTimeout, Leave, channelVars
<1>2. OneHeld
  BY DEF TracedInv
<1>3. /\ hand \in [Clients -> SUBSET Request] /\ pending \subseteq Request
      /\ ChannelTypeOK
  BY DEF TypeOK, HandlerTypeOK, SharedTypeOK
<1>4. CASE Enqueue(c)
  <2>1. PICK r \in hand[c] : toServer' = Append(toServer, r)
    BY <1>4 DEF Enqueue
  <2>2. hand' = [hand EXCEPT ![c] = {}] /\ pending' = pending
    BY <1>4 DEF Enqueue, sharedVars
  <2>3. r \in Message
    BY <1>3 DEF Message
  <2>4. InQueue(r)' /\ \A p : InQueue(p) => InQueue(p)'
    <3>1. \A p : InQueue(p) => InQueue(p)'
      BY <1>3, <2>1, <2>3, QueueGrows
    <3>2. InQueue(r)'
      BY <1>3, <2>1, <2>3, AppendElements DEF ChannelTypeOK, InQueue
    <3>3. QED
      BY <3>1, <3>2
  <2>5. \A p \in hand[c] : p = r
    BY <1>2 DEF OneHeld
  <2>6. OneHeld'
    BY <1>2, <1>3, <2>2 DEF OneHeld
  <2>7. ASSUME NEW p \in pending, Traced(p) PROVE Traced(p)'
    <3>1. p.client \in Clients
      BY <1>3 DEF Request
    <3>2. CASE p \in hand[p.client]
      BY <1>3, <2>2, <2>4, <2>5, <3>1, <3>2 DEF Traced
    <3>3. CASE p \notin hand[p.client]
      BY <1>1, <2>4, <2>7, <3>3
      DEF Traced, AtChild, ResponseQueued, ResetQueued, managerVars
    <3>4. QED
      BY <3>2, <3>3
  <2>8. QED
    BY <1>1, <2>2, <2>6, <2>7, TracedBeside
<1>5. CASE Forward(c) \/ RecvInitialize(c)
  <2>1. hand[c] = {}
    BY <1>5 DEF Forward, RecvInitialize, Reads, Order
  <2>2. \/ hand' = hand /\ pending' = pending
        \/ \E r \in Request : /\ r.client = c
                              /\ hand' = [hand EXCEPT ![c] = {r}]
                              /\ pending' = pending \cup {r}
    <3>1. CASE Forward(c)
      <4>1. Head(work[c]) \in Lids
        BY <3>1, HeadTailType DEF Forward, TypeOK, HandlerTypeOK
      <4>2. NewRequest(c, "request", Head(work[c])) \in Request
        BY <4>1, NewRequestType DEF TypeOK
      <4>3. QED
        BY <3>1, <4>2 DEF Forward, Admit, NewRequest
    <3>2. CASE RecvInitialize(c)
      <4>1. sent[c] + 1 \in Lids
        BY <3>2, BoundsAssumption
        DEF RecvInitialize, Reads, TypeOK, HandlerTypeOK, Lids
      <4>2. NewRequest(c, "initialize", sent[c] + 1) \in Request
        BY <4>1, NewRequestType DEF TypeOK
      <4>3. \/ hand' = hand /\ pending' = pending
            \/ Admit(c, "initialize", sent[c] + 1, <<>>)
        BY <3>2 DEF RecvInitialize
      <4>4. QED
        BY <4>2, <4>3 DEF Admit, NewRequest
    <3>3. QED
      BY <1>5, <3>1, <3>2
  <2>3. UNCHANGED toServer
    BY <1>5 DEF Forward, RecvInitialize
  <2>4. OneHeld'
    BY <1>2, <1>3, <2>1, <2>2 DEF OneHeld
  <2>5. \A p \in pending : p \in hand[p.client] => p \in hand'[p.client]
    BY <1>3, <2>1, <2>2 DEF Request
  <2>6. \A p \in pending' : p \in pending \/ p \in hand'[p.client]
    BY <1>3, <2>2
  <2>7. ASSUME NEW p \in pending, Traced(p) PROVE Traced(p)'
    BY <1>1, <2>3, <2>5, <2>7
    DEF Traced, InQueue, AtChild, ResponseQueued, ResetQueued, managerVars
  <2>8. \A p : p \in hand'[p.client] => Traced(p)'
    BY DEF Traced
  <2>9. QED
    BY <1>1, <2>4, <2>6, <2>7, <2>8, TracedBeside
<1>6. CASE EnqueueFails(c)
  <2>1. mgr = "gone" /\ mgr' = mgr /\ hand' = [hand EXCEPT ![c] = {}]
    BY <1>1, <1>6 DEF EnqueueFails, QueueOpen, managerVars
  <2>2. OneHeld'
    BY <1>2, <1>3, <2>1 DEF OneHeld
  <2>3. QED
    BY <2>1, <2>2 DEF TracedInv
<1>7. CASE ~(Enqueue(c) \/ EnqueueFails(c) \/ Forward(c) \/ RecvInitialize(c))
  <2>1. hand' = hand /\ pending' \subseteq pending
    BY <1>7
    DEF HandlerNext, HandlerProceeds, Connect, Register, RegisterClient,
        RecvOversized, RecvNotification, RecvInitialized, RecvInitializeCached,
        RecvRequest, Disconnect, RecvMalformed, WriterFails, Announce,
        CompleteHandshake, BufferRequest, HandshakeTimeout, Leave,
        UnregisterClient, PendingWithout, handlerVars, sharedVars
  <2>2. \/ UNCHANGED toServer
        \/ \E m \in Message : toServer' = Append(toServer, m)
    BY <1>7, NotificationType
    DEF HandlerNext, HandlerProceeds, Connect, Register, RecvOversized,
        RecvNotification, RecvInitialized, RecvInitializeCached, RecvRequest,
        Disconnect, RecvMalformed, WriterFails, Announce, TrySend,
        CompleteHandshake, BufferRequest, HandshakeTimeout, Leave, channelVars
  <2>3. \A p : InQueue(p) => InQueue(p)'
    BY <1>3, <2>2, QueueGrows DEF InQueue
  <2>4. OneHeld'
    BY <1>2, <2>1 DEF OneHeld
  <2>5. ASSUME NEW p \in pending', Traced(p) PROVE Traced(p)'
    BY <1>1, <2>1, <2>3, <2>5
    DEF Traced, AtChild, ResponseQueued, ResetQueued, managerVars
  <2>6. QED
    BY <1>1, <2>1, <2>4, <2>5, TracedBeside
<1>8. QED
  BY <1>4, <1>5, <1>6, <1>7

\* A response that is taken takes its entry along.
LEMMA TracedByResponse ==
  ASSUME TypeOK, IdsNameRequests, RouteResponse
  PROVE  \A p \in pending' : p \in pending /\ (Traced(p) => Traced(p)')
<1>1. /\ ChannelTypeOK /\ events # <<>> /\ Head(events).kind = "response"
      /\ events' = Tail(events)
      /\ UNCHANGED <<toServer, handlerVars, managerVars>>
  BY DEF RouteResponse, TypeOK
<1>2. Head(events).req \in Tickets
  <2>1. 1 \in DOMAIN events /\ Head(events) = events[1]
    BY <1>1, TailElements DEF ChannelTypeOK
  <2>2. QED
    BY <1>1, <2>1 DEF Tickets, ResponsesQueued
<1>3. pending' \subseteq pending /\ Head(events).req \notin pending'
  <2>1. CASE {p \in pending : SameKey(p, Head(events).req)} = {}
    BY <2>1 DEF RouteResponse, SameKey
  <2>2. CASE \E entry \in {p \in pending : SameKey(p, Head(events).req)} :
                pending' = PendingAfter(entry)
    <3>1. PICK entry \in pending : /\ SameKey(entry, Head(events).req)
                                   /\ pending' = PendingAfter(entry)
      BY <2>2
    <3>2. entry \in Tickets /\ entry.id = Head(events).req.id
      BY <3>1 DEF Tickets, SameKey
    <3>3. entry = Head(events).req
      BY <1>2, <3>2 DEF IdsNameRequests
    <3>4. QED
      BY <3>1, <3>3 DEF PendingAfter
  <2>3. QED
    BY <2>1, <2>2 DEF RouteResponse
<1>4. ASSUME NEW p \in pending', Traced(p) PROVE Traced(p)'
  <2>1. events \in Seq(Event)
    BY <1>1 DEF ChannelTypeOK
  <2>2. \A i \in DOMAIN events : events[i] = Head(events)
           \/ \E j \in DOMAIN events' : events'[j] = events[i]
    BY <1>1, <2>1, BehindHead
  <2>3. ResponseQueued(p) => ResponseQueued(p)'
    BY <1>3, <2>2 DEF ResponseQueued
  <2>4. ResetQueued => ResetQueued'
    BY <1>1, <2>2 DEF ResetQueued
  <2>5. QED
    BY <1>1, <1>4, <2>3, <2>4
    DEF Traced, InQueue, AtChild, handlerVars, managerVars
<1>5. QED
  BY <1>3, <1>4

LEMMA TracedByTasks ==
  ASSUME TypeOK, IdsNameRequests, TracedInv,
         RouterNext \/ ReaperNext \/ UNCHANGED vars
  PROVE  TracedInv'
<1>1. OneHeld'
  BY DEF TracedInv, OneHeld, RouterNext, RouteResponse, CacheInitialize,
         DeliverResponse, ResetState, ReaperNext, Expire, AnswerExpired,
         handlerVars, vars
<1>2. CASE RouteResponse
  BY <1>1, <1>2, TracedByResponse, TracedBeside DEF RouteResponse
<1>3. CASE ResetState
  BY <1>1, <1>3 DEF ResetState, TracedInv
<1>4. CASE \/ CacheInitialize \/ DeliverResponse \/ ReaperNext \/ UNCHANGED vars
  <2>1. /\ pending' \subseteq pending
        /\ UNCHANGED <<toServer, events, handlerVars, managerVars>>
    BY <1>4 DEF CacheInitialize, DeliverResponse, ReaperNext, Expire,
                AnswerExpired, channelVars, sharedVars, vars
  <2>2. \A p : Traced(p) => Traced(p)'
    BY <2>1
    DEF Traced, InQueue, AtChild, ResponseQueued, ResetQueued, handlerVars,
        managerVars
  <2>3. QED
    BY <1>1, <2>1, <2>2, TracedBeside
<1>5. QED
  BY <1>2, <1>3, <1>4 DEF RouterNext

\* The message m reaches the child, and with it the request it may be.
LEMMA TracedByWrite ==
  ASSUME NEW m, Write(m), pending \subseteq Request
  PROVE  /\ \A p : AtChild(p) => AtChild(p)'
         /\ m \in pending => AtChild(m)'
<1>1. /\ atChild \subseteq atChild'
      /\ m \in Request => [req |-> m, child |-> epoch] \in atChild'
  BY DEF Write
<1>2. m \in Request => AtChild(m)'
  BY <1>1 DEF AtChild
<1>3. QED
  BY <1>1, <1>2 DEF AtChild

LEMMA TracedByManager ==
  ASSUME TypeOK, TracedInv, ManagerNext
  PROVE  TracedInv'
<1>1. UNCHANGED <<handlerVars, pending>>
  BY DEF ManagerNext, ManagerProceeds, Spawn, WriteToChild, WriteFails,
         ChildStops, ChildAnswers, SendReset, ClearCache, TakeFirst, GiveUp,
         Return, SpawnFails, ManagerReturns, WriteFirst, FirstWriteFails,
         sharedVars
<1>2. OneHeld' /\ hand' = hand /\ pending' = pending
  BY <1>1 DEF TracedInv, OneHeld, handlerVars
<1>3. ChannelTypeOK /\ pending \subseteq Request
  BY DEF TypeOK, SharedTypeOK
<1>4. CASE Spawn \/ ClearCache \/ GiveUp
  <2>1. mgr # "gone" /\ ~Excused
    BY <1>4 DEF Spawn, ClearCache, GiveUp, Excused
  <2>2. \A p : Traced(p) => Traced(p)'
    BY <1>2, <1>4
    DEF Spawn, ClearCache, GiveUp, channelVars, Traced, InQueue, AtChild,
        ResponseQueued, ResetQueued
  <2>3. QED
    BY <1>2, <2>1, <2>2, TracedKept
<1>5. CASE TakeFirst
  <2>1. /\ toServer # <<>> /\ toServer' = Tail(toServer)
        /\ first = {} /\ first' = {Head(toServer)}
        /\ events' = events /\ atChild' = atChild /\ mgr = "lazy"
        /\ toServer \in Seq(Message)
    BY <1>3, <1>5 DEF TakeFirst, ChannelTypeOK, TypeOK, ManagerTypeOK
  <2>2. \A p : InQueue(p) => InQueue(p)' \/ p \in first'
    BY <2>1, BehindHead DEF InQueue
  <2>3. \A p : Traced(p) => Traced(p)'
    BY <1>2, <2>1, <2>2 DEF Traced, AtChild, ResponseQueued, ResetQueued
  <2>4. mgr # "gone" /\ ~Excused
    BY <2>1 DEF Excused
  <2>5. QED
    BY <1>2, <2>3, <2>4, TracedKept
<1>6. CASE WriteToChild
  <2>1. /\ toServer # <<>> /\ toServer' = Tail(toServer)
        /\ UNCHANGED <<events, mgr, first, epoch>>
        /\ toServer \in Seq(Message) /\ Write(Head(toServer))
    BY <1>3, <1>6 DEF WriteToChild, ChannelTypeOK
  <2>2. \A p \in pending : InQueue(p) => InQueue(p)' \/ AtChild(p)'
    BY <1>3, <2>1, BehindHead, TracedByWrite DEF InQueue
  <2>3. \A p : AtChild(p) => AtChild(p)'
    BY <1>3, <2>1, TracedByWrite
  <2>4. \A p \in pending : Traced(p) => Traced(p)'
    BY <1>2, <2>1, <2>2, <2>3 DEF Traced, ResponseQueued, ResetQueued
  <2>5. (mgr = "gone" => mgr' = "gone") /\ (Excused => Excused')
    BY <2>1 DEF Excused
  <2>6. QED
    BY <1>2, <2>4, <2>5, TracedKept
<1>7. CASE WriteFirst
  <2>1. PICK m \in first : Write(m)
    BY <1>7 DEF WriteFirst
  <2>2. /\ UNCHANGED <<events, toServer>> /\ mgr = "first"
        /\ \A n \in first : n = m
    BY <1>7 DEF WriteFirst, channelVars, TypeOK, ManagerTypeOK
  <2>3. /\ \A p : AtChild(p) => AtChild(p)'
        /\ \A p \in pending : p \in first => AtChild(p)'
    BY <1>3, <2>1, <2>2, TracedByWrite
  <2>4. \A p \in pending : Traced(p) => Traced(p)'
    BY <1>2, <2>2, <2>3 DEF Traced, InQueue, ResponseQueued, ResetQueued
  <2>5. mgr # "gone" /\ ~Excused
    BY <2>2 DEF Excused
  <2>6. QED
    BY <1>2, <2>4, <2>5, TracedKept
<1>8. CASE FirstWriteFails
  <2>1. /\ mgr = "first" /\ mgr' = "run" /\ first' = {}
        /\ UNCHANGED <<epoch, atChild, toServer, events>>
        /\ LazyStart /\ epoch = 1
        /\ \A m, n \in first : m = n
    BY <1>8 DEF FirstWriteFails, channelVars, TypeOK, ManagerTypeOK
  <2>2. Excused' /\ \A p \in pending : Traced(p)
    BY <2>1 DEF Excused, TracedInv
  <2>3. \A p \in pending : Traced(p)' \/ p \in first
    BY <1>2, <2>1, <2>2
    DEF Traced, InQueue, AtChild, ResponseQueued, ResetQueued
  <2>4. QED
    BY <1>2, <2>1, <2>2, <2>3 DEF TracedInv
<1>9. CASE WriteFails \/ ChildStops
  BY <1>2, <1>9 DEF WriteFails, ChildStops, Traced, TracedInv
<1>10. CASE SpawnFails \/ ManagerReturns
  BY <1>2, <1>10 DEF SpawnFails, ManagerReturns, Return, TracedInv
<1>11. CASE ChildAnswers
  <2>1. PICK w \in atChild :
           /\ events' = Append(events, [kind |-> "response", req |-> w.req,
                                        child |-> w.child])
           /\ atChild' = atChild \ {w} \/ atChild' = atChild
           /\ UNCHANGED <<toServer, mgr, first, epoch>>
    BY <1>11 DEF ChildAnswers
  <2>2. [kind |-> "response", req |-> w.req, child |-> w.child] \in Event
    BY DEF TypeOK, ManagerTypeOK, ChildRequest, Event, Response
  <2>3. /\ \A p : ResponseQueued(p) => ResponseQueued(p)'
        /\ ResetQueued => ResetQueued'
        /\ ResponseQueued(w.req)'
    BY <1>3, <2>1, <2>2, EventsGrow
  <2>4. \A p : AtChild(p) => AtChild(p)' \/ p = w.req
    BY <2>1 DEF AtChild
  <2>5. \A p : Traced(p) => Traced(p)'
    BY <1>2, <2>1, <2>3, <2>4 DEF Traced, InQueue
  <2>6. (mgr = "gone" => mgr' = "gone") /\ (Excused => Excused')
    BY <2>1 DEF Excused
  <2>7. QED
    BY <1>2, <2>5, <2>6, TracedKept
<1>12. CASE SendReset
  <2>1. events' = Append(events, [kind |-> "reset"])
    BY <1>12 DEF SendReset, EventsAfterReset
  <2>2. [kind |-> "reset"] \in Event
    BY DEF Event, ResetEvent
  <2>3. ResetQueued'
    BY <1>3, <2>1, <2>2, EventsGrow
  <2>4. QED
    BY <1>2, <2>3 DEF Traced, TracedInv
<1>13. QED
  BY <1>4, <1>5, <1>6, <1>7, <1>8, <1>9, <1>10, <1>11, <1>12
  DEF ManagerNext, ManagerProceeds

(* A forwarded request waits for an answer somewhere: on its way to the    *)
(* child, at the child, on its way back, or a Reset that fails it is       *)
(* coming, over restarts, failing writes, full queues and late output.     *)
(* What the code loses is in the statement: the one request whose write    *)
(* before the loop failed, while the first child of a lazily started mux   *)
(* runs, and everything once the manager has returned (handle_client,      *)
(* server_manager).                                                        *)
THEOREM AccountsCorrect == Spec => []RequestsAccountedFor
<1>1. Init => TracedInv
  BY DEF Init, SharedInit, HandlerInit, TracedInv, OneHeld
<1>2. TypeOK /\ IdsNameRequests /\ OrderInv /\ TracedInv /\ [Next]_vars
         => TracedInv'
  <2> SUFFICES ASSUME TypeOK, IdsNameRequests, OrderInv, TracedInv, [Next]_vars
               PROVE  TracedInv'
    OBVIOUS
  <2>1. ASSUME NEW c \in Clients, HandlerNext(c) PROVE TracedInv'
    BY <2>1, TracedByHandler DEF OrderInv
  <2>2. QED
    BY <2>1, TracedByTasks, TracedByManager DEF Next
<1>3. TracedInv => RequestsAccountedFor
  BY DEF TracedInv, Excused, Traced, InQueue, AtChild, ResponseQueued,
         RequestsAccountedFor, Accounted
<1>4. QED
  BY <1>1, <1>2, <1>3, GateInit, GateStep, OrderInit, OrderStep, IdsCorrect,
     TypeCorrect, PTL DEF Spec

-----------------------------------------------------------------------------
(* The life cycle of the children.                                         *)

\* Only a Reset that is sent or taken changes whether one is queued.
LEMMA ResetUnchanged ==
  ASSUME ChannelTypeOK,
         \/ \E e \in Event : e.kind # "reset" /\ events' = Append(events, e)
         \/ /\ events # <<>> /\ Head(events).kind # "reset"
            /\ events' = Tail(events)
         \/ UNCHANGED events
  PROVE  ResetQueued' <=> ResetQueued
<1>1. CASE \E e \in Event : e.kind # "reset" /\ events' = Append(events, e)
  <2>1. PICK e \in Event : e.kind # "reset" /\ events' = Append(events, e)
    BY <1>1
  <2>2. ResetQueued => ResetQueued'
    BY <2>1, EventsGrow
  <2>3. ResetQueued' => ResetQueued
    BY <2>1, AppendElements DEF ChannelTypeOK, ResetQueued
  <2>4. QED
    BY <2>2, <2>3
<1>2. CASE /\ events # <<>> /\ Head(events).kind # "reset"
           /\ events' = Tail(events)
  <2>1. events \in Seq(Event)
    BY DEF ChannelTypeOK
  <2>2. ResetQueued => ResetQueued'
    BY <1>2, <2>1, BehindHead DEF ResetQueued
  <2>3. ResetQueued' => ResetQueued
    BY <1>2, <2>1, TailElements DEF ResetQueued
  <2>4. QED
    BY <2>2, <2>3
<1>3. CASE UNCHANGED events
  BY <1>3 DEF ResetQueued
<1>4. QED
  BY <1>1, <1>2, <1>3

LEMMA LifecycleInit == Init => Lifecycle!Init
  BY DEF Init, ManagerInit, ChannelInit, Lifecycle!Init, Phase, ResetQueued

LEMMA LifecycleNext ==
  TypeOK /\ [Next]_vars => [Lifecycle!Next]_Lifecycle!vars
<1> SUFFICES ASSUME TypeOK, [Next]_vars
             PROVE  Lifecycle!Next \/ UNCHANGED Lifecycle!vars
  BY DEF Lifecycle!vars
<1>1. ChannelTypeOK
  BY DEF TypeOK
<1>2. CASE Spawn
  <2>1. ResetQueued' <=> ResetQueued
    BY <1>1, <1>2, ResetUnchanged DEF Spawn, channelVars
  <2>2. Lifecycle!Start
    BY <1>2, <2>1 DEF Spawn, Lifecycle!Start, Phase, ResetQueued
  <2>3. QED
    BY <2>2 DEF Lifecycle!Next
<1>3. CASE SendReset
  <2>1. [kind |-> "reset"] \in Event
    BY DEF Event, ResetEvent
  <2>2. ResetQueued'
    BY <1>1, <1>3, <2>1, EventsGrow DEF SendReset, EventsAfterReset
  <2>3. Lifecycle!Tell
    BY <1>3, <2>2 DEF SendReset, Lifecycle!Tell, Phase, ResetQueued
  <2>4. QED
    BY <2>3 DEF Lifecycle!Next
<1>4. CASE ClearCache
  <2>1. Lifecycle!Clear
    BY <1>4 DEF ClearCache, channelVars, Lifecycle!Clear, Phase, ResetQueued
  <2>2. QED
    BY <2>1 DEF Lifecycle!Next
<1>5. CASE ResetState
  <2>1. ResetQueued
    BY <1>1, <1>5, TailElements DEF ResetState, ChannelTypeOK, ResetQueued
  <2>2. Lifecycle!Deliver
    BY <1>5, <2>1
    DEF ResetState, managerVars, Lifecycle!Deliver, Phase, ResetQueued
  <2>3. QED
    BY <2>2 DEF Lifecycle!Next
<1>6. CASE \/ WriteToChild \/ WriteFails \/ ChildStops \/ WriteFirst
           \/ FirstWriteFails \/ TakeFirst \/ GiveUp \/ SpawnFails
           \/ ManagerReturns
  BY <1>6 DEF WriteToChild, WriteFails, ChildStops, WriteFirst,
              FirstWriteFails, TakeFirst, GiveUp, SpawnFails, ManagerReturns,
              Return, channelVars, Phase, ResetQueued, Lifecycle!vars
<1>7. CASE ChildAnswers
  <2>1. PICK w \in atChild :
           events' = Append(events, [kind |-> "response", req |-> w.req,
                                     child |-> w.child])
    BY <1>7 DEF ChildAnswers
  <2>2. [kind |-> "response", req |-> w.req, child |-> w.child] \in Event
    BY DEF TypeOK, ManagerTypeOK, ChildRequest, Event, Response
  <2>3. ResetQueued' <=> ResetQueued
    BY <1>1, <2>1, <2>2, ResetUnchanged
  <2>4. QED
    BY <1>7, <2>3 DEF ChildAnswers, Phase, ResetQueued, Lifecycle!vars
<1>8. CASE RouteResponse
  <2>1. ResetQueued' <=> ResetQueued
    BY <1>1, <1>8, ResetUnchanged DEF RouteResponse
  <2>2. QED
    BY <1>8, <2>1 DEF RouteResponse, managerVars, Phase, ResetQueued, Lifecycle!vars
<1>9. CASE \/ \E c \in Clients : HandlerNext(c)
           \/ CacheInitialize \/ DeliverResponse \/ ReaperNext \/ UNCHANGED vars
  <2>1. UNCHANGED <<events, managerVars>>
    BY <1>9
    DEF HandlerNext, HandlerProceeds, Connect, Register, RecvOversized,
        RecvNotification, RecvInitialized, RecvInitializeCached,
        RecvInitialize, RecvRequest, Disconnect, RecvMalformed, WriterFails,
        Announce, CompleteHandshake, BufferRequest, Forward, Enqueue, EnqueueFails,
        HandshakeTimeout, Leave, CacheInitialize, DeliverResponse, ReaperNext,
        Expire, AnswerExpired, channelVars, vars
  <2>2. QED
    BY <2>1 DEF managerVars, Phase, ResetQueued, Lifecycle!vars
<1>10. QED
  BY <1>2, <1>3, <1>4, <1>5, <1>6, <1>7, <1>8, <1>9
  DEF Next, RouterNext, ManagerNext, ManagerProceeds

(* In the mux too, one child runs at a time, its end is told before the    *)
(* next one starts, and the cache it filled is cleared (server_manager,    *)
(* handle_server_events_with_heartbeat).                                   *)
THEOREM MuxLifecycle == Spec => MuxImplementsLifecycle
  BY LifecycleInit, LifecycleNext, TypeCorrect, PTL
     DEF Spec, MuxImplementsLifecycle, Lifecycle!Spec

-----------------------------------------------------------------------------
(* Nothing is forgotten.                                                   *)

\* Every request that was read and is somewhere, answered or not.
Seen == UNION {Where(h) : h \in Places}

\* What was read from a registered client is somewhere.
Found(c) ==
    c \in clients =>
        \A l \in Lids : l <= sent[c] => [client |-> c, lid |-> l] \in Seen

\* Nothing is read from a connection before its handler serves it, and the
\* router has one response at a time.
FoundInv ==
    /\ \A c \in Clients : Found(c) /\ (~Began(c) => sent[c] = 0)
    /\ \A r, q \in routing : r = q

(* Answers are never taken back, and those registered get theirs.          *)
LEMMA SendAllReaches ==
  ASSUME TypeOK, NEW S, NEW kind \in {"result", "initialize", "error"},
         SendAll(S, kind)
  PROVE  /\ Where("answered") \subseteq Where("answered")'
         /\ \A a \in S \cap Address :
               a.client \in clients => a \in Where("answered")'
<1>1. \A s \in Seq(Answer), x \in Answer : Append(s, x) # <<>>
  OBVIOUS
<1>2. ASSUME NEW c \in Clients, NEW l \in Lids
      PROVE  /\ inbox[c][l] # <<>> => inbox'[c][l] # <<>>
             /\ c \in clients /\ [client |-> c, lid |-> l] \in S
                   => inbox'[c][l] # <<>>
  <2> DEFINE to == [client |-> c, lid |-> l]
             answer == [kind |-> kind, of |-> to]
  <2>1. inbox'[c][l] = IF c \in clients /\ to \in S
                       THEN Append(inbox[c][l], answer) ELSE inbox[c][l]
    BY DEF SendAll
  <2>2. inbox[c][l] \in Seq(Answer) /\ answer \in Answer
    BY DEF TypeOK, ChannelTypeOK, Answer, Address
  <2>3. Append(inbox[c][l], answer) # <<>>
    BY <1>1, <2>2
  <2> HIDE DEF answer
  <2>4. QED
    BY <2>1, <2>3
<1>3. \A a \in Address : /\ a.client \in Clients /\ a.lid \in Lids
                         /\ a = [client |-> a.client, lid |-> a.lid]
  BY DEF Address
<1>4. Where("answered") \subseteq Where("answered")'
  BY <1>2, <1>3 DEF Where
<1>5. \A a \in S \cap Address :
         a.client \in clients => a \in Where("answered")'
  BY <1>2, <1>3 DEF Where
<1>6. QED
  BY <1>4, <1>5

(* An answer to one request, under its own name, is one to a set of one.   *)
LEMMA SendToAsAll ==
  ASSUME TypeOK, NEW to \in Address, NEW kind,
         SendTo(to, [kind |-> kind, of |-> to])
  PROVE  SendAll({to}, kind)
<1> DEFINE answer == [kind |-> kind, of |-> to]
<1>1. /\ inbox = [c \in Clients |-> [l \in Lids |-> inbox[c][l]]]
      /\ \A c \in Clients : inbox[c] = [l \in Lids |-> inbox[c][l]]
      /\ \A c \in Clients : DOMAIN inbox[c] = Lids
      /\ to.client \in Clients /\ to.lid \in Lids
      /\ \A c, l : [client |-> c, lid |-> l] = to <=> c = to.client /\ l = to.lid
  BY DEF TypeOK, ChannelTypeOK, Address
<1> HIDE DEF answer
<1>2. CASE to.client \in clients
  <2>1. inbox' = [inbox EXCEPT ![to.client][to.lid] = Append(@, answer)]
    BY <1>2 DEF SendTo, answer
  <2>2. inbox' = [c \in Clients |-> [l \in Lids |->
                    IF c = to.client /\ l = to.lid
                    THEN Append(inbox[c][l], answer) ELSE inbox[c][l]]]
    BY <1>1, <2>1
  <2>3. \A c \in Clients, l \in Lids :
           /\ c \in clients /\ [client |-> c, lid |-> l] \in {to}
                 <=> c = to.client /\ l = to.lid
           /\ [client |-> c, lid |-> l] \in {to} =>
                 [kind |-> kind, of |-> [client |-> c, lid |-> l]] = answer
    BY <1>1, <1>2 DEF answer
  <2>4. QED
    BY <2>2, <2>3 DEF SendAll
<1>3. CASE to.client \notin clients
  <2>1. \A c \in Clients, l \in Lids :
           ~(c \in clients /\ [client |-> c, lid |-> l] \in {to})
    BY <1>1, <1>3
  <2>2. inbox' = inbox
    BY <1>3 DEF SendTo
  <2>3. QED
    BY <1>1, <2>1, <2>2 DEF SendAll
<1>4. QED
  BY <1>2, <1>3

(* What a step must do: what was somewhere stays somewhere, unless its     *)
(* client goes, and what is read is put somewhere.                         *)
LEMMA FoundKept ==
  ASSUME TypeOK, TypeOK', NEW c \in Clients, Found(c),
         c \in clients' => c \in clients \/ sent[c] = 0,
         \A a \in Seen : a.client = c /\ c \in clients' => a \in Seen',
         \/ sent'[c] = sent[c]
         \/ /\ sent'[c] = sent[c] + 1
            /\ c \in clients' => [client |-> c, lid |-> sent[c] + 1] \in Seen'
  PROVE  Found(c)'
<1>1. /\ sent[c] \in Int /\ sent'[c] \in Int /\ \A l \in Lids : l \in Int /\ l > 0
  BY BoundsAssumption DEF TypeOK, HandlerTypeOK, Lids
<1>2. SUFFICES ASSUME c \in clients', NEW l \in Lids, l <= sent'[c]
               PROVE  [client |-> c, lid |-> l] \in Seen'
  BY DEF Found
<1>3. CASE l <= sent[c]
  <2>0. c \in clients /\ [client |-> c, lid |-> l].client = c
    BY <1>1, <1>2, <1>3
  <2>1. [client |-> c, lid |-> l] \in Seen
    BY <1>3, <2>0 DEF Found
  <2>2. QED
    BY <1>2, <2>0, <2>1
<1>4. CASE l = sent[c] + 1 /\ sent'[c] = sent[c] + 1
  BY <1>1, <1>2, <1>4
<1>5. QED
  BY <1>1, <1>2, <1>3, <1>4

\* What was somewhere is still somewhere, unless its client goes.
SeenKept == \A a \in Seen : a.client \in clients' => a \in Seen'

LEMMA SeenUnchanged ==
  ASSUME UNCHANGED <<pending, initWaiting, reaped, routing, work, buffer, inbox>>
  PROVE  SeenKept
<1>1. \A h \in Places : Where(h)' = Where(h)
  BY WhereKept DEF Places
<1>2. QED
  BY <1>1 DEF SeenKept, Seen

LEMMA SeenWhere == \A h \in Places : Where(h) \subseteq Seen
  BY DEF Seen

(* A handler answers the request it reads.                                 *)
LEMMA SeenIfAnswered ==
  ASSUME TypeOK, NEW a \in Address,
         NEW kind \in {"result", "initialize", "error"}, SendAll({a}, kind),
         UNCHANGED <<pending, initWaiting, reaped, routing, work, buffer>>
  PROVE  SeenKept /\ (a.client \in clients => a \in Seen')
<1>1. /\ Where("answered") \subseteq Where("answered")'
      /\ a.client \in clients => a \in Where("answered")'
  BY SendAllReaches
<1>2. \A h \in Places : Where(h) \subseteq Where(h)'
  BY <1>1, WhereKept DEF Places
<1>3. QED
  BY <1>1, <1>2 DEF SeenKept, Seen, Places

LEMMA SeenByAdmit ==
  ASSUME TypeOK, NEW c \in Clients, NEW l \in Lids, NEW method, NEW rest,
         Admit(c, method, l, rest),
         UNCHANGED <<initWaiting, reaped, routing, buffer>>,
         \A a \in Where("work") :
            a \in Where("work")' \/ a = [client |-> c, lid |-> l]
  PROVE  /\ c \in clients => [client |-> c, lid |-> l] \in Seen'
         /\ \A b \in Seen : b = [client |-> c, lid |-> l] \/ b \in Seen'
<1> DEFINE a == [client |-> c, lid |-> l]
<1>1. a \in Address /\ a.client = c
  BY DEF Address
<1>2. CASE UNCHANGED pending /\ SendAll({a}, "error")
  <2> HIDE DEF a
  <2>1. /\ Where("answered") \subseteq Where("answered")'
        /\ c \in clients => a \in Where("answered")'
    BY <1>1, <1>2, SendAllReaches
  <2>2. \A h \in Places \ {"work"} : Where(h) \subseteq Where(h)'
    BY <1>2, <2>1, WhereKept DEF Places
  <2>3. QED
    BY <2>1, <2>2 DEF Seen, Places, a
<1>3. CASE pending' = pending \cup {NewRequest(c, method, l)} /\ UNCHANGED inbox
  <2>1. AddressOf(NewRequest(c, method, l)) = a
    BY DEF AddressOf, NewRequest
  <2> HIDE DEF a
  <2>2. Where("pending") \subseteq Where("pending")' /\ a \in Where("pending")'
    BY <1>3, <2>1 DEF Where
  <2>3. \A h \in Places \ {"work"} : Where(h) \subseteq Where(h)'
    BY <1>3, <2>2, WhereKept DEF Places
  <2>4. QED
    BY <2>2, <2>3 DEF Seen, Places, a
<1>4. QED
  BY <1>2, <1>3 DEF Admit, SendError

LEMMA SeenByForward ==
  ASSUME TypeOK, NEW c \in Clients, Forward(c)
  PROVE  SeenKept
<1> DEFINE l == Head(work[c])
           a == [client |-> c, lid |-> l]
<1>1. /\ work \in [Clients -> Seq(Lids)] /\ work[c] # <<>>
      /\ work' = [work EXCEPT ![c] = Tail(@)]
      /\ Admit(c, "request", l, Tail(work[c]))
      /\ UNCHANGED <<clients, initWaiting, reaped, routing, buffer>>
  BY DEF Forward, TypeOK, HandlerTypeOK, taskVars
<1>2. /\ 1 \in DOMAIN work[c] /\ l = work[c][1] /\ l \in Lids
      /\ \A i \in DOMAIN work[c] : i # 1 =>
            i - 1 \in DOMAIN Tail(work[c]) /\ Tail(work[c])[i - 1] = work[c][i]
  BY <1>1
<1>3. work'[c] = Tail(work[c]) /\ \A d \in Clients \ {c} : work'[d] = work[d]
  BY <1>1
<1>4. \A b \in Where("work") : b \in Where("work")' \/ b = a
  <2> SUFFICES ASSUME NEW b \in Address, NEW i \in DOMAIN work[b.client],
                      work[b.client][i] = b.lid, b # a
               PROVE  \E j \in DOMAIN work'[b.client] :
                          work'[b.client][j] = b.lid
    BY DEF Where
  <2>1. b = [client |-> b.client, lid |-> b.lid] /\ b.client \in Clients
    BY DEF Address
  <2>2. CASE b.client = c
    <3>1. i # 1
      BY <1>2, <2>1, <2>2
    <3> HIDE DEF l
    <3>2. /\ i - 1 \in DOMAIN Tail(work[c]) /\ Tail(work[c])[i - 1] = work[c][i]
          /\ work'[b.client] = Tail(work[c])
      BY <1>2, <1>3, <2>2, <3>1
    <3>3. QED
      BY <2>2, <3>2
  <2>3. CASE b.client # c
    BY <1>3, <2>1, <2>3
  <2>4. QED
    BY <2>2, <2>3
<1> HIDE DEF l
<1>5. /\ c \in clients => a \in Seen'
      /\ \A b \in Seen : b = a \/ b \in Seen'
  BY <1>1, <1>2, <1>4, SeenByAdmit
<1>6. a.client = c
  OBVIOUS
<1> HIDE DEF a
<1>7. QED
  BY <1>1, <1>5, <1>6 DEF SeenKept

(* The requests kept for the handshake go to the buffer and back.          *)
LEMMA SeenByBuffer ==
  ASSUME TypeOK, NEW c \in Clients, BufferRequest(c)
  PROVE  SeenKept
<1>1. /\ work \in [Clients -> Seq(Lids)] /\ buffer \in [Clients -> Seq(Lids)]
      /\ work' = [work EXCEPT ![c] = <<>>]
      /\ c \in clients => buffer' = [buffer EXCEPT ![c] = @ \o work[c]]
      /\ c \notin clients => buffer' = buffer
      /\ UNCHANGED <<clients, pending, initWaiting, reaped, routing, inbox>>
  BY DEF BufferRequest, TypeOK, SharedTypeOK, HandlerTypeOK, taskVars, channelVars
<1>2. /\ \A d \in Clients \ {c} : work'[d] = work[d] /\ buffer'[d] = buffer[d]
      /\ c \in clients => buffer'[c] = buffer[c] \o work[c]
      /\ c \notin clients => buffer'[c] = buffer[c]
  BY <1>1
<1>3. /\ \A i \in DOMAIN buffer[c] : /\ i \in DOMAIN (buffer[c] \o work[c])
                                     /\ (buffer[c] \o work[c])[i] = buffer[c][i]
      /\ \A i \in DOMAIN work[c] :
            /\ i + Len(buffer[c]) \in DOMAIN (buffer[c] \o work[c])
            /\ (buffer[c] \o work[c])[i + Len(buffer[c])] = work[c][i]
  BY <1>1
<1>4. ASSUME NEW a \in Where("work") \cup Where("buffer"), a.client \in clients
      PROVE  a \in Where("work")' \cup Where("buffer")'
  <2>1. a \in Address /\ a.client \in Clients
    BY <1>4 DEF Where, Address
  <2>2. CASE a.client # c
    BY <1>2, <1>4, <2>1, <2>2 DEF Where
  <2>3. CASE a.client = c
    <3>1. buffer'[a.client] = buffer[c] \o work[c]
      BY <1>2, <1>4, <2>3
    <3>2. ASSUME NEW i \in DOMAIN buffer[c], buffer[c][i] = a.lid
          PROVE  a \in Where("buffer")'
      BY <1>3, <2>1, <3>1, <3>2 DEF Where
    <3>3. ASSUME NEW i \in DOMAIN work[c], work[c][i] = a.lid
          PROVE  a \in Where("buffer")'
      <4>1. PICK j \in DOMAIN buffer'[a.client] : buffer'[a.client][j] = a.lid
        BY <1>3, <3>1, <3>3
      <4>2. QED
        BY <2>1, <4>1 DEF Where
    <3>4. QED
      BY <1>4, <2>3, <3>2, <3>3 DEF Where
  <2>4. QED
    BY <2>2, <2>3
<1>5. ASSUME NEW a \in Seen, a.client \in clients' PROVE a \in Seen'
  <2>1. PICK h \in Places : a \in Where(h)
    BY DEF Seen
  <2>2. CASE h \in {"work", "buffer"}
    <3>1. a \in Where("work")' \cup Where("buffer")'
      BY <1>1, <1>4, <1>5, <2>1, <2>2
    <3>2. QED
      BY <3>1 DEF Seen, Places
  <2>3. CASE h \notin {"work", "buffer"}
    <3>1. Where(h)' = Where(h)
      BY <1>1, <2>3, WhereKept DEF Places
    <3>2. QED
      BY <2>1, <3>1 DEF Seen
  <2>4. QED
    BY <2>2, <2>3
<1>6. QED
  BY <1>5 DEF SeenKept

LEMMA SeenByComplete ==
  ASSUME TypeOK, NEW c \in Clients, Gate(c), CompleteHandshake(c)
  PROVE  SeenKept
<1>1. /\ work \in [Clients -> Seq(Lids)] /\ buffer \in [Clients -> Seq(Lids)]
      /\ work[c] = <<>>
      /\ work' = [work EXCEPT ![c] = buffer[c]]
      /\ buffer' = [buffer EXCEPT ![c] = <<>>]
      /\ UNCHANGED <<pending, initWaiting, reaped, routing, inbox>>
  BY DEF CompleteHandshake, Buffered, Gate, TypeOK, SharedTypeOK, HandlerTypeOK,
         taskVars, channelVars
<1>2. /\ work'[c] = buffer[c]
      /\ \A d \in Clients \ {c} : work'[d] = work[d] /\ buffer'[d] = buffer[d]
  BY <1>1
<1>3. ASSUME NEW a \in Where("work") \cup Where("buffer")
      PROVE  a \in Where("work")' \cup Where("buffer")'
  <2>1. a \in Address /\ a.client \in Clients
    BY <1>3 DEF Where, Address
  <2>2. CASE a.client # c
    BY <1>2, <1>3, <2>1, <2>2 DEF Where
  <2>3. CASE a.client = c
    BY <1>1, <1>2, <1>3, <2>1, <2>3 DEF Where
  <2>4. QED
    BY <2>2, <2>3
<1>4. \A h \in Places \ {"work", "buffer"} : Where(h) \subseteq Where(h)'
  BY <1>1, WhereKept DEF Places
<1>5. QED
  BY <1>3, <1>4 DEF SeenKept, Seen, Places

(* Unregistering forgets the requests of that client only.                 *)
LEMMA SeenByUnregister ==
  ASSUME TypeOK, NEW c \in Clients, UnregisterClient(c),
         UNCHANGED <<reaped, routing, work, inbox>>
  PROVE  SeenKept
<1>1. /\ buffer \in [Clients -> Seq(Lids)]
      /\ buffer' = [buffer EXCEPT ![c] = <<>>]
      /\ pending' = {p \in pending : p.client # c}
      /\ initWaiting' = {a \in initWaiting : a.client # c}
      /\ c \notin clients'
  BY DEF UnregisterClient, PendingWithout, TypeOK, SharedTypeOK
<1>2. \A h \in {"pending", "waiting", "buffer"} : \A a \in Where(h) :
         a.client # c => a \in Where(h)'
  BY <1>1 DEF Where, Address, AddressOf
<1>3. \A h \in Places \ {"pending", "waiting", "buffer"} :
         Where(h) \subseteq Where(h)'
  BY WhereKept DEF Places
<1>4. QED
  BY <1>1, <1>2, <1>3 DEF SeenKept, Seen, Places

(* A request that is read goes somewhere, if its client is registered.     *)
LEMMA SeenByReading ==
  ASSUME TypeOK, NEW c \in Clients, Gate(c),
         \/ RecvOversized(c) \/ RecvInitializeCached(c)
         \/ RecvInitialize(c) \/ RecvRequest(c)
  PROVE  /\ SeenKept
         /\ c \in clients => [client |-> c, lid |-> sent[c] + 1] \in Seen'
<1> DEFINE l == sent[c] + 1
           a == [client |-> c, lid |-> l]
<1>1. a \in Address /\ l \in Lids /\ a.client = c
  BY BoundsAssumption
  DEF RecvOversized, RecvInitializeCached, RecvInitialize, RecvRequest, Reads,
      Address, Lids, TypeOK, HandlerTypeOK
<1>2. CASE RecvOversized(c)
  <2>1. /\ SendAll({a}, "error")
        /\ UNCHANGED <<pending, initWaiting, reaped, routing, work, buffer>>
    BY <1>2 DEF RecvOversized, SendError, sharedVars, taskVars
  <2> HIDE DEF a
  <2>2. SeenKept /\ (a.client \in clients => a \in Seen')
    BY <1>1, <2>1, SeenIfAnswered
  <2>3. QED
    BY <1>1, <2>2 DEF a
<1>3. CASE RecvInitializeCached(c)
  <2>1. /\ SendTo(a, [kind |-> "initialize", of |-> a])
        /\ UNCHANGED <<pending, initWaiting, reaped, routing, work, buffer>>
    BY <1>3 DEF RecvInitializeCached, sharedVars, taskVars
  <2> HIDE DEF a
  <2>2. SeenKept /\ (a.client \in clients => a \in Seen')
    BY <1>1, <2>1, SendToAsAll, SeenIfAnswered
  <2>3. QED
    BY <1>1, <2>2 DEF a
<1>4. CASE RecvInitialize(c)
  <2>1. UNCHANGED <<clients, reaped, routing, work, buffer>>
    BY <1>4 DEF RecvInitialize, taskVars
  <2>2. CASE initWaiting' = initWaiting \cup {a} /\ UNCHANGED <<pending, inbox>>
    <3>1. Where("waiting") \subseteq Where("waiting")' /\ a \in Where("waiting")'
      BY <2>2 DEF Where
    <3>2. \A h \in Places : Where(h) \subseteq Where(h)'
      BY <2>1, <2>2, <3>1, WhereKept DEF Places
    <3>3. QED
      BY <3>1, <3>2 DEF SeenKept, Seen, Places
  <2>3. CASE Admit(c, "initialize", l, <<>>) /\ UNCHANGED initWaiting
    <3> HIDE DEF l
    <3>1. \A b \in Where("work") : b \in Where("work")' \/ b = a
      BY <2>1, WhereKept
    <3>2. /\ c \in clients => a \in Seen'
          /\ \A b \in Seen : b = a \/ b \in Seen'
      BY <1>1, <2>1, <2>3, <3>1, SeenByAdmit
    <3> HIDE DEF a
    <3>3. SeenKept
      BY <1>1, <2>1, <3>2 DEF SeenKept
    <3>4. QED
      BY <3>2, <3>3 DEF a, l
  <2>4. QED
    BY <1>4, <2>2, <2>3 DEF RecvInitialize
<1>5. CASE RecvRequest(c)
  <2>1. /\ work \in [Clients -> Seq(Lids)] /\ work[c] = <<>>
        /\ work' = [work EXCEPT ![c] = <<l>>]
        /\ UNCHANGED <<pending, initWaiting, reaped, routing, buffer, inbox>>
    BY <1>5 DEF RecvRequest, Reads, Gate, TypeOK, HandlerTypeOK, sharedVars,
                taskVars, channelVars
  <2> HIDE DEF l
  <2>2. work'[c] = <<l>> /\ \A d \in Clients \ {c} : work'[d] = work[d]
    BY <2>1
  <2>3. Where("work") \subseteq Where("work")'
    BY <2>1, <2>2 DEF Where, Address
  <2>4. a \in Where("work")'
    BY <1>1, <2>2 DEF Where
  <2>5. \A h \in Places : Where(h) \subseteq Where(h)'
    BY <2>1, <2>3, WhereKept DEF Places
  <2>6. QED
    BY <2>4, <2>5 DEF SeenKept, Seen, Places, l
<1>6. QED
  BY <1>2, <1>3, <1>4, <1>5

(* The router and the reaper answer what they take.                        *)
LEMMA SeenByAnswering ==
  ASSUME TypeOK, NEW S \in SUBSET Address,
         NEW kind \in {"result", "initialize", "error"}, SendAll(S, kind),
         UNCHANGED clients,
         \A h \in Places \ {"answered"} : Where(h) \subseteq Where(h)' \cup S
  PROVE  SeenKept
<1>1. /\ Where("answered") \subseteq Where("answered")'
      /\ \A a \in S : a.client \in clients => a \in Where("answered")'
  BY SendAllReaches
<1>2. QED
  BY <1>1 DEF SeenKept, Seen, Places

LEMMA SeenByRouter ==
  ASSUME TypeOK, IdsNameRequests, RouterNext,
         \A r, q \in routing : r = q
  PROVE  SeenKept
<1>1. CASE RouteResponse
  <2>1. /\ routing = {}
        /\ UNCHANGED <<initWaiting, reaped, work, buffer, inbox>>
        /\ \/ UNCHANGED <<pending, routing>>
           \/ \E entry \in pending : \E r :
                 /\ pending' = PendingAfter(entry)
                 /\ routing' = {r} /\ r.entry = entry
    BY <1>1 DEF RouteResponse, handlerVars
  <2>2. Where("pending") \subseteq Where("pending")' \cup Where("routing")'
    BY <2>1 DEF Where, PendingAfter
  <2>3. Where("routing") = {}
    BY <2>1 DEF Where
  <2>4. \A h \in Places \ {"pending", "routing"} : Where(h) \subseteq Where(h)'
    BY <2>1, WhereKept DEF Places
  <2>5. QED
    BY <2>2, <2>3, <2>4 DEF SeenKept, Seen, Places
<1>2. CASE CacheInitialize
  <2>1. /\ UNCHANGED <<clients, pending, reaped, work, buffer>>
        /\ SendAll(initWaiting, "initialize")
        /\ initWaiting \subseteq Address
    BY <1>2 DEF CacheInitialize, handlerVars, TypeOK, SharedTypeOK
  <2>2. PICK r \in routing : routing' = {[r EXCEPT !.stage = "deliver"]}
    BY <1>2 DEF CacheInitialize
  <2>3. [r EXCEPT !.stage = "deliver"].entry = r.entry
    BY DEF TypeOK, TaskTypeOK, Routed
  <2>4. Where("routing") \subseteq Where("routing")'
    BY <2>2, <2>3 DEF Where
  <2>5. \A h \in Places \ {"answered"} : Where(h) \subseteq Where(h)' \cup initWaiting
    BY <2>1, <2>4, WhereKept DEF Places, Where
  <2>6. QED
    BY <2>1, <2>5, SeenByAnswering
<1>3. CASE DeliverResponse
  <2>1. UNCHANGED <<clients, pending, initWaiting, reaped, work, buffer>>
    BY <1>3 DEF DeliverResponse, sharedVars, handlerVars
  <2>2. PICK r \in routing :
          SendTo(AddressOf(r.entry), [kind |-> AnswerKind(r.resp.req),
                                      of |-> AddressOf(r.resp.req)])
    BY <1>3 DEF DeliverResponse
  <2>3. r.entry \in Request /\ r.entry = r.resp.req
    BY DEF TypeOK, TaskTypeOK, Routed, IdsNameRequests
  <2>4. PICK a : a = AddressOf(r.entry)
    OBVIOUS
  <2>5. PICK kind : kind = AnswerKind(r.resp.req)
    OBVIOUS
  <2>6. a \in Address /\ kind \in {"result", "initialize", "error"}
    BY <2>3, <2>4, <2>5, AddressType DEF AnswerKind
  <2>7. SendTo(a, [kind |-> kind, of |-> a])
    BY <2>2, <2>3, <2>4, <2>5
  <2>8. SendAll({a}, kind)
    BY <2>6, <2>7, SendToAsAll
  <2>9. Where("routing") \subseteq {a}
    BY <2>4 DEF Where
  <2>10. \A h \in Places \ {"answered"} : Where(h) \subseteq Where(h)' \cup {a}
    BY <2>1, <2>9, WhereKept DEF Places
  <2>11. QED
    BY <2>1, <2>6, <2>8, <2>10, SeenByAnswering
<1>4. CASE ResetState
  <2> DEFINE S == Where("pending") \cup Where("waiting")
  <2>1. /\ UNCHANGED <<clients, reaped, routing, work, buffer>>
        /\ SendAll(S, "error")
    BY <1>4 DEF ResetState, handlerVars, taskVars, Where
  <2>2. S \subseteq Address
    BY WhereType DEF Places
  <2>3. \A h \in Places \ {"answered"} : Where(h) \subseteq Where(h)' \cup S
    BY <2>1, WhereKept DEF Places
  <2> HIDE DEF S
  <2>4. QED
    BY <2>1, <2>2, <2>3, SeenByAnswering
<1>5. QED
  BY <1>1, <1>2, <1>3, <1>4 DEF RouterNext

LEMMA SeenByReaper ==
  ASSUME TypeOK, ReaperNext
  PROVE  SeenKept
<1>1. CASE Expire
  <2>1. /\ reaped = {} /\ pending \subseteq pending' \cup reaped'
        /\ UNCHANGED <<initWaiting, routing, work, buffer, inbox>>
    BY <1>1 DEF Expire, Expired, channelVars, handlerVars
  <2>2. Where("pending") \subseteq Where("pending")' \cup Where("reaped")'
    BY <2>1 DEF Where
  <2>3. Where("reaped") = {}
    BY <2>1 DEF Where
  <2>4. \A h \in Places \ {"pending", "reaped"} : Where(h) \subseteq Where(h)'
    BY <2>1, WhereKept DEF Places
  <2>5. QED
    BY <2>2, <2>3, <2>4 DEF SeenKept, Seen, Places
<1>2. CASE AnswerExpired
  <2> DEFINE S == Where("reaped")
  <2>1. /\ UNCHANGED <<clients, pending, initWaiting, routing, work, buffer>>
        /\ SendAll(S, "error")
    BY <1>2 DEF AnswerExpired, sharedVars, handlerVars, Where
  <2>2. S \subseteq Address
    BY WhereType DEF Places
  <2>3. \A h \in Places \ {"answered"} : Where(h) \subseteq Where(h)' \cup S
    BY <2>1, WhereKept DEF Places
  <2> HIDE DEF S
  <2>4. QED
    BY <2>1, <2>2, <2>3, SeenByAnswering
<1>3. QED
  BY <1>1, <1>2 DEF ReaperNext

\* The actions that read a request.
Reading(c) ==
    \/ RecvOversized(c) \/ RecvInitializeCached(c)
    \/ RecvInitialize(c) \/ RecvRequest(c)

LEMMA SeenByHandler ==
  ASSUME TypeOK, NEW c \in Clients, Gate(c), HandlerNext(c)
  PROVE  SeenKept
<1>1. CASE Reading(c)
  BY <1>1, SeenByReading DEF Reading
<1>2. CASE BufferRequest(c) \/ CompleteHandshake(c) \/ Forward(c)
  BY <1>2, SeenByBuffer, SeenByComplete, SeenByForward
<1>3. CASE Leave(c) \/ WriterFails(c)
  BY <1>3, SeenByUnregister
  DEF Leave, WriterFails, handlerVars, channelVars, taskVars
<1>4. CASE Connect(c) \/ Register(c) \/ RecvNotification(c)
           \/ RecvInitialized(c) \/ Announce(c) \/ Enqueue(c) \/ EnqueueFails(c)
           \/ Disconnect(c) \/ HandshakeTimeout(c) \/ RecvMalformed(c)
  BY <1>4, SeenUnchanged
  DEF Connect, Register, RegisterClient, RecvNotification, RecvInitialized,
      Announce, Enqueue, EnqueueFails, Disconnect, HandshakeTimeout, RecvMalformed,
      sharedVars, handlerVars, channelVars, taskVars
<1>5. QED
  BY <1>1, <1>2, <1>3, <1>4 DEF HandlerNext, HandlerProceeds, Reading

(* What the steps of a handler do to its session and what it has read.     *)
LEMMA SessionOfHandler ==
  ASSUME TypeOK, NEW c \in Clients, HandlerNext(c)
  PROVE  /\ routing' = routing
         /\ Reading(c) => /\ Began(c) /\ clients' = clients
                          /\ sent' = [sent EXCEPT ![c] = @ + 1]
         /\ ~Reading(c) => sent' = sent
         /\ Register(c) => ~Began(c) /\ Began(c)'
         /\ ~Register(c) => /\ Began(c)' <=> Began(c)
                            /\ clients' \subseteq clients
         /\ ~Register(c) /\ ~Leave(c) /\ ~WriterFails(c) => clients' = clients
<1>1. Reading(c) => /\ pc[c] = "ready" /\ Began(c)' /\ clients' = clients
                    /\ sent' = [sent EXCEPT ![c] = @ + 1] /\ routing' = routing
  <2>1. CASE RecvOversized(c) \/ RecvInitializeCached(c) \/ RecvRequest(c)
    BY <2>1 DEF RecvOversized, RecvInitializeCached, RecvRequest, Reads, Began,
                sharedVars, taskVars, TypeOK, HandlerTypeOK
  <2>2. CASE RecvInitialize(c)
    BY <2>2 DEF RecvInitialize, Reads, Admit, After, Began, taskVars, TypeOK,
                HandlerTypeOK
  <2>3. QED
    BY <2>1, <2>2 DEF Reading
<1>2. Register(c) => /\ pc[c] = "accepted" /\ Began(c)'
                     /\ sent' = sent /\ routing' = routing
  BY DEF Register, Began, taskVars, TypeOK, HandlerTypeOK
<1>3. Leave(c) \/ WriterFails(c) =>
         /\ sent' = sent /\ routing' = routing /\ clients' \subseteq clients
         /\ Began(c)' <=> Began(c)
  BY DEF Leave, WriterFails, UnregisterClient, Began, handlerVars, taskVars,
         TypeOK, HandlerTypeOK
<1>4. CASE Connect(c) \/ Forward(c) \/ RecvNotification(c)
           \/ RecvInitialized(c) \/ Announce(c) \/ CompleteHandshake(c)
           \/ BufferRequest(c) \/ Enqueue(c) \/ EnqueueFails(c) \/ Disconnect(c)
           \/ HandshakeTimeout(c) \/ RecvMalformed(c)
  <2>1. /\ sent' = sent /\ routing' = routing /\ clients' = clients
        /\ Began(c)' <=> Began(c)
    BY <1>4
    DEF Connect, Forward, Admit, RecvNotification, RecvInitialized, Announce,
        CompleteHandshake, BufferRequest, Enqueue, EnqueueFails, After, Disconnect,
        HandshakeTimeout, RecvMalformed, Began, sharedVars, handlerVars,
        taskVars, TypeOK, HandlerTypeOK
  <2>2. QED
    BY <1>1, <1>2, <2>1 DEF Began
<1>5. CASE Reading(c) \/ Register(c) \/ Leave(c) \/ WriterFails(c)
  BY <1>1, <1>2, <1>3, <1>5 DEF Began
<1>6. QED
  BY <1>4, <1>5 DEF HandlerNext, HandlerProceeds, Reading

LEMMA FoundInit == Init => FoundInv
<1> SUFFICES ASSUME Init PROVE FoundInv
  OBVIOUS
<1>1. clients = {} /\ routing = {} /\ \A c \in Clients : sent[c] = 0
  BY DEF Init, SharedInit, TaskInit, HandlerInit
<1>2. QED
  BY <1>1 DEF FoundInv, Found

LEMMA FoundStep ==
  ASSUME TypeOK, TypeOK', GateInv, IdsNameRequests, FoundInv, [Next]_vars
  PROVE  FoundInv'
<1>1. ASSUME NEW c \in Clients, HandlerNext(c) PROVE FoundInv'
  <2>1. /\ SeenKept /\ routing' = routing
        /\ Reading(c) => /\ Began(c) /\ Began(c)' /\ clients' = clients
                         /\ sent'[c] = sent[c] + 1
        /\ ~Reading(c) => sent'[c] = sent[c]
        /\ Began(c)' \/ ~Began(c)
        /\ c \in clients' /\ c \notin clients => ~Began(c)
    BY <1>1, SeenByHandler, SessionOfHandler DEF GateInv, TypeOK, HandlerTypeOK
  <2>2. ASSUME NEW d \in Clients, d # c
        PROVE  Found(d)' /\ (~Began(d)' => sent'[d] = 0)
    <3>1. /\ sent'[d] = sent[d] /\ pc'[d] = pc[d]
          /\ d \in clients' <=> d \in clients
      BY <1>1, <2>2, OtherClients
    <3>2. Found(d)'
      BY <2>1, <3>1, FoundKept DEF FoundInv, SeenKept
    <3>3. QED
      BY <3>1, <3>2 DEF FoundInv, Began
  <2>3. Reading(c) /\ c \in clients' =>
           [client |-> c, lid |-> sent[c] + 1] \in Seen'
    BY <2>1, SeenByReading DEF Reading, GateInv
  <2>4. Found(c)'
    BY <2>1, <2>3, FoundKept DEF FoundInv, SeenKept
  <2>5. ~Began(c)' => sent'[c] = 0
    BY <2>1 DEF FoundInv
  <2>6. QED
    BY <2>1, <2>2, <2>4, <2>5 DEF FoundInv
<1>2. CASE RouterNext \/ ReaperNext \/ ManagerNext \/ UNCHANGED vars
  <2>1. UNCHANGED <<pc, sent, clients>>
    BY <1>2, OtherTasks DEF handlerVars
  <2>2. SeenKept
    <3>1. CASE RouterNext \/ ReaperNext
      BY <3>1, SeenByRouter, SeenByReaper DEF FoundInv
    <3>2. CASE ManagerNext \/ UNCHANGED vars
      <4>1. UNCHANGED <<pending, initWaiting, reaped, routing, work, buffer, inbox>>
        BY <3>2
        DEF ManagerNext, ManagerProceeds, Spawn, WriteToChild, WriteFails,
            ChildStops, ChildAnswers, SendReset, ClearCache,
            TakeFirst, GiveUp, Return, SpawnFails,
            ManagerReturns, WriteFirst, FirstWriteFails, sharedVars,
            channelVars, handlerVars, taskVars, vars
      <4>2. QED
        BY <4>1, SeenUnchanged
    <3>3. QED
      BY <1>2, <3>1, <3>2
  <2>3. \A r, q \in routing' : r = q
    BY <1>2
    DEF FoundInv, RouterNext, RouteResponse, CacheInitialize, DeliverResponse,
        ResetState, ReaperNext, Expire, AnswerExpired, ManagerNext,
        ManagerProceeds, Spawn, WriteToChild, WriteFails, ChildStops,
        ChildAnswers, SendReset, ClearCache,
        TakeFirst, GiveUp, Return, SpawnFails,
        ManagerReturns, WriteFirst, FirstWriteFails, taskVars, vars
  <2>4. \A c \in Clients : Found(c)'
    BY <2>1, <2>2, FoundKept DEF FoundInv, SeenKept
  <2>5. QED
    BY <2>1, <2>3, <2>4 DEF FoundInv, Began
<1>3. QED
  BY <1>1, <1>2 DEF Next

-----------------------------------------------------------------------------
(* The mux implements RequestService.                                      *)

\* Since nothing is forgotten and nothing is at two places, what is owed is
\* what was read from a registered client and has no answer.
Unanswered ==
    {a \in Address : /\ a.client \in clients /\ a.lid <= sent[a.client]
                     /\ inbox[a.client][a.lid] = <<>>}

LEMMA OwedUnanswered ==
  ASSUME TypeOK, AnswerInv, FoundInv
  PROVE  Owed = Unanswered
<1>1. Owed = {a \in Address : /\ a.client \in clients
                              /\ \E h \in Places \ {"answered"} : a \in Where(h)}
  BY DEF Owed, Where, Places
<1>2. ASSUME NEW a \in Address, a.client \in clients
      PROVE  (\E h \in Places \ {"answered"} : a \in Where(h))
                <=> a.lid <= sent[a.client] /\ inbox[a.client][a.lid] = <<>>
  <2>1. /\ a = [client |-> a.client, lid |-> a.lid]
        /\ a.client \in Clients /\ a.lid \in Lids
    BY DEF Address
  <2>2. a \in Where("answered") <=> inbox[a.client][a.lid] # <<>>
    BY DEF Where
  <2>3. ASSUME NEW h \in Places \ {"answered"}, a \in Where(h)
        PROVE  a.lid <= sent[a.client] /\ a \notin Where("answered")
    BY <2>3 DEF AnswerInv, Read, Apart, Places
  <2>4. a.lid <= sent[a.client] => a \in Seen
    BY <1>2, <2>1 DEF FoundInv, Found
  <2>5. QED
    BY <2>2, <2>3, <2>4 DEF Seen
<1>3. QED
  BY <1>1, <1>2 DEF Unanswered

LEMMA SessionKept ==
  ASSUME \A c \in Clients : /\ c \in clients' <=> c \in clients
                            /\ Began(c)' <=> Began(c)
  PROVE  Session' = Session
  BY DEF Session, Began

LEMMA AnsweredAsService ==
  ASSUME NEW S, NEW kind, SendAll(S, kind)
  PROVE  inbox' = Service!Answered({a \in S : a.client \in clients}, kind)
  BY DEF SendAll, Service!Answered, Service!Lids, Lids

(* Answering unanswered requests is one step of the service, or none if    *)
(* nobody of them is registered any more.                                  *)
LEMMA AnswersAsService ==
  ASSUME TypeOK, NEW S \in SUBSET Address,
         NEW kind \in {"result", "initialize", "error"}, SendAll(S, kind),
         UNCHANGED <<clients, sent>>, Session' = Session,
         Owed = Unanswered, Owed' = Unanswered',
         \A a \in S : a.lid <= sent[a.client] /\ a \notin Where("answered")
  PROVE  Service!Next \/ UNCHANGED Service!vars
<1> DEFINE T == {a \in S : a.client \in clients}
<1>1. inbox' = Service!Answered(T, kind)
  BY AnsweredAsService
<1>2. T \subseteq Owed
  BY DEF Unanswered, Where
<1>3. \A a \in Address : /\ a.client \in Clients /\ a.lid \in Lids
                         /\ a = [client |-> a.client, lid |-> a.lid]
  BY DEF Address
<1>4. \A a \in Address : /\ a \in T => inbox'[a.client][a.lid] # <<>>
                         /\ a \notin T => inbox'[a.client][a.lid]
                                             = inbox[a.client][a.lid]
  <2>1. \A s \in Seq(Answer), x \in Answer : Append(s, x) # <<>>
    OBVIOUS
  <2>2. ASSUME NEW a \in Address
        PROVE  inbox'[a.client][a.lid]
                 = IF a \in T THEN Append(inbox[a.client][a.lid],
                                          [kind |-> kind, of |-> a])
                              ELSE inbox[a.client][a.lid]
    <3> HIDE DEF T
    <3>1. PICK c \in Clients, l \in Lids : a = [client |-> c, lid |-> l]
      BY <1>3
    <3>2. inbox'[c][l] = IF [client |-> c, lid |-> l] \in T
                         THEN Append(inbox[c][l],
                                [kind |-> kind, of |-> [client |-> c, lid |-> l]])
                         ELSE inbox[c][l]
      BY <1>1 DEF Service!Answered, Service!Lids, Lids
    <3>3. QED
      BY <3>1, <3>2
  <2>3. \A a \in Address : /\ inbox[a.client][a.lid] \in Seq(Answer)
                           /\ [kind |-> kind, of |-> a] \in Answer
    BY <1>3 DEF TypeOK, ChannelTypeOK, Answer
  <2> HIDE DEF T
  <2>4. QED
    BY <2>1, <2>2, <2>3
<1>5. Owed' = Owed \ T
  <2> HIDE DEF T
  <2>1. Unanswered' = Unanswered \ T
    BY <1>4 DEF Unanswered
  <2>2. QED
    BY <2>1
<1>6. CASE T = {}
  <2>1. inbox' = inbox
    <3>1. \A c \in Clients, l \in Lids :
             ~(c \in clients /\ [client |-> c, lid |-> l] \in S)
      BY <1>6
    <3>2. inbox = [c \in Clients |-> [l \in Lids |-> inbox[c][l]]]
      BY DEF TypeOK, ChannelTypeOK
    <3>3. QED
      BY <3>1, <3>2 DEF SendAll
  <2>2. QED
    BY <1>5, <1>6, <2>1 DEF Service!vars
<1>7. CASE T # {}
  <2>1. Service!AnswerOpen(T, kind)
    BY <1>1, <1>5, <1>7 DEF Service!AnswerOpen
  <2> HIDE DEF T
  <2>2. QED
    BY <1>2, <2>1 DEF Service!Next, Service!Kinds
<1>8. QED
  BY <1>6, <1>7

(* Reading a request is to ask, to ask in vain, or to ask and be answered. *)
LEMMA ReadingAsService ==
  ASSUME TypeOK, AnswerInv, NEW c \in Clients, HandlerNext(c), Reading(c),
         Owed = Unanswered, Owed' = Unanswered'
  PROVE  Service!Next
<1> DEFINE a == [client |-> c, lid |-> sent[c] + 1]
<1>1. /\ Began(c) /\ clients' = clients /\ sent' = [sent EXCEPT ![c] = @ + 1]
      /\ Began(c)' <=> Began(c)
      /\ \A d \in Clients \ {c} : pc'[d] = pc[d]
  BY SessionOfHandler, OtherClients DEF Reading, Register
<1>2. Session' = Session
  BY <1>1, SessionKept DEF Began
<1>3. /\ Reads(c)
      /\ \/ UNCHANGED inbox
         \/ \E kind \in {"initialize", "error"} : SendAll({a}, kind)
  <2>1. CASE RecvOversized(c) \/ RecvRequest(c)
    BY <2>1 DEF RecvOversized, RecvRequest, SendError, channelVars
  <2>2. CASE RecvInitialize(c)
    BY <2>2 DEF RecvInitialize, Admit, SendError
  <2>3. CASE RecvInitializeCached(c)
    <3>1. Reads(c) /\ SendTo(a, [kind |-> "initialize", of |-> a])
      BY <2>3 DEF RecvInitializeCached
    <3>2. a \in Address
      BY <3>1, Fresh DEF AnswerInv
    <3> HIDE DEF a
    <3>3. QED
      BY <3>1, <3>2, SendToAsAll
  <2>4. QED
    BY <2>1, <2>2, <2>3 DEF Reading
<1>4. /\ a \in Address /\ a \notin Where("answered")
      /\ a = Service!Latest(c) /\ a.client = c /\ a.lid = sent[c] + 1
      /\ Service!Asks(c)
      /\ \A d \in Clients : sent[d] \in Int /\ (d # c => sent'[d] = sent[d])
      /\ sent'[c] = sent[c] + 1
  <2>1. a \in Address /\ a \notin Where("answered") /\ sent'[c] = sent[c] + 1
    BY <1>3, Fresh DEF AnswerInv, Places
  <2>2. Service!Asks(c)
    BY <1>1, <1>2, <1>3 DEF Service!Asks, Reads
  <2>3. \A d \in Clients : sent[d] \in Int /\ (d # c => sent'[d] = sent[d])
    BY <1>1, BoundsAssumption DEF TypeOK, HandlerTypeOK
  <2>4. QED
    BY <2>1, <2>2, <2>3 DEF Service!Latest
<1>5. \A b \in Address : /\ b.client \in Clients /\ b.lid \in Lids /\ b.lid \in Int
                         /\ b = [client |-> b.client, lid |-> b.lid]
  BY BoundsAssumption DEF Address, Lids
<1>6. \A b \in Address : b.client = c /\ b # a => b.lid # sent[c] + 1
  BY <1>5
<1> HIDE DEF a
<1>7. CASE c \notin clients
  <2>1. inbox' = inbox
    <3>1. CASE \E kind \in {"initialize", "error"} : SendAll({a}, kind)
      <4>1. \A d \in Clients, l \in Lids :
               ~(d \in clients /\ [client |-> d, lid |-> l] \in {a})
        BY <1>4, <1>7
      <4>2. inbox = [d \in Clients |-> [l \in Lids |-> inbox[d][l]]]
        BY DEF TypeOK, ChannelTypeOK
      <4>3. QED
        BY <3>1, <4>1, <4>2 DEF SendAll
    <3>2. QED
      BY <1>3, <3>1
  <2>2. Unanswered' = Unanswered
    BY <1>1, <1>4, <1>5, <1>7, <2>1 DEF Unanswered
  <2>3. Session[c] = "closed"
    BY <1>1, <1>7 DEF Session, Began
  <2>4. Service!AskInVain(c)
    BY <1>4, <2>1, <2>2, <2>3 DEF Service!AskInVain
  <2>5. QED
    BY <2>4 DEF Service!Next
<1>8. CASE c \in clients /\ UNCHANGED inbox
  <2>1. inbox[a.client][a.lid] = <<>>
    BY <1>4 DEF Where
  <2>2. \A b \in Address : b.lid <= sent'[b.client]
                              <=> b.lid <= sent[b.client] \/ b = a
    BY <1>4, <1>5, <1>6
  <2>3. Unanswered' = Unanswered \cup {a}
    BY <1>1, <1>4, <1>8, <2>1, <2>2 DEF Unanswered
  <2>4. Session[c] = "served"
    BY <1>8 DEF Session
  <2>5. Service!Ask(c)
    BY <1>4, <1>8, <2>3, <2>4 DEF Service!Ask
  <2>6. QED
    BY <2>5 DEF Service!Next
<1>9. ASSUME c \in clients, NEW kind \in {"initialize", "error"},
             SendAll({a}, kind)
      PROVE  Service!Next
  <2>1. {b \in {a} : b.client \in clients} = {a}
    BY <1>4, <1>9
  <2>2. inbox' = Service!Answered({a}, kind)
    BY <1>9, <2>1, AnsweredAsService
  <2>3. \A b \in Address : b # a => inbox'[b.client][b.lid] = inbox[b.client][b.lid]
    BY <1>5, <1>9 DEF SendAll
  <2>4. inbox'[a.client][a.lid] # <<>>
    <3>1. a \in Where("answered")'
      BY <1>4, <1>9, SendAllReaches
    <3>2. QED
      BY <3>1 DEF Where
  <2>5. \A b \in Address : b # a => (b.lid <= sent'[b.client]
                                         <=> b.lid <= sent[b.client])
    BY <1>4, <1>5, <1>6
  <2>6. a.lid > sent[a.client]
    BY <1>4
  <2>7. Unanswered' = Unanswered
    BY <1>1, <1>4, <2>3, <2>4, <2>5, <2>6 DEF Unanswered
  <2>8. Session[c] = "served"
    BY <1>9 DEF Session
  <2>9. Service!AskAndAnswer(c, kind)
    BY <1>4, <2>2, <2>7, <2>8 DEF Service!AskAndAnswer
  <2>10. QED
    BY <2>9 DEF Service!Next, Service!Kinds
<1>10. QED
  BY <1>3, <1>7, <1>8, <1>9

LEMMA RegisterAsService ==
  ASSUME TypeOK, FoundInv, NEW c \in Clients, Register(c),
         c \in clients => Began(c),
         Owed = Unanswered, Owed' = Unanswered'
  PROVE  Service!Serve(c)
<1>1. /\ clients' = clients \cup {c} /\ pc[c] = "accepted"
      /\ pc' = [pc EXCEPT ![c] = "ready"]
      /\ pc \in [Clients -> HandlerStates]
      /\ UNCHANGED <<sent, inbox>>
  BY DEF Register, RegisterClient, channelVars, TypeOK, HandlerTypeOK
<1>2. c \notin clients /\ sent[c] = 0
  BY <1>1 DEF FoundInv, Began
<1>3. Unanswered' = Unanswered
  BY <1>1, <1>2, BoundsAssumption DEF Unanswered, Address, Lids
<1>4. Session' = [Session EXCEPT ![c] = "served"]
  BY <1>1 DEF Session
<1>5. Session[c] = "new"
  BY <1>1, <1>2 DEF Session
<1>6. QED
  BY <1>1, <1>3, <1>4, <1>5 DEF Service!Serve

LEMMA UnregisterAsService ==
  ASSUME TypeOK, NEW c \in Clients, UnregisterClient(c), UNCHANGED <<sent, inbox>>,
         Began(c) \/ c \notin clients, Began(c)' <=> Began(c),
         \A d \in Clients \ {c} : pc'[d] = pc[d],
         Owed = Unanswered, Owed' = Unanswered'
  PROVE  Service!Close(c) \/ UNCHANGED Service!vars
<1>1. clients' = clients \ {c}
  BY DEF UnregisterClient
<1>2. \A d \in Clients : Began(d)' <=> Began(d)
  BY DEF Began
<1>3. Unanswered' = {a \in Unanswered : a.client # c}
  BY <1>1 DEF Unanswered
<1>4. CASE c \notin clients
  <2>1. Session' = Session
    BY <1>1, <1>2, <1>4, SessionKept
  <2>2. Unanswered' = Unanswered
    BY <1>1, <1>4 DEF Unanswered
  <2>3. QED
    BY <2>1, <2>2 DEF Service!vars
<1>5. CASE c \in clients
  <2>1. Session' = [Session EXCEPT ![c] = "closed"]
    BY <1>1, <1>2, <1>5 DEF Session, Began
  <2>2. Session[c] = "served"
    BY <1>5 DEF Session
  <2>3. QED
    BY <1>3, <2>1, <2>2 DEF Service!Close
<1>6. QED
  BY <1>4, <1>5

LEMMA ForwardAsService ==
  ASSUME TypeOK, AnswerInv, NEW c \in Clients, Forward(c), Session' = Session,
         Owed = Unanswered, Owed' = Unanswered'
  PROVE  Service!Next \/ UNCHANGED Service!vars
<1> DEFINE a == [client |-> c, lid |-> Head(work[c])]
<1>1. /\ work[c] \in Seq(Lids) /\ work[c] # <<>>
      /\ UNCHANGED <<clients, sent>>
      /\ UNCHANGED inbox \/ SendAll({a}, "error")
  BY DEF Forward, Admit, SendError, TypeOK, HandlerTypeOK
<1>2. 1 \in DOMAIN work[c] /\ Head(work[c]) = work[c][1] /\ Head(work[c]) \in Lids
  BY <1>1
<1>3. a \in Address /\ a \in Where("work")
  BY <1>2 DEF Where, Address
<1> HIDE DEF a
<1>4. a.lid <= sent[a.client] /\ a \notin Where("answered")
  BY <1>3 DEF AnswerInv, Read, Apart, Places
<1>5. CASE UNCHANGED inbox
  <2>1. Unanswered' = Unanswered
    BY <1>1, <1>5 DEF Unanswered
  <2>2. QED
    BY <1>1, <1>5, <2>1 DEF Service!vars
<1>6. CASE SendAll({a}, "error")
  <2>1. {a} \in SUBSET Address
    BY <1>3
  <2>2. QED
    BY <1>1, <1>4, <1>6, <2>1, AnswersAsService
<1>7. QED
  BY <1>1, <1>5, <1>6

(* A step that answers nobody and reads nothing is none of the service.    *)
LEMMA StutterAsService ==
  ASSUME UNCHANGED <<clients, sent, inbox>>, Session' = Session,
         Owed = Unanswered, Owed' = Unanswered'
  PROVE  UNCHANGED Service!vars
<1>1. Unanswered' = Unanswered
  BY DEF Unanswered
<1>2. QED
  BY <1>1 DEF Service!vars

LEMMA HandlerAsService ==
  ASSUME TypeOK, GateInv, AnswerInv, FoundInv, NEW c \in Clients, HandlerNext(c),
         Owed = Unanswered, Owed' = Unanswered'
  PROVE  Service!Next \/ UNCHANGED Service!vars
<1>1. \A d \in Clients \ {c} : pc'[d] = pc[d]
  BY OtherClients
<1>2. /\ ~Register(c) => (Began(c)' <=> Began(c))
      /\ c \in clients => Began(c)
  BY SessionOfHandler DEF GateInv, Gate
<1>3. ~Register(c) /\ UNCHANGED clients => Session' = Session
  BY <1>1, <1>2, SessionKept DEF Began
<1>4. CASE Reading(c)
  BY <1>4, ReadingAsService
<1>5. CASE Register(c)
  <2>1. Service!Serve(c)
    BY <1>2, <1>5, RegisterAsService
  <2>2. QED
    BY <2>1 DEF Service!Next
<1>6. CASE Leave(c) \/ WriterFails(c)
  <2>1. UnregisterClient(c) /\ UNCHANGED <<sent, inbox>> /\ ~Register(c)
    BY <1>6 DEF Leave, WriterFails, Register, RegisterClient, UnregisterClient,
                handlerVars, channelVars
  <2>2. Service!Close(c) \/ UNCHANGED Service!vars
    BY <1>1, <1>2, <2>1, UnregisterAsService
  <2>3. QED
    BY <2>2 DEF Service!Next
<1>7. CASE Forward(c)
  <2>1. Session' = Session
    BY <1>3, <1>7 DEF Forward, Register
  <2>2. QED
    BY <1>7, <2>1, ForwardAsService
<1>8. CASE Connect(c) \/ RecvNotification(c) \/ RecvInitialized(c)
           \/ Announce(c) \/ CompleteHandshake(c) \/ BufferRequest(c)
           \/ Enqueue(c) \/ EnqueueFails(c) \/ Disconnect(c) \/ HandshakeTimeout(c)
           \/ RecvMalformed(c)
  <2>1. UNCHANGED <<clients, sent, inbox>> /\ ~Register(c)
    BY <1>8
    DEF Connect, RecvNotification, RecvInitialized, Announce,
        CompleteHandshake, BufferRequest, Enqueue, EnqueueFails, Disconnect,
        HandshakeTimeout, RecvMalformed, Register, sharedVars, handlerVars,
        channelVars
  <2>2. QED
    BY <1>3, <2>1, StutterAsService
<1>9. QED
  BY <1>4, <1>5, <1>6, <1>7, <1>8 DEF HandlerNext, HandlerProceeds, Reading

LEMMA TasksAsService ==
  ASSUME TypeOK, IdsNameRequests, AnswerInv,
         RouterNext \/ ReaperNext \/ ManagerNext \/ UNCHANGED vars,
         Owed = Unanswered, Owed' = Unanswered'
  PROVE  Service!Next \/ UNCHANGED Service!vars
<1>1. UNCHANGED <<clients, sent, pc>>
  BY OtherTasks DEF handlerVars
<1>2. Session' = Session
  BY <1>1, SessionKept DEF Began
<1>3. ASSUME NEW S \in SUBSET Address, NEW h \in Places \ {"answered"},
             NEW g \in Places \ {"answered"}, S \subseteq Where(h) \cup Where(g),
             NEW kind \in {"result", "initialize", "error"}, SendAll(S, kind)
      PROVE  Service!Next \/ UNCHANGED Service!vars
  <2>1. \A a \in S : a.lid <= sent[a.client] /\ a \notin Where("answered")
    BY <1>3 DEF AnswerInv, Read, Apart, Places
  <2>2. QED
    BY <1>1, <1>2, <1>3, <2>1, AnswersAsService
<1>4. Where("pending") \cup Where("waiting") \cup Where("reaped") \subseteq Address
  BY WhereType DEF Places
<1>5. CASE CacheInitialize
  <2>1. SendAll(Where("waiting"), "initialize")
    BY <1>5 DEF CacheInitialize, Where
  <2>2. QED
    BY <1>3, <1>4, <2>1 DEF Places
<1>6. CASE DeliverResponse
  <2>1. PICK r \in routing :
          SendTo(AddressOf(r.entry), [kind |-> AnswerKind(r.resp.req),
                                      of |-> AddressOf(r.resp.req)])
    BY <1>6 DEF DeliverResponse
  <2>2. r.entry \in Request /\ r.entry = r.resp.req
    BY DEF TypeOK, TaskTypeOK, Routed, IdsNameRequests
  <2>3. PICK a : a = AddressOf(r.entry)
    OBVIOUS
  <2>4. PICK kind : kind = AnswerKind(r.resp.req)
    OBVIOUS
  <2>5. a \in Address /\ kind \in {"result", "initialize", "error"}
    BY <2>2, <2>3, <2>4, AddressType DEF AnswerKind
  <2>6. SendTo(a, [kind |-> kind, of |-> a])
    BY <2>1, <2>2, <2>3, <2>4
  <2>7. SendAll({a}, kind)
    BY <2>5, <2>6, SendToAsAll
  <2>8. {a} \in SUBSET Address /\ {a} \subseteq Where("routing")
    BY <2>3, <2>5 DEF Where
  <2>9. QED
    BY <1>3, <2>5, <2>7, <2>8 DEF Places
<1>7. CASE ResetState
  <2>1. SendAll(Where("pending") \cup Where("waiting"), "error")
    BY <1>7 DEF ResetState, Where
  <2>2. QED
    BY <1>3, <1>4, <2>1 DEF Places
<1>8. CASE AnswerExpired
  <2>1. SendAll(Where("reaped"), "error")
    BY <1>8 DEF AnswerExpired, Where
  <2>2. QED
    BY <1>3, <1>4, <2>1 DEF Places
<1>9. CASE RouteResponse \/ Expire \/ ManagerNext \/ UNCHANGED vars
  <2>1. UNCHANGED inbox
    BY <1>9
    DEF RouteResponse, Expire, ManagerNext, ManagerProceeds, Spawn,
        WriteToChild, WriteFails, ChildStops, ChildAnswers, SendReset,
        ClearCache,
        TakeFirst, GiveUp, Return, SpawnFails,
        ManagerReturns, WriteFirst, FirstWriteFails, channelVars, vars
  <2>2. QED
    BY <1>1, <1>2, <2>1, StutterAsService
<1>10. QED
  BY <1>5, <1>6, <1>7, <1>8, <1>9 DEF RouterNext, ReaperNext

LEMMA ServiceInit == Init => Service!Init
<1> SUFFICES ASSUME Init PROVE Service!Init
  OBVIOUS
<1>1. /\ clients = {} /\ pc = [c \in Clients |-> "absent"]
      /\ sent = [c \in Clients |-> 0]
      /\ inbox = [c \in Clients |-> [l \in Lids |-> <<>>]]
  BY DEF Init, SharedInit, HandlerInit, ChannelInit
<1>2. Owed = {}
  BY <1>1 DEF Owed
<1>3. Session = [c \in Clients |-> "new"]
  BY <1>1 DEF Session
<1>4. QED
  BY <1>1, <1>2, <1>3 DEF Service!Init, Service!Lids, Lids

\* What the refinement mapping makes of a reachable state.
Exact == Owed = Unanswered

LEMMA ServiceNext ==
  TypeOK /\ GateInv /\ IdsNameRequests /\ AnswerInv /\ FoundInv
      /\ Exact /\ Exact' /\ [Next]_vars => [Service!Next]_Service!vars
<1> SUFFICES ASSUME TypeOK, GateInv, IdsNameRequests, AnswerInv, FoundInv,
                    Exact, Exact', [Next]_vars
             PROVE  Service!Next \/ UNCHANGED Service!vars
  BY DEF Service!vars
<1>1. Owed = Unanswered /\ Owed' = Unanswered'
  BY DEF Exact
<1>2. QED
  BY <1>1, HandlerAsService, TasksAsService DEF Next

(* What every reachable state of the mux satisfies, for the two theorems.  *)
LEMMA FoundAlways == Spec => [](AnswerInv /\ FoundInv /\ Exact)
<1>1. TypeOK /\ AnswerInv /\ FoundInv => Exact
  BY OwedUnanswered DEF Exact
<1>2. TypeOK /\ TypeOK' /\ GateInv /\ IdsNameRequests /\ FoundInv /\ [Next]_vars
         => FoundInv'
  BY FoundStep
<1>3. QED
  BY <1>1, <1>2, GateInit, GateStep, AnswerInit, AnswerStep, FoundInit,
     TypeCorrect, IdsCorrect, PTL DEF Spec

(* To its clients the mux is RequestService, for any clients, bounds and   *)
(* faults: restarts, resets, timeouts and full queues lose no request of a *)
(* connection that is still served and answer none twice or for another    *)
(* (handle_client, handle_server_message, reset_state, reap_timeouts).     *)
THEOREM ServiceCorrect == Spec => MuxImplementsService
  BY ServiceInit, ServiceNext, GateInit, GateStep, FoundAlways, TypeCorrect,
     IdsCorrect, PTL DEF Spec, MuxImplementsService, Service!Spec

(* What was read from a registered client is owed an answer or has it, and *)
(* never both (the same).                                                  *)
THEOREM NothingForgottenCorrect == Spec => []NothingForgotten
<1>1. TypeOK /\ Exact => NothingForgotten
  <2> SUFFICES ASSUME TypeOK, Exact, NEW c \in clients,
                      NEW l \in 1..sent[c]
               PROVE  [client |-> c, lid |-> l] \in Owed <=> inbox[c][l] = <<>>
    BY DEF NothingForgotten
  <2>1. c \in Clients /\ l \in Lids /\ l <= sent[c]
    BY BoundsAssumption DEF TypeOK, SharedTypeOK, HandlerTypeOK, Lids
  <2>2. [client |-> c, lid |-> l] \in Address
    BY <2>1 DEF Address
  <2>3. QED
    BY <2>1, <2>2 DEF Exact, Unanswered
<1>2. QED
  BY <1>1, FoundAlways, TypeCorrect, PTL
=============================================================================
