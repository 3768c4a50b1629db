--------------------------- MODULE RequestService ---------------------------
(***************************************************************************)
(* What the mux promises its clients, whatever becomes of the child, the   *)
(* queues and the other clients.  While a connection is served, a request  *)
(* read from it is open until it gets one answer, its own; only the end of *)
(* that connection closes a request without one.  Before a connection is   *)
(* served nothing is read from it, and after that nothing is answered.     *)
(***************************************************************************)
EXTENDS Naturals, Sequences

CONSTANTS
    Clients,  \* the connections that are made
    MaxReqs   \* bound: the requests one client sends

VARIABLES
    session,  \* session[c]: "new", "served" or "closed"
    asked,    \* asked[c]: the number of requests read from c
    open,     \* the requests that are owed an answer
    answers   \* answers[c][l]: the answers given to request l of c

vars == <<session, asked, open, answers>>

Lids == 1..MaxReqs
Kinds == {"result", "initialize", "error"}

Init ==
    /\ session = [c \in Clients |-> "new"]
    /\ asked = [c \in Clients |-> 0]
    /\ open = {}
    /\ answers = [c \in Clients |-> [l \in Lids |-> <<>>]]

Serve(c) ==
    /\ session[c] = "new"
    /\ session' = [session EXCEPT ![c] = "served"]
    /\ UNCHANGED <<asked, open, answers>>

\* The end of a connection closes its requests and nobody else's.
Close(c) ==
    /\ session[c] = "served"
    /\ session' = [session EXCEPT ![c] = "closed"]
    /\ open' = {a \in open : a.client # c}
    /\ UNCHANGED <<asked, answers>>

\* One more answer to each request of S, under its own name.
Answered(S, kind) ==
    [c \in Clients |-> [l \in Lids |->
        LET a == [client |-> c, lid |-> l] IN
        IF a \in S THEN Append(answers[c][l], [kind |-> kind, of |-> a])
                   ELSE answers[c][l]]]

\* The next request of c.
Asks(c) ==
    /\ asked[c] < MaxReqs
    /\ asked' = [asked EXCEPT ![c] = @ + 1]
    /\ UNCHANGED session
Latest(c) == [client |-> c, lid |-> asked[c] + 1]

Ask(c) ==
    /\ session[c] = "served"
    /\ Asks(c)
    /\ open' = open \cup {Latest(c)}
    /\ UNCHANGED answers

\* A request that is answered in the step that reads it.
AskAndAnswer(c, kind) ==
    /\ session[c] = "served"
    /\ Asks(c)
    /\ answers' = Answered({Latest(c)}, kind)
    /\ UNCHANGED open

\* A request of somebody who can no longer be answered.
AskInVain(c) ==
    /\ session[c] = "closed"
    /\ Asks(c)
    /\ UNCHANGED <<open, answers>>

\* Some open requests get their answers, all of one kind.
AnswerOpen(S, kind) ==
    /\ S # {}
    /\ open' = open \ S
    /\ answers' = Answered(S, kind)
    /\ UNCHANGED <<session, asked>>

Next ==
    \/ \E c \in Clients :
          \/ Serve(c)
          \/ Close(c)
          \/ Ask(c)
          \/ \E kind \in Kinds : AskAndAnswer(c, kind)
          \/ AskInVain(c)
    \/ \E S \in SUBSET open, kind \in Kinds : AnswerOpen(S, kind)

Spec == Init /\ [][Next]_vars
=============================================================================
