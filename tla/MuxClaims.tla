------------------------------ MODULE MuxClaims ------------------------------
(***************************************************************************)
(* What the README and the comments of the code say of the mux and its     *)
(* code does not do.  TLC refutes each of these.                           *)
(***************************************************************************)
EXTENDS MCMux

(* src/README.md, "Initialize caching - executed once per server": a child *)
(* has at most one initialize to answer.                                   *)
OneInitializePerChild ==
    \A v, w \in atChild :
        /\ v.req.method = "initialize"
        /\ w.req.method = "initialize"
        /\ v.child = w.child
        => v = w

(* handle_server_message, "This ensures cache is populated even if         *)
(* original client disconnected": an initialize response that is routed    *)
(* goes to the cache.                                                      *)
InitializeResponseIsCached ==
    [][RouteResponse /\ Head(events).req.method = "initialize"
       => routing' # {}]_vars

(* MuxState, "True after first notifications/initialized was forwarded to  *)
(* backend server": with the flag up, the notification is about to be      *)
(* queued, queued or at the child.                                         *)
FlagMeansForwarded ==
    serverInitialized =>
        \/ \E c \in Clients : pc[c] = "announce"
        \/ \E i \in DOMAIN toServer : toServer[i].method = "initialized"
        \/ "initialized" \in childSaw

(* handle_client_message, "Subsequent clients' initialized notifications   *)
(* should NOT be forwarded": the queue never holds those of two clients.   *)
OneClientAnnounces ==
    \A i, j \in DOMAIN toServer :
        /\ toServer[i].method = "initialized"
        /\ toServer[j].method = "initialized"
        => toServer[i].client = toServer[j].client

(* handle_client_message, "This prevents backend crashes when clients like *)
(* Claude Code send `tools/list` before completing the handshake           *)
(* sequence": a request of a client that did get its initialize answered   *)
(* goes to a child that was sent an initialize.                            *)
RequestsAfterInitialize ==
    [][ /\ WriteToChild
        /\ Head(toServer).method = "request"
        /\ \E l \in Lids : \E i \in DOMAIN inbox[Head(toServer).client][l] :
              inbox[Head(toServer).client][l][i].kind = "initialize"
        => "initialize" \in childSaw ]_vars

(* handle_client_message, "buffering messages that arrive before the       *)
(* handshake (initialize + notifications/initialized) completes": without  *)
(* an initialize, no request reaches a child.                              *)
NoRequestWithoutInitialize ==
    [][ WriteToChild /\ Head(toServer).method = "request"
        => "initialize" \in childSaw ]_vars

(* src/README.md, max_active_clients, "Concurrent client limit": no more   *)
(* clients are registered than there are permits.                          *)
RegisteredWithinLimit == Cardinality(clients) <= MaxClients
=============================================================================
