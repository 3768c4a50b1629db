-------------------------- MODULE SupervisionClaims --------------------------
(***************************************************************************)
(* What the documentation and the comments say of the supervision of the   *)
(* child and the code does not do.  TLC refutes each of these, and some of *)
(* the properties of Supervision under the constants of their runs.        *)
(***************************************************************************)
EXTENDS Supervision

(* docs/dev/guidelines.md, --max-restarts: "how many times to restart the  *)
(* server before giving up": the first start is no restart.                *)
RestartsBeforeGivingUp == mpc = "limit" => spawned = MaxRestarts + 1

(* spawn_heartbeat_inspector, "If the server becomes unresponsive (no      *)
(* response within timeout for `max_failures` consecutive probes), it      *)
(* signals for a server restart": it does not when the response to the     *)
(* last probe has arrived.                                                 *)
AnsweredProbeIsNoFailure ==
    [][ signals' > signals => \A i \in DOMAIN replies : replies[i] # probe ]_vars

(* spawn_heartbeat_inspector, "MCP servers require initialize +            *)
(* notifications/initialized before accepting ping": a child is sent a     *)
(* ping only after an initialized notification.                            *)
PingsFollowInitialized ==
    [][ mpc = "write" /\ inHand[1].kind = "ping" /\ WriteToPipe
        => greeted ]_vars
=============================================================================
