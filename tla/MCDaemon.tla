------------------------------- MODULE MCDaemon -------------------------------
(* Two services with paths and names of their own.                          *)
EXTENDS Daemon

MCOwn == [m \in Muxes |-> m]
=============================================================================
