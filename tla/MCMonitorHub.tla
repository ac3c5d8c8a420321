---------------------------- MODULE MCMonitorHub ---------------------------
(***************************************************************************)
(* The instance of MonitorHub for TLC: two requests and one page.            *)
(***************************************************************************)
EXTENDS MonitorHub, TLC
=============================================================================
