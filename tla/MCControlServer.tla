--------------------------- MODULE MCControlServer ---------------------------
(* Two daemons over one data directory, started three times between them,  *)
(* and two clients.                                                        *)
EXTENDS ControlServer
=============================================================================
