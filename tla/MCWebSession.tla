--------------------------- MODULE MCWebSession ---------------------------
(* Two periods, overlapping starts, two restarts of the server.            *)
EXTENDS WebSession, TLC
=============================================================================
