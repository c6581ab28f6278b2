---------------------------- MODULE MCHandshake ----------------------------
(* Handshake for model checking: at most MaxInbox frames in flight.        *)
EXTENDS Handshake
=============================================================================
