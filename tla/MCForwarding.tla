---------------------------- MODULE MCForwarding ----------------------------
(* Model values for Forwarding: interchangeable handlers.                  *)
EXTENDS Forwarding, TLC

HandlerSymmetry == Permutations(Handlers)
=============================================================================
