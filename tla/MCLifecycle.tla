----------------------------- MODULE MCLifecycle -----------------------------
(* Values for Lifecycle.                                                   *)
EXTENDS Lifecycle

MCDeliveries == 1 .. MaxFrames
=============================================================================
