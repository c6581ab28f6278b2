----------------------------- MODULE MCWSClient -----------------------------
(* Model values for WSClient: interchangeable callers.                     *)
EXTENDS WSClientImplements, WSClientInvariant, TLC

CallerSymmetry == Permutations(Callers)
=============================================================================
