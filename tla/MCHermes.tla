------------------------------ MODULE MCHermes ------------------------------
(* Values for Hermes: time in units of about five seconds.                 *)
EXTENDS Hermes

MCDeliveries == {Job}
=============================================================================
