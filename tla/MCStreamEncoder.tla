-------------------------- MODULE MCStreamEncoder --------------------------
(* Instances of StreamEncoder for TLC.                                     *)
EXTENDS StreamEncoder
=============================================================================
