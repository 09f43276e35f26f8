---------------------------- MODULE MCKeyRotation ----------------------------
(* Instance of KeyRotation for TLC; no symmetry, the run checks liveness. *)
EXTENDS KeyRotation, TLC
=============================================================================
