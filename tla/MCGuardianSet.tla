---------------------------- MODULE MCGuardianSet ----------------------------
(***************************************************************************)
(* GuardianSet on a small instance: a 2-bit index byte, so that a set of  *)
(* 2^2 guardians fills it and one more wraps it.                           *)
(***************************************************************************)
EXTENDS GuardianSet

CONSTANTS seed1, seed2, body1, body2, defaultKey, hexKey
=============================================================================
