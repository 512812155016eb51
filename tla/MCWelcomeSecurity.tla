------------------------- MODULE MCWelcomeSecurity -------------------------
(***************************************************************************)
(* WelcomeSecurity for TLC.  Message ids are compared and kept as numbers, *)
(* and there is one user, so there is no symmetry to use.  Three messages  *)
(* are the fewest for a join, its leave and a rejoin.                      *)
(***************************************************************************)
EXTENDS WelcomeSecurity
===========================================================================
