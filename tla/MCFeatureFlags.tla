--------------------------- MODULE MCFeatureFlags ---------------------------
(***************************************************************************)
(* FeatureFlags for TLC: a feature of 100 models, of which operators name  *)
(* another one.                                                            *)
(***************************************************************************)
EXTENDS FeatureFlags

MCDefault == <<"int", 2>>
MCValues == {<<"int", 0>>}
=============================================================================
