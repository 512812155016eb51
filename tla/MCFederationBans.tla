-------------------------- MODULE MCFederationBans --------------------------
(***************************************************************************)
(* FederationBans for TLC: two groups of a federation, and one of a        *)
(* federation that subscribes to it.                                       *)
(***************************************************************************)
EXTENDS FederationBans, TLC

MCFedOf == ("c1" :> "f" @@ "c2" :> "f" @@ "c3" :> "s")
MCSubscribed == ("f" :> {} @@ "s" :> {"f"})
=============================================================================
