------------------------- MODULE MCMutePermissions -------------------------
(***************************************************************************)
(* MutePermissions for TLC.  One tick is fifteen seconds, so the lease     *)
(* body lasts 3, the margin before a near deadline is 4 and Telegram's     *)
(* for-ever threshold is 2.  Two rights tell a welcome restriction (which  *)
(* keeps "talk") from a mute and from an administrator's restriction.      *)
(***************************************************************************)
EXTENDS MutePermissions

MCRights == {"talk", "media"}
MCWelcomeRights == {"talk"}
MCAdminPerms == {{"talk"}, {"media"}}
MCInitialMembers ==
    {Unrestricted, Out, Restricted({"media"}, None),
     Restricted({"talk"}, 5), Restricted({"media"}, 4)}
\* A smaller instance for the liveness run.
MCFewMembers == {Unrestricted, Restricted({"media"}, 4)}
MCOneAdminPerm == {{"media"}}
MCOneDefault == {{"talk", "media"}}

MCDefaultPerms == {{"talk", "media"}, {"media"}}
============================================================================
