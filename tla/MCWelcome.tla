----------------------------- MODULE MCWelcome ------------------------------
(***************************************************************************)
(* WelcomeSecurity, and the components that keep the documents of groups   *)
(* and users, for TLC.  They share no state, so a behaviour of this module *)
(* is a behaviour of one of them: "component" is chosen at the start.      *)
(* WelcomeSecurity has two instances: "joins" with the constants of the    *)
(* configuration, and "requests", where the user also asks to join, and a  *)
(* crash or a lock timeout may come at any step.  Its variables keep their *)
(* initial values while another component runs; the others each take as    *)
(* many of the slots v1, v2, ... as they have and leave the rest None.     *)
(***************************************************************************)
EXTENDS MCWelcomeSecurity, TLC

CONSTANTS
    Pair, Others, None,
    Items, FlushDelay, FlushTtl, LastTick,    \* of MediaGroups
    Chats, Handlers, FedLimit, MaxRequests,   \* of FederationRegistry
    AdminTtl, AdminIds, AdminTime, AdminChanges, AdminFaults,   \* of AdminSnapshot
    Private, InGroups, LinkLifetime, LinkTtl, LinkTime, LinkUpdates, LinkChanges   \* of Connections

VARIABLES
    component,
    v1, v2, v3, v4, v5, v6, v7, v8, v9, v10, v11

slots == <<v1, v2, v3, v4, v5, v6, v7, v8, v9, v10, v11>>

Requests == INSTANCE WelcomeSecurity WITH
    Entries <- {"join", "request"}, Faults <- {"refusal", "timeout", "crash"},
    MaxMessages <- 2, MaxRepeats <- 0

Album == INSTANCE MediaGroups WITH
    Delay <- FlushDelay, LockTtl <- FlushTtl, MaxTick <- LastTick,
    list <- v1, last <- v2, flusher <- v3, expiry <- v4, tick <- v5, update <- v6,
    albums <- v7, troubles <- v8

Registry == INSTANCE FederationRegistry WITH
    Feds <- Pair, Users <- Others, Jobs <- Handlers, Limit <- FedLimit,
    docs <- v1, fresh <- v2, cached <- v3, offers <- v4, job <- v5, requests <- v6,
    lost <- v7, crossed <- v8

\* Two updates of a group with two administrators.
Admins == INSTANCE AdminSnapshot WITH
    Jobs <- Pair, Users <- Others, Known <- Others, Ttl <- AdminTtl, Ids <- AdminIds,
    MaxTime <- AdminTime, MaxChanges <- AdminChanges, MaxFaults <- AdminFaults,
    admins <- v1, records <- v2, marker <- v3, now <- v4, job <- v5, changes <- v6,
    faults <- v7, base <- v8, crossed <- v9, missed <- v10

Links == INSTANCE Connections WITH
    Groups <- Pair, Lifetime <- LinkLifetime, RecheckTtl <- LinkTtl, MaxTime <- LinkTime,
    MaxUpdates <- LinkUpdates, MaxChanges <- LinkChanges,
    doc <- v1, allowed <- v2, gone <- v3, mark <- v4, now <- v5, job <- v6, updates <- v7,
    changes <- v8, lost <- v9, wish <- v10, overlapped <- v11

WelcomeInit ==
    /\ \/ /\ component \in {"joins", "requests"}
          /\ v1 = None /\ v2 = None /\ v3 = None /\ v4 = None /\ v5 = None /\ v6 = None /\ v7 = None
          /\ v8 = None /\ v9 = None /\ v10 = None /\ v11 = None
       \/ component = "album" /\ Album!Init /\ v9 = None /\ v10 = None /\ v11 = None
       \/ component = "registry" /\ Registry!Init /\ v9 = None /\ v10 = None /\ v11 = None
       \/ component = "admins" /\ Admins!Init /\ v11 = None
       \/ component = "connections" /\ Links!Init
    /\ IF component = "requests" THEN Requests!Init ELSE Init

WelcomeNext ==
    /\ UNCHANGED component
    /\ \/ component = "joins" /\ Next /\ UNCHANGED slots
       \/ component = "requests" /\ Requests!Next /\ UNCHANGED slots
       \/ /\ component \notin {"joins", "requests"} /\ UNCHANGED vars
          /\ \/ component = "album" /\ Album!Next /\ UNCHANGED <<v9, v10, v11>>
             \/ component = "registry" /\ Registry!Next /\ UNCHANGED <<v9, v10, v11>>
             \/ component = "admins" /\ Admins!Next /\ UNCHANGED v11
             \/ component = "connections" /\ Links!Next

WelcomeSpec == WelcomeInit /\ [][WelcomeNext]_<<component, vars, slots>>

Symmetry == Permutations(Pair) \cup Permutations(Others)

\* TLC explores as many deliveries as there may be messages: one that comes
\* again takes the place of one more message.
FewDeliveries == sent + repeats <= MaxMessages

-----------------------------------------------------------------------------
(* The properties of the components, each while its component runs *)

\* The variables of the components keep their types.
WelcomeTypeOK ==
    /\ IF component = "requests" THEN Requests!TypeOK ELSE TypeOK
    /\ component = "album" => Album!TypeOK
    /\ component = "registry" => Registry!TypeOK
    /\ component = "admins" => Admins!TypeOK
    /\ component = "connections" => Links!TypeOK

\* WelcomeSecurity: while the sweep decides, no rejoin replaces its record or
\* moves its deadline.
SweepKeepsSession ==
    /\ component = "joins" => ExpiryKeepsSession
    /\ component = "requests" => Requests!ExpiryKeepsSession

\* WelcomeSecurity: a member held by the captcha mute has a pending record.
HeldIsPending ==
    /\ component = "joins" => HeldHasRecordOrExcused
    /\ component = "requests" => Requests!HeldHasRecordOrExcused

\* WelcomeSecurity: a delayed leave removes nothing of the stay the user is in.
NewerStayKept ==
    [][/\ component = "joins" => KeepsNewer
       /\ component = "requests" => Requests!KeepsNewer]_vars

\* WelcomeSecurity: a member the captcha let go is not kicked for the session
\* they solved it in.
ReleasedSpared ==
    [][/\ component = "joins" => SparesReleased
       /\ component = "requests" => Requests!SparesReleased]_vars

\* WelcomeSecurity: a deadline that has passed is not moved by a message that is
\* delivered again.
LateStaysLate ==
    [][/\ component = "joins" => KeepsDeadline
       /\ component = "requests" => Requests!KeepsDeadline]_vars

\* MediaGroups: an album reaches its handler whole, and no item twice.
AlbumHandled == component = "album" => Album!WholeAlbum /\ Album!HandledOnce

\* FederationRegistry: a chat is in one federation, and nobody subscribes to
\* one that is deleted.
RegistryHolds ==
    component = "registry" => Registry!OneFederationPerChat /\ Registry!NoDanglingSubscription

\* AdminSnapshot and Connections: the administrators Sophie knows are those of
\* Telegram, soon, and a private chat stays connected to the group its user
\* asked for last, with the right to, and remembers the groups it asked for.
AccessHolds ==
    /\ component = "admins" => Admins!SnapshotHolds
    /\ component = "connections" => Links!ConnectionsHold
============================================================================
