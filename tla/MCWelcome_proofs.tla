--------------------------- MODULE MCWelcome_proofs ---------------------------
(***************************************************************************)
(* The properties that the run of MCWelcome checks for a few messages,     *)
(* items, federations and administrators, proved for any constants its     *)
(* configuration may give.                                                 *)
(*                                                                         *)
(* The invariant of WelcomeSecurity is proved in WelcomeSecurity_proofs,   *)
(* those of the other components in Groups_proofs.  What is left to show   *)
(* is that a behaviour of MCWelcome with "joins" or "requests" for its     *)
(* component is a behaviour of WelcomeSecurity with their constants, that  *)
(* one with another component is a behaviour of that component, and that   *)
(* the others leave the variables of WelcomeSecurity alone.                *)
(***************************************************************************)
EXTENDS MCWelcome, WelcomeSecurity_proofs

RP == INSTANCE WelcomeSecurity_proofs WITH
    Entries <- {"join", "request"}, Faults <- {"refusal", "timeout", "crash"},
    MaxMessages <- 2, MaxRepeats <- 0

\* Groups_proofs is also about components of MCModeration: their constants are
\* of no concern here.
GP == INSTANCE Groups_proofs WITH
    Calls <- Pair, Users <- Others, Known <- Others, Feds <- Pair, Groups <- Pair,
    MaxLapses <- 0, WarnDefault <- 0, WarnLimits <- {}, MaxDeaths <- 0, Exempt <- None,
    FloodLimit <- 0, MaxCrashes <- 0

all == <<component, vars, slots>>

\* A step of MCWelcome is a step of the chosen component, and of no other.
LEMMA ComponentSteps ==
    ASSUME [WelcomeNext]_all
    PROVE  /\ component' = component
           /\ component = "joins" => [Next]_vars
           /\ component = "requests" => Requests!Next \/ UNCHANGED vars
           /\ component \notin {"joins", "requests"} => UNCHANGED vars
           /\ component = "album" => Album!Next \/ UNCHANGED slots
           /\ component = "registry" => Registry!Next \/ UNCHANGED slots
           /\ component = "admins" => Admins!Next \/ UNCHANGED slots
           /\ component = "connections" => Links!Next \/ UNCHANGED slots
<1>1. CASE WelcomeNext
  BY <1>1 DEF WelcomeNext
<1>2. CASE UNCHANGED all
  BY <1>2 DEF all
<1> QED
  BY <1>1, <1>2

-----------------------------------------------------------------------------
(* The instance "requests" of MCWelcome and the one the theorems are about *)

\* The constants of "requests" are ones WelcomeSecurity allows.
LEMMA RequestsConstants ==
    /\ {"join", "request"} \subseteq {"join", "request"}
    /\ WelcomeMute \in BOOLEAN
    /\ {"refusal", "timeout", "crash"} \subseteq {"refusal", "timeout", "crash"}
    /\ {2, MaxFaults, 0} \subseteq Nat
BY OptionsAssumption, BoundsAssumption

\* They begin alike.
LEMMA RequestsBegin ==
    ASSUME Requests!Init PROVE RP!Init
BY DEF Requests!Init, RP!Init,
    Requests!Blank, RP!Blank, Requests!NoRow, RP!NoRow, Requests!NoRecord, RP!NoRecord,
    Requests!Free, RP!Free, Requests!Tasks, RP!Tasks, Requests!Updates, RP!Updates

\* They step alike.
LEMMA RequestsStep ==
    ASSUME Requests!Next \/ UNCHANGED vars PROVE [RP!Next]_(RP!vars)
BY DEF vars, telegram, stored, history, budget, RP!vars,
    Requests!Updates, RP!Updates, Requests!Request, RP!Request, Requests!Captcha,
    RP!Captcha, Requests!Sweep, RP!Sweep, Requests!Tasks, RP!Tasks, Requests!Free, RP!Free,
    Requests!Ids, RP!Ids, Requests!telegram, RP!telegram, Requests!stored, RP!stored,
    Requests!history, RP!history, Requests!budget, RP!budget, Requests!NoRow, RP!NoRow,
    Requests!NoRecord, RP!NoRecord, Requests!Exists, RP!Exists, Requests!Blank, RP!Blank,
    Requests!At, RP!At, Requests!Go, RP!Go, Requests!End, RP!End, Requests!Fault, RP!Fault,
    Requests!Say, RP!Say, Requests!Enter, RP!Enter, Requests!Join, RP!Join, Requests!Leave,
    RP!Leave, Requests!AskToJoin, RP!AskToJoin, Requests!AdminApproves, RP!AdminApproves,
    Requests!Redeliver, RP!Redeliver, Requests!Late, RP!Late, Requests!WelcomeMuteEnds,
    RP!WelcomeMuteEnds, Requests!Greater, RP!Greater, Requests!UnusedId, RP!UnusedId,
    Requests!NewRowId, RP!NewRowId, Requests!NewRecordId, RP!NewRecordId,
    Requests!EnsureRow, RP!EnsureRow, Requests!Seen, RP!Seen, Requests!Joined, RP!Joined,
    Requests!Left, RP!Left, Requests!Drop, RP!Drop, Requests!Look, RP!Look,
    Requests!EndedBy, RP!EndedBy, Requests!Remove, RP!Remove, Requests!Key, RP!Key,
    Requests!FirstStep, RP!FirstStep, Requests!Acquire, RP!Acquire, Requests!ReadRow,
    RP!ReadRow, Requests!Upsert, RP!Upsert, Requests!Outdated, RP!Outdated,
    Requests!Renewed, RP!Renewed, Requests!Session, RP!Session, Requests!Reload, RP!Reload,
    Requests!Mute, RP!Mute, Requests!Button, RP!Button, Requests!Solve, RP!Solve,
    Requests!Approve, RP!Approve, Requests!OnUserPassed, RP!OnUserPassed, Requests!Forget,
    RP!Forget, Requests!Find, RP!Find, Requests!Current, RP!Current, Requests!IsCurrent,
    RP!IsCurrent, Requests!Check, RP!Check, Requests!Recheck, RP!Recheck, Requests!Decline,
    RP!Decline, Requests!Kick, RP!Kick, Requests!Erase, RP!Erase, Requests!Refused,
    RP!Refused, Requests!TimedOut, RP!TimedOut, Requests!Crash, RP!Crash, Requests!Advance,
    RP!Advance, Requests!Next, RP!Next

-----------------------------------------------------------------------------
(* The invariant, while its component runs *)

JoinsKept == component = "joins" => SessionInv
RequestsKept == component = "requests" => RP!SessionInv

\* The invariant of WelcomeSecurity holds while "joins" is the component ...
LEMMA JoinsKeptAlways == WelcomeSpec => []JoinsKept
<1>1. WelcomeInit => JoinsKept
  BY InitEstablishes DEF WelcomeInit, JoinsKept
<1>2. JoinsKept /\ [WelcomeNext]_all => JoinsKept'
  BY ComponentSteps, NextPreserves DEF JoinsKept
<1> QED
  BY <1>1, <1>2, PTL DEF WelcomeSpec, all

\* ... and while "requests" is.
LEMMA RequestsKeptAlways == WelcomeSpec => []RequestsKept
<1>1. WelcomeInit => RequestsKept
  BY RequestsBegin, RequestsConstants, RP!InitEstablishes DEF WelcomeInit, RequestsKept
<1>2. RequestsKept /\ [WelcomeNext]_all => RequestsKept'
  BY ComponentSteps, RequestsStep, RequestsConstants, RP!NextPreserves DEF RequestsKept
<1> QED
  BY <1>1, <1>2, PTL DEF WelcomeSpec, all
-----------------------------------------------------------------------------
(* The properties *)

\* KickUnpassedUsers decides about the record it has read under the lock, for
\* every number of messages, faults and repeated deliveries.
THEOREM WelcomeSweepKeepsSession == WelcomeSpec => []SweepKeepsSession
<1>1. JoinsKept /\ RequestsKept => SweepKeepsSession
  <2> SUFFICES ASSUME JoinsKept, RequestsKept PROVE SweepKeepsSession
    OBVIOUS
  <2>1. component = "joins" => ExpiryKeepsSession
    BY InvMeansExpiryKeeps DEF JoinsKept
  <2>2. component = "requests" => RP!ExpiryKeepsSession
    BY RequestsConstants, RP!InvMeansExpiryKeeps DEF RequestsKept
  <2>3. RP!ExpiryKeepsSession => Requests!ExpiryKeepsSession
    BY DEF RP!ExpiryKeepsSession, Requests!ExpiryKeepsSession,
       RP!Exists, Requests!Exists, RP!Sweep, Requests!Sweep
  <2> QED
    BY <2>1, <2>2, <2>3 DEF SweepKeepsSession
<1> QED
  BY <1>1, JoinsKeptAlways, RequestsKeptAlways, PTL

\* A member under the captcha mute has a pending record once all is handled,
\* for every number of messages, faults and repeated deliveries.
THEOREM WelcomeHeldIsPending == WelcomeSpec => []HeldIsPending
<1>1. JoinsKept /\ RequestsKept => HeldIsPending
  <2> SUFFICES ASSUME JoinsKept, RequestsKept PROVE HeldIsPending
    OBVIOUS
  <2>1. component = "joins" => HeldHasRecordOrExcused
    BY InvMeansHeldHasRecord DEF JoinsKept
  <2>2. component = "requests" => RP!HeldHasRecordOrExcused
    BY RequestsConstants, RP!InvMeansHeldHasRecord DEF RequestsKept
  <2>3. RP!HeldHasRecordOrExcused => Requests!HeldHasRecordOrExcused
    BY DEF RP!HeldHasRecordOrExcused, Requests!HeldHasRecordOrExcused,
       RP!HeldHasRecord, Requests!HeldHasRecord, RP!Quiet, Requests!Quiet,
       RP!Exists, Requests!Exists, RP!At, Requests!At,
       RP!Updates, Requests!Updates, RP!Tasks, Requests!Tasks
  <2> QED
    BY <2>1, <2>2, <2>3 DEF HeldIsPending
<1> QED
  BY <1>1, JoinsKeptAlways, RequestsKeptAlways, PTL

\* What a step of MCWelcome that is not a stutter of WelcomeSecurity is.
LEMMA RealSteps ==
    ASSUME JoinsKept, RequestsKept, [WelcomeNext]_all, ~ UNCHANGED vars
    PROVE  /\ component = "joins" => SessionInv /\ Next
           /\ component = "requests" => RP!SessionInv /\ RP!Next /\ ~ UNCHANGED RP!vars
<1>1. component = "joins" => SessionInv /\ Next
  BY ComponentSteps DEF JoinsKept
<1>2. UNCHANGED RP!vars => UNCHANGED vars
  BY DEF vars, telegram, stored, history, budget, RP!vars, RP!telegram, RP!stored,
     RP!history, RP!budget
<1>3. component = "requests" => RP!SessionInv /\ [RP!Next]_(RP!vars)
  BY ComponentSteps, RequestsStep DEF RequestsKept
<1> QED
  BY <1>1, <1>2, <1>3

\* A leave that comes late removes nothing of the stay the user is in.
THEOREM WelcomeNewerStayKept == WelcomeSpec => NewerStayKept
<1>1. JoinsKept /\ RequestsKept /\ [WelcomeNext]_all =>
        [/\ component = "joins" => KeepsNewer
         /\ component = "requests" => Requests!KeepsNewer]_vars
  <2> SUFFICES ASSUME JoinsKept, RequestsKept, [WelcomeNext]_all, ~ UNCHANGED vars
               PROVE  /\ component = "joins" => KeepsNewer
                      /\ component = "requests" => Requests!KeepsNewer
    OBVIOUS
  <2>1. component = "joins" => KeepsNewer
    BY RealSteps, StepKeeps
  <2>2. component = "requests" => RP!KeepsNewer
    BY RealSteps, RequestsConstants, RP!StepKeeps
  <2>3. RP!KeepsNewer => Requests!KeepsNewer
    BY DEF RP!KeepsNewer, Requests!KeepsNewer, RP!Exists, Requests!Exists,
       RP!Captcha, Requests!Captcha, RP!Sweep, Requests!Sweep
  <2> QED
    BY <2>1, <2>2, <2>3
<1> QED
  BY <1>1, JoinsKeptAlways, RequestsKeptAlways, PTL DEF WelcomeSpec, all, NewerStayKept

\* A deadline that has passed is not moved, however often the join comes again.
THEOREM WelcomeLateStaysLate == WelcomeSpec => LateStaysLate
<1>1. JoinsKept /\ RequestsKept /\ [WelcomeNext]_all =>
        [/\ component = "joins" => KeepsDeadline
         /\ component = "requests" => Requests!KeepsDeadline]_vars
  <2> SUFFICES ASSUME JoinsKept, RequestsKept, [WelcomeNext]_all, ~ UNCHANGED vars
               PROVE  /\ component = "joins" => KeepsDeadline
                      /\ component = "requests" => Requests!KeepsDeadline
    OBVIOUS
  <2>1. component = "joins" => KeepsDeadline
    BY RealSteps, StepKeeps
  <2>2. component = "requests" => RP!KeepsDeadline
    BY RealSteps, RequestsConstants, RP!StepKeeps
  <2>3. RP!KeepsDeadline => Requests!KeepsDeadline
    BY DEF RP!KeepsDeadline, Requests!KeepsDeadline, RP!Exists, Requests!Exists
  <2> QED
    BY <2>1, <2>2, <2>3
<1> QED
  BY <1>1, JoinsKeptAlways, RequestsKeptAlways, PTL DEF WelcomeSpec, all, LateStaysLate

\* The sweep kicks nobody for the session they solved the captcha in.
THEOREM WelcomeReleasedSpared == WelcomeSpec => ReleasedSpared
<1>1. JoinsKept /\ RequestsKept /\ [WelcomeNext]_all =>
        [/\ component = "joins" => SparesReleased
         /\ component = "requests" => Requests!SparesReleased]_vars
  <2> SUFFICES ASSUME JoinsKept, RequestsKept, [WelcomeNext]_all, ~ UNCHANGED vars
               PROVE  /\ component = "joins" => SparesReleased
                      /\ component = "requests" => Requests!SparesReleased
    OBVIOUS
  <2>1. component = "joins" => SparesReleased
    BY RealSteps, InvMeansSpared
  <2>2. component = "requests" => RP!SparesReleased
    BY RealSteps, RequestsConstants, RP!InvMeansSpared
  <2>3. RP!SparesReleased => Requests!SparesReleased
    BY DEF RP!SparesReleased, Requests!SparesReleased, RP!Kick, Requests!Kick,
       RP!At, Requests!At, RP!Sweep, Requests!Sweep, RP!Say, Requests!Say, RP!Go, Requests!Go,
       RP!stored, Requests!stored, RP!history, Requests!history, RP!budget, Requests!budget
  <2> QED
    BY <2>1, <2>2, <2>3
<1> QED
  BY <1>1, JoinsKeptAlways, RequestsKeptAlways, PTL DEF WelcomeSpec, all, ReleasedSpared

-----------------------------------------------------------------------------
(* The other components *)

AlbumKept == component = "album" => GP!AlbumInv

\* MediaGroups begins and steps as the one the proofs are about, and what they
\* show of that one holds of it.
LEMMA AlbumAlike ==
    /\ Album!Init => GP!Album!Init
    /\ [Album!Next]_(Album!vars) => [GP!Album!Next]_(GP!Album!vars)
    /\ GP!Album!WholeAlbum => Album!WholeAlbum
    /\ GP!Album!HandledOnce => Album!HandledOnce
    /\ GP!Album!TypeOK => Album!TypeOK
<1>1. Album!Init => GP!Album!Init
  BY DEF
     Album!Init, GP!Album!Init
<1>2. [Album!Next]_(Album!vars) => [GP!Album!Next]_(GP!Album!vars)
  BY DEF
     Album!Next, GP!Album!Next, Album!vars, GP!Album!vars, Album!Arrive, GP!Album!Arrive,
     Album!Push, GP!Album!Push, Album!Lock, GP!Album!Lock, Album!LastTime,
     GP!Album!LastTime, Album!Clock, GP!Album!Clock, Album!Wake, GP!Album!Wake,
     Album!Group, GP!Album!Group, Album!ToSet, GP!Album!ToSet, Album!Handle,
     GP!Album!Handle, Album!Delete, GP!Album!Delete, Album!Release, GP!Album!Release,
     Album!Crash, GP!Album!Crash, Album!Lapse, GP!Album!Lapse, Album!Tick, GP!Album!Tick,
     Album!Go, GP!Album!Go, Album!InOrder, GP!Album!InOrder, Album!SetToSeqs,
     GP!Album!SetToSeqs, Album!Cardinality, GP!Album!Cardinality, Album!IsFiniteSet,
     GP!Album!IsFiniteSet, Album!Waiting, GP!Album!Waiting
<1>3. GP!Album!WholeAlbum => Album!WholeAlbum
  BY DEF
     Album!WholeAlbum, GP!Album!WholeAlbum, Album!Ended, GP!Album!Ended, Album!InOrder,
     GP!Album!InOrder, Album!SetToSeqs, GP!Album!SetToSeqs, Album!Cardinality,
     GP!Album!Cardinality, Album!IsFiniteSet, GP!Album!IsFiniteSet
<1>4. GP!Album!HandledOnce => Album!HandledOnce
  BY DEF
     Album!HandledOnce, GP!Album!HandledOnce, Album!ToSet, GP!Album!ToSet
<1>5. GP!Album!TypeOK => Album!TypeOK
  BY DEF
     Album!TypeOK, GP!Album!TypeOK, Album!Waiting, GP!Album!Waiting
<1> QED
  BY <1>1, <1>2, <1>3, <1>4, <1>5

\* The invariant of MediaGroups holds while it is the component.
LEMMA AlbumKeptAlways ==
    ASSUME GP!AlbumUsual PROVE WelcomeSpec => []AlbumKept
<1>1. WelcomeInit => AlbumKept
  BY AlbumAlike, GP!AlbumBegins DEF WelcomeInit, AlbumKept
<1>2. AlbumKept /\ [WelcomeNext]_all => AlbumKept'
  <2> SUFFICES ASSUME component = "album", GP!AlbumInv, [WelcomeNext]_all PROVE GP!AlbumInv'
    BY ComponentSteps DEF AlbumKept
  <2>1. [Album!Next]_(Album!vars)
    BY ComponentSteps DEF slots, Album!vars
  <2>2. [GP!Album!Next]_(GP!Album!vars)
    BY <2>1, AlbumAlike
  <2> QED
    BY <2>2, GP!AlbumNextPreserves
<1> QED
  BY <1>1, <1>2, PTL DEF WelcomeSpec, all

RegistryKept == component = "registry" => GP!RegistryInv

\* FederationRegistry begins and steps as the one the proofs are about, and what they
\* show of that one holds of it.
LEMMA RegistryAlike ==
    /\ Registry!Init => GP!Registry!Init
    /\ [Registry!Next]_(Registry!vars) => [GP!Registry!Next]_(GP!Registry!vars)
    /\ GP!Registry!OneFederationPerChat => Registry!OneFederationPerChat
    /\ GP!Registry!NoDanglingSubscription => Registry!NoDanglingSubscription
    /\ GP!Registry!TypeOK => Registry!TypeOK
<1>1. Registry!Init => GP!Registry!Init
  BY DEF
     Registry!Init, GP!Registry!Init, Registry!Idle, GP!Registry!Idle
<1>2. [Registry!Next]_(Registry!vars) => [GP!Registry!Next]_(GP!Registry!vars)
  BY DEF
     Registry!Next, GP!Registry!Next, Registry!vars, GP!Registry!vars, Registry!Leave,
     GP!Registry!Leave, Registry!Look, GP!Registry!Look, Registry!Join, GP!Registry!Join,
     Registry!Evict, GP!Registry!Evict, Registry!Subscribe, GP!Registry!Subscribe,
     Registry!Unsubscribe, GP!Registry!Unsubscribe, Registry!Edit, GP!Registry!Edit,
     Registry!Accept, GP!Registry!Accept, Registry!Delete, GP!Registry!Delete,
     Registry!Create, GP!Registry!Create, Registry!Cardinality, GP!Registry!Cardinality,
     Registry!IsFiniteSet, GP!Registry!IsFiniteSet, Registry!Lookup, GP!Registry!Lookup,
     Registry!Get, GP!Registry!Get, Registry!Find, GP!Registry!Find, Registry!Note,
     GP!Registry!Note, Registry!Add, GP!Registry!Add, Registry!Added, GP!Registry!Added,
     Registry!Remove, GP!Registry!Remove, Registry!Removed, GP!Registry!Removed,
     Registry!Insert, GP!Registry!Insert, Registry!Target, GP!Registry!Target,
     Registry!Write, GP!Registry!Write, Registry!Subscribers, GP!Registry!Subscribers,
     Registry!Release, GP!Registry!Release, Registry!Erase, GP!Registry!Erase,
     Registry!Offer, GP!Registry!Offer, Registry!Expire, GP!Registry!Expire,
     Registry!Start, GP!Registry!Start, Registry!Idle, GP!Registry!Idle, Registry!Read,
     GP!Registry!Read, Registry!Set, GP!Registry!Set, Registry!Owned, GP!Registry!Owned,
     Registry!Go, GP!Registry!Go, Registry!Located, GP!Registry!Located, Registry!Home,
     GP!Registry!Home, Registry!Stop, GP!Registry!Stop, Registry!Save, GP!Registry!Save,
     Registry!Document, GP!Registry!Document, Registry!Changed, GP!Registry!Changed,
     Registry!Conflict, GP!Registry!Conflict, Registry!Subject, GP!Registry!Subject
<1>3. GP!Registry!OneFederationPerChat => Registry!OneFederationPerChat
  BY DEF
     Registry!OneFederationPerChat, GP!Registry!OneFederationPerChat, Registry!Cardinality,
     GP!Registry!Cardinality, Registry!IsFiniteSet, GP!Registry!IsFiniteSet, Registry!Home,
     GP!Registry!Home
<1>4. GP!Registry!NoDanglingSubscription => Registry!NoDanglingSubscription
  BY DEF
     Registry!NoDanglingSubscription, GP!Registry!NoDanglingSubscription
<1>5. GP!Registry!TypeOK => Registry!TypeOK
  BY DEF
     Registry!TypeOK, GP!Registry!TypeOK, Registry!Documents, GP!Registry!Documents
<1> QED
  BY <1>1, <1>2, <1>3, <1>4, <1>5

\* The invariant of FederationRegistry holds while it is the component.
LEMMA RegistryKeptAlways ==
    ASSUME GP!RegistryUsual PROVE WelcomeSpec => []RegistryKept
<1>1. WelcomeInit => RegistryKept
  BY RegistryAlike, GP!RegistryBegins DEF WelcomeInit, RegistryKept
<1>2. RegistryKept /\ [WelcomeNext]_all => RegistryKept'
  <2> SUFFICES ASSUME component = "registry", GP!RegistryInv, [WelcomeNext]_all PROVE GP!RegistryInv'
    BY ComponentSteps DEF RegistryKept
  <2>1. [Registry!Next]_(Registry!vars)
    BY ComponentSteps DEF slots, Registry!vars
  <2>2. [GP!Registry!Next]_(GP!Registry!vars)
    BY <2>1, RegistryAlike
  <2> QED
    BY <2>2, GP!RegistryNextPreserves, GP!RegistryStutter
<1> QED
  BY <1>1, <1>2, PTL DEF WelcomeSpec, all

AdminsKept == component = "admins" => GP!AdminsInv

\* AdminSnapshot begins and steps as the one the proofs are about, and what they
\* show of that one holds of it.
LEMMA AdminsAlike ==
    /\ Admins!Init => GP!Admins!Init
    /\ [Admins!Next]_(Admins!vars) => [GP!Admins!Next]_(GP!Admins!vars)
    /\ GP!Admins!SnapshotHolds => Admins!SnapshotHolds
    /\ GP!Admins!TypeOK => Admins!TypeOK
<1>1. Admins!Init => GP!Admins!Init
  BY DEF
     Admins!Init, GP!Admins!Init, Admins!NoJob, GP!Admins!NoJob
<1>2. [Admins!Next]_(Admins!vars) => [GP!Admins!Next]_(GP!Admins!vars)
  BY DEF
     Admins!Next, GP!Admins!Next, Admins!vars, GP!Admins!vars, Admins!Update,
     GP!Admins!Update, Admins!Claim, GP!Admins!Claim, Admins!Reset, GP!Admins!Reset,
     Admins!Fetch, GP!Admins!Fetch, Admins!Save, GP!Admins!Save, Admins!Delete,
     GP!Admins!Delete, Admins!Fail, GP!Admins!Fail, Admins!Die, GP!Admins!Die, Admins!Done,
     GP!Admins!Done, Admins!Find, GP!Admins!Find, Admins!Promote, GP!Admins!Promote,
     Admins!Change, GP!Admins!Change, Admins!Tick, GP!Admins!Tick, Admins!Stored,
     GP!Admins!Stored, Admins!Old, GP!Admins!Old, Admins!Begin, GP!Admins!Begin,
     Admins!Refreshing, GP!Admins!Refreshing, Admins!NoJob, GP!Admins!NoJob, Admins!Leave,
     GP!Admins!Leave, Admins!Of, GP!Admins!Of, Admins!First, GP!Admins!First,
     Admins!Recorded, GP!Admins!Recorded
<1>3. GP!Admins!SnapshotHolds => Admins!SnapshotHolds
  BY DEF
     Admins!SnapshotHolds, GP!Admins!SnapshotHolds, Admins!SnapshotTrue,
     GP!Admins!SnapshotTrue, Admins!SnapshotFresh, GP!Admins!SnapshotFresh,
     Admins!Refreshing, GP!Admins!Refreshing, Admins!Recorded, GP!Admins!Recorded,
     Admins!Old, GP!Admins!Old, Admins!First, GP!Admins!First, Admins!Stored,
     GP!Admins!Stored, Admins!Of, GP!Admins!Of
<1>4. GP!Admins!TypeOK => Admins!TypeOK
  BY DEF
     Admins!TypeOK, GP!Admins!TypeOK, Admins!Stored, GP!Admins!Stored
<1> QED
  BY <1>1, <1>2, <1>3, <1>4

\* The invariant of AdminSnapshot holds while it is the component.
LEMMA AdminsKeptAlways ==
    ASSUME GP!AdminsUsual PROVE WelcomeSpec => []AdminsKept
<1>1. WelcomeInit => AdminsKept
  BY AdminsAlike, GP!AdminsBegin DEF WelcomeInit, AdminsKept
<1>2. AdminsKept /\ [WelcomeNext]_all => AdminsKept'
  <2> SUFFICES ASSUME component = "admins", GP!AdminsInv, [WelcomeNext]_all PROVE GP!AdminsInv'
    BY ComponentSteps DEF AdminsKept
  <2>1. [Admins!Next]_(Admins!vars)
    BY ComponentSteps DEF slots, Admins!vars
  <2>2. [GP!Admins!Next]_(GP!Admins!vars)
    BY <2>1, AdminsAlike
  <2> QED
    BY <2>2, GP!AdminsNextPreserves, GP!AdminsStutter
<1> QED
  BY <1>1, <1>2, PTL DEF WelcomeSpec, all

LinksKept == component = "connections" => GP!LinksInv

\* Connections begins and steps as the one the proofs are about, and what they
\* show of that one holds of it.
LEMMA LinksAlike ==
    /\ Links!Init => GP!Links!Init
    /\ [Links!Next]_(Links!vars) => [GP!Links!Next]_(GP!Links!vars)
    /\ GP!Links!ConnectionsHold => Links!ConnectionsHold
    /\ GP!Links!TypeOK => Links!TypeOK
<1>1. Links!Init => GP!Links!Init
  BY DEF
     Links!Init, GP!Links!Init, Links!Actors, GP!Links!Actors, Links!NoJob, GP!Links!NoJob
<1>2. [Links!Next]_(Links!vars) => [GP!Links!Next]_(GP!Links!vars)
  BY DEF
     Links!Next, GP!Links!Next, Links!vars, GP!Links!vars, Links!Read, GP!Links!Read,
     Links!Fetch, GP!Links!Fetch, Links!Mark, GP!Links!Mark, Links!Check, GP!Links!Check,
     Links!Trust, GP!Links!Trust, Links!Over, GP!Links!Over, Links!Disconnect,
     GP!Links!Disconnect, Links!Lookup, GP!Links!Lookup, Links!Clear, GP!Links!Clear,
     Links!Tick, GP!Links!Tick, Links!Connect, GP!Links!Connect, Links!Allow,
     GP!Links!Allow, Links!Vanish, GP!Links!Vanish, Links!ConnectInGroup,
     GP!Links!ConnectInGroup, Links!Actors, GP!Links!Actors, Links!Find, GP!Links!Find,
     Links!Store, GP!Links!Store, Links!Begin, GP!Links!Begin, Links!Expired,
     GP!Links!Expired, Links!Go, GP!Links!Go, Links!Marked, GP!Links!Marked, Links!NoJob,
     GP!Links!NoJob, Links!Busy, GP!Links!Busy, Links!Grant, GP!Links!Grant, Links!List, GP!Links!List,
     Links!Resolve, GP!Links!Resolve
<1>3. GP!Links!ConnectionsHold => Links!ConnectionsHold
  BY DEF
     Links!ConnectionsHold, GP!Links!ConnectionsHold, Links!RightHeld, GP!Links!RightHeld,
     Links!LastWishKept, GP!Links!LastWishKept, Links!AllRemembered, GP!Links!AllRemembered, Links!Busy, GP!Links!Busy, Links!Actors,
     GP!Links!Actors
<1>4. GP!Links!TypeOK => Links!TypeOK
  BY DEF
     Links!TypeOK, GP!Links!TypeOK, Links!Actors, GP!Links!Actors, Links!Ends,
     GP!Links!Ends
<1> QED
  BY <1>1, <1>2, <1>3, <1>4

\* The invariant of Connections holds while it is the component.
LEMMA LinksKeptAlways ==
    ASSUME GP!LinksUsual PROVE WelcomeSpec => []LinksKept
<1>1. WelcomeInit => LinksKept
  BY LinksAlike, GP!LinksBegin DEF WelcomeInit, LinksKept
<1>2. LinksKept /\ [WelcomeNext]_all => LinksKept'
  <2> SUFFICES ASSUME component = "connections", GP!LinksInv, [WelcomeNext]_all PROVE GP!LinksInv'
    BY ComponentSteps DEF LinksKept
  <2>1. [Links!Next]_(Links!vars)
    BY ComponentSteps DEF slots, Links!vars
  <2>2. [GP!Links!Next]_(GP!Links!vars)
    BY <2>1, LinksAlike
  <2> QED
    BY <2>2, GP!LinksNextPreserves
<1> QED
  BY <1>1, <1>2, PTL DEF WelcomeSpec, all

-----------------------------------------------------------------------------
(* What is shown of the other components *)

\* An album reaches its handler whole and in order unless the album paused, Redis
\* was slow, a lock lapsed or an update failed, and no item reaches it twice unless
\* a lock lapsed or an update failed (media_group.py); for any items and delays.
THEOREM WelcomeAlbumHandled ==
    ASSUME GP!AlbumUsual PROVE WelcomeSpec => []AlbumHandled
<1>1. AlbumKept => AlbumHandled
  BY AlbumAlike, GP!AlbumInvImplies DEF AlbumKept, AlbumHandled
<1> QED
  BY <1>1, AlbumKeptAlways, PTL

\* A chat is in one federation and nobody is subscribed to a deleted one, unless
\* overlapping requests or a wrong entry of Redis were about it or a save wrote
\* back an old copy; for any federations, chats, users and requests.
THEOREM WelcomeRegistryHolds ==
    ASSUME GP!RegistryUsual PROVE WelcomeSpec => []RegistryHolds
<1>1. RegistryKept => RegistryHolds
  BY RegistryAlike, GP!RegistryInvImplies DEF RegistryKept, RegistryHolds
<1> QED
  BY <1>1, RegistryKeptAlways, PTL

\* The administrators Sophie has recorded are those of the last list once no
\* refresh is left that overlapped another or broke off, and an update finds
\* records no older than their lifetime (update_chat_members); a private chat is
\* served only with a right no older than a mark, and stays with the group its
\* user asked for last and remembers those it asked for (set_connected_chat,
\* ConnectDMCmd); for any users, groups and times.
THEOREM WelcomeAccessHolds ==
    ASSUME GP!AdminsUsual, GP!LinksUsual PROVE WelcomeSpec => []AccessHolds
<1>1. AdminsKept /\ LinksKept => AccessHolds
  BY AdminsAlike, LinksAlike, GP!AdminsInvImplies, GP!LinksInvImplies DEF AdminsKept, LinksKept, AccessHolds
<1> QED
  BY <1>1, AdminsKeptAlways, LinksKeptAlways, PTL

\* While another component runs, WelcomeSecurity rests.
LEMMA RestKept == WelcomeSpec => [](component \notin {"joins", "requests"} => TypeOK)
<1>1. WelcomeInit => (component \notin {"joins", "requests"} => TypeOK)
  BY InitEstablishes DEF WelcomeInit, SessionInv
<1>2. (component \notin {"joins", "requests"} => TypeOK) /\ [WelcomeNext]_all
      => (component \notin {"joins", "requests"} => TypeOK)'
  <2> SUFFICES ASSUME component \notin {"joins", "requests"}, TypeOK, [WelcomeNext]_all PROVE TypeOK'
    BY ComponentSteps
  <2>1. UNCHANGED vars
    BY ComponentSteps
  <2> QED
    BY <2>1 DEF vars, telegram, stored, history, budget, TypeOK
<1> QED
  BY <1>1, <1>2, PTL DEF WelcomeSpec, all

\* Every variable of every component keeps its type, for any constants.
THEOREM WelcomeTypeCorrect ==
    ASSUME GP!AlbumUsual, GP!RegistryUsual, GP!AdminsUsual, GP!LinksUsual
    PROVE  WelcomeSpec => []WelcomeTypeOK
<1>1. JoinsKept /\ (component \notin {"joins", "requests"} => TypeOK) /\ component # "requests" => TypeOK
  BY DEF JoinsKept, SessionInv
<1>2. RequestsKept /\ component = "requests" => Requests!TypeOK
  <2>1. RP!TypeOK => Requests!TypeOK
    BY DEF
       RP!TypeOK, Requests!TypeOK, RP!Updates, Requests!Updates, RP!Rows, Requests!Rows,
       RP!Records, Requests!Records, RP!Free, Requests!Free, RP!Tasks, Requests!Tasks,
       RP!Steps, Requests!Steps, RP!Ids, Requests!Ids
  <2> QED
    BY <2>1 DEF RequestsKept, RP!SessionInv
<1>3. /\ AlbumKept /\ component = "album" => Album!TypeOK
      /\ RegistryKept /\ component = "registry" => Registry!TypeOK
      /\ AdminsKept /\ component = "admins" => Admins!TypeOK
      /\ LinksKept /\ component = "connections" => Links!TypeOK
  BY AlbumAlike, RegistryAlike, AdminsAlike, LinksAlike, GP!AlbumInvImplies, GP!RegistryInvImplies,
     GP!AdminsInvImplies, GP!LinksInvImplies DEF AlbumKept, RegistryKept, AdminsKept, LinksKept
<1>4. /\ JoinsKept /\ (component \notin {"joins", "requests"} => TypeOK) /\ RequestsKept
      /\ AlbumKept /\ RegistryKept /\ AdminsKept /\ LinksKept
      => WelcomeTypeOK
  BY <1>1, <1>2, <1>3 DEF WelcomeTypeOK
<1> QED
  BY <1>4, JoinsKeptAlways, RequestsKeptAlways, RestKept, AlbumKeptAlways, RegistryKeptAlways,
     AdminsKeptAlways, LinksKeptAlways, PTL
=============================================================================
