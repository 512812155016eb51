----------------------- MODULE Restrictions_proofs -----------------------
(***************************************************************************)
(* What Sophie keeps of those she restricts: the permission snapshots of   *)
(* MutePermissions, the bans of federations and those of communities, for  *)
(* every value of their constants.  They share no state: MutePermissions   *)
(* has its own variables, the bans take the slots v1, v2, ...              *)
(*                                                                         *)
(* MutePermissions, for every set of rights, members, commands and         *)
(* durations, and however many commands, changes and faults:               *)
(*                                                                         *)
(* NoOrphanMute rests on what an operation has read (Recognised): while    *)
(* Sophie's restriction lasts nothing else changes the member, so what the *)
(* operation has seen is still so, and every document it is about to write *)
(* recognises that member.  It only asks that unban is not among the       *)
(* commands; run mute_unban shows why.                                     *)
(*                                                                         *)
(* BaselineKept, NeverForever and the two action properties rest on        *)
(* Described (every document about to be written describes the member      *)
(* before Sophie), on HersOnly (no document recognises what an             *)
(* administrator decided) and on PlanSound (a planned restore).  They ask  *)
(* for Undisturbed, which names what the code relies on.                   *)
(*                                                                         *)
(* FederationBans, for any federations, subscriptions, chats and updates:  *)
(* a chat the user is banned in is listed by a record, or somebody is      *)
(* about to list or to free it (AllAccounted); and the ban of a record is  *)
(* about to be queued, is queued behind every unban of its federation, is  *)
(* being carried out or was (BansComing).  Both rest on what a copy of a   *)
(* record says of it while no commands overlap on it (BansApart).          *)
(*                                                                         *)
(* CommunityBans has the same two (AllTraced, AllUnderway), which here     *)
(* rest on the chats of a record being stored for its community            *)
(* (AllInside); StoredInv follows the service messages of a chat that      *)
(* moves, of which the last one decides what is stored.                    *)
(***************************************************************************)
EXTENDS MutePermissions, Sequences, TLAPS

CONSTANTS
    Updates, Feds, Chats, FedOf, Subscribed, Present, MaxBans, BanFaults,       \* of FederationBans
    TownUpdates, Communities, TownChats, TownPresent, MaxTownBans, MaxMoves,
    TownFaults                                                                  \* of CommunityBans

VARIABLES v1, v2, v3, v4, v5, v6, v7, v8, v9, v10, v11

FedBans == INSTANCE FederationBans WITH
    Jobs <- Updates, Faults <- BanFaults,
    records <- v1, newest <- v2, cached <- v3, banned <- v4, tasks <- v5, job <- v6,
    worker <- v7, lifted <- v8, excuse <- v9

Town == INSTANCE CommunityBans WITH
    Chats <- TownChats, Present <- TownPresent, Jobs <- TownUpdates, MaxBans <- MaxTownBans,
    Faults <- TownFaults,
    home <- v1, edge <- v2, cooling <- v3, notes <- v4, records <- v5, newest <- v6,
    banned <- v7, tasks <- v8, job <- v9, worker <- v10, excuse <- v11

NoUnban == "unban" \notin Commands

\* Administrators do not act while an operation is in progress; what they
\* restrict for ever is no restriction Sophie could have made; and a restore
\* reaches Telegram before a deadline is too near for it.
Undisturbed ==
    /\ NoUnban
    /\ ~ RacingAdmin
    /\ None \notin AdminDurations
    /\ \A m \in InitialMembers :
          m.status = "restricted" /\ m.until = None => ~ (m.perms \subseteq WelcomeRights)
    /\ 0 < TelegramForever
    /\ CallLatency + TelegramForever <= Margin

---------------------------------------------------------------------------

\* Operations that save a document and put a restriction of Sophie's in force.
Writes == Muting \/ (Restoring /\ op.release)

\* The steps of each operation.
ActsAtSteps ==
    /\ pc \in {"look", "capture", "insert", "defaults"} => Muting
    /\ pc \in {"find", "check", "discard", "plan"} => Restoring
    /\ pc \in {"save", "undo"} => Writes
    /\ pc = "settle" => Muting \/ Restoring
    /\ pc = "purge" => op.act \in {"ban", "kick", "unban"}
    /\ pc # "idle" => op.act \in Commands \cup {"sweep"}

\* A document that does not lift the restriction has permissions to give back.
WellFormed(s) == s.restore_group_defaults \/ s.permissions # None

\* The documents an operation holds at each step.
DocsHeld ==
    /\ snapshot # None => WellFormed(snapshot)
    /\ pc \in {"check", "plan"} => op.doc = snapshot /\ snapshot # None
    /\ pc = "defaults" => op.before # None /\ WellFormed(op.before)
    /\ Writes /\ pc \in {"save", "call", "undo"} => op.before # None /\ WellFormed(op.before)
    /\ Writes /\ pc \in {"save", "call", "settle"} =>
          op.doc # None /\ WellFormed(op.doc) /\ op.doc.applied_permissions = op.perms
    /\ Writes /\ pc \in {"call", "settle"} => snapshot = op.doc
    /\ Restoring /\ op.release => op.until = None

\* While Sophie's restriction lasts, what the operation saw is still so, and
\* what it is about to write recognises it.
Recognised ==
    NoUnban /\ author = "sophie" =>
        /\ snapshot # None /\ Owns(snapshot, member)
        /\ pc \notin {"insert", "discard", "purge"}
        /\ pc \in {"capture", "plan"} => op.seen = member
        /\ pc = "defaults" \/ (Writes /\ pc \in {"save", "call", "undo"}) =>
              ~ (Muting /\ op.created) /\ Owns(op.before, member)
        /\ pc = "defaults" => member.perms = op.before.applied_permissions
        /\ pc = "save" => Owns(op.doc, member)
        /\ pc = "settle" => Writes /\ member.perms = op.perms

KeptInv ==
    /\ TypeOK
    /\ ActsAtSteps
    /\ DocsHeld
    /\ Recognised

\* The member before Sophie's restriction, if she is about to put one in force.
Source == IF author = "admin" THEN member ELSE original

\* The document s tells what to give back to m.
Describes(s, m) ==
    IF m.status = "restricted"
    THEN /\ ~ s.restore_group_defaults
         /\ s.permissions \subseteq m.perms
         /\ s.previous_until = m.until
    ELSE s.restore_group_defaults \/ Passed(s.previous_until)

\* What an operation saw is still so, or has run out.
SeenCurrent ==
    pc \in {"capture", "insert"} =>
        \/ op.seen = member
        \/ Passed(op.seen.until) /\ member = Unrestricted /\ author = "admin"

\* The operation has found a restriction Sophie answers for.
Resumes ==
    \/ pc = "plan"
    \/ Restoring /\ pc \in {"save", "call", "undo"}
    \/ Muting /\ ~ op.created /\ pc \in {"defaults", "save", "call", "undo"}

\* No document recognises what an administrator decided.
HersOnly ==
    /\ author = "admin" =>
          /\ member.status = "restricted" /\ member.until = None =>
                ~ (member.perms \subseteq WelcomeRights)
          /\ snapshot # None => ~ Owns(snapshot, member)
          /\ pc = "save" => ~ Owns(op.doc, member)
    /\ Resumes => author # "admin" /\ member.until = None
    /\ pc = "defaults" /\ op.created => op.before.applied_permissions = None

\* Every document, written or about to be, describes the member before Sophie.
Described ==
    /\ author # "admin" /\ snapshot # None => Describes(snapshot, original)
    /\ pc = "defaults" \/ (Writes /\ pc \in {"save", "call", "undo"}) =>
          Describes(op.before, Source)
    /\ Writes /\ pc \in {"save", "call"} => Describes(op.doc, Source)

\* What was given back is what there was, for as long.
RestoredSound ==
    author = "restored" =>
        /\ member.status = "restricted" /\ original.status = "restricted"
        /\ member.perms \subseteq original.perms
        /\ member.until = original.until

\* A planned restore gives back no more, and is in time for Telegram.
PlanSound ==
    /\ pc \in {"check", "plan"} => op.planned <= now
    /\ Restoring /\ pc \in {"save", "call"} =>
          /\ now <= op.planned + CallLatency
          /\ op.perms \subseteq Entitled
          /\ Entitled # Rights => op.until \in {None, original.until}
          /\ op.until # None => op.planned + Margin <= op.until
          /\ ~ op.release /\ op.perms # Rights =>
                /\ original.status = "restricted"
                /\ op.perms \subseteq original.perms
                /\ op.until = original.until

BaseInv ==
    /\ SeenCurrent
    /\ HersOnly
    /\ Described
    /\ RestoredSound
    /\ PlanSound

\* An operation begins with nothing read.
LEMMA NoOpTyped == NoOp \in Ops /\ Out \in Members /\ Unrestricted \in Members
  BY TimeAssumption
     DEF NoOp, Ops, Acts, Members, Perms, Times, Out, Unrestricted

\* The document of a member has the type of a document, and says what to give
\* back unless it lifts the restriction.
LEMMA FreshTyped ==
    ASSUME NEW m \in Members
    PROVE  /\ Fresh(m) \in Snapshots
           /\ WellFormed(Fresh(m))
           /\ Fresh(m) # None => Fresh(m).applied_permissions = None
  BY ValuesAssumption DEF Fresh, Members, Snapshots, WellFormed, Perms, Times

\* Telegram restricts to permissions it was given, or lifts the restriction.
LEMMA RestrictionTyped ==
    ASSUME NEW p \in Perms, NEW t \in {None} \cup Times
    PROVE  Restriction(p, t) \in Members
  BY DEF Restriction, Restricted, Unrestricted, Members, Perms

\* The intent keeps what to give back and recognises both outcomes.
LEMMA IntentTyped ==
    ASSUME TypeOK, NEW s \in Snapshots, NEW p \in Perms
    PROVE  /\ Intent(s, p) \in Snapshots
           /\ Intent(s, p).applied_permissions = p
           /\ Intent(s, p).pending_permissions = s.applied_permissions
           /\ Intent(s, p).permissions = s.permissions
           /\ Intent(s, p).restore_group_defaults = s.restore_group_defaults
           /\ Intent(s, p).previous_until = s.previous_until
  <1>1. op.duration = None \/ op.duration \in 1 .. MaxTime
    BY TimeAssumption DEF TypeOK, Ops
  <1>2. op.duration # None => now + op.duration \in Times
    BY <1>1, TimeAssumption DEF TypeOK, Times
  <1>3. QED
    BY <1>2 DEF Intent, Snapshots

\* A command is recorded with no document held yet.
LEMMA CommandKeeps ==
    ASSUME KeptInv, NEW a \in Commands, NEW d \in MuteDurations \cup {None}, Command(a, d)
    PROVE  KeptInv'
<1> USE ValuesAssumption, TimeAssumption DEF KeptInv, Command, Begin
<1>1. TypeOK'
  <2>1. op' \in Ops
    BY NoOpTyped DEF TypeOK, Ops, Acts, NoOp
  <2>2. pc' \in Steps
    BY DEF FirstStep, Steps
  <2>3. budget' \in [commands : 0 .. MaxCommands, changes : 0 .. MaxChanges, faults : 0 .. MaxFaults]
    BY DEF TypeOK
  <2>4. QED
    BY <2>1, <2>2, <2>3 DEF TypeOK
<1>2. ActsAtSteps'
  BY DEF TypeOK, ActsAtSteps, FirstStep, Muting, Restoring, Writes, NoOp
<1>3. DocsHeld'
  BY DEF TypeOK, DocsHeld, FirstStep, WellFormed, Muting, Restoring, Writes, NoOp
<1>4. Recognised'
  BY DEF TypeOK, Recognised, Owns, FirstStep, Muting, Restoring, Writes, NoOp
<1>5. QED
  BY <1>1, <1>2, <1>3, <1>4

\* The document a restore is about is the one in MongoDB: operations are one
\* at a time.
LEMMA FindKeeps ==
    ASSUME KeptInv, Find
    PROVE  KeptInv'
<1> USE ValuesAssumption, TimeAssumption DEF KeptInv
<1>1. CASE End
  <2>1. TypeOK'
    BY <1>1, NoOpTyped DEF TypeOK, Find, End, Steps
  <2>2. ActsAtSteps'
    BY <1>1 DEF ActsAtSteps, Find, End, NoOp
  <2>3. DocsHeld'
    BY <1>1 DEF DocsHeld, Find, End, NoOp, Writes, Muting, Restoring, WellFormed
  <2>4. Recognised'
    BY <1>1 DEF Recognised, Find, End, NoOp, Owns
  <2>5. QED
    BY <2>1, <2>2, <2>3, <2>4
<1>2. CASE pc' = "check" /\ op' = [op EXCEPT !.doc = snapshot, !.planned = now] /\ snapshot # None
  <2>1. TypeOK'
    BY <1>2 DEF TypeOK, Ops, Find, Steps
  <2>2. ActsAtSteps'
    BY <1>2 DEF TypeOK, Ops, ActsAtSteps, Find, Muting, Restoring
  <2>3. DocsHeld'
    BY <1>2 DEF TypeOK, Ops, ActsAtSteps, DocsHeld, Find, Writes, Muting, Restoring, WellFormed
  <2>4. Recognised'
    BY <1>2 DEF TypeOK, Ops, ActsAtSteps, Recognised, Find, Writes, Muting, Restoring, Owns
  <2>5. QED
    BY <2>1, <2>2, <2>3, <2>4
<1>3. QED
  BY <1>1, <1>2 DEF Find, End
\* An operation holds at most one document, well formed and typed.
LEMMA HeldTyped ==
    ASSUME KeptInv
    PROVE  /\ snapshot # None => snapshot \in Snapshots
           /\ pc \in {"check", "plan"} => op.doc \in Snapshots
           /\ pc = "defaults" => op.before \in Snapshots
           /\ Writes /\ pc \in {"save", "call", "undo"} => op.before \in Snapshots
           /\ Writes /\ pc \in {"save", "call", "settle"} => op.doc \in Snapshots
  BY DEF KeptInv, TypeOK, Ops, DocsHeld

\* A document is kept only if it recognises the member; resolved in memory it
\* recognises what was seen, and so does the intent over it.
LEMMA CaptureKeeps ==
    ASSUME KeptInv, Capture
    PROVE  KeptInv'
<1> USE ValuesAssumption, TimeAssumption, DocumentsAssumption DEF KeptInv
<1>1. CASE snapshot # None /\ Owns(snapshot, op.seen)
  <2> DEFINE s == [snapshot EXCEPT !.applied_permissions = op.seen.perms,
                                   !.pending_permissions = None]
  <2>1. /\ Proceed(s, FALSE)
        /\ UNCHANGED <<now, member, defaults, snapshot, due, author, original, budget>>
    BY <1>1 DEF Capture
  <2>2. /\ s \in Snapshots /\ s # None
        /\ WellFormed(s)
        /\ s.applied_permissions = op.seen.perms /\ op.seen.perms \in Perms
    <3>1. op.seen.perms \in Perms
      BY DEF TypeOK, Ops, Members
    <3>2. snapshot \in Snapshots /\ WellFormed(snapshot)
      BY <1>1, HeldTyped DEF DocsHeld
    <3>3. s \in Snapshots
      BY <3>1, <3>2 DEF Snapshots
    <3>4. /\ s.restore_group_defaults = snapshot.restore_group_defaults
          /\ s.permissions = snapshot.permissions
          /\ s.applied_permissions = op.seen.perms
      BY <3>2 DEF Snapshots
    <3> HIDE DEF s
    <3>5. QED
      BY <3>1, <3>2, <3>3, <3>4 DEF WellFormed
  <2> HIDE DEF s
  <2>3. Muting
    BY DEF Capture, ActsAtSteps
  <2>4. NoUnban /\ author = "sophie" =>
          ~ op'.created /\ Owns(s, member) /\ member.perms = s.applied_permissions
    <3>1. NoUnban /\ author = "sophie" => op.seen = member
      BY DEF Capture, Recognised
    <3>2. op'.created = FALSE
      BY <2>1 DEF Proceed, TypeOK, Ops
    <3>3. QED
      BY <1>1, <2>2, <3>1, <3>2 DEF Owns
  <2>5. CASE op.act = "restrict"
    <3>1. pc' = "defaults" /\ op' = [op EXCEPT !.before = s, !.created = FALSE]
      BY <2>1, <2>5 DEF Proceed
    <3>2. TypeOK'
      BY <2>1, <2>2, <3>1 DEF TypeOK, Ops, Steps
    <3>3. ActsAtSteps'
      BY <2>5, <3>1 DEF Capture, ActsAtSteps, TypeOK, Ops, Muting, Restoring
    <3>4. DocsHeld'
      BY <2>1, <2>2, <2>5, <3>1 DEF DocsHeld, WellFormed, TypeOK, Ops, Muting, Restoring, Writes
    <3>5. Recognised'
      BY <2>1, <2>4, <3>1 DEF Recognised, Owns, TypeOK, Ops, Capture
    <3>6. QED
      BY <3>2, <3>3, <3>4, <3>5
  <2>6. CASE op.act = "mute"
    <3>1. pc' = "save" /\ op' = [op EXCEPT !.before = s, !.created = FALSE,
                                            !.perms = {}, !.doc = Intent(s, {})]
      BY <2>1, <2>6 DEF Proceed
    <3>2. /\ Intent(s, {}) \in Snapshots
          /\ Intent(s, {}).applied_permissions = {}
          /\ Intent(s, {}).pending_permissions = op.seen.perms
          /\ WellFormed(Intent(s, {}))
      BY <2>2, IntentTyped DEF Perms, WellFormed
    <3> HIDE DEF s
    <3>3. TypeOK'
      BY <2>1, <2>2, <3>1, <3>2 DEF TypeOK, Ops, Steps, Perms
    <3>4. ActsAtSteps'
      BY <2>6, <3>1 DEF Capture, ActsAtSteps, TypeOK, Ops, Muting, Restoring, Writes
    <3>5. DocsHeld'
      BY <2>1, <2>2, <2>6, <3>1, <3>2 DEF DocsHeld, WellFormed, TypeOK, Ops, Muting, Restoring, Writes
    <3>6. Recognised'
      BY <1>1, <2>1, <2>3, <2>4, <3>1, <3>2 DEF Recognised, Owns, TypeOK, Ops, Capture, Perms
    <3>7. QED
      BY <3>3, <3>4, <3>5, <3>6
  <2>7. QED
    BY <2>3, <2>5, <2>6 DEF Muting
<1>2. CASE ~ (snapshot # None /\ Owns(snapshot, op.seen))
  <2>1. /\ snapshot' = None /\ pc' = "insert" /\ op' = op
        /\ UNCHANGED <<now, member, defaults, due, author, original, budget>>
    BY <1>2 DEF Capture
  <2>2. NoUnban => author # "sophie"
    BY <1>2 DEF Capture, Recognised
  <2>3. TypeOK'
    BY <2>1 DEF TypeOK, Steps
  <2>4. ActsAtSteps'
    BY <2>1 DEF ActsAtSteps, Capture, Muting, Restoring
  <2>5. DocsHeld'
    BY <2>1 DEF DocsHeld, ActsAtSteps, Capture, Writes, Muting, Restoring
  <2>6. Recognised'
    BY <2>1, <2>2 DEF Recognised
  <2>7. QED
    BY <2>3, <2>4, <2>5, <2>6
<1>3. QED
  BY <1>1, <1>2

\* A new document is written for a member Sophie does not restrict.
LEMMA InsertKeeps ==
    ASSUME KeptInv, Insert
    PROVE  KeptInv'
<1> USE ValuesAssumption, TimeAssumption, DocumentsAssumption DEF KeptInv
<1> DEFINE s == Fresh(op.seen)
<1>1. /\ s \in Snapshots /\ s # None
      /\ WellFormed(s)
      /\ s.applied_permissions = None
  BY FreshTyped DEF TypeOK, Ops
<1>2. /\ snapshot' = s
      /\ Proceed(s, TRUE)
      /\ UNCHANGED <<now, member, defaults, due, author, original, budget>>
  BY DEF Insert
<1> HIDE DEF s
<1>3. Muting /\ (NoUnban => author # "sophie")
  BY DEF Insert, ActsAtSteps, Recognised
<1>4. CASE op.act = "restrict"
  <2>1. pc' = "defaults" /\ op' = [op EXCEPT !.before = s, !.created = TRUE]
    BY <1>2, <1>4 DEF Proceed
  <2>2. TypeOK'
    BY <1>1, <1>2, <2>1 DEF TypeOK, Ops, Steps
  <2>3. ActsAtSteps'
    BY <1>4, <2>1 DEF Insert, ActsAtSteps, TypeOK, Ops, Muting, Restoring
  <2>4. DocsHeld'
    BY <1>1, <1>2, <1>4, <2>1 DEF DocsHeld, WellFormed, TypeOK, Ops, Muting, Restoring, Writes
  <2>5. QED
    BY <1>2, <1>3, <2>2, <2>3, <2>4 DEF Recognised
<1>5. CASE op.act = "mute"
  <2>1. pc' = "save" /\ op' = [op EXCEPT !.before = s, !.created = TRUE,
                                          !.perms = {}, !.doc = Intent(s, {})]
    BY <1>2, <1>5 DEF Proceed
  <2>2. /\ Intent(s, {}) \in Snapshots
        /\ Intent(s, {}).applied_permissions = {}
        /\ WellFormed(Intent(s, {}))
    BY <1>1, IntentTyped DEF Perms, WellFormed
  <2>3. TypeOK'
    BY <1>1, <1>2, <2>1, <2>2 DEF TypeOK, Ops, Steps, Perms
  <2>4. ActsAtSteps'
    BY <1>5, <2>1 DEF Insert, ActsAtSteps, TypeOK, Ops, Muting, Restoring, Writes
  <2>5. DocsHeld'
    BY <1>1, <1>2, <1>5, <2>1, <2>2 DEF DocsHeld, WellFormed, TypeOK, Ops, Muting, Restoring, Writes
  <2>6. QED
    BY <1>2, <1>3, <2>3, <2>4, <2>5 DEF Recognised
<1>6. QED
  BY <1>3, <1>4, <1>5 DEF Muting

\* The intent of a welcome restriction recognises the member before and after.
LEMMA DefaultsKeeps ==
    ASSUME KeptInv, Defaults
    PROVE  KeptInv'
<1> USE ValuesAssumption, TimeAssumption, DocumentsAssumption DEF KeptInv
<1> DEFINE s == op.before
           p == WelcomePerms(s)
<1>1. /\ op' = [op EXCEPT !.perms = p, !.doc = Intent(s, p)]
      /\ pc = "defaults" /\ pc' = "save"
      /\ UNCHANGED <<now, member, defaults, snapshot, due, author, original, budget>>
  BY DEF Defaults
<1>2. p \in Perms
  BY DEF WelcomePerms, TypeOK, Perms
<1>3. s \in Snapshots /\ s # None /\ WellFormed(s) /\ Muting
  BY <1>1, HeldTyped DEF DocsHeld, ActsAtSteps
<1>4. /\ Intent(s, p) \in Snapshots
      /\ Intent(s, p).applied_permissions = p
      /\ Intent(s, p).pending_permissions = s.applied_permissions
      /\ WellFormed(Intent(s, p))
  BY <1>2, <1>3, IntentTyped DEF WellFormed
<1>5. NoUnban /\ author = "sophie" =>
        ~ op.created /\ Owns(s, member) /\ member.perms = s.applied_permissions
  BY <1>1, <1>3 DEF Recognised
<1> HIDE DEF p
<1>6. op'.before = s /\ op'.created = op.created /\ op'.act = op.act
        /\ op'.perms = p /\ op'.doc = Intent(s, p) /\ op'.release = op.release
  BY <1>1 DEF TypeOK, Ops
<1>7. TypeOK'
  BY <1>1, <1>2, <1>4 DEF TypeOK, Ops, Steps
<1>8. ActsAtSteps'
  BY <1>1, <1>3, <1>6 DEF ActsAtSteps, Muting, Restoring, Writes
<1>9. DocsHeld'
  BY <1>1, <1>3, <1>4, <1>6 DEF DocsHeld, WellFormed, Muting, Restoring, Writes
<1>10. Recognised'
  <2> SUFFICES ASSUME NoUnban, author = "sophie"
               PROVE  /\ snapshot # None /\ Owns(snapshot, member)
                      /\ ~ (Muting' /\ op'.created) /\ Owns(s, member)
                      /\ Owns(Intent(s, p), member)
    BY <1>1, <1>6 DEF Recognised, Owns
  <2>1. Owns(Intent(s, p), member)
    BY <1>2, <1>3, <1>4, <1>5 DEF Owns, Perms
  <2>2. QED
    BY <1>5, <1>6, <2>1 DEF Recognised
<1>11. QED
  BY <1>7, <1>8, <1>9, <1>10
\* The plan of a restore.
LEMMA RestoreTyped ==
    ASSUME TypeOK, NEW s \in Snapshots, WellFormed(s)
    PROVE  /\ RestorePerms(s) \in Perms
           /\ RestoreUntil(s) \in {None} \cup Times
  BY DEF RestorePerms, RestoreUntil, Lifted, WellFormed, Snapshots, Perms, TypeOK

\* A release that has to be put off recognises the member before and after.
LEMMA PlanKeeps ==
    ASSUME KeptInv, Plan
    PROVE  KeptInv'
<1> USE ValuesAssumption, TimeAssumption, DocumentsAssumption DEF KeptInv
<1> DEFINE s == op.doc
           p == RestorePerms(s)
           u == RestoreUntil(s)
           near == Near(u)
           d == IF near
                THEN [s EXCEPT !.pending_permissions = op.seen.perms,
                               !.applied_permissions = p,
                               !.expires_at = u]
                ELSE s
<1>1. /\ op' = [op EXCEPT !.planned = now, !.perms = p,
                          !.until = IF near THEN None ELSE u,
                          !.release = near, !.before = s, !.doc = d]
      /\ pc = "plan" /\ pc' = IF near THEN "save" ELSE "call"
      /\ UNCHANGED <<now, member, defaults, snapshot, due, author, original, budget>>
  BY DEF Plan
<1>2. s \in Snapshots /\ s # None /\ WellFormed(s) /\ s = snapshot /\ Restoring
  BY <1>1, HeldTyped DEF DocsHeld, ActsAtSteps
<1>3. p \in Perms /\ u \in {None} \cup Times /\ near \in BOOLEAN
  BY <1>2, RestoreTyped DEF Near
<1>4. op.seen.perms \in Perms
  BY DEF TypeOK, Ops, Members
<1>5. d \in Snapshots /\ WellFormed(d)
  <2>1. CASE near
    BY <1>2, <1>3, <1>4, <2>1 DEF Snapshots, WellFormed
  <2>2. CASE ~ near
    BY <1>2, <2>2
  <2>3. QED
    BY <2>1, <2>2
<1>6. near => d.applied_permissions = p /\ d.pending_permissions = op.seen.perms
  BY <1>2 DEF Snapshots
<1> HIDE DEF p, u, near, d
<1>7. /\ op'.act = op.act /\ op'.perms = p /\ op'.until = (IF near THEN None ELSE u)
      /\ op'.release = near /\ op'.before = s /\ op'.doc = d
  BY <1>1 DEF TypeOK, Ops
<1>8. TypeOK'
  <2>1. now \in 0 .. MaxTime
    BY DEF TypeOK
  <2>2. op' \in Ops
    BY <1>1, <1>2, <1>3, <1>5, <2>1 DEF TypeOK, Ops
  <2>3. QED
    BY <1>1, <2>2 DEF TypeOK, Steps
<1>9. ActsAtSteps'
  BY <1>1, <1>2, <1>7 DEF ActsAtSteps, Muting, Restoring, Writes
<1>10. DocsHeld'
  BY <1>1, <1>2, <1>5, <1>6, <1>7 DEF DocsHeld, WellFormed, Muting, Restoring, Writes
<1>11. Recognised'
  <2> SUFFICES ASSUME NoUnban, author = "sophie"
               PROVE  /\ snapshot # None /\ Owns(snapshot, member)
                      /\ ~ Muting'
                      /\ Owns(s, member)
                      /\ near => Owns(d, member)
    BY <1>1, <1>7 DEF Recognised, Owns
  <2>1. op.seen = member /\ Owns(snapshot, member)
    BY <1>1 DEF Recognised
  <2>2. near => Owns(d, member)
    BY <1>3, <1>4, <1>6, <2>1 DEF Owns
  <2>3. ~ Muting'
    BY <1>2, <1>7 DEF Muting, Restoring
  <2>4. QED
    BY <1>2, <2>1, <2>2, <2>3
<1>12. QED
  BY <1>8, <1>9, <1>10, <1>11

\* Telegram acts: the member Sophie restricts is recognised by what she saved.
LEMMA ActKeeps ==
    ASSUME KeptInv, pc = "call", Act,
           UNCHANGED <<now, defaults, snapshot, due>>
    PROVE  /\ member' \in Members /\ original' \in Members
           /\ author' \in {"admin", "sophie", "restored"}
           /\ NoUnban /\ author' = "sophie" =>
                 Writes /\ snapshot # None /\ Owns(snapshot, member') /\ member'.perms = op.perms
<1> USE ValuesAssumption, TimeAssumption, DocumentsAssumption DEF KeptInv
<1>1. op.perms \in Perms /\ op.until \in {None} \cup Times /\ op.act \in Commands \cup {"sweep"}
  BY DEF TypeOK, Ops, ActsAtSteps
<1>2. NoUnban => op.act # "unban"
  BY <1>1 DEF NoUnban
<1>3. Outcome \in Members
  BY <1>1, RestrictionTyped, NoOpTyped DEF Outcome, TypeOK
<1>4. member' \in Members /\ original' \in Members
  BY <1>3 DEF Act, TypeOK
<1>5. author' \in {"admin", "sophie", "restored"}
  BY DEF Act, Author, TypeOK
<1>6. ASSUME NoUnban, author' = "sophie"
      PROVE  Writes /\ snapshot # None /\ Owns(snapshot, member') /\ member'.perms = op.perms
  <2>1. Writes /\ Outcome.status = "restricted"
    BY <1>2, <1>6 DEF Act, Author, Writes
  <2>2. /\ snapshot = op.doc /\ snapshot # None
        /\ snapshot.applied_permissions = op.perms
    BY <2>1 DEF DocsHeld
  <2>3. Outcome = Restriction(op.perms, None)
    BY <2>1 DEF Outcome, Writes, DocsHeld
  <2>4. Outcome = Restricted(op.perms, None)
    BY <2>1, <2>3 DEF Restriction, Unrestricted
  <2>5. QED
    BY <1>1, <2>1, <2>2, <2>4 DEF Act, Owns, Restricted
<1>7. QED
  BY <1>4, <1>5, <1>6

\* Telegram's answer is as good as its act.
LEMMA CallAppliedKeeps ==
    ASSUME KeptInv, CallApplied
    PROVE  KeptInv'
<1> USE ValuesAssumption, TimeAssumption, DocumentsAssumption DEF KeptInv
<1>1. /\ pc = "call" /\ Act
      /\ UNCHANGED <<now, defaults, snapshot, due, budget>>
      /\ pc' = AfterSuccess
      /\ pc' \in {"settle", "idle", "purge"}
      /\ op' = IF pc' = "idle" THEN NoOp ELSE op
  BY DEF CallApplied, AfterSuccess
<1>2. /\ member' \in Members /\ original' \in Members
      /\ author' \in {"admin", "sophie", "restored"}
      /\ NoUnban /\ author' = "sophie" =>
            Writes /\ snapshot # None /\ Owns(snapshot, member') /\ member'.perms = op.perms
  BY <1>1, ActKeeps
<1>3. pc' = "settle" => Muting \/ Restoring
  BY <1>1 DEF AfterSuccess
<1>4. pc' = "purge" => op.act \in {"ban", "kick", "unban"}
  BY <1>1 DEF AfterSuccess, ActsAtSteps, Muting, Restoring
<1>5. TypeOK'
  BY <1>1, <1>2, NoOpTyped DEF TypeOK, Steps
<1>6. ActsAtSteps'
  BY <1>1, <1>3, <1>4 DEF ActsAtSteps, NoOp, Muting, Restoring
<1>7. DocsHeld'
  BY <1>1 DEF DocsHeld, NoOp, Writes, Muting, Restoring, WellFormed
<1>8. Recognised'
  BY <1>1, <1>2, <1>3, <1>4 DEF Recognised, Owns, Writes, Muting, Restoring, NoOp
<1>9. QED
  BY <1>5, <1>6, <1>7, <1>8
\* After a refusal the member is as the document before says.
LEMMA CallRefusedKeeps ==
    ASSUME KeptInv, CallRefused
    PROVE  KeptInv'
<1> USE ValuesAssumption, TimeAssumption, DocumentsAssumption DEF KeptInv, CallRefused, End
<1>1. TypeOK'
  <2>1. budget' \in [commands : 0 .. MaxCommands, changes : 0 .. MaxChanges, faults : 0 .. MaxFaults]
    BY DEF TypeOK
  <2>2. op' \in Ops /\ pc' \in Steps
    BY NoOpTyped DEF TypeOK, Steps
  <2>3. QED
    BY <2>1, <2>2 DEF TypeOK
<1>2. ActsAtSteps'
  BY DEF ActsAtSteps, Muting, Restoring, Writes, NoOp
<1>3. DocsHeld'
  BY DEF DocsHeld, WellFormed, Muting, Restoring, Writes, NoOp
<1>4. Recognised'
  BY DEF Recognised, Owns, Muting, Restoring, Writes, NoOp
<1>5. QED
  BY <1>1, <1>2, <1>3, <1>4

\* Without an answer the saved document recognises the new restriction.
LEMMA CallUnansweredKeeps ==
    ASSUME KeptInv, CallUnanswered
    PROVE  KeptInv'
<1> USE ValuesAssumption, TimeAssumption, DocumentsAssumption DEF KeptInv
<1>1. /\ pc = "call" /\ Act
      /\ UNCHANGED <<now, defaults, snapshot, due>>
      /\ pc' = "idle" /\ op' = NoOp
      /\ budget.faults < MaxFaults /\ budget' = [budget EXCEPT !.faults = @ + 1]
  BY DEF CallUnanswered, End
<1>2. /\ member' \in Members /\ original' \in Members
      /\ author' \in {"admin", "sophie", "restored"}
      /\ NoUnban /\ author' = "sophie" => snapshot # None /\ Owns(snapshot, member')
  BY <1>1, ActKeeps
<1>3. TypeOK'
  <2>1. budget' \in [commands : 0 .. MaxCommands, changes : 0 .. MaxChanges, faults : 0 .. MaxFaults]
    BY <1>1 DEF TypeOK
  <2>2. QED
    BY <1>1, <1>2, <2>1, NoOpTyped DEF TypeOK, Steps
<1>4. ActsAtSteps'
  BY <1>1 DEF ActsAtSteps
<1>5. DocsHeld'
  BY <1>1 DEF DocsHeld, NoOp, Writes, Muting, Restoring, WellFormed
<1>6. Recognised'
  BY <1>1, <1>2 DEF Recognised, Owns
<1>7. QED
  BY <1>3, <1>4, <1>5, <1>6

\* A restore that is over leaves nothing; a restriction of Sophie's stays
\* recognised once its pending state is settled.
LEMMA SettleKeeps ==
    ASSUME KeptInv, Settle
    PROVE  KeptInv'
<1> USE ValuesAssumption, TimeAssumption, DocumentsAssumption DEF KeptInv
<1> DEFINE s == [op.doc EXCEPT !.pending_permissions = None]
<1>1. /\ snapshot' = IF Writes THEN s ELSE None
      /\ pc = "settle" /\ pc' = "idle" /\ op' = NoOp
      /\ UNCHANGED <<now, member, defaults, due, author, original, budget>>
  BY DEF Settle, End, ActsAtSteps, Writes, Muting, Restoring
<1>2. Writes =>
        /\ op.doc \in Snapshots /\ WellFormed(op.doc)
        /\ op.doc.applied_permissions = op.perms
        /\ op.perms \in Perms
  BY <1>1, HeldTyped DEF DocsHeld, TypeOK, Ops
<1>3. Writes =>
        /\ s \in Snapshots /\ s # None /\ WellFormed(s)
        /\ s.applied_permissions = op.perms
  BY <1>2 DEF Snapshots, WellFormed
<1>4. NoUnban /\ author = "sophie" => Writes /\ Owns(op.doc, member) /\ member.perms = op.perms
  BY <1>1 DEF Recognised, DocsHeld
<1> HIDE DEF s
<1>5. TypeOK'
  BY <1>1, <1>3, NoOpTyped DEF TypeOK, Steps
<1>6. ActsAtSteps'
  BY <1>1 DEF ActsAtSteps
<1>7. DocsHeld'
  BY <1>1, <1>3 DEF DocsHeld, NoOp, Writes, Muting, Restoring, WellFormed
<1>8. Recognised'
  BY <1>1, <1>2, <1>3, <1>4 DEF Recognised, Owns
<1>9. QED
  BY <1>5, <1>6, <1>7, <1>8

\* What an administrator does is not Sophie's.
LEMMA AdminChangeKeeps ==
    ASSUME KeptInv, NEW m \in AdminChoices, AdminChange(m)
    PROVE  KeptInv'
<1> USE ValuesAssumption, TimeAssumption, DocumentsAssumption DEF KeptInv, AdminChange
<1>1. m \in Members
  <2>1. CASE m \in {Unrestricted, Out}
    BY <2>1, NoOpTyped
  <2>2. CASE \E p \in AdminPerms, d \in AdminDurations :
                m = Restricted(p, IF d = None THEN None ELSE now + d)
    <3>1. PICK p \in AdminPerms, d \in AdminDurations :
                m = Restricted(p, IF d = None THEN None ELSE now + d)
      BY <2>2
    <3>2. p \in Perms
      OBVIOUS
    <3>3. d # None => now + d \in Times
      BY DEF TypeOK, Times
    <3>4. QED
      BY <3>1, <3>2, <3>3 DEF Restricted, Members
  <2>3. QED
    BY <2>1, <2>2 DEF AdminChoices
<1>2. TypeOK'
  <2>1. budget' \in [commands : 0 .. MaxCommands, changes : 0 .. MaxChanges, faults : 0 .. MaxFaults]
    BY DEF TypeOK
  <2>2. QED
    BY <1>1, <2>1 DEF TypeOK
<1>3. ActsAtSteps'
  BY DEF ActsAtSteps, Muting, Restoring, Writes
<1>4. DocsHeld'
  BY DEF DocsHeld, WellFormed, Muting, Restoring, Writes
<1>5. Recognised'
  BY DEF Recognised
<1>6. QED
  BY <1>2, <1>3, <1>4, <1>5
\* The query of the sweep changes nothing an operation relies on.
LEMMA SweepFindKeeps ==
    ASSUME KeptInv, SweepFind
    PROVE  KeptInv'
<1> USE ValuesAssumption, TimeAssumption DEF KeptInv, SweepFind
<1>1. TypeOK'
  BY NoOpTyped DEF TypeOK, Ops, Steps, Members, Unrestricted
<1>2. ActsAtSteps'
  BY DEF TypeOK, ActsAtSteps, Muting, Restoring, Writes, NoOp, Ops
<1>3. DocsHeld'
  BY DEF TypeOK, ActsAtSteps, DocsHeld, WellFormed, Muting, Restoring, Writes, NoOp, Ops
<1>4. Recognised'
  BY DEF TypeOK, ActsAtSteps, DocsHeld, Recognised, Owns, Muting, Restoring, Writes, NoOp, Ops
<1>5. QED
  BY <1>1, <1>2, <1>3, <1>4

\* While Sophie's restriction lasts, what get_chat_member returns stays so.
LEMMA LookKeeps ==
    ASSUME KeptInv, Look
    PROVE  KeptInv'
<1> USE ValuesAssumption, TimeAssumption DEF KeptInv, Look
<1>1. TypeOK'
  BY NoOpTyped DEF TypeOK, Ops, Steps, Members, Unrestricted
<1>2. ActsAtSteps'
  BY DEF TypeOK, ActsAtSteps, Muting, Restoring, Writes, NoOp, Ops
<1>3. DocsHeld'
  BY DEF TypeOK, ActsAtSteps, DocsHeld, WellFormed, Muting, Restoring, Writes, NoOp, Ops
<1>4. Recognised'
  BY DEF TypeOK, ActsAtSteps, DocsHeld, Recognised, Owns, Muting, Restoring, Writes, NoOp, Ops
<1>5. QED
  BY <1>1, <1>2, <1>3, <1>4

\* An insertion that is undone was not of a member Sophie restricts.
LEMMA NoDefaultsKeeps ==
    ASSUME KeptInv, NoDefaults
    PROVE  KeptInv'
<1> USE ValuesAssumption, TimeAssumption DEF KeptInv, NoDefaults, End
<1>1. TypeOK'
  BY NoOpTyped DEF TypeOK, Ops, Steps, Members, Unrestricted
<1>2. ActsAtSteps'
  BY DEF TypeOK, ActsAtSteps, Muting, Restoring, Writes, NoOp, Ops
<1>3. DocsHeld'
  BY DEF TypeOK, ActsAtSteps, DocsHeld, WellFormed, Muting, Restoring, Writes, NoOp, Ops
<1>4. Recognised'
  BY DEF TypeOK, ActsAtSteps, DocsHeld, Recognised, Owns, Muting, Restoring, Writes, NoOp, Ops
<1>5. QED
  BY <1>1, <1>2, <1>3, <1>4

\* The document saved before the call recognises the member as he is.
LEMMA SaveKeeps ==
    ASSUME KeptInv, Save
    PROVE  KeptInv'
<1> USE ValuesAssumption, TimeAssumption DEF KeptInv, Save
<1>1. TypeOK'
  BY NoOpTyped DEF TypeOK, Ops, Steps, Members, Unrestricted
<1>2. ActsAtSteps'
  BY DEF TypeOK, ActsAtSteps, Muting, Restoring, Writes, NoOp, Ops
<1>3. DocsHeld'
  BY DEF TypeOK, ActsAtSteps, DocsHeld, WellFormed, Muting, Restoring, Writes, NoOp, Ops
<1>4. Recognised'
  BY DEF TypeOK, ActsAtSteps, DocsHeld, Recognised, Owns, Muting, Restoring, Writes, NoOp, Ops
<1>5. QED
  BY <1>1, <1>2, <1>3, <1>4

\* A document that does not recognise the member is about to go, and no
\* restriction of Sophie's is in force then.
LEMMA CheckKeeps ==
    ASSUME KeptInv, Check
    PROVE  KeptInv'
<1> USE ValuesAssumption, TimeAssumption DEF KeptInv, Check
<1>1. TypeOK'
  BY NoOpTyped DEF TypeOK, Ops, Steps, Members, Unrestricted
<1>2. ActsAtSteps'
  BY DEF TypeOK, ActsAtSteps, Muting, Restoring, Writes, NoOp, Ops
<1>3. DocsHeld'
  BY DEF TypeOK, ActsAtSteps, DocsHeld, WellFormed, Muting, Restoring, Writes, NoOp, Ops
<1>4. Recognised'
  BY DEF TypeOK, ActsAtSteps, DocsHeld, Recognised, Owns, Muting, Restoring, Writes, NoOp, Ops
<1>5. QED
  BY <1>1, <1>2, <1>3, <1>4

\* Only a document that recognised nothing is discarded.
LEMMA DiscardKeeps ==
    ASSUME KeptInv, Discard
    PROVE  KeptInv'
<1> USE ValuesAssumption, TimeAssumption DEF KeptInv, Discard, End
<1>1. TypeOK'
  BY NoOpTyped DEF TypeOK, Ops, Steps, Members, Unrestricted
<1>2. ActsAtSteps'
  BY DEF TypeOK, ActsAtSteps, Muting, Restoring, Writes, NoOp, Ops
<1>3. DocsHeld'
  BY DEF TypeOK, ActsAtSteps, DocsHeld, WellFormed, Muting, Restoring, Writes, NoOp, Ops
<1>4. Recognised'
  BY DEF TypeOK, ActsAtSteps, DocsHeld, Recognised, Owns, Muting, Restoring, Writes, NoOp, Ops
<1>5. QED
  BY <1>1, <1>2, <1>3, <1>4

\* After a refusal the document is the one that recognised the member before.
LEMMA UndoKeeps ==
    ASSUME KeptInv, Undo
    PROVE  KeptInv'
<1> USE ValuesAssumption, TimeAssumption DEF KeptInv, Undo, End
<1>1. TypeOK'
  BY NoOpTyped DEF TypeOK, Ops, Steps, Members, Unrestricted
<1>2. ActsAtSteps'
  BY DEF TypeOK, ActsAtSteps, Muting, Restoring, Writes, NoOp, Ops
<1>3. DocsHeld'
  BY DEF TypeOK, ActsAtSteps, DocsHeld, WellFormed, Muting, Restoring, Writes, NoOp, Ops
<1>4. Recognised'
  BY DEF TypeOK, ActsAtSteps, DocsHeld, Recognised, Owns, Muting, Restoring, Writes, NoOp, Ops
<1>5. QED
  BY <1>1, <1>2, <1>3, <1>4

\* A ban or kick has ended the restriction whose snapshot it forgets.
LEMMA PurgeKeeps ==
    ASSUME KeptInv, Purge
    PROVE  KeptInv'
<1> USE ValuesAssumption, TimeAssumption DEF KeptInv, Purge, End
<1>1. TypeOK'
  BY NoOpTyped DEF TypeOK, Ops, Steps, Members, Unrestricted
<1>2. ActsAtSteps'
  BY DEF TypeOK, ActsAtSteps, Muting, Restoring, Writes, NoOp, Ops
<1>3. DocsHeld'
  BY DEF TypeOK, ActsAtSteps, DocsHeld, WellFormed, Muting, Restoring, Writes, NoOp, Ops
<1>4. Recognised'
  BY DEF TypeOK, ActsAtSteps, DocsHeld, Recognised, Owns, Muting, Restoring, Writes, NoOp, Ops
<1>5. QED
  BY <1>1, <1>2, <1>3, <1>4

\* What was saved before an operation broke off still recognises the member.
LEMMA AbortKeeps ==
    ASSUME KeptInv, Abort
    PROVE  KeptInv'
<1> USE ValuesAssumption, TimeAssumption DEF KeptInv, Abort, End
<1>1. TypeOK'
  BY NoOpTyped DEF TypeOK, Ops, Steps, Members, Unrestricted
<1>2. ActsAtSteps'
  BY DEF TypeOK, ActsAtSteps, Muting, Restoring, Writes, NoOp, Ops
<1>3. DocsHeld'
  BY DEF TypeOK, ActsAtSteps, DocsHeld, WellFormed, Muting, Restoring, Writes, NoOp, Ops
<1>4. Recognised'
  BY DEF TypeOK, ActsAtSteps, DocsHeld, Recognised, Owns, Muting, Restoring, Writes, NoOp, Ops
<1>5. QED
  BY <1>1, <1>2, <1>3, <1>4

\* The defaults of the group are no part of what is recognised.
LEMMA DefaultsChangeKeeps ==
    ASSUME KeptInv, NEW p \in DefaultPerms, DefaultsChange(p)
    PROVE  KeptInv'
<1> USE ValuesAssumption, TimeAssumption DEF KeptInv, DefaultsChange
<1>1. TypeOK'
  BY NoOpTyped DEF TypeOK, Ops, Steps, Members, Unrestricted
<1>2. ActsAtSteps'
  BY DEF TypeOK, ActsAtSteps, Muting, Restoring, Writes, NoOp, Ops
<1>3. DocsHeld'
  BY DEF TypeOK, ActsAtSteps, DocsHeld, WellFormed, Muting, Restoring, Writes, NoOp, Ops
<1>4. Recognised'
  BY DEF TypeOK, ActsAtSteps, DocsHeld, Recognised, Owns, Muting, Restoring, Writes, NoOp, Ops
<1>5. QED
  BY <1>1, <1>2, <1>3, <1>4

\* A restriction that runs out has a deadline, hence is not Sophie's.
LEMMA TickKeeps ==
    ASSUME KeptInv, Tick
    PROVE  KeptInv'
<1> USE ValuesAssumption, TimeAssumption DEF KeptInv, Tick
<1>1. TypeOK'
  BY NoOpTyped DEF TypeOK, Ops, Steps, Members, Unrestricted
<1>2. ActsAtSteps'
  BY DEF TypeOK, ActsAtSteps, Muting, Restoring, Writes, NoOp, Ops
<1>3. DocsHeld'
  BY DEF TypeOK, ActsAtSteps, DocsHeld, WellFormed, Muting, Restoring, Writes, NoOp, Ops
<1>4. Recognised'
  BY DEF TypeOK, ActsAtSteps, DocsHeld, Recognised, Owns, Muting, Restoring, Writes, NoOp, Ops
<1>5. QED
  BY <1>1, <1>2, <1>3, <1>4

\* A step of another component changes nothing.
LEMMA StutterKeeps ==
    ASSUME KeptInv, UNCHANGED vars
    PROVE  KeptInv'
<1> USE ValuesAssumption, TimeAssumption DEF KeptInv, vars
<1>1. TypeOK'
  BY NoOpTyped DEF TypeOK, Ops, Steps, Members, Unrestricted
<1>2. ActsAtSteps'
  BY DEF TypeOK, ActsAtSteps, Muting, Restoring, Writes, NoOp, Ops
<1>3. DocsHeld'
  BY DEF TypeOK, ActsAtSteps, DocsHeld, WellFormed, Muting, Restoring, Writes, NoOp, Ops
<1>4. Recognised'
  BY DEF TypeOK, ActsAtSteps, DocsHeld, Recognised, Owns, Muting, Restoring, Writes, NoOp, Ops
<1>5. QED
  BY <1>1, <1>2, <1>3, <1>4

\* The sweep calls execute_restriction for a document it found.
LEMMA SweepRestoreKeeps ==
    ASSUME KeptInv, SweepRestore
    PROVE  KeptInv'
<1> USE ValuesAssumption, TimeAssumption DEF KeptInv, SweepRestore, Begin
<1>1. TypeOK'
  <2>1. op' \in Ops
    BY NoOpTyped DEF TypeOK, Ops, Acts, NoOp
  <2>2. pc' \in Steps
    BY DEF FirstStep, Steps
  <2>3. QED
    BY <2>1, <2>2 DEF TypeOK
<1>2. ActsAtSteps'
  BY DEF TypeOK, ActsAtSteps, FirstStep, Muting, Restoring, Writes, NoOp
<1>3. DocsHeld'
  BY DEF TypeOK, DocsHeld, FirstStep, WellFormed, Muting, Restoring, Writes, NoOp
<1>4. Recognised'
  BY DEF TypeOK, Recognised, Owns, FirstStep, Muting, Restoring, Writes, NoOp
<1>5. QED
  BY <1>1, <1>2, <1>3, <1>4

\* The permissions of the member are a value.
LEMMA MemberTyped ==
    ASSUME TypeOK
    PROVE  member.perms \in Perms /\ member.perms # None
  BY ValuesAssumption DEF TypeOK, Members

\* A document resolved in memory is of a restriction of Sophie's, or of what
\* she gave back; a new one is of what the operation saw.
LEMMA CaptureKeepsBase ==
    ASSUME Undisturbed, KeptInv, BaseInv, Capture
    PROVE  BaseInv'
<1> USE ValuesAssumption, TimeAssumption, DocumentsAssumption DEF KeptInv, BaseInv
<1>0. UNCHANGED <<now, member, author, original>> /\ pc = "capture" /\ Muting
  BY DEF Capture, ActsAtSteps
<1>1. CASE snapshot # None /\ Owns(snapshot, op.seen)
  <2> DEFINE s == [snapshot EXCEPT !.applied_permissions = op.seen.perms,
                                   !.pending_permissions = None]
             i == Intent(s, {})
  <2>1. Proceed(s, FALSE) /\ UNCHANGED snapshot
    BY <1>1 DEF Capture
  <2>2. author # "admin" /\ member.until = None
    BY <1>0, <1>1 DEF SeenCurrent, HersOnly, Owns, Passed
  <2>3. snapshot \in Snapshots /\ op.seen.perms \in Perms
    BY <1>1, HeldTyped DEF TypeOK, Ops, Members
  <2>4. s \in Snapshots
    BY <2>3 DEF Snapshots
  <2>5. /\ s.restore_group_defaults = snapshot.restore_group_defaults
        /\ s.permissions = snapshot.permissions
        /\ s.previous_until = snapshot.previous_until
        /\ i.restore_group_defaults = snapshot.restore_group_defaults
        /\ i.permissions = snapshot.permissions
        /\ i.previous_until = snapshot.previous_until
    <3>1. /\ s.restore_group_defaults = snapshot.restore_group_defaults
          /\ s.permissions = snapshot.permissions
          /\ s.previous_until = snapshot.previous_until
      BY <2>3 DEF Snapshots
    <3> HIDE DEF s
    <3>2. {} \in Perms
      BY DEF Perms
    <3>3. QED
      BY <2>4, <3>1, <3>2, IntentTyped
  <2> HIDE DEF s, i
  <2>6. /\ op'.act = op.act /\ op'.before = s /\ op'.created = FALSE
        /\ pc' = "defaults" \/ (pc' = "save" /\ op'.doc = i)
    BY <2>1, <1>0 DEF Proceed, TypeOK, Ops, i
  <2>7. Describes(s, original) /\ Describes(i, original)
    BY <1>1, <2>2, <2>5 DEF Described, Describes
  <2>8. SeenCurrent'
    BY <2>6 DEF SeenCurrent
  <2>9. HersOnly'
    BY <1>0, <2>2, <2>6 DEF HersOnly
  <2>10. Described'
    BY <1>0, <1>1, <2>1, <2>2, <2>6, <2>7 DEF Described, Describes, Source, Passed
  <2>11. RestoredSound'
    BY <1>0 DEF RestoredSound
  <2>12. PlanSound'
    BY <1>0, <2>6 DEF PlanSound, Muting, Restoring
  <2>13. QED
    BY <2>8, <2>9, <2>10, <2>11, <2>12
<1>2. CASE ~ (snapshot # None /\ Owns(snapshot, op.seen))
  <2>1. snapshot' = None /\ pc' = "insert" /\ op' = op
    BY <1>2 DEF Capture
  <2>2. QED
    BY <1>0, <2>1 DEF SeenCurrent, HersOnly, Resumes, Described, RestoredSound, PlanSound,
                      Passed, Writes, Muting, Restoring
<1>3. QED
  BY <1>1, <1>2

\* What is inserted describes the member the operation saw, or one whose
\* restriction has run out meanwhile.
LEMMA InsertKeepsBase ==
    ASSUME Undisturbed, KeptInv, BaseInv, Insert
    PROVE  BaseInv'
<1> USE ValuesAssumption, TimeAssumption, DocumentsAssumption DEF KeptInv, BaseInv
<1> DEFINE s == Fresh(op.seen)
           i == Intent(s, {})
<1>1. /\ UNCHANGED <<now, member, author, original>>
      /\ pc = "insert" /\ Muting /\ author # "sophie"
      /\ snapshot' = s /\ Proceed(s, TRUE)
  BY DEF Insert, ActsAtSteps, Recognised, Undisturbed
<1>2. s \in Snapshots /\ s.applied_permissions = None /\ op.seen \in Members
  BY FreshTyped DEF TypeOK, Ops
<1>3. /\ i.restore_group_defaults = s.restore_group_defaults
      /\ i.permissions = s.permissions
      /\ i.previous_until = s.previous_until
      /\ i.applied_permissions = {} /\ i.pending_permissions = None
  BY <1>2, IntentTyped DEF Perms
<1>4. /\ s.restore_group_defaults = (op.seen.status # "restricted")
      /\ op.seen.status = "restricted" =>
            s.permissions = op.seen.perms /\ s.previous_until = op.seen.until
  BY DEF Fresh
<1>5. Describes(s, Source)
  <2>1. CASE op.seen = member
    BY <1>1, <1>4, <2>1 DEF Describes, Source, RestoredSound, TypeOK
  <2>2. CASE Passed(op.seen.until) /\ member = Unrestricted /\ author = "admin"
    BY <1>4, <2>2 DEF Describes, Source, Passed, Unrestricted
  <2>3. QED
    BY <1>1, <2>1, <2>2 DEF SeenCurrent
<1> HIDE DEF s, i
<1>6. Describes(i, Source)
  BY <1>3, <1>5 DEF Describes
<1>7. /\ op'.act = op.act /\ op'.before = s /\ op'.created = TRUE
      /\ pc' = "defaults" \/ (pc' = "save" /\ op'.doc = i)
  BY <1>1 DEF Proceed, TypeOK, Ops, i
<1>8. SeenCurrent'
  BY <1>7 DEF SeenCurrent
<1>9. HersOnly'
  <2>1. author = "admin" => ~ Owns(i, member)
    BY <1>3, MemberTyped DEF HersOnly, Owns
  <2>2. ~ Owns(s, member)
    BY <1>2 DEF Owns
  <2>3. QED
    BY <1>1, <1>2, <1>7, <2>1, <2>2 DEF HersOnly, Resumes, Muting, Restoring, Owns
<1>10. Described'
  <2>1. Source' = Source
    BY <1>1 DEF Source
  <2>2. QED
    BY <1>1, <1>7, <2>1, <1>5, <1>6 DEF Described, Describes, Source, Passed
<1>11. RestoredSound'
  BY <1>1 DEF RestoredSound
<1>12. PlanSound'
  BY <1>1, <1>7 DEF PlanSound, Muting, Restoring
<1>13. QED
  BY <1>8, <1>9, <1>10, <1>11, <1>12
\* The permissions of a welcome restriction are Sophie's own.
LEMMA DefaultsKeepsBase ==
    ASSUME Undisturbed, KeptInv, BaseInv, Defaults
    PROVE  BaseInv'
<1> USE ValuesAssumption, TimeAssumption, DocumentsAssumption DEF KeptInv, BaseInv
<1> DEFINE s == op.before
           p == WelcomePerms(s)
           i == Intent(s, p)
<1>1. /\ op' = [op EXCEPT !.perms = p, !.doc = i]
      /\ pc = "defaults" /\ pc' = "save" /\ Muting
      /\ UNCHANGED <<now, member, snapshot, author, original>>
  BY DEF Defaults, ActsAtSteps
<1>2. p \in Perms /\ p \subseteq WelcomeRights /\ p # None
  BY DEF WelcomePerms, TypeOK, Perms
<1>3. s \in Snapshots
  BY <1>1, HeldTyped
<1>4. /\ i.restore_group_defaults = s.restore_group_defaults
      /\ i.permissions = s.permissions
      /\ i.previous_until = s.previous_until
      /\ i.applied_permissions = p
      /\ i.pending_permissions = s.applied_permissions
  BY <1>2, <1>3, IntentTyped
<1>5. Describes(s, Source) /\ Source' = Source
  BY <1>1 DEF Described, Source
<1> HIDE DEF i, p
<1>6. Describes(i, Source)
  BY <1>4, <1>5 DEF Describes
<1>7. op'.act = op.act /\ op'.before = s /\ op'.created = op.created /\ op'.doc = i
  BY <1>1 DEF TypeOK, Ops
<1>8. SeenCurrent'
  BY <1>1 DEF SeenCurrent
<1>9. HersOnly'
  <2>1. ASSUME author = "admin"
        PROVE  op.created /\ ~ Owns(i, member)
    <3>1. op.created /\ i.pending_permissions = None
      BY <1>1, <1>4, <2>1 DEF HersOnly, Resumes
    <3>2. QED
      BY <1>2, <1>4, <2>1, <3>1, MemberTyped DEF HersOnly, Owns
  <2>2. QED
    BY <1>1, <1>7, <2>1 DEF HersOnly, Resumes, Muting, Restoring, Owns
<1>10. Described'
  BY <1>1, <1>5, <1>6, <1>7 DEF Described, Describes, Source, Passed
<1>11. RestoredSound'
  BY <1>1 DEF RestoredSound
<1>12. PlanSound'
  BY <1>1, <1>7 DEF PlanSound, Muting, Restoring
<1>13. QED
  BY <1>8, <1>9, <1>10, <1>11, <1>12

\* The plan gives back what the document describes, and what it describes is
\* the member before Sophie.
LEMMA PlanKeepsBase ==
    ASSUME Undisturbed, KeptInv, KeptInv', BaseInv, Plan
    PROVE  BaseInv'
<1> USE ValuesAssumption, TimeAssumption, DocumentsAssumption DEF KeptInv, BaseInv
<1> DEFINE s == op.doc
           p == RestorePerms(s)
           u == RestoreUntil(s)
           near == Near(u)
           d == IF near
                THEN [s EXCEPT !.pending_permissions = op.seen.perms,
                               !.applied_permissions = p,
                               !.expires_at = u]
                ELSE s
<1>1. /\ op' = [op EXCEPT !.planned = now, !.perms = p,
                          !.until = IF near THEN None ELSE u,
                          !.release = near, !.before = s, !.doc = d]
      /\ pc = "plan" /\ pc' = IF near THEN "save" ELSE "call"
      /\ UNCHANGED <<now, member, snapshot, author, original>>
  BY DEF Plan
<1>2. s \in Snapshots /\ s # None /\ WellFormed(s) /\ s = snapshot /\ Restoring
  BY <1>1, HeldTyped DEF DocsHeld, ActsAtSteps
<1>3. author # "admin" /\ Describes(s, original)
  BY <1>1, <1>2 DEF HersOnly, Resumes, Described
<1>4. /\ d.restore_group_defaults = s.restore_group_defaults
      /\ d.permissions = s.permissions
      /\ d.previous_until = s.previous_until
  BY <1>2 DEF Snapshots
<1>5. /\ op.planned \in Nat /\ op.planned <= now /\ now \in Nat
      /\ original \in Members /\ defaults \in Perms /\ u \in {None} \cup Times
  BY <1>1, <1>2, RestoreTyped DEF PlanSound, TypeOK, Ops
<1>6. Lifted(s) => Entitled = Rights
  BY <1>2, <1>3, <1>5 DEF Lifted, Entitled, Describes, Passed, Snapshots, Members, Times
<1>7. ASSUME ~ Lifted(s)
      PROVE  /\ p \subseteq s.permissions /\ u = s.previous_until
             /\ original.status = "restricted" =>
                   p \subseteq original.perms /\ u = original.until
  BY <1>3, <1>7 DEF RestorePerms, RestoreUntil, Describes
<1>8. p \in Perms
  BY <1>2, RestoreTyped
<1>9. p \subseteq Entitled
  BY <1>6, <1>7, <1>8 DEF Entitled, Perms
<1>10. Entitled # Rights => u \in {None, original.until}
  BY <1>6, <1>7 DEF Entitled
<1>11. ~ near /\ u # None => now + Margin <= u /\ now < u
  BY <1>5 DEF Near, Times, Undisturbed
<1>12. ASSUME ~ near, p # Rights
       PROVE  /\ original.status = "restricted"
              /\ p \subseteq original.perms /\ u = original.until
  <2>1. ~ Lifted(s)
    BY <1>12 DEF RestorePerms
  <2>2. ~ s.restore_group_defaults /\ ~ Passed(s.previous_until)
    BY <1>5, <1>7, <1>11, <1>12, <2>1 DEF Lifted, Passed, Times
  <2>3. QED
    BY <1>3, <1>7, <2>1, <2>2 DEF Describes
<1>13. /\ op'.act = op.act /\ op'.planned = now /\ op'.perms = p
       /\ op'.until = (IF near THEN None ELSE u)
       /\ op'.release = near /\ op'.before = s /\ op'.doc = d
  BY <1>1 DEF TypeOK, Ops
<1> HIDE DEF p, u, near, d
<1>14. SeenCurrent'
  BY <1>1 DEF SeenCurrent
<1>15. HersOnly'
  BY <1>1, <1>3 DEF HersOnly, Resumes
<1>16. Described'
  BY <1>1, <1>2, <1>3, <1>4, <1>13 DEF Described, Describes, Source, Passed
<1>17. RestoredSound'
  BY <1>1 DEF RestoredSound
<1>18. PlanSound'
  <2>1. Entitled' = Entitled
    BY <1>1 DEF Entitled, Passed
  <2>2. now <= now + CallLatency
    BY <1>5
  <2>3. QED
    BY <1>1, <1>9, <1>10, <1>11, <1>12, <1>13, <2>1, <2>2 DEF PlanSound
<1>19. QED
  BY <1>14, <1>15, <1>16, <1>17, <1>18

\* Telegram acts: a mute is of the member the document describes; a restore
\* gives back what was planned, for as long as was planned.
LEMMA ActKeepsBase ==
    ASSUME Undisturbed, KeptInv, BaseInv, pc = "call", Act,
           UNCHANGED <<now, defaults, snapshot, due>>
    PROVE  /\ author' = "admin" => member'.status # "restricted"
           /\ author' # "admin" /\ snapshot # None => Describes(snapshot, original')
           /\ RestoredSound'
<1> USE ValuesAssumption, TimeAssumption, DocumentsAssumption DEF KeptInv, BaseInv
<1>1. /\ op.act \in Commands \cup {"sweep"} /\ op.act # "unban"
      /\ op.perms \in Perms /\ op.until \in {None} \cup Times
      /\ now \in Nat /\ op.planned \in Nat
  BY DEF TypeOK, Ops, ActsAtSteps, Undisturbed, NoUnban
<1>2. author' = "admin" => member'.status # "restricted"
  BY <1>1 DEF Act, Author, Outcome, Out
<1>3. CASE Muting
  <2>1. Describes(op.doc, Source) /\ snapshot = op.doc
    BY <1>3 DEF Described, DocsHeld, Writes
  <2>2. original' = Source
    BY <1>3 DEF Act, Source
  <2>3. author' \in {"admin", "sophie"}
    BY <1>3 DEF Act, Author
  <2>4. QED
    BY <1>2, <2>1, <2>2, <2>3 DEF RestoredSound
<1>4. CASE Restoring
  <2>1. author # "admin" /\ original' = original
    BY <1>4 DEF HersOnly, Resumes, Act, Muting, Restoring
  <2>2. ASSUME author' = "restored"
        PROVE  /\ member'.status = "restricted" /\ original.status = "restricted"
               /\ member'.perms \subseteq original.perms
               /\ member'.until = original.until
    <3>1. ~ op.release /\ Outcome.status = "restricted"
      BY <1>1, <1>4, <2>2 DEF Act, Author
    <3>2. Outcome = Restriction(op.perms, op.until) /\ op.perms # Rights
      BY <1>4, <3>1 DEF Outcome, Muting, Restoring, Restriction, Unrestricted
    <3>3. /\ original.status = "restricted"
          /\ op.perms \subseteq original.perms
          /\ op.until = original.until
      BY <1>4, <3>1, <3>2 DEF PlanSound
    <3>4. op.until # None => now + TelegramForever <= op.until
      BY <1>1, <1>4 DEF PlanSound, Undisturbed, Times
    <3>5. Outcome = Restricted(op.perms, op.until)
      BY <1>1, <3>2, <3>4 DEF Restriction, Times
    <3>6. QED
      BY <3>3, <3>5 DEF Act, Restricted
  <2>3. QED
    BY <1>2, <2>1, <2>2 DEF RestoredSound, Described
<1>5. CASE ~ Muting /\ ~ Restoring
  <2>1. author' = "admin"
    BY <1>1, <1>5 DEF Act, Author, Outcome, Out
  <2>2. QED
    BY <1>2, <2>1 DEF RestoredSound
<1>6. QED
  BY <1>3, <1>4, <1>5

\* An answer adds nothing to the act.
LEMMA CallAppliedKeepsBase ==
    ASSUME Undisturbed, KeptInv, BaseInv, CallApplied
    PROVE  BaseInv'
<1> USE DEF KeptInv, BaseInv
<1>1. /\ pc = "call" /\ Act
      /\ UNCHANGED <<now, defaults, snapshot, due>>
      /\ pc' \in {"settle", "idle", "purge"}
      /\ op' = IF pc' = "idle" THEN NoOp ELSE op
  BY DEF CallApplied, AfterSuccess
<1>2. /\ author' = "admin" => member'.status # "restricted"
      /\ author' # "admin" /\ snapshot # None => Describes(snapshot, original')
      /\ RestoredSound'
  BY <1>1, ActKeepsBase
<1>3. SeenCurrent' /\ PlanSound'
  BY <1>1 DEF SeenCurrent, PlanSound
<1>4. HersOnly'
  BY <1>1, <1>2 DEF HersOnly, Resumes, Muting, Restoring, NoOp, Owns
<1>5. Described'
  BY <1>1, <1>2 DEF Described, Describes, Passed
<1>6. QED
  BY <1>2, <1>3, <1>4, <1>5

\* Nor does the lack of one.
LEMMA CallUnansweredKeepsBase ==
    ASSUME Undisturbed, KeptInv, BaseInv, CallUnanswered
    PROVE  BaseInv'
<1> USE DEF KeptInv, BaseInv
<1>1. /\ pc = "call" /\ Act
      /\ UNCHANGED <<now, defaults, snapshot, due>>
      /\ pc' = "idle" /\ op' = NoOp
  BY DEF CallUnanswered, End
<1>2. /\ author' = "admin" => member'.status # "restricted"
      /\ author' # "admin" /\ snapshot # None => Describes(snapshot, original')
      /\ RestoredSound'
  BY <1>1, ActKeepsBase
<1>3. SeenCurrent' /\ PlanSound'
  BY <1>1 DEF SeenCurrent, PlanSound
<1>4. HersOnly'
  BY <1>1, <1>2 DEF HersOnly, Resumes, Muting, Restoring, NoOp, Owns
<1>5. Described'
  BY <1>1, <1>2 DEF Described, Describes, Passed
<1>6. QED
  BY <1>2, <1>3, <1>4, <1>5

\* Settling a document changes nothing it describes.
LEMMA SettleKeepsBase ==
    ASSUME Undisturbed, KeptInv, BaseInv, Settle
    PROVE  BaseInv'
<1> USE ValuesAssumption, TimeAssumption, DocumentsAssumption DEF KeptInv, BaseInv
<1> DEFINE s == [op.doc EXCEPT !.pending_permissions = None]
<1>1. /\ snapshot' = IF Writes THEN s ELSE None
      /\ pc = "settle" /\ pc' = "idle" /\ op' = NoOp
      /\ UNCHANGED <<now, member, author, original>>
  BY DEF Settle, End, ActsAtSteps, Writes, Muting, Restoring
<1>2. Writes =>
        /\ op.doc = snapshot /\ snapshot # None
        /\ s.restore_group_defaults = snapshot.restore_group_defaults
        /\ s.permissions = snapshot.permissions
        /\ s.previous_until = snapshot.previous_until
        /\ s.applied_permissions = snapshot.applied_permissions
        /\ s.pending_permissions = None
  BY <1>1, HeldTyped DEF DocsHeld, Snapshots
<1> HIDE DEF s
<1>3. SeenCurrent' /\ RestoredSound' /\ PlanSound'
  BY <1>1 DEF SeenCurrent, RestoredSound, PlanSound
<1>4. HersOnly'
  BY <1>1, <1>2, MemberTyped DEF HersOnly, Resumes, NoOp, Muting, Restoring, Owns
<1>5. Described'
  BY <1>1, <1>2 DEF Described, Describes, Passed
<1>6. QED
  BY <1>3, <1>4, <1>5

\* What an administrator does has a deadline or is no restriction.
LEMMA AdminChangeKeepsBase ==
    ASSUME Undisturbed, KeptInv, BaseInv, NEW m \in AdminChoices, AdminChange(m)
    PROVE  BaseInv'
<1> USE ValuesAssumption, TimeAssumption, DocumentsAssumption DEF KeptInv, BaseInv
<1>1. /\ pc = "idle" /\ pc' = "idle" /\ member' = m /\ author' = "admin"
      /\ UNCHANGED <<now, snapshot, op, original>>
  BY DEF AdminChange, Undisturbed
<1>2. m.status = "restricted" => m.until # None
  <2>1. ASSUME NEW p \in AdminPerms, NEW d \in AdminDurations,
               m = Restricted(p, IF d = None THEN None ELSE now + d)
        PROVE  m.until # None
    <3>1. d # None /\ now + d \in 0 .. 2 * MaxTime
      BY DEF TypeOK, Undisturbed
    <3>2. QED
      BY <2>1, <3>1 DEF Restricted
  <2>2. QED
    BY <2>1 DEF AdminChoices, Unrestricted, Out
<1>3. HersOnly'
  BY <1>1, <1>2 DEF HersOnly, Resumes, ActsAtSteps, Muting, Restoring, Owns
<1>4. SeenCurrent' /\ Described' /\ RestoredSound' /\ PlanSound'
  BY <1>1 DEF SeenCurrent, Described, RestoredSound, PlanSound, Writes
<1>5. QED
  BY <1>3, <1>4

\* When a restriction runs out, so does what the documents say of it.
LEMMA TickKeepsBase ==
    ASSUME Undisturbed, KeptInv, BaseInv, Tick
    PROVE  BaseInv'
<1> USE ValuesAssumption, TimeAssumption, DocumentsAssumption DEF KeptInv, BaseInv
<1>1. /\ now' = now + 1 /\ now \in Nat
      /\ UNCHANGED <<snapshot, pc, op, original>>
      /\ pc \in {"save", "call"} /\ Restoring => now < op.planned + CallLatency
      /\ \/ /\ member.until # None /\ member.until <= now + 1
            /\ member' = Unrestricted /\ author' = "admin"
         \/ UNCHANGED <<member, author>>
  BY DEF Tick, TypeOK
<1>2. \A t \in {None} \cup Times : Passed(t) => Passed(t)'
  BY <1>1 DEF Passed, Times
<1>3. ASSUME NEW s \in Snapshots, NEW m \in Members, Describes(s, m)
      PROVE  Describes(s, m)'
  BY <1>2, <1>3 DEF Describes, Snapshots
<1>4. ASSUME NEW s \in Snapshots, Describes(s, Source)
      PROVE  Describes(s, Source)'
  <2>1. CASE UNCHANGED <<member, author>>
    <3>1. Source' = Source /\ Source \in Members
      BY <1>1, <2>1 DEF Source, TypeOK
    <3>2. QED
      BY <1>3, <1>4, <3>1 DEF Describes
  <2>2. CASE /\ member.until # None /\ member.until <= now + 1
             /\ member' = Unrestricted /\ author' = "admin"
    <3>1. Source' = Unrestricted /\ author # "sophie"
      BY <2>2 DEF Source, Recognised, Owns, Undisturbed
    <3>2. Source.status = "restricted" => Source.until = member.until
      BY <3>1 DEF Source, RestoredSound, TypeOK
    <3>3. s.restore_group_defaults \/ Passed(s.previous_until)'
      <4>1. CASE Source.status = "restricted"
        BY <1>1, <1>4, <2>2, <3>2, <4>1 DEF Describes, Passed
      <4>2. CASE Source.status # "restricted"
        BY <1>2, <1>4, <4>2 DEF Describes, Snapshots
      <4>3. QED
        BY <4>1, <4>2
    <3>4. QED
      BY <3>1, <3>3 DEF Describes, Unrestricted
  <2>3. QED
    BY <1>1, <2>1, <2>2
<1>5. SeenCurrent'
  <2>1. op.seen.until \in {None} \cup Times
    BY DEF TypeOK, Ops, Members
  <2>2. QED
    BY <1>1, <1>2, <2>1 DEF SeenCurrent, Passed, Unrestricted
<1>6. HersOnly'
  <2>1. CASE UNCHANGED <<member, author>>
    BY <1>1, <2>1 DEF HersOnly, Resumes, Owns, Muting, Restoring
  <2>2. CASE /\ member.until # None /\ member.until <= now + 1
             /\ member' = Unrestricted /\ author' = "admin"
    <3>1. author # "sophie"
      BY <2>2 DEF Recognised, Owns, Undisturbed
    <3>2. ~ Resumes /\ ~ Resumes'
      BY <1>1, <2>2 DEF HersOnly, Resumes, Muting, Restoring
    <3>3. QED
      BY <1>1, <2>2, <3>2 DEF HersOnly, Owns, Unrestricted
  <2>3. QED
    BY <1>1, <2>1, <2>2
<1>7. Described'
  <2>1. ASSUME author' # "admin", snapshot # None
        PROVE  Describes(snapshot, original)'
    BY <1>1, <1>3, <2>1, HeldTyped DEF Described, TypeOK
  <2>2. ASSUME pc = "defaults" \/ (Writes /\ pc \in {"save", "call", "undo"})
        PROVE  Describes(op.before, Source)'
    BY <1>1, <1>4, <2>2, HeldTyped DEF Described
  <2>3. ASSUME Writes, pc \in {"save", "call"}
        PROVE  Describes(op.doc, Source)'
    BY <1>1, <1>4, <2>3, HeldTyped DEF Described
  <2>4. QED
    BY <1>1, <2>1, <2>2, <2>3 DEF Described, Describes, Source, Writes, Muting, Restoring
<1>8. RestoredSound'
  BY <1>1 DEF RestoredSound
<1>9. PlanSound'
  <2>1. Entitled \subseteq Entitled' /\ (Entitled' # Rights => Entitled' = Entitled)
    BY <1>1, <1>2 DEF Entitled, TypeOK, Members, Perms
  <2>2. pc \in {"save", "call"} /\ Restoring => now + 1 <= op.planned + CallLatency
    BY <1>1 DEF TypeOK, Ops
  <2>3. pc \in {"check", "plan"} => op.planned <= now + 1
    BY <1>1 DEF PlanSound, TypeOK, Ops
  <2>4. QED
    BY <1>1, <2>1, <2>2, <2>3 DEF PlanSound, Muting, Restoring
<1>10. QED
  BY <1>5, <1>6, <1>7, <1>8, <1>9
\* A new operation holds no document and no plan.
LEMMA CommandKeepsBase ==
    ASSUME Undisturbed, KeptInv, BaseInv, NEW a \in Commands, NEW d \in MuteDurations \cup {None}, Command(a, d)
    PROVE  BaseInv'
<1> USE ValuesAssumption, TimeAssumption DEF KeptInv, BaseInv, Command, Begin, FirstStep
<1>1. SeenCurrent'
  BY DEF SeenCurrent, TypeOK, Ops, Passed
<1>2. HersOnly'
  BY DEF HersOnly, Resumes, DocsHeld, ActsAtSteps, Owns, Muting, Restoring, Writes, NoOp, TypeOK, Ops
<1>3. Described'
  BY DEF Described, Describes, Source, HersOnly, Resumes, DocsHeld, ActsAtSteps, Passed, Muting, Restoring, Writes, NoOp, TypeOK, Ops
<1>4. RestoredSound'
  BY DEF RestoredSound
<1>5. PlanSound'
  BY DEF PlanSound, ActsAtSteps, Entitled, Passed, Muting, Restoring, Writes, NoOp, TypeOK, Ops
<1>6. QED
  BY <1>1, <1>2, <1>3, <1>4, <1>5

\* The query of the sweep is no step of an operation.
LEMMA SweepFindKeepsBase ==
    ASSUME Undisturbed, KeptInv, BaseInv, SweepFind
    PROVE  BaseInv'
<1> USE ValuesAssumption, TimeAssumption DEF KeptInv, BaseInv, SweepFind
<1>1. SeenCurrent'
  BY DEF SeenCurrent, TypeOK, Ops, Passed
<1>2. HersOnly'
  BY DEF HersOnly, Resumes, DocsHeld, ActsAtSteps, Owns, Muting, Restoring, Writes, NoOp, TypeOK, Ops
<1>3. Described'
  BY DEF Described, Describes, Source, HersOnly, Resumes, DocsHeld, ActsAtSteps, Passed, Muting, Restoring, Writes, NoOp, TypeOK, Ops
<1>4. RestoredSound'
  BY DEF RestoredSound
<1>5. PlanSound'
  BY DEF PlanSound, ActsAtSteps, Entitled, Passed, Muting, Restoring, Writes, NoOp, TypeOK, Ops
<1>6. QED
  BY <1>1, <1>2, <1>3, <1>4, <1>5

\* Nor does the sweep hold one when it starts.
LEMMA SweepRestoreKeepsBase ==
    ASSUME Undisturbed, KeptInv, BaseInv, SweepRestore
    PROVE  BaseInv'
<1> USE ValuesAssumption, TimeAssumption DEF KeptInv, BaseInv, SweepRestore, Begin, FirstStep
<1>1. SeenCurrent'
  BY DEF SeenCurrent, TypeOK, Ops, Passed
<1>2. HersOnly'
  BY DEF HersOnly, Resumes, DocsHeld, ActsAtSteps, Owns, Muting, Restoring, Writes, NoOp, TypeOK, Ops
<1>3. Described'
  BY DEF Described, Describes, Source, HersOnly, Resumes, DocsHeld, ActsAtSteps, Passed, Muting, Restoring, Writes, NoOp, TypeOK, Ops
<1>4. RestoredSound'
  BY DEF RestoredSound
<1>5. PlanSound'
  BY DEF PlanSound, ActsAtSteps, Entitled, Passed, Muting, Restoring, Writes, NoOp, TypeOK, Ops
<1>6. QED
  BY <1>1, <1>2, <1>3, <1>4, <1>5

\* What get_chat_member returns is so.
LEMMA LookKeepsBase ==
    ASSUME Undisturbed, KeptInv, BaseInv, Look
    PROVE  BaseInv'
<1> USE ValuesAssumption, TimeAssumption DEF KeptInv, BaseInv, Look
<1>1. SeenCurrent'
  BY DEF SeenCurrent, TypeOK, Ops, Passed
<1>2. HersOnly'
  BY DEF HersOnly, Resumes, DocsHeld, ActsAtSteps, Owns, Muting, Restoring, Writes, NoOp, TypeOK, Ops
<1>3. Described'
  BY DEF Described, Describes, Source, HersOnly, Resumes, DocsHeld, ActsAtSteps, Passed, Muting, Restoring, Writes, NoOp, TypeOK, Ops
<1>4. RestoredSound'
  BY DEF RestoredSound
<1>5. PlanSound'
  BY DEF PlanSound, ActsAtSteps, Entitled, Passed, Muting, Restoring, Writes, NoOp, TypeOK, Ops
<1>6. QED
  BY <1>1, <1>2, <1>3, <1>4, <1>5

\* Giving up leaves no document that describes less.
LEMMA NoDefaultsKeepsBase ==
    ASSUME Undisturbed, KeptInv, BaseInv, NoDefaults
    PROVE  BaseInv'
<1> USE ValuesAssumption, TimeAssumption DEF KeptInv, BaseInv, NoDefaults, End
<1>1. SeenCurrent'
  BY DEF SeenCurrent, TypeOK, Ops, Passed
<1>2. HersOnly'
  BY DEF HersOnly, Resumes, DocsHeld, ActsAtSteps, Owns, Muting, Restoring, Writes, NoOp, TypeOK, Ops
<1>3. Described'
  BY DEF Described, Describes, Source, HersOnly, Resumes, DocsHeld, ActsAtSteps, Passed, Muting, Restoring, Writes, NoOp, TypeOK, Ops
<1>4. RestoredSound'
  BY DEF RestoredSound
<1>5. PlanSound'
  BY DEF PlanSound, ActsAtSteps, Entitled, Passed, Muting, Restoring, Writes, NoOp, TypeOK, Ops
<1>6. QED
  BY <1>1, <1>2, <1>3, <1>4, <1>5

\* What is saved describes the member before Sophie.
LEMMA SaveKeepsBase ==
    ASSUME Undisturbed, KeptInv, BaseInv, Save
    PROVE  BaseInv'
<1> USE ValuesAssumption, TimeAssumption DEF KeptInv, BaseInv, Save
<1>1. SeenCurrent'
  BY DEF SeenCurrent, TypeOK, Ops, Passed
<1>2. HersOnly'
  BY DEF HersOnly, Resumes, DocsHeld, ActsAtSteps, Owns, Muting, Restoring, Writes, NoOp, TypeOK, Ops
<1>3. Described'
  BY DEF Described, Describes, Source, HersOnly, Resumes, DocsHeld, ActsAtSteps, Passed, Muting, Restoring, Writes, NoOp, TypeOK, Ops
<1>4. RestoredSound'
  BY DEF RestoredSound
<1>5. PlanSound'
  BY DEF PlanSound, ActsAtSteps, Entitled, Passed, Muting, Restoring, Writes, NoOp, TypeOK, Ops
<1>6. QED
  BY <1>1, <1>2, <1>3, <1>4, <1>5

\* A restore reads the clock before it asks for the member.
LEMMA FindKeepsBase ==
    ASSUME Undisturbed, KeptInv, BaseInv, Find
    PROVE  BaseInv'
<1> USE ValuesAssumption, TimeAssumption DEF KeptInv, BaseInv, Find, End
<1>1. SeenCurrent'
  BY DEF SeenCurrent, TypeOK, Ops, Passed
<1>2. HersOnly'
  BY DEF HersOnly, Resumes, DocsHeld, ActsAtSteps, Owns, Muting, Restoring, Writes, NoOp, TypeOK, Ops
<1>3. Described'
  BY DEF Described, Describes, Source, HersOnly, Resumes, DocsHeld, ActsAtSteps, Passed, Muting, Restoring, Writes, NoOp, TypeOK, Ops
<1>4. RestoredSound'
  BY DEF RestoredSound
<1>5. PlanSound'
  <2>1. now' = now /\ now \in Nat
    BY DEF TypeOK
  <2>2. pc' = "idle" \/ (pc' = "check" /\ op'.planned = now)
    BY DEF TypeOK, Ops
  <2>3. QED
    BY <2>1, <2>2 DEF PlanSound
<1>6. QED
  BY <1>1, <1>2, <1>3, <1>4, <1>5

\* A restore goes on only for a restriction the document recognises.
LEMMA CheckKeepsBase ==
    ASSUME Undisturbed, KeptInv, BaseInv, Check
    PROVE  BaseInv'
<1> USE ValuesAssumption, TimeAssumption DEF KeptInv, BaseInv, Check
<1>1. SeenCurrent'
  BY DEF SeenCurrent, TypeOK, Ops, Passed
<1>2. HersOnly'
  BY DEF HersOnly, Resumes, DocsHeld, ActsAtSteps, Owns, Muting, Restoring, Writes, NoOp, TypeOK, Ops
<1>3. Described'
  BY DEF Described, Describes, Source, HersOnly, Resumes, DocsHeld, ActsAtSteps, Passed, Muting, Restoring, Writes, NoOp, TypeOK, Ops
<1>4. RestoredSound'
  BY DEF RestoredSound
<1>5. PlanSound'
  BY DEF PlanSound, ActsAtSteps, Entitled, Passed, Muting, Restoring, Writes, NoOp, TypeOK, Ops
<1>6. QED
  BY <1>1, <1>2, <1>3, <1>4, <1>5

\* A discarded document describes nothing.
LEMMA DiscardKeepsBase ==
    ASSUME Undisturbed, KeptInv, BaseInv, Discard
    PROVE  BaseInv'
<1> USE ValuesAssumption, TimeAssumption DEF KeptInv, BaseInv, Discard, End
<1>1. SeenCurrent'
  BY DEF SeenCurrent, TypeOK, Ops, Passed
<1>2. HersOnly'
  BY DEF HersOnly, Resumes, DocsHeld, ActsAtSteps, Owns, Muting, Restoring, Writes, NoOp, TypeOK, Ops
<1>3. Described'
  BY DEF Described, Describes, Source, HersOnly, Resumes, DocsHeld, ActsAtSteps, Passed, Muting, Restoring, Writes, NoOp, TypeOK, Ops
<1>4. RestoredSound'
  BY DEF RestoredSound
<1>5. PlanSound'
  BY DEF PlanSound, ActsAtSteps, Entitled, Passed, Muting, Restoring, Writes, NoOp, TypeOK, Ops
<1>6. QED
  BY <1>1, <1>2, <1>3, <1>4, <1>5

\* A refusal leaves the member as he was.
LEMMA CallRefusedKeepsBase ==
    ASSUME Undisturbed, KeptInv, BaseInv, CallRefused
    PROVE  BaseInv'
<1> USE ValuesAssumption, TimeAssumption DEF KeptInv, BaseInv, CallRefused, End
<1>1. SeenCurrent'
  BY DEF SeenCurrent, TypeOK, Ops, Passed
<1>2. HersOnly'
  BY DEF HersOnly, Resumes, DocsHeld, ActsAtSteps, Owns, Muting, Restoring, Writes, NoOp, TypeOK, Ops
<1>3. Described'
  BY DEF Described, Describes, Source, HersOnly, Resumes, DocsHeld, ActsAtSteps, Passed, Muting, Restoring, Writes, NoOp, TypeOK, Ops
<1>4. RestoredSound'
  BY DEF RestoredSound
<1>5. PlanSound'
  BY DEF PlanSound, ActsAtSteps, Entitled, Passed, Muting, Restoring, Writes, NoOp, TypeOK, Ops
<1>6. QED
  BY <1>1, <1>2, <1>3, <1>4, <1>5

\* The document that is put back describes the member before Sophie.
LEMMA UndoKeepsBase ==
    ASSUME Undisturbed, KeptInv, BaseInv, Undo
    PROVE  BaseInv'
<1> USE ValuesAssumption, TimeAssumption DEF KeptInv, BaseInv, Undo, End
<1>1. SeenCurrent'
  BY DEF SeenCurrent, TypeOK, Ops, Passed
<1>2. HersOnly'
  BY DEF HersOnly, Resumes, DocsHeld, ActsAtSteps, Owns, Muting, Restoring, Writes, NoOp, TypeOK, Ops
<1>3. Described'
  BY DEF Described, Describes, Source, HersOnly, Resumes, DocsHeld, ActsAtSteps, Passed, Muting, Restoring, Writes, NoOp, TypeOK, Ops
<1>4. RestoredSound'
  BY DEF RestoredSound
<1>5. PlanSound'
  BY DEF PlanSound, ActsAtSteps, Entitled, Passed, Muting, Restoring, Writes, NoOp, TypeOK, Ops
<1>6. QED
  BY <1>1, <1>2, <1>3, <1>4, <1>5

\* Without a snapshot nothing is recognised.
LEMMA PurgeKeepsBase ==
    ASSUME Undisturbed, KeptInv, BaseInv, Purge
    PROVE  BaseInv'
<1> USE ValuesAssumption, TimeAssumption DEF KeptInv, BaseInv, Purge, End
<1>1. SeenCurrent'
  BY DEF SeenCurrent, TypeOK, Ops, Passed
<1>2. HersOnly'
  BY DEF HersOnly, Resumes, DocsHeld, ActsAtSteps, Owns, Muting, Restoring, Writes, NoOp, TypeOK, Ops
<1>3. Described'
  BY DEF Described, Describes, Source, HersOnly, Resumes, DocsHeld, ActsAtSteps, Passed, Muting, Restoring, Writes, NoOp, TypeOK, Ops
<1>4. RestoredSound'
  BY DEF RestoredSound
<1>5. PlanSound'
  BY DEF PlanSound, ActsAtSteps, Entitled, Passed, Muting, Restoring, Writes, NoOp, TypeOK, Ops
<1>6. QED
  BY <1>1, <1>2, <1>3, <1>4, <1>5

\* An operation that breaks off leaves what it had saved.
LEMMA AbortKeepsBase ==
    ASSUME Undisturbed, KeptInv, BaseInv, Abort
    PROVE  BaseInv'
<1> USE ValuesAssumption, TimeAssumption DEF KeptInv, BaseInv, Abort, End
<1>1. SeenCurrent'
  BY DEF SeenCurrent, TypeOK, Ops, Passed
<1>2. HersOnly'
  BY DEF HersOnly, Resumes, DocsHeld, ActsAtSteps, Owns, Muting, Restoring, Writes, NoOp, TypeOK, Ops
<1>3. Described'
  BY DEF Described, Describes, Source, HersOnly, Resumes, DocsHeld, ActsAtSteps, Passed, Muting, Restoring, Writes, NoOp, TypeOK, Ops
<1>4. RestoredSound'
  BY DEF RestoredSound
<1>5. PlanSound'
  BY DEF PlanSound, ActsAtSteps, Entitled, Passed, Muting, Restoring, Writes, NoOp, TypeOK, Ops
<1>6. QED
  BY <1>1, <1>2, <1>3, <1>4, <1>5

\* A plan keeps the defaults it was made with.
LEMMA DefaultsChangeKeepsBase ==
    ASSUME Undisturbed, KeptInv, BaseInv, NEW p \in DefaultPerms, DefaultsChange(p)
    PROVE  BaseInv'
<1> USE ValuesAssumption, TimeAssumption DEF KeptInv, BaseInv, DefaultsChange
<1>1. SeenCurrent'
  BY DEF SeenCurrent, TypeOK, Ops, Passed
<1>2. HersOnly'
  BY DEF HersOnly, Resumes, DocsHeld, ActsAtSteps, Owns, Muting, Restoring, Writes, NoOp, TypeOK, Ops
<1>3. Described'
  BY DEF Described, Describes, Source, HersOnly, Resumes, DocsHeld, ActsAtSteps, Passed, Muting, Restoring, Writes, NoOp, TypeOK, Ops
<1>4. RestoredSound'
  BY DEF RestoredSound
<1>5. PlanSound'
  BY DEF PlanSound, ActsAtSteps, Entitled, Passed, Muting, Restoring, Writes, NoOp, TypeOK, Ops
<1>6. QED
  BY <1>1, <1>2, <1>3, <1>4, <1>5

\* A step of another component changes nothing.
LEMMA StutterKeepsBase ==
    ASSUME Undisturbed, KeptInv, BaseInv, UNCHANGED vars
    PROVE  BaseInv'
<1> USE ValuesAssumption, TimeAssumption DEF KeptInv, BaseInv, vars
<1>1. SeenCurrent'
  BY DEF SeenCurrent, TypeOK, Ops, Passed
<1>2. HersOnly'
  BY DEF HersOnly, Resumes, DocsHeld, ActsAtSteps, Owns, Muting, Restoring, Writes, NoOp, TypeOK, Ops
<1>3. Described'
  BY DEF Described, Describes, Source, HersOnly, Resumes, DocsHeld, ActsAtSteps, Passed, Muting, Restoring, Writes, NoOp, TypeOK, Ops
<1>4. RestoredSound'
  BY DEF RestoredSound
<1>5. PlanSound'
  BY DEF PlanSound, ActsAtSteps, Entitled, Passed, Muting, Restoring, Writes, NoOp, TypeOK, Ops
<1>6. QED
  BY <1>1, <1>2, <1>3, <1>4, <1>5

\* While Telegram is asked to restore, the member changes by its act only:
\* nothing Sophie answers for runs out, and no administrator is about.
LEMMA OnlyActs ==
    ASSUME Undisturbed, KeptInv, [Next]_vars, pc = "call", Restoring,
           member' # member, member.until = None
    PROVE  Act
  BY DEF Undisturbed, Next, Advance, vars, Command, Begin, SweepFind, SweepRestore, Look, Capture,
         Insert, Defaults, Save, Find, Check, Discard, Plan, CallApplied, Settle, Undo, Purge,
         NoDefaults, CallRefused, CallUnanswered, Abort, AdminChange, DefaultsChange, Tick

---------------------------------------------------------------------------

\* The member Sophie finds is not hers, and no operation is in progress.
LEMMA InitKept == Init => KeptInv
<1> SUFFICES ASSUME Init
             PROVE  KeptInv
  OBVIOUS
<1> USE ValuesAssumption, MembersAssumption, TimeAssumption, DocumentsAssumption DEF Init
<1>1. member \in Members
  BY DEF Members, Times, Perms
<1>2. snapshot # None => snapshot \in Snapshots /\ WellFormed(snapshot)
  <2>1. /\ Fresh(Unrestricted) \in Snapshots
        /\ Fresh(Unrestricted).restore_group_defaults
    BY NoOpTyped, FreshTyped DEF Fresh, Unrestricted
  <2>2. QED
    BY <2>1 DEF Legacy, Snapshots, WellFormed
<1>3. TypeOK
  <2>1. now \in 0 .. MaxTime /\ defaults \in Perms
    OBVIOUS
  <2>2. budget \in [commands : 0 .. MaxCommands, changes : 0 .. MaxChanges, faults : 0 .. MaxFaults]
    OBVIOUS
  <2>3. QED
    BY <1>1, <1>2, <2>1, <2>2, NoOpTyped DEF TypeOK, Steps
<1>4. ActsAtSteps /\ DocsHeld /\ Recognised
  BY <1>2 DEF ActsAtSteps, DocsHeld, Recognised, NoOp, Writes, Muting, Restoring
<1>5. QED
  BY <1>3, <1>4 DEF KeptInv

\* One step per action, each by its lemma.
LEMMA NextKeeps == KeptInv /\ [Next]_vars => KeptInv'
<1> SUFFICES ASSUME KeptInv, [Next]_vars
             PROVE  KeptInv'
  OBVIOUS
<1>1. ASSUME NEW a \in Commands, NEW d \in MuteDurations \cup {None}, Command(a, d)
      PROVE  KeptInv'
  BY <1>1, CommandKeeps
<1>2. CASE SweepFind \/ SweepRestore
  BY <1>2, SweepFindKeeps, SweepRestoreKeeps
<1>3. CASE Look \/ Capture \/ Insert \/ Defaults \/ Save
  BY <1>3, LookKeeps, CaptureKeeps, InsertKeeps, DefaultsKeeps, SaveKeeps
<1>4. CASE Find \/ Check \/ Discard \/ Plan
  BY <1>4, FindKeeps, CheckKeeps, DiscardKeeps, PlanKeeps
<1>5. CASE CallApplied \/ Settle \/ Undo \/ Purge
  BY <1>5, CallAppliedKeeps, SettleKeeps, UndoKeeps, PurgeKeeps
<1>6. CASE NoDefaults \/ CallRefused \/ CallUnanswered \/ Abort
  BY <1>6, NoDefaultsKeeps, CallRefusedKeeps, CallUnansweredKeeps, AbortKeeps
<1>7. ASSUME NEW m \in AdminChoices, AdminChange(m)
      PROVE  KeptInv'
  BY <1>7, AdminChangeKeeps
<1>8. ASSUME NEW p \in DefaultPerms, DefaultsChange(p)
      PROVE  KeptInv'
  BY <1>8, DefaultsChangeKeeps
<1>9. CASE Tick
  BY <1>9, TickKeeps
<1>10. CASE UNCHANGED vars
  BY <1>10, StutterKeeps
<1>11. QED
  BY <1>1, <1>2, <1>3, <1>4, <1>5, <1>6, <1>7, <1>8, <1>9, <1>10 DEF Next, Advance

\* Nothing is Sophie's to begin with, and a document from before
\* applied_permissions existed recognises nothing.
LEMMA InitBase == Undisturbed /\ Init => BaseInv
<1> SUFFICES ASSUME Undisturbed, Init
             PROVE  BaseInv
  OBVIOUS
<1> USE ValuesAssumption, MembersAssumption, TimeAssumption DEF Init, Undisturbed
<1>1. snapshot # None => snapshot.applied_permissions = None
  BY DEF Legacy, Fresh
<1>2. HersOnly
  BY <1>1 DEF HersOnly, Resumes, Owns, NoOp, Muting, Restoring
<1>3. SeenCurrent /\ Described /\ RestoredSound /\ PlanSound
  BY DEF SeenCurrent, Described, RestoredSound, PlanSound
<1>4. QED
  BY <1>2, <1>3 DEF BaseInv

\* One step per action, each by its lemma.
LEMMA NextBase == Undisturbed /\ KeptInv /\ KeptInv' /\ BaseInv /\ [Next]_vars => BaseInv'
<1> SUFFICES ASSUME Undisturbed, KeptInv, KeptInv', BaseInv, [Next]_vars
             PROVE  BaseInv'
  OBVIOUS
<1>1. ASSUME NEW a \in Commands, NEW d \in MuteDurations \cup {None}, Command(a, d)
      PROVE  BaseInv'
  BY <1>1, CommandKeepsBase
<1>2. CASE SweepFind \/ SweepRestore
  BY <1>2, SweepFindKeepsBase, SweepRestoreKeepsBase
<1>3. CASE Look \/ Capture \/ Insert \/ Defaults \/ Save
  BY <1>3, LookKeepsBase, CaptureKeepsBase, InsertKeepsBase, DefaultsKeepsBase, SaveKeepsBase
<1>4. CASE Find \/ Check \/ Discard \/ Plan
  BY <1>4, FindKeepsBase, CheckKeepsBase, DiscardKeepsBase, PlanKeepsBase
<1>5. CASE CallApplied \/ Settle \/ Undo \/ Purge
  BY <1>5, CallAppliedKeepsBase, SettleKeepsBase, UndoKeepsBase, PurgeKeepsBase
<1>6. CASE NoDefaults \/ CallRefused \/ CallUnanswered \/ Abort
  BY <1>6, NoDefaultsKeepsBase, CallRefusedKeepsBase, CallUnansweredKeepsBase, AbortKeepsBase
<1>7. ASSUME NEW m \in AdminChoices, AdminChange(m)
      PROVE  BaseInv'
  BY <1>7, AdminChangeKeepsBase
<1>8. ASSUME NEW p \in DefaultPerms, DefaultsChange(p)
      PROVE  BaseInv'
  BY <1>8, DefaultsChangeKeepsBase
<1>9. CASE Tick
  BY <1>9, TickKeepsBase
<1>10. CASE UNCHANGED vars
  BY <1>10, StutterKeepsBase
<1>11. QED
  BY <1>1, <1>2, <1>3, <1>4, <1>5, <1>6, <1>7, <1>8, <1>9, <1>10 DEF Next, Advance

---------------------------------------------------------------------------

\* The inductive invariant of the documents and of what they recognise.
THEOREM MuteInvariance == Spec => []KeptInv
<1>1. Init => KeptInv
  BY InitKept
<1>2. KeptInv /\ [Next]_vars => KeptInv'
  BY NextKeeps
<1>3. QED
  BY <1>1, <1>2, PTL DEF Spec

\* The variables keep their types, whatever the commands and however
\* administrators interfere.
THEOREM MuteTypeCorrect == Spec => []TypeOK
<1>1. KeptInv => TypeOK
  BY DEF KeptInv
<1>2. QED
  BY <1>1, MuteInvariance, PTL

\* Whatever crashes, times out, is refused or interfered with: a restriction
\* of Sophie's is one her snapshot recognises, so that /unmute and the sweep
\* can undo it, provided that nobody is unbanned who is only muted.
THEOREM MuteNeverOrphaned == ASSUME NoUnban PROVE Spec => []NoOrphanMute
<1>1. KeptInv => NoOrphanMute
  BY DEF KeptInv, Recognised, NoOrphanMute
<1>2. QED
  BY <1>1, MuteInvariance, PTL

\* The inductive invariant of what is described and planned.
THEOREM BaseInvariance == ASSUME Undisturbed PROVE Spec => []BaseInv
<1>1. Init => BaseInv
  BY InitBase
<1>2. KeptInv /\ KeptInv' /\ BaseInv /\ [Next]_vars => BaseInv'
  BY NextBase
<1>3. QED
  BY <1>1, <1>2, MuteInvariance, PTL DEF Spec

\* No sequence of mutes, welcome restrictions, refusals and half-done restores
\* makes Sophie take a restriction of her own for the member's original state.
THEOREM MuteBaselineKept == ASSUME Undisturbed PROVE Spec => []BaselineKept
<1>1. KeptInv /\ BaseInv => BaselineKept
  BY DEF BaseInv, Described, Describes, BaselineKept, Passed
<1>2. QED
  BY <1>1, MuteInvariance, BaseInvariance, PTL

\* A restriction with a deadline that Sophie gives back keeps its deadline:
\* it never becomes one for ever on its way through Telegram.
THEOREM MuteNeverForever == ASSUME Undisturbed PROVE Spec => []NeverForever
<1>1. BaseInv => NeverForever
  BY DEF BaseInv, RestoredSound, NeverForever
<1>2. QED
  BY <1>1, BaseInvariance, PTL

\* A restore gives back no right the member lacked before the mute, and ends
\* no older restriction before its deadline.
THEOREM MuteRestoresNoMore == ASSUME Undisturbed PROVE Spec => RestoresNoMoreThanOriginal
<1>1. ASSUME KeptInv, BaseInv, [Next]_vars, pc = "call", Restoring, member' # member
      PROVE  /\ member'.perms \subseteq Entitled
             /\ Entitled # Rights => member'.until \in {None, original.until}
  <2>1. op.perms \subseteq Entitled /\ (Entitled # Rights => op.until \in {None, original.until})
    BY <1>1 DEF BaseInv, PlanSound
  <2>2. member.until = None
    BY <1>1 DEF BaseInv, HersOnly, Resumes
  <2>3. Act
    BY <1>1, <2>2, OnlyActs
  <2>4. member' = Restriction(op.perms, op.until)
    BY <1>1, <2>3 DEF Act, Outcome, Muting, Restoring
  <2>5. QED
    BY <2>1, <2>4 DEF Restriction, Restricted, Unrestricted, Entitled
<1>2. QED
  BY <1>1, MuteInvariance, BaseInvariance, PTL DEF Spec, RestoresNoMoreThanOriginal

\* What an administrator decided after Sophie's mute survives her unmutes and
\* sweeps.
THEOREM MuteNewerChangeKept == ASSUME Undisturbed PROVE Spec => NewerAdminChangeKept
<1>1. BaseInv => ~ (author = "admin" /\ pc = "call" /\ Restoring)
  BY DEF BaseInv, HersOnly, Resumes
<1>2. QED
  BY <1>1, BaseInvariance, PTL DEF Spec, NewerAdminChangeKept

-----------------------------------------------------------------------------
(* FederationBans, by its own names of the slots *)

bans == v1
lastBan == v2
bannedIn == v4
errands == v5
command == v6
carrier == v7
excused == v9

USE DEF bans, lastBan, bannedIn, errands, command, carrier, excused

\* Every chat is in a federation, and None is no record.
BansUsual ==
    /\ FedOf \in [Chats -> Feds]
    /\ None \notin FedBans!Bans
    /\ MaxBans \in Nat

Errands ==
    [status : {"PENDING", "PROCESSING", "COMPLETED", "FAILED"}, kind : {"fban", "funban"}, fed : Feds,
     ban : Nat, chats : SUBSET Chats]

Orders ==
    [pc : FedBans!Steps, command : {"none", "fban", "funban", "message"},
     chat : {None} \cup Chats, doc : {None} \cup FedBans!Bans, listed : SUBSET Chats]

Carriers ==
    [pc : {"idle", "get", "ban", "lazy", "insert", "unban"}, task : Nat, todo : SUBSET Nat,
     doc : {None} \cup FedBans!Bans, left : SUBSET Chats, hit : SUBSET Chats, feds : SUBSET Feds,
     fed : {None} \cup Feds, docs : SUBSET FedBans!Bans]

\* The ids that are drawn are those of the records and of the copies.
Drawn(d) == d.id <= lastBan

CommandFits(w) ==
    /\ w.pc \notin {"new", "done"} => w.chat \in Chats
    /\ w.pc \in {"reason", "mark", "act", "save", "inherited", "delete", "unmark", "lift", "queue"} =>
           w.doc \in FedBans!Bans /\ Drawn(w.doc)
    /\ w.pc \in {"reason", "insert", "mark"} => w.command = "fban"
    /\ w.pc \in {"act", "save"} => w.command \in {"fban", "message"}
    /\ w.pc \in {"find", "inherited", "delete", "unmark", "lift"} => w.command = "funban"
    /\ w.pc = "queue" => w.command \in {"fban", "funban"}
    /\ w.pc \in {"lookup", "negative"} => w.command = "message"

CarrierFits ==
    /\ carrier.todo \subseteq DOMAIN errands
    /\ \A i \in carrier.todo : errands[i].status = "PENDING"
    /\ \A i \in DOMAIN errands \ carrier.todo :
           errands[i].status = "PENDING" => \A k \in carrier.todo : k < i
    /\ carrier.pc # "idle" => carrier.task \in DOMAIN errands /\ errands[carrier.task].status = "PROCESSING"
    /\ carrier.pc \in {"get", "ban", "lazy", "insert"} => errands[carrier.task].kind = "fban"
    /\ carrier.pc = "unban" => errands[carrier.task].kind = "funban"
    /\ carrier.pc = "ban" => carrier.doc \in FedBans!Bans /\ Drawn(carrier.doc)
    /\ carrier.pc \in {"get", "lazy", "insert"} => carrier.hit = {}
    /\ carrier.pc = "insert" => carrier.fed \in Feds /\ FedBans!Chain(carrier.fed) # {}
    /\ \A g \in carrier.feds : FedBans!Chain(g) # {}
    /\ \A d \in carrier.docs : Drawn(d)

BansTyped ==
    /\ bans \in SUBSET FedBans!Bans
    /\ lastBan \in 0 .. MaxBans
    /\ \A r \in bans : Drawn(r)
    /\ \A r, s \in bans : r.id = s.id => r = s
    /\ bannedIn \subseteq Chats
    /\ errands \in Seq(Errands)
    /\ \A i \in DOMAIN errands : errands[i].ban <= lastBan
    /\ command \in [Updates -> Orders]
    /\ \A j \in Updates : CommandFits(command[j])
    /\ carrier \in Carriers
    /\ CarrierFits

\* A ban in chat c is one of federation f, or of one it inherits from.
In(c, f) == FedOf[c] = f \/ f \in FedBans!Chain(FedOf[c])
Own(d) == \A c \in d.chats : In(c, d.fed)

\* The record a copy was taken of is there, and lists what the copy lists.
Known(d) == \E r \in bans : r.id = d.id /\ r.fed = d.fed
Listed(d) == \E r \in bans : r.id = d.id /\ r.fed = d.fed /\ d.chats \subseteq r.chats

Agrees(id, f) == \A r \in bans : r.id = id => r.fed = f

\* What a command holds is still so.
CommandHolds(w) ==
    /\ w.pc \in {"reason", "mark", "act"} => Listed(w.doc)
    /\ w.pc \in {"reason", "mark", "act", "save"} => Known(w.doc) /\ Own(w.doc) /\ In(w.chat, w.doc.fed)
    /\ w.pc \in {"reason", "mark", "act", "save", "queue"} /\ w.command = "fban" =>
           w.doc.fed = FedOf[w.chat] /\ Agrees(w.doc.id, w.doc.fed)
    /\ w.pc \in {"inherited", "delete", "unmark", "lift", "queue"} /\ w.command = "funban" =>
           w.doc.chats = w.listed /\ Own(w.doc) /\ w.doc.fed = FedOf[w.chat]

ErrandHolds(t) ==
    /\ t.kind = "fban" => Agrees(t.ban, t.fed) /\ \A c \in t.chats : FedOf[c] = t.fed
    /\ t.kind = "funban" => \A c \in t.chats : In(c, t.fed)

CarrierHolds ==
    /\ carrier.pc = "ban" =>
           /\ Known(carrier.doc) /\ Own(carrier.doc)
           /\ \A c \in carrier.left \cup carrier.hit : In(c, carrier.doc.fed)
    /\ carrier.pc = "unban" => carrier.left \subseteq errands[carrier.task].chats
    /\ \A d \in carrier.docs : Known(d) /\ Own(d)

BansApart ==
    "race" \notin excused =>
        /\ \A r \in bans : Own(r)
        /\ \A j \in Updates : CommandHolds(command[j])
        /\ \A i \in DOMAIN errands : ErrandHolds(errands[i])
        /\ CarrierHolds

\* An unban that has deleted its record and has yet to queue the rest.
Freeing(w) == w.command = "funban" /\ w.pc \in {"unmark", "lift", "queue"}

Pending(i, kind) == i \in DOMAIN errands /\ errands[i].status = "PENDING" /\ errands[i].kind = kind

\* A chat that is banned is listed, is about to be, or is about to be freed.
Accounted(c) ==
    \/ \E r \in bans : c \in r.chats
    \/ \E j \in Updates : command[j].pc = "save" /\ c \in command[j].doc.chats
    \/ carrier.pc = "ban" /\ c \in carrier.hit
    \/ \E j \in Updates : Freeing(command[j]) /\ c \in command[j].listed
    \/ \E i \in DOMAIN errands : Pending(i, "funban") /\ c \in errands[i].chats
    \/ carrier.pc = "unban" /\ c \in carrier.left

AllAccounted == excused \subseteq {"ban"} => \A c \in bannedIn : Accounted(c)

\* A pending unban of chats of federation f.
Frees(i, f) == Pending(i, "funban") /\ \E c \in errands[i].chats : FedOf[c] = f

\* The ban is about to be queued, is queued behind the unbans, is being
\* carried out, or was.
Coming(id) ==
    \E j \in Updates : command[j].command = "fban" /\ command[j].pc \in {"mark", "act", "save", "queue"}
                     /\ command[j].doc.id = id

Queued(id, f) ==
    \E i \in DOMAIN errands : Pending(i, "fban") /\ errands[i].ban = id
                              /\ \A k \in DOMAIN errands : Frees(k, f) => k < i

Carried(id, f) ==
    /\ \A k \in DOMAIN errands : ~ Frees(k, f)
    /\ carrier.pc = "unban" => \A c \in carrier.left : FedOf[c] # f
    /\ \/ carrier.pc = "get" /\ errands[carrier.task].ban = id
       \/ \A c \in FedBans!MemberChats(f) \cap Present :
              c \in bannedIn \/ (carrier.pc = "ban" /\ c \in carrier.left)

BansComing ==
    excused = {} =>
        \A r \in bans : FedBans!Chain(r.fed) = {} =>
            /\ \A j \in Updates : Freeing(command[j]) => FedOf[command[j].chat] # r.fed
            /\ Coming(r.id) \/ Queued(r.id, r.fed) \/ Carried(r.id, r.fed)

BansInv == BansTyped /\ BansApart /\ AllAccounted /\ BansComing

-----------------------------------------------------------------------------

\* What a step may do to the records: none of the others loses its chats or
\* its federation, and a new id is one that was not drawn.
Grow ==
    /\ \A r \in bans : \E s \in bans' : s.id = r.id /\ s.fed = r.fed /\ r.chats \subseteq s.chats
    /\ \A s \in bans' : Own(s) /\ (s.id > lastBan \/ \E r \in bans : r.id = s.id /\ r.fed = s.fed)

RecordsFit ==
    /\ bans' \in SUBSET FedBans!Bans
    /\ lastBan <= lastBan' /\ lastBan' \in 0 .. MaxBans
    /\ \A r \in bans' : r.id <= lastBan'
    /\ \A r, s \in bans' : r.id = s.id => r = s

\* Saving a copy whose id is drawn leaves one record of each id.
LEMMA SavedFits ==
    ASSUME BansUsual, BansTyped, NEW d \in FedBans!Bans, Drawn(d), FedBans!Save(d), lastBan' = lastBan
    PROVE  RecordsFit
BY DEF BansTyped, Drawn, FedBans!Save, RecordsFit

\* A save that overwrites nothing of a copy that is known.
LEMMA SavedGrows ==
    ASSUME BansUsual, BansTyped, NEW d \in FedBans!Bans, Drawn(d), FedBans!Save(d), ~ FedBans!Overwrites(d),
           Known(d), Own(d), \A r \in bans : Own(r)
    PROVE  Grow
<1>1. PICK r0 \in bans : r0.id = d.id /\ r0.fed = d.fed
  BY DEF Known
<1>2. \A r \in bans : r.id = d.id => r.fed = d.fed /\ r.chats \subseteq d.chats
  BY <1>1 DEF BansTyped, FedBans!Overwrites
<1>3. \A r \in bans : \E s \in bans' : s.id = r.id /\ s.fed = r.fed /\ r.chats \subseteq s.chats
  <2> SUFFICES ASSUME NEW r \in bans
               PROVE  \E s \in bans' : s.id = r.id /\ s.fed = r.fed /\ r.chats \subseteq s.chats
    OBVIOUS
  <2>1. CASE r.id = d.id
    BY <1>2, <2>1 DEF FedBans!Save
  <2>2. CASE r.id # d.id
    BY <2>2 DEF FedBans!Save
  <2> QED
    BY <2>1, <2>2
<1>4. \A s \in bans' : Own(s) /\ \E r \in bans : r.id = s.id /\ r.fed = s.fed
  BY <1>1 DEF FedBans!Save
<1> QED
  BY <1>3, <1>4 DEF Grow

\* What held of drawn ids still does.
LEMMA StillKnown ==
    ASSUME Grow, NEW d PROVE (Known(d) => Known(d)') /\ (Listed(d) => Listed(d)')
BY DEF Grow, Known, Listed

LEMMA StillAgrees ==
    ASSUME BansTyped, Grow, NEW id \in Nat, id <= lastBan, NEW f, Agrees(id, f) PROVE Agrees(id, f)'
BY DEF Grow, Agrees, BansTyped

LEMMA HoldsOn ==
    ASSUME BansUsual, BansTyped, Grow
    PROVE  /\ \A w \in Orders : CommandFits(w) /\ CommandHolds(w) => CommandHolds(w)'
           /\ \A t \in Errands : t.ban <= lastBan /\ ErrandHolds(t) => ErrandHolds(t)'
<1>1. ASSUME NEW w \in Orders, CommandFits(w), CommandHolds(w) PROVE CommandHolds(w)'
  <2>1. w.pc \in {"reason", "mark", "act"} => Listed(w.doc)'
    BY <1>1, StillKnown DEF CommandHolds
  <2>2. w.pc \in {"reason", "mark", "act", "save"} => Known(w.doc)'
    BY <1>1, StillKnown DEF CommandHolds
  <2>3. w.pc \in {"reason", "mark", "act", "save", "queue"} => w.doc.id \in Nat /\ w.doc.id <= lastBan
    BY <1>1 DEF CommandFits, Drawn, FedBans!Bans, FedBans!Ids, BansUsual
  <2>4. w.pc \in {"reason", "mark", "act", "save", "queue"} /\ w.command = "fban" => Agrees(w.doc.id, w.doc.fed)'
    BY <1>1, <2>3, StillAgrees DEF CommandHolds
  <2> QED
    BY <1>1, <2>1, <2>2, <2>4 DEF CommandHolds, Own, In
<1>2. ASSUME NEW t \in Errands, t.ban <= lastBan, ErrandHolds(t) PROVE ErrandHolds(t)'
  <2>1. t.ban \in Nat
    BY <1>2 DEF Errands
  <2> QED
    BY <1>2, <2>1, StillAgrees DEF ErrandHolds, In
<1> QED
  BY <1>1, <1>2

-----------------------------------------------------------------------------
(* The steps of a command *)

\* What is typed stays so when one command moves.
LEMMA CommandTyped ==
    ASSUME BansUsual, BansTyped, RecordsFit, NEW j \in Updates, NEW w \in Orders,
           command' = [command EXCEPT ![j] = w], CommandFits(w)',
           bannedIn' \subseteq Chats, UNCHANGED <<errands, carrier>>
    PROVE  BansTyped'
<1>1. command' \in [Updates -> Orders] /\ command'[j] = w /\ \A i \in Updates \ {j} : command'[i] = command[i]
  BY DEF BansTyped
<1>2. \A d \in FedBans!Bans : Drawn(d) => Drawn(d)'
  BY DEF Drawn, RecordsFit, FedBans!Bans, FedBans!Ids, BansUsual, BansTyped
<1>3. \A i \in Updates : CommandFits(command[i])'
  <2>1. ASSUME NEW i \in Updates, i # j PROVE CommandFits(command[i])'
    BY <1>1, <1>2, <2>1 DEF BansTyped, CommandFits
  <2> QED
    BY <1>1, <2>1
<1>4. \A i \in DOMAIN errands : errands[i].ban <= lastBan'
  <2> SUFFICES ASSUME NEW i \in DOMAIN errands PROVE errands[i].ban <= lastBan'
    OBVIOUS
  <2>1. errands[i] \in Errands /\ errands[i].ban <= lastBan
    BY DEF BansTyped
  <2>2. errands[i].ban \in Nat /\ lastBan \in Nat /\ lastBan' \in Nat /\ lastBan <= lastBan'
    BY <2>1 DEF BansTyped, RecordsFit, Errands, BansUsual
  <2> QED
    BY <2>1, <2>2
<1>5. CarrierFits'
  BY <1>2 DEF BansTyped, CarrierFits, Carriers, FedBans!Chain
<1> QED
  BY <1>1, <1>3, <1>4, <1>5 DEF BansTyped, RecordsFit, Drawn

\* What commands, errands and the carrier hold is still so when one command
\* moves.
LEMMA CommandApart ==
    ASSUME BansUsual, BansTyped, BansApart, NEW j \in Updates, NEW w \in Orders,
           command' = [command EXCEPT ![j] = w],
           "race" \notin excused' => "race" \notin excused /\ Grow /\ CommandHolds(w)',
           UNCHANGED <<errands, carrier>>
    PROVE  BansApart'
<1> SUFFICES ASSUME "race" \notin excused'
             PROVE  /\ \A r \in bans' : Own(r)
                    /\ \A i \in Updates : CommandHolds(command[i])'
                    /\ \A i \in DOMAIN errands : ErrandHolds(errands[i])'
                    /\ CarrierHolds'
  BY DEF BansApart, Own, In
<1>1. "race" \notin excused /\ Grow /\ CommandHolds(w)'
  OBVIOUS
<1>2. \A r \in bans' : Own(r)
  BY <1>1 DEF Grow
<1>3. \A i \in Updates : CommandHolds(command[i])'
  <2>1. ASSUME NEW i \in Updates, i # j PROVE CommandHolds(command[i])'
    <3>1. command'[i] = command[i] /\ command[i] \in Orders /\ CommandFits(command[i]) /\ CommandHolds(command[i])
      BY <1>1, <2>1 DEF BansTyped, BansApart
    <3>2. PICK u \in Orders : u = command[i]
      BY <3>1
    <3>3. CommandHolds(u)'
      BY <1>1, <3>1, <3>2, HoldsOn
    <3> QED
      BY <3>1, <3>2, <3>3 DEF CommandHolds
  <2>2. command'[j] = w
    BY DEF BansTyped
  <2> QED
    BY <1>1, <2>1, <2>2 DEF CommandHolds
<1>4. \A i \in DOMAIN errands : ErrandHolds(errands[i])'
  <2> SUFFICES ASSUME NEW i \in DOMAIN errands PROVE ErrandHolds(errands[i])'
    OBVIOUS
  <2>1. errands[i] \in Errands /\ errands[i].ban <= lastBan /\ ErrandHolds(errands[i])
    BY <1>1 DEF BansTyped, BansApart
  <2>2. PICK t \in Errands : t = errands[i]
    BY <2>1
  <2>3. ErrandHolds(t)'
    BY <1>1, <2>1, <2>2, HoldsOn
  <2> QED
    BY <2>2, <2>3 DEF ErrandHolds
<1>5. CarrierHolds'
  BY <1>1, StillKnown DEF BansApart, CarrierHolds, Own, In
<1> QED
  BY <1>2, <1>3, <1>4, <1>5

\* No chat is forgotten when one command moves.
LEMMA CommandAccounts ==
    ASSUME BansUsual, BansTyped, AllAccounted, NEW j \in Updates, NEW w \in Orders,
           command' = [command EXCEPT ![j] = w], UNCHANGED <<errands, carrier>>,
           excused' \subseteq {"ban"} =>
               /\ excused \subseteq {"ban"}
               /\ \A r \in bans : \E s \in bans' : r.chats \subseteq s.chats
               /\ \A c \in bannedIn' \ bannedIn : Accounted(c)'
               /\ command[j].pc = "save" => \A c \in command[j].doc.chats : Accounted(c)'
               /\ Freeing(command[j]) =>
                      /\ \A c \in command[j].listed \cap bannedIn' : Accounted(c)'
    PROVE  AllAccounted'
<1> SUFFICES ASSUME excused' \subseteq {"ban"}, NEW c \in bannedIn', c \in bannedIn PROVE Accounted(c)'
  BY DEF AllAccounted
<1>1. Accounted(c)
  BY DEF AllAccounted
<1>2. command'[j] = w /\ \A i \in Updates \ {j} : command'[i] = command[i]
  BY DEF BansTyped
<1>3. CASE \E r \in bans : c \in r.chats
  BY <1>3 DEF Accounted
<1>4. CASE \E i \in Updates : command[i].pc = "save" /\ c \in command[i].doc.chats
  <2>1. PICK i \in Updates : command[i].pc = "save" /\ c \in command[i].doc.chats
    BY <1>4
  <2>2. CASE i = j
    BY <2>1, <2>2
  <2>3. CASE i # j
    <3>1. command'[i] = command[i]
      BY <1>2, <2>3
    <3> QED
      BY <2>1, <3>1 DEF Accounted
  <2> QED
    BY <2>2, <2>3
<1>5. CASE \E i \in Updates : Freeing(command[i]) /\ c \in command[i].listed
  <2>1. PICK i \in Updates : Freeing(command[i]) /\ c \in command[i].listed
    BY <1>5
  <2>2. CASE i = j
    BY <2>1, <2>2
  <2>3. CASE i # j
    <3>1. command'[i] = command[i]
      BY <1>2, <2>3
    <3>2. Freeing(command[i])' /\ c \in command'[i].listed
      BY <2>1, <3>1 DEF Freeing
    <3> QED
      BY <3>2 DEF Accounted
  <2> QED
    BY <2>2, <2>3
<1>6. CASE \/ carrier.pc = "ban" /\ c \in carrier.hit
           \/ \E i \in DOMAIN errands : Pending(i, "funban") /\ c \in errands[i].chats
           \/ carrier.pc = "unban" /\ c \in carrier.left
  BY <1>6 DEF Accounted, Pending
<1> QED
  BY <1>1, <1>3, <1>4, <1>5, <1>6 DEF Accounted

\* What a step of a command must leave for the bans to come.
LEMMA CommandComes ==
    ASSUME BansUsual, BansTyped, BansComing, NEW j \in Updates, NEW w \in Orders,
           command' = [command EXCEPT ![j] = w], UNCHANGED <<errands, carrier>>,
           excused' = {} =>
               /\ excused = {}
               /\ bannedIn \subseteq bannedIn'
               /\ \A s \in bans' : FedBans!Chain(s.fed) = {} => \E r \in bans : r.id = s.id /\ r.fed = s.fed
               /\ Freeing(w) => Freeing(command[j]) /\ w.chat = command[j].chat
               /\ command[j].command = "fban" /\ command[j].pc \in {"mark", "act", "save", "queue"} =>
                      w.command = "fban" /\ w.pc \in {"mark", "act", "save", "queue"} /\ w.doc.id = command[j].doc.id
    PROVE  BansComing'
<1> SUFFICES ASSUME excused' = {}, NEW s \in bans', FedBans!Chain(s.fed) = {}
             PROVE  /\ \A i \in Updates : Freeing(command[i])' => FedOf[command'[i].chat] # s.fed
                    /\ Coming(s.id)' \/ Queued(s.id, s.fed)' \/ Carried(s.id, s.fed)'
  BY DEF BansComing, FedBans!Chain
<1>1. PICK r \in bans : r.id = s.id /\ r.fed = s.fed
  OBVIOUS
<1>2. /\ \A i \in Updates : Freeing(command[i]) => FedOf[command[i].chat] # s.fed
      /\ Coming(s.id) \/ Queued(s.id, s.fed) \/ Carried(s.id, s.fed)
  BY <1>1 DEF BansComing
<1>3. command'[j] = w /\ \A i \in Updates \ {j} : command'[i] = command[i]
  BY DEF BansTyped
<1>4. \A i \in Updates : Freeing(command[i])' => FedOf[command'[i].chat] # s.fed
  BY <1>2, <1>3 DEF Freeing
<1>5. Coming(s.id) => Coming(s.id)'
  <2> SUFFICES ASSUME Coming(s.id) PROVE Coming(s.id)'
    OBVIOUS
  <2>1. PICK i \in Updates : /\ command[i].command = "fban" /\ command[i].pc \in {"mark", "act", "save", "queue"}
                          /\ command[i].doc.id = s.id
    BY DEF Coming
  <2>2. /\ command'[i].command = "fban" /\ command'[i].pc \in {"mark", "act", "save", "queue"}
        /\ command'[i].doc.id = s.id
    BY <1>3, <2>1
  <2> QED
    BY <2>2 DEF Coming
<1>6. Queued(s.id, s.fed) => Queued(s.id, s.fed)'
  BY DEF Queued, Pending, Frees
<1>7. Carried(s.id, s.fed) => Carried(s.id, s.fed)'
  BY DEF Carried, Frees, Pending, FedBans!MemberChats
<1> QED
  BY <1>2, <1>4, <1>5, <1>6, <1>7

\* A step that leaves the records as they are.
LEMMA RecordsStay ==
    ASSUME BansUsual, BansTyped, UNCHANGED <<bans, lastBan>>
    PROVE  RecordsFit /\ ((\A r \in bans : Own(r)) => Grow)
BY DEF BansTyped, RecordsFit, Drawn, Grow

LEMMA ReasonKeeps ==
    ASSUME BansUsual, BansInv, NEW j \in Updates, FedBans!Reason(j) PROVE BansInv'
<1>1. BansTyped /\ BansApart /\ AllAccounted /\ BansComing
  BY DEF BansInv
<1>2. /\ command[j] \in Orders /\ CommandFits(command[j]) /\ command[j].pc = "reason"
      /\ command[j].doc \in FedBans!Bans /\ Drawn(command[j].doc)
  BY <1>1 DEF BansTyped, FedBans!Reason, CommandFits
<1>3. PICK w \in Orders : w = [command[j] EXCEPT !.pc = "act"]
  BY <1>2 DEF Orders, FedBans!Steps
<1>4. /\ command' = [command EXCEPT ![j] = w] /\ UNCHANGED <<lastBan, errands, carrier, bannedIn>>
  BY <1>1, <1>2, <1>3 DEF FedBans!Reason, FedBans!To, BansTyped
<1>5. w.pc = "act" /\ w.doc = command[j].doc /\ w.command = "fban" /\ w.chat = command[j].chat
  BY <1>2, <1>3 DEF Orders, CommandFits
<1>6. RecordsFit
  BY <1>1, <1>2, RecordsStay, SavedFits DEF FedBans!Reason
<1>7. CommandFits(w)'
  BY <1>2, <1>4, <1>5 DEF CommandFits, Drawn
<1>8. ASSUME "race" \notin excused' PROVE "race" \notin excused /\ Grow /\ CommandHolds(w)'
  <2>1. "race" \notin excused /\ (UNCHANGED bans \/ (FedBans!Save(command[j].doc) /\ ~ FedBans!Overwrites(command[j].doc)))
    BY <1>8 DEF FedBans!Reason, FedBans!Raced
  <2>2. (\A r \in bans : Own(r)) /\ CommandHolds(command[j])
    BY <1>1, <2>1 DEF BansApart
  <2>3. Grow
    BY <1>1, <1>2, <1>4, <2>1, <2>2, RecordsStay, SavedGrows DEF CommandHolds
  <2>4. CommandFits(w) /\ CommandHolds(w)
    BY <1>2, <1>5, <2>2 DEF CommandHolds, CommandFits
  <2> QED
    BY <1>1, <1>3, <2>1, <2>3, <2>4, HoldsOn
<1>9. BansTyped'
  BY <1>1, <1>4, <1>6, <1>7, CommandTyped DEF BansTyped
<1>10. BansApart'
  BY <1>1, <1>4, <1>8, CommandApart
<1>11. AllAccounted'
  <2> SUFFICES ASSUME excused' \subseteq {"ban"}
               PROVE  excused \subseteq {"ban"} /\ \A r \in bans : \E s \in bans' : r.chats \subseteq s.chats
    BY <1>1, <1>2, <1>4, CommandAccounts DEF Freeing
  <2>1. Grow
    BY <1>8
  <2> QED
    BY <2>1 DEF Grow, FedBans!Reason, FedBans!Raced
<1>12. BansComing'
  <2> SUFFICES ASSUME excused' = {}
               PROVE  /\ excused = {}
                      /\ \A s \in bans' : \E r \in bans : r.id = s.id /\ r.fed = s.fed
    BY <1>1, <1>2, <1>4, <1>5, CommandComes DEF Freeing
  <2>1. Grow
    BY <1>8
  <2> QED
    BY <1>6, <1>4, <2>1 DEF Grow, FedBans!Reason, FedBans!Raced, RecordsFit, FedBans!Bans, FedBans!Ids, BansTyped
<1> QED
  BY <1>9, <1>10, <1>11, <1>12 DEF BansInv

\* Steps of a command that leave the records and the bans of Telegram alone.
LEMMA CommandTurns ==
    ASSUME BansUsual, BansInv, NEW j \in Updates, NEW w \in Orders,
           command' = [command EXCEPT ![j] = w],
           UNCHANGED <<bans, lastBan, bannedIn, errands, carrier>>,
           excused \subseteq excused',
           CommandFits(w),
           "race" \notin excused' => CommandHolds(w),
           excused' \subseteq {"ban"} =>
               /\ command[j].pc # "save"
               /\ Freeing(command[j]) => Freeing(w) /\ w.listed = command[j].listed,
           excused' = {} =>
               /\ Freeing(w) => Freeing(command[j]) /\ w.chat = command[j].chat
               /\ command[j].command = "fban" /\ command[j].pc \in {"mark", "act", "save", "queue"} =>
                      w.command = "fban" /\ w.pc \in {"mark", "act", "save", "queue"} /\ w.doc.id = command[j].doc.id
    PROVE  BansInv'
<1>1. BansTyped /\ BansApart /\ AllAccounted /\ BansComing
  BY DEF BansInv
<1>2. CommandFits(w)'
  BY DEF CommandFits, Drawn
<1>3. RecordsFit
  BY <1>1, RecordsStay
<1>4. BansTyped'
  BY <1>1, <1>2, <1>3, CommandTyped DEF BansTyped
<1>5. BansApart'
  <2> SUFFICES ASSUME "race" \notin excused' PROVE "race" \notin excused /\ Grow /\ CommandHolds(w)'
    BY <1>1, CommandApart
  <2>1. "race" \notin excused /\ \A r \in bans : Own(r)
    BY <1>1 DEF BansApart
  <2>2. Grow
    BY <1>1, <2>1, RecordsStay
  <2> QED
    BY <1>1, <2>1, <2>2, HoldsOn
<1>6. AllAccounted'
  <2> SUFFICES ASSUME excused' \subseteq {"ban"}
               PROVE  Freeing(command[j]) => \A c \in command[j].listed : Accounted(c)'
    BY <1>1, CommandAccounts
  <2> SUFFICES ASSUME Freeing(command[j]), NEW c \in command[j].listed PROVE Accounted(c)'
    OBVIOUS
  <2>1. command'[j] = w
    BY <1>1 DEF BansTyped
  <2>2. Freeing(command[j])' /\ c \in command'[j].listed
    BY <2>1 DEF Freeing
  <2> QED
    BY <2>2 DEF Accounted
<1>7. BansComing'
  BY <1>1, CommandComes
<1> QED
  BY <1>4, <1>5, <1>6, <1>7 DEF BansInv

LEMMA MarkKeeps ==
    ASSUME BansUsual, BansInv, NEW j \in Updates, FedBans!Mark(j) PROVE BansInv'
<1>1. /\ command \in [Updates -> Orders] /\ command[j] \in Orders
      /\ CommandFits(command[j]) /\ command[j].pc = "mark"
      /\ "race" \notin excused => CommandHolds(command[j])
  BY DEF BansInv, BansTyped, BansApart, FedBans!Mark
<1>2. PICK w \in Orders : w = [command[j] EXCEPT !.pc = "act"]
  BY <1>1 DEF Orders, FedBans!Steps
<1>3. command' = [command EXCEPT ![j] = w] /\ UNCHANGED <<bans, lastBan, bannedIn, errands, carrier, excused>>
  BY <1>1, <1>2 DEF FedBans!Mark, FedBans!To
<1>4. w.pc = "act" /\ w.doc = command[j].doc /\ w.command = command[j].command /\ w.chat = command[j].chat
  BY <1>1, <1>2 DEF Orders
<1>5. CommandFits(w) /\ ("race" \notin excused => CommandHolds(w))
  BY <1>1, <1>4 DEF CommandFits, CommandHolds
<1> QED
  BY <1>1, <1>3, <1>4, <1>5, CommandTurns DEF Freeing

\* An unban finds its record again.
LEMMA FindKeepsBans ==
    ASSUME BansUsual, BansInv, NEW j \in Updates, FedBans!Find(j) PROVE BansInv'
<1>1. /\ command \in [Updates -> Orders] /\ command[j] \in Orders
      /\ CommandFits(command[j]) /\ command[j].pc = "find"
  BY DEF BansInv, BansTyped, FedBans!Find
<1>2. /\ command[j].command = "funban" /\ command[j].chat \in Chats
      /\ UNCHANGED <<bans, lastBan, bannedIn, errands, carrier>>
  BY <1>1 DEF CommandFits, FedBans!Find
<1>3. CASE FedBans!To(j, "done") /\ UNCHANGED excused
  <2>1. PICK w \in Orders : w = FedBans!At("done")
    BY DEF Orders, FedBans!Steps, FedBans!At
  <2>2. command' = [command EXCEPT ![j] = w]
    BY <1>3, <2>1 DEF FedBans!To
  <2>3. w.pc = "done" /\ w.command = "none"
    BY <2>1 DEF FedBans!At
  <2>4. CommandFits(w) /\ CommandHolds(w)
    BY <2>3 DEF CommandFits, CommandHolds
  <2> QED
    BY <1>1, <1>2, <1>3, <2>2, <2>3, <2>4, CommandTurns DEF Freeing
<1>4. ASSUME NEW r \in FedBans!Of({FedBans!Fed(j)}), NEW s \in {"inherited", "delete"}, FedBans!Keep(j, s, r),
             FedBans!Raced(r.chats # command[j].listed)
      PROVE  BansInv'
  <2>1. r \in bans /\ r \in FedBans!Bans /\ Drawn(r) /\ r.fed = FedOf[command[j].chat]
    BY <1>4 DEF FedBans!Of, FedBans!Fed, BansInv, BansTyped
  <2>2. PICK w \in Orders : w = [command[j] EXCEPT !.pc = s, !.doc = r]
    BY <1>1, <2>1 DEF Orders, FedBans!Steps
  <2>3. command' = [command EXCEPT ![j] = w]
    BY <1>1, <1>4, <2>2 DEF FedBans!Keep, Orders
  <2>4. /\ w.pc = s /\ w.doc = r /\ w.command = "funban" /\ w.chat = command[j].chat
        /\ w.listed = command[j].listed
    BY <1>1, <1>2, <2>2 DEF Orders
  <2>5. CommandFits(w)
    BY <1>2, <2>1, <2>4 DEF CommandFits
  <2>6. "race" \notin excused' => CommandHolds(w)
    BY <1>4, <2>1, <2>4 DEF CommandHolds, FedBans!Raced, BansInv, BansApart
  <2>7. excused \subseteq excused'
    BY <1>4 DEF FedBans!Raced
  <2> QED
    BY <1>1, <1>2, <2>3, <2>4, <2>5, <2>6, <2>7, CommandTurns DEF Freeing
<1> QED
  BY <1>3, <1>4 DEF FedBans!Find

LEMMA InheritedKeeps ==
    ASSUME BansUsual, BansInv, NEW j \in Updates, FedBans!Inherited(j) PROVE BansInv'
<1>1. /\ command \in [Updates -> Orders] /\ command[j] \in Orders
      /\ CommandFits(command[j]) /\ command[j].pc = "inherited" /\ command[j].command = "funban"
      /\ "race" \notin excused => CommandHolds(command[j])
      /\ UNCHANGED <<bans, lastBan, bannedIn, errands, carrier, excused>>
  BY DEF BansInv, BansTyped, BansApart, FedBans!Inherited, CommandFits
<1>2. CASE FedBans!To(j, "done")
  <2>1. PICK w \in Orders : w = FedBans!At("done")
    BY DEF Orders, FedBans!Steps, FedBans!At
  <2>2. command' = [command EXCEPT ![j] = w]
    BY <1>2, <2>1 DEF FedBans!To
  <2>3. w.pc = "done" /\ w.command = "none"
    BY <2>1 DEF FedBans!At
  <2>4. CommandFits(w) /\ CommandHolds(w)
    BY <2>3 DEF CommandFits, CommandHolds
  <2> QED
    BY <1>1, <2>2, <2>3, <2>4, CommandTurns DEF Freeing
<1>3. CASE FedBans!To(j, "delete")
  <2>1. PICK w \in Orders : w = [command[j] EXCEPT !.pc = "delete"]
    BY <1>1 DEF Orders, FedBans!Steps
  <2>2. command' = [command EXCEPT ![j] = w]
    BY <1>1, <1>3, <2>1 DEF FedBans!To
  <2>3. /\ w.pc = "delete" /\ w.doc = command[j].doc /\ w.command = "funban" /\ w.chat = command[j].chat
        /\ w.listed = command[j].listed
    BY <1>1, <2>1 DEF Orders
  <2>4. CommandFits(w) /\ ("race" \notin excused => CommandHolds(w))
    BY <1>1, <2>3 DEF CommandFits, CommandHolds
  <2> QED
    BY <1>1, <2>2, <2>3, <2>4, CommandTurns DEF Freeing
<1> QED
  BY <1>2, <1>3 DEF FedBans!Inherited

LEMMA UnmarkKeeps ==
    ASSUME BansUsual, BansInv, NEW j \in Updates, FedBans!Unmark(j) PROVE BansInv'
<1>1. /\ command \in [Updates -> Orders] /\ command[j] \in Orders
      /\ CommandFits(command[j]) /\ command[j].pc = "unmark" /\ command[j].command = "funban"
      /\ "race" \notin excused => CommandHolds(command[j])
  BY DEF BansInv, BansTyped, BansApart, FedBans!Unmark, CommandFits
<1>2. PICK w \in Orders : w = [command[j] EXCEPT !.pc = "lift"]
  BY <1>1 DEF Orders, FedBans!Steps
<1>3. command' = [command EXCEPT ![j] = w] /\ UNCHANGED <<bans, lastBan, bannedIn, errands, carrier, excused>>
  BY <1>1, <1>2 DEF FedBans!Unmark, FedBans!To
<1>4. /\ w.pc = "lift" /\ w.doc = command[j].doc /\ w.command = "funban" /\ w.chat = command[j].chat
      /\ w.listed = command[j].listed
  BY <1>1, <1>2 DEF Orders
<1>5. CommandFits(w) /\ ("race" \notin excused => CommandHolds(w))
  BY <1>1, <1>4 DEF CommandFits, CommandHolds
<1> QED
  BY <1>1, <1>3, <1>4, <1>5, CommandTurns DEF Freeing

\* A message of the user, in a chat of a federation with a record or without.
LEMMA LookupKeeps ==
    ASSUME BansUsual, BansInv, NEW j \in Updates, FedBans!Lookup(j) PROVE BansInv'
<1>1. /\ command \in [Updates -> Orders] /\ command[j] \in Orders
      /\ CommandFits(command[j]) /\ command[j].pc = "lookup" /\ command[j].command = "message"
      /\ command[j].chat \in Chats
      /\ UNCHANGED <<bans, lastBan, bannedIn, errands, carrier, excused>>
  BY DEF BansInv, BansTyped, FedBans!Lookup, CommandFits
<1>2. ASSUME NEW r \in FedBans!Of({FedBans!Fed(j)} \cup FedBans!Chain(FedBans!Fed(j))), FedBans!Keep(j, "act", r)
      PROVE  BansInv'
  <2>1. r \in bans /\ r \in FedBans!Bans /\ Drawn(r) /\ In(command[j].chat, r.fed)
    BY <1>2 DEF FedBans!Of, FedBans!Fed, BansInv, BansTyped, In
  <2>2. PICK w \in Orders : w = [command[j] EXCEPT !.pc = "act", !.doc = r]
    BY <1>1, <2>1 DEF Orders, FedBans!Steps
  <2>3. command' = [command EXCEPT ![j] = w]
    BY <1>1, <1>2, <2>2 DEF FedBans!Keep, Orders
  <2>4. w.pc = "act" /\ w.doc = r /\ w.command = "message" /\ w.chat = command[j].chat
    BY <1>1, <2>2 DEF Orders
  <2>5. CommandFits(w)
    BY <1>1, <2>1, <2>4 DEF CommandFits
  <2>6. "race" \notin excused => CommandHolds(w)
    BY <2>1, <2>4 DEF CommandHolds, BansInv, BansApart, Known, Listed
  <2> QED
    BY <1>1, <2>3, <2>4, <2>5, <2>6, CommandTurns DEF Freeing
<1>3. CASE FedBans!To(j, "negative")
  <2>1. PICK w \in Orders : w = [command[j] EXCEPT !.pc = "negative"]
    BY <1>1 DEF Orders, FedBans!Steps
  <2>2. command' = [command EXCEPT ![j] = w]
    BY <1>1, <1>3, <2>1 DEF FedBans!To
  <2>3. w.pc = "negative" /\ w.command = "message" /\ w.chat = command[j].chat
    BY <1>1, <2>1 DEF Orders
  <2>4. CommandFits(w) /\ CommandHolds(w)
    BY <1>1, <2>3 DEF CommandFits, CommandHolds
  <2> QED
    BY <1>1, <2>2, <2>3, <2>4, CommandTurns DEF Freeing
<1> QED
  BY <1>2, <1>3 DEF FedBans!Lookup

\* A command ends, in order or because the bot died.
LEMMA EndKeeps ==
    ASSUME BansUsual, BansInv, NEW j \in Updates, FedBans!Negative(j) \/ FedBans!Die(j) PROVE BansInv'
<1>1. /\ command \in [Updates -> Orders] /\ CommandFits(command[j])
      /\ FedBans!To(j, "done") /\ UNCHANGED <<bans, lastBan, bannedIn, errands, carrier>>
      /\ excused \subseteq excused'
      /\ "crash" \in excused' \/ command[j].pc = "negative"
  BY DEF BansInv, BansTyped, FedBans!Negative, FedBans!Die, FedBans!Fault
<1>2. PICK w \in Orders : w = FedBans!At("done")
  BY DEF Orders, FedBans!Steps, FedBans!At
<1>3. command' = [command EXCEPT ![j] = w]
  BY <1>1, <1>2 DEF FedBans!To
<1>4. w.pc = "done" /\ w.command = "none"
  BY <1>2 DEF FedBans!At
<1>5. CommandFits(w) /\ CommandHolds(w)
  BY <1>4 DEF CommandFits, CommandHolds
<1> QED
  BY <1>1, <1>3, <1>4, <1>5, CommandTurns DEF Freeing

LEMMA ReceiveKeeps ==
    ASSUME BansUsual, BansInv, NEW j \in Updates, NEW c \in Chats, FedBans!Receive(j, c) PROVE BansInv'
<1>1. /\ command \in [Updates -> Orders] /\ command[j].pc = "new"
      /\ UNCHANGED <<bans, lastBan, bannedIn, errands, carrier, excused>>
  BY DEF BansInv, BansTyped, FedBans!Receive
<1>2. ASSUME NEW w \in Orders, command' = [command EXCEPT ![j] = w],
             w.pc \in {"insert", "reason", "find", "lookup"}, CommandFits(w), "race" \notin excused => CommandHolds(w)
      PROVE  BansInv'
  BY <1>1, <1>2, CommandTurns DEF Freeing
<1> DEFINE taken(k, s, d, l) == command' = [command EXCEPT ![j] =
                            [pc |-> s, command |-> k, chat |-> c, doc |-> d, listed |-> l]]
<1>3. ASSUME NEW k, NEW s, NEW d \in {None} \cup FedBans!Bans, NEW l \in SUBSET Chats,
             k \in {"fban", "funban", "message"}, s \in FedBans!Steps,
             taken(k, s, d, l),
             \/ s = "insert" /\ k = "fban"
             \/ s = "reason" /\ k = "fban" /\ d \in bans /\ d.fed = FedOf[c]
             \/ s = "find" /\ k = "funban"
             \/ s = "lookup" /\ k = "message"
      PROVE  BansInv'
  <2>1. PICK w \in Orders : w = [pc |-> s, command |-> k, chat |-> c, doc |-> d, listed |-> l]
    BY <1>3 DEF Orders
  <2>2. w.pc = s /\ w.command = k /\ w.chat = c /\ w.doc = d
    BY <2>1
  <2>3. CommandFits(w)
    BY <1>3, <2>2 DEF CommandFits, BansInv, BansTyped
  <2>4. "race" \notin excused => CommandHolds(w)
    BY <1>3, <2>2 DEF CommandHolds, BansInv, BansTyped, BansApart, Known, Listed, In, Agrees
  <2> QED
    BY <1>2, <1>3, <2>1, <2>2, <2>3, <2>4
<1>4. \A r \in FedBans!Of({FedOf[c]}) : r \in bans /\ r \in FedBans!Bans /\ r.fed = FedOf[c] /\ r.chats \in SUBSET Chats
  BY DEF FedBans!Of, BansInv, BansTyped, FedBans!Bans
<1>5. \/ taken("fban", "insert", None, {})
      \/ \E r \in FedBans!Of({FedOf[c]}) : taken("fban", "reason", r, {})
      \/ \E r \in FedBans!Of({FedOf[c]}) : taken("funban", "find", None, r.chats)
      \/ taken("message", "lookup", None, {})
  BY DEF FedBans!Receive
<1> HIDE DEF taken
<1>6. CASE taken("fban", "insert", None, {})
  BY <1>3, <1>6 DEF FedBans!Steps
<1>7. CASE \E r \in FedBans!Of({FedOf[c]}) : taken("fban", "reason", r, {})
  BY <1>3, <1>4, <1>7 DEF FedBans!Steps
<1>8. CASE \E r \in FedBans!Of({FedOf[c]}) : taken("funban", "find", None, r.chats)
  BY <1>3, <1>4, <1>8 DEF FedBans!Steps
<1>9. CASE taken("message", "lookup", None, {})
  BY <1>3, <1>9 DEF FedBans!Steps
<1> QED
  BY <1>5, <1>6, <1>7, <1>8, <1>9

\* The record of a new ban: Insert gives it an id that was not drawn.
LEMMA InsertFits ==
    ASSUME BansUsual, BansTyped, NEW f \in Feds, NEW origin \in {None} \cup Feds, FedBans!Insert(f, origin)
    PROVE  LET d == [id |-> lastBan + 1, fed |-> f, origin |-> origin, chats |-> {}] IN
           /\ d \in FedBans!Bans /\ bans' = bans \cup {d} /\ lastBan' = lastBan + 1
           /\ RecordsFit /\ excused \subseteq excused'
           /\ "race" \notin excused' =>
                  /\ excused' = excused /\ \A k \in Updates : ~ FedBans!Unbanning(k)
                  /\ \A r \in bans : r.fed # f
           /\ (\A r \in bans : Own(r)) => Grow
<1> DEFINE d == [id |-> lastBan + 1, fed |-> f, origin |-> origin, chats |-> {}]
<1>1. lastBan < MaxBans /\ lastBan' = lastBan + 1 /\ bans' = bans \cup {d}
  BY DEF FedBans!Insert, FedBans!Added
<1>2. d \in FedBans!Bans
  BY <1>1 DEF FedBans!Bans, FedBans!Ids, BansTyped, BansUsual
<1>3. \A r \in bans : r \in FedBans!Bans /\ r.id \in Nat /\ r.id <= lastBan
  BY DEF BansTyped, Drawn, FedBans!Bans, FedBans!Ids
<1>4. RecordsFit
  <2>1. lastBan \in Nat /\ d.id = lastBan + 1 /\ lastBan' \in 0 .. MaxBans
    BY <1>1 DEF BansTyped, BansUsual
  <2>2. \A r, s \in bans' : r.id = s.id => r = s
    <3> SUFFICES ASSUME NEW r \in bans', NEW s \in bans', r.id = s.id PROVE r = s
      OBVIOUS
    <3>1. CASE r \in bans /\ s \in bans
      BY <3>1 DEF BansTyped
    <3>2. CASE r = d \/ s = d
      <4> HIDE DEF d
      <4>1. r \in bans => r.id # d.id
        BY <1>3, <2>1
      <4>2. s \in bans => s.id # d.id
        BY <1>3, <2>1
      <4> QED
        BY <1>1, <3>2, <4>1, <4>2
    <3> QED
      BY <1>1, <3>1, <3>2
  <2>3. \A r \in bans' : r.id <= lastBan'
    BY <1>1, <1>3, <2>1
  <2> QED
    BY <1>1, <1>2, <2>1, <2>2, <2>3 DEF RecordsFit, BansTyped
<1>5. (\A r \in bans : Own(r)) => Grow
  BY <1>1, <1>2, <1>3 DEF Grow, Own, BansTyped
<1>6. /\ excused \subseteq excused'
      /\ "race" \notin excused' =>
                  /\ excused' = excused /\ \A k \in Updates : ~ FedBans!Unbanning(k)
                  /\ \A r \in bans : r.fed # f
  BY DEF FedBans!Insert, FedBans!Raced, FedBans!Of
<1> QED
  BY <1>1, <1>2, <1>4, <1>5, <1>6

LEMMA BanUserKeeps ==
    ASSUME BansUsual, BansInv, NEW j \in Updates, FedBans!BanUser(j) PROVE BansInv'
<1> DEFINE f == FedOf[command[j].chat]
           d == [id |-> lastBan + 1, fed |-> f, origin |-> None, chats |-> {}]
<1>1. BansTyped /\ BansApart /\ AllAccounted /\ BansComing
  BY DEF BansInv
<1>2. /\ command \in [Updates -> Orders] /\ command[j] \in Orders /\ CommandFits(command[j])
      /\ command[j].pc = "insert" /\ command[j].command = "fban" /\ command[j].chat \in Chats /\ f \in Feds
  BY <1>1 DEF BansTyped, FedBans!BanUser, CommandFits, BansUsual
<1>3. FedBans!Insert(f, None) /\ UNCHANGED <<bannedIn, errands, carrier>>
  BY DEF FedBans!BanUser, FedBans!Fed
<1>4. /\ d \in FedBans!Bans /\ bans' = bans \cup {d} /\ lastBan' = lastBan + 1
      /\ RecordsFit /\ excused \subseteq excused'
      /\ "race" \notin excused' =>
             /\ excused' = excused /\ \A k \in Updates : ~ FedBans!Unbanning(k)
             /\ \A r \in bans : r.fed # f
      /\ (\A r \in bans : Own(r)) => Grow
  BY <1>1, <1>2, <1>3, InsertFits
<1>5. PICK w \in Orders : w = [command[j] EXCEPT !.pc = "mark", !.doc = d]
  BY <1>2, <1>4 DEF Orders, FedBans!Steps
<1>6. command' = [command EXCEPT ![j] = w]
  BY <1>2, <1>5 DEF FedBans!BanUser, FedBans!Keep, FedBans!Added, FedBans!Fed, Orders
<1>7. w.pc = "mark" /\ w.doc = d /\ w.command = "fban" /\ w.chat = command[j].chat
  BY <1>2, <1>5 DEF Orders
<1>8. CommandFits(w)'
  <2>1. d.id <= lastBan'
    BY <1>1, <1>4 DEF BansTyped
  <2> QED
    BY <1>2, <1>4, <1>7, <2>1 DEF CommandFits, Drawn
<1>9. \A r \in bans : r.id \in Nat /\ r.id <= lastBan
  BY <1>1 DEF BansTyped, Drawn, FedBans!Bans, FedBans!Ids
<1>10. ASSUME "race" \notin excused' PROVE "race" \notin excused /\ Grow /\ CommandHolds(w)'
  <2>1. "race" \notin excused /\ Grow
    BY <1>1, <1>4, <1>10 DEF BansApart
  <2>1a. w.doc \in bans' /\ w.doc.chats = {} /\ w.doc.fed = f /\ w.doc.id = lastBan + 1
    BY <1>4, <1>7
  <2>2. Listed(w.doc)' /\ Known(w.doc)' /\ Own(w.doc)' /\ In(w.chat, w.doc.fed)'
    BY <1>7, <2>1a DEF Listed, Known, Own, In
  <2>3. Agrees(w.doc.id, w.doc.fed)'
    BY <1>4, <2>1a DEF Agrees, RecordsFit
  <2> QED
    BY <1>7, <2>1, <2>1a, <2>2, <2>3 DEF CommandHolds
<1>11. BansTyped'
  BY <1>1, <1>3, <1>4, <1>6, <1>8, CommandTyped DEF BansTyped
<1>12. BansApart'
  BY <1>1, <1>3, <1>6, <1>10, CommandApart
<1>13. AllAccounted'
  BY <1>1, <1>2, <1>3, <1>4, <1>6, CommandAccounts DEF Freeing
<1>14. BansComing'
  <2> SUFFICES ASSUME excused' = {}, NEW s \in bans', FedBans!Chain(s.fed) = {}
               PROVE  /\ \A i \in Updates : Freeing(command[i])' => FedOf[command'[i].chat] # s.fed
                      /\ Coming(s.id)' \/ Queued(s.id, s.fed)' \/ Carried(s.id, s.fed)'
    BY DEF BansComing, FedBans!Chain
  <2>1. /\ command'[j] = w /\ \A i \in Updates \ {j} : command'[i] = command[i]
        /\ excused = {} /\ \A k \in Updates : ~ FedBans!Unbanning(k)
    BY <1>2, <1>4, <1>6
  <2>2. \A i \in Updates : ~ Freeing(command[i])'
    BY <1>7, <2>1 DEF Freeing, FedBans!Unbanning
  <2>3. CASE s = d
    BY <1>7, <2>1, <2>2, <2>3 DEF Coming
  <2>4. CASE s \in bans
    <3>1. Coming(s.id) \/ Queued(s.id, s.fed) \/ Carried(s.id, s.fed)
      BY <1>1, <2>1, <2>4 DEF BansComing
    <3>2. Coming(s.id) => Coming(s.id)'
      <4> SUFFICES ASSUME NEW i \in Updates, command[i].command = "fban",
                          command[i].pc \in {"mark", "act", "save", "queue"}, command[i].doc.id = s.id
                   PROVE  Coming(s.id)'
        BY DEF Coming
      <4>1. command'[i] = command[i]
        BY <1>2, <2>1
      <4> QED
        BY <4>1 DEF Coming
    <3>3. Queued(s.id, s.fed) => Queued(s.id, s.fed)'
      BY <1>3 DEF Queued, Pending, Frees
    <3>4. Carried(s.id, s.fed) => Carried(s.id, s.fed)'
      BY <1>3 DEF Carried, Frees, Pending, FedBans!MemberChats
    <3> QED
      BY <2>2, <3>1, <3>2, <3>3, <3>4
  <2> QED
    BY <1>4, <2>3, <2>4
<1> QED
  BY <1>11, <1>12, <1>13, <1>14 DEF BansInv

\* The ban in the chat of the command: the chat is listed, or about to be.
LEMMA ActKeepsBans ==
    ASSUME BansUsual, BansInv, NEW j \in Updates, FedBans!Act(j) PROVE BansInv'
<1>1. BansTyped /\ BansApart /\ AllAccounted /\ BansComing
  BY DEF BansInv
<1>2. /\ command \in [Updates -> Orders] /\ command[j] \in Orders /\ CommandFits(command[j])
      /\ command[j].pc = "act" /\ command[j].command \in {"fban", "message"} /\ command[j].chat \in Chats
      /\ command[j].doc \in FedBans!Bans /\ Drawn(command[j].doc)
      /\ "race" \notin excused => CommandHolds(command[j])
      /\ UNCHANGED <<bans, lastBan, errands, carrier>>
  BY <1>1 DEF BansTyped, BansApart, FedBans!Act, CommandFits
<1>2a. PICK h \in Chats : h = command[j].chat
  BY <1>2
<1>3. RecordsFit /\ ("race" \notin excused => Grow)
  BY <1>1, <1>2, RecordsStay DEF BansApart
<1>4. ASSUME NEW w \in Orders, command' = [command EXCEPT ![j] = w],
             CommandFits(w), "race" \notin excused => CommandHolds(w),
             ~ Freeing(w),
             command[j].command = "fban" => w.command = "fban" /\ w.pc \in {"save", "queue"} /\ w.doc.id = command[j].doc.id,
             \/ FedBans!BanRefused
             \/ /\ bannedIn' = bannedIn \cup {command[j].chat} /\ UNCHANGED excused
                /\ "race" \notin excused => Accounted(h)'
      PROVE  BansInv'
  <2>1. CommandFits(w)'
    BY <1>2, <1>4 DEF CommandFits, Drawn
  <2>2. bannedIn' \subseteq Chats /\ excused \subseteq excused' /\ bannedIn \subseteq bannedIn'
    BY <1>1, <1>2, <1>4 DEF FedBans!BanRefused, FedBans!Fault, BansTyped
  <2>3. BansTyped'
    BY <1>1, <1>2, <1>3, <1>4, <2>1, <2>2, CommandTyped DEF BansTyped
  <2>4. BansApart'
    <3> SUFFICES ASSUME "race" \notin excused' PROVE "race" \notin excused /\ Grow /\ CommandHolds(w)'
      BY <1>1, <1>2, <1>4, CommandApart
    <3> QED
      BY <1>1, <1>3, <1>4, <2>2, HoldsOn
  <2>5. AllAccounted'
    <3> SUFFICES ASSUME excused' \subseteq {"ban"} PROVE \A c \in bannedIn' \ bannedIn : Accounted(c)'
      BY <1>1, <1>2, <1>4, <2>2, CommandAccounts DEF Freeing
    <3> QED
      BY <1>2a, <1>4, <2>2 DEF FedBans!BanRefused
  <2>6. BansComing'
    BY <1>1, <1>2, <1>4, <2>2, CommandComes
  <2> QED
    BY <2>3, <2>4, <2>5, <2>6 DEF BansInv
<1>5. CASE \/ FedBans!BanRefused /\ FedBans!To(j, IF command[j].command = "fban" THEN "queue" ELSE "done")
           \/ /\ FedBans!Ban(command[j].chat) /\ command[j].chat \in command[j].doc.chats
              /\ FedBans!To(j, IF command[j].command = "fban" THEN "queue" ELSE "done")
  <2>1. ASSUME "race" \notin excused, command[j].chat \in command[j].doc.chats PROVE Accounted(h)'
    <3>1. PICK r \in bans : command[j].doc.chats \subseteq r.chats
      BY <1>2, <2>1 DEF CommandHolds, Listed
    <3> QED
      BY <1>2, <1>2a, <2>1, <3>1 DEF Accounted
  <2>1a. \/ FedBans!BanRefused
         \/ /\ bannedIn' = bannedIn \cup {command[j].chat} /\ UNCHANGED excused
            /\ "race" \notin excused => Accounted(h)'
    BY <1>2a, <1>5, <2>1 DEF FedBans!Ban
  <2>2. CASE command[j].command = "fban"
    <3>1. PICK w \in Orders : w = [command[j] EXCEPT !.pc = "queue"]
      BY <1>2 DEF Orders, FedBans!Steps
    <3>2. command' = [command EXCEPT ![j] = w]
      BY <1>2, <1>5, <2>2, <3>1 DEF FedBans!To
    <3>3. w.pc = "queue" /\ w.doc = command[j].doc /\ w.command = "fban" /\ w.chat = command[j].chat
      BY <1>2, <2>2, <3>1 DEF Orders
    <3>4. CommandFits(w) /\ ("race" \notin excused => CommandHolds(w))
      BY <1>2, <2>2, <3>3 DEF CommandFits, CommandHolds
    <3>5. ~ Freeing(w)
      BY <3>3 DEF Freeing
    <3> QED
      BY <1>4, <2>1a, <3>2, <3>3, <3>4, <3>5
  <2>3. CASE command[j].command = "message"
    <3>1. PICK w \in Orders : w = FedBans!At("done")
      BY DEF Orders, FedBans!Steps, FedBans!At
    <3>2. command' = [command EXCEPT ![j] = w]
      BY <1>2, <1>5, <2>3, <3>1 DEF FedBans!To
    <3>3. w.pc = "done" /\ w.command = "none"
      BY <3>1 DEF FedBans!At
    <3>4. CommandFits(w) /\ CommandHolds(w)
      BY <3>3 DEF CommandFits, CommandHolds
    <3>5. ~ Freeing(w)
      BY <3>3 DEF Freeing
    <3> QED
      BY <1>4, <2>1a, <2>3, <3>2, <3>3, <3>4, <3>5
  <2> QED
    BY <1>2, <2>2, <2>3
<1>6. CASE /\ FedBans!Ban(command[j].chat)
           /\ FedBans!Keep(j, "save", [command[j].doc EXCEPT !.chats = @ \cup {command[j].chat}])
  <2>1. PICK d \in FedBans!Bans : d = [command[j].doc EXCEPT !.chats = @ \cup {command[j].chat}]
    BY <1>2 DEF FedBans!Bans
  <2>2. /\ d.id = command[j].doc.id /\ d.fed = command[j].doc.fed
        /\ d.chats = command[j].doc.chats \cup {command[j].chat}
    BY <1>2, <2>1 DEF FedBans!Bans
  <2>3. PICK w \in Orders : w = [command[j] EXCEPT !.pc = "save", !.doc = d]
    BY <1>2, <2>1 DEF Orders, FedBans!Steps
  <2>4. command' = [command EXCEPT ![j] = w]
    BY <1>2, <1>6, <2>1, <2>3 DEF FedBans!Keep, Orders
  <2>5. w.pc = "save" /\ w.doc = d /\ w.command = command[j].command /\ w.chat = command[j].chat
    BY <1>2, <2>3 DEF Orders
  <2>6. CommandFits(w)
    BY <1>2, <2>1, <2>2, <2>5 DEF CommandFits, Drawn
  <2>7. "race" \notin excused => CommandHolds(w)
    BY <1>2, <2>2, <2>5 DEF CommandHolds, Known, Own
  <2>8. Accounted(h)'
    <3>1. command'[j] = w
      BY <1>2, <2>4
    <3> QED
      BY <1>2a, <2>2, <2>5, <3>1 DEF Accounted
  <2> QED
    BY <1>2a, <1>4, <1>6, <2>2, <2>4, <2>5, <2>6, <2>7, <2>8 DEF Freeing, FedBans!Ban
<1> QED
  BY <1>5, <1>6 DEF FedBans!Act

\* The copy with the chat is saved: the chat is listed.
LEMMA SaveChatKeeps ==
    ASSUME BansUsual, BansInv, NEW j \in Updates, FedBans!SaveChat(j) PROVE BansInv'
<1>1. BansTyped /\ BansApart /\ AllAccounted /\ BansComing
  BY DEF BansInv
<1>2. /\ command \in [Updates -> Orders] /\ command[j] \in Orders /\ CommandFits(command[j])
      /\ command[j].pc = "save" /\ command[j].command \in {"fban", "message"} /\ command[j].chat \in Chats
      /\ command[j].doc \in FedBans!Bans /\ Drawn(command[j].doc)
      /\ UNCHANGED <<lastBan, bannedIn, errands, carrier>>
      /\ FedBans!Save(command[j].doc) /\ FedBans!Raced(FedBans!Overwrites(command[j].doc))
  BY <1>1 DEF BansTyped, FedBans!SaveChat, CommandFits
<1>3. PICK w \in Orders : w = IF command[j].command = "fban" THEN [command[j] EXCEPT !.pc = "queue"]
                                ELSE FedBans!At("done")
  BY <1>2 DEF Orders, FedBans!Steps, FedBans!At
<1>4. command' = [command EXCEPT ![j] = w]
  BY <1>2, <1>3 DEF FedBans!SaveChat, FedBans!To
<1>5. \/ /\ w.pc = "queue" /\ w.doc = command[j].doc /\ w.command = "fban" /\ w.chat = command[j].chat
         /\ command[j].command = "fban"
      \/ w.pc = "done" /\ w.command = "none" /\ command[j].command = "message"
  BY <1>2, <1>3 DEF Orders, FedBans!At
<1>6. RecordsFit
  BY <1>1, <1>2, SavedFits
<1>7. CommandFits(w) /\ ("race" \notin excused /\ CommandHolds(command[j]) => CommandHolds(w))
  BY <1>2, <1>5 DEF CommandFits, CommandHolds
<1>8. CommandFits(w)'
  BY <1>2, <1>7 DEF CommandFits, Drawn
<1>9. ASSUME "race" \notin excused' PROVE "race" \notin excused /\ excused' = excused /\ Grow /\ CommandHolds(w)'
  <2>1. "race" \notin excused /\ excused' = excused /\ ~ FedBans!Overwrites(command[j].doc)
    BY <1>2, <1>9 DEF FedBans!Raced
  <2>2. (\A r \in bans : Own(r)) /\ CommandHolds(command[j])
    BY <1>1, <2>1 DEF BansApart
  <2>3. Grow
    BY <1>1, <1>2, <2>1, <2>2, SavedGrows DEF CommandHolds
  <2> QED
    BY <1>1, <1>7, <2>1, <2>2, <2>3, HoldsOn
<1>10. BansTyped'
  BY <1>1, <1>2, <1>4, <1>6, <1>8, CommandTyped DEF BansTyped
<1>11. BansApart'
  BY <1>1, <1>2, <1>4, <1>9, CommandApart
<1>12. AllAccounted'
  <2> SUFFICES ASSUME excused' \subseteq {"ban"}
               PROVE  /\ excused \subseteq {"ban"} /\ \A r \in bans : \E s \in bans' : r.chats \subseteq s.chats
                      /\ \A c \in command[j].doc.chats : Accounted(c)'
    BY <1>1, <1>2, <1>4, CommandAccounts DEF Freeing
  <2>1. Grow /\ excused' = excused
    BY <1>9
  <2>2. command[j].doc \in bans'
    BY <1>2 DEF FedBans!Save
  <2>3. \A c \in command[j].doc.chats : Accounted(c)'
    BY <2>2 DEF Accounted
  <2> QED
    BY <2>1, <2>3 DEF Grow
<1>13. BansComing'
  <2> SUFFICES ASSUME excused' = {}
               PROVE  /\ excused = {}
                      /\ \A s \in bans' : \E r \in bans : r.id = s.id /\ r.fed = s.fed
    BY <1>1, <1>2, <1>4, <1>5, CommandComes DEF Freeing
  <2>1. Grow /\ excused' = excused
    BY <1>9
  <2> QED
    BY <1>2, <1>6, <2>1 DEF Grow, RecordsFit, FedBans!Bans, FedBans!Ids, BansTyped
<1> QED
  BY <1>10, <1>11, <1>12, <1>13 DEF BansInv

\* The chat of an unban is freed.
LEMMA LiftKeeps ==
    ASSUME BansUsual, BansInv, NEW j \in Updates, FedBans!Lift(j) PROVE BansInv'
<1>1. BansTyped /\ BansApart /\ AllAccounted /\ BansComing
  BY DEF BansInv
<1>2. /\ command \in [Updates -> Orders] /\ command[j] \in Orders /\ CommandFits(command[j])
      /\ command[j].pc = "lift" /\ command[j].command = "funban" /\ command[j].chat \in Chats
      /\ UNCHANGED <<bans, lastBan, errands, carrier>>
      /\ \/ bannedIn' = bannedIn \ {command[j].chat} /\ excused' = excused
         \/ "unban" \in excused' /\ excused \subseteq excused' /\ bannedIn' = bannedIn
  BY <1>1 DEF BansTyped, FedBans!Lift, CommandFits, FedBans!Lifted, FedBans!UnbanRefused, FedBans!Fault
<1>3. PICK w \in Orders : w = [command[j] EXCEPT !.pc = "queue"]
  BY <1>2 DEF Orders, FedBans!Steps
<1>4. command' = [command EXCEPT ![j] = w]
  BY <1>2, <1>3 DEF FedBans!Lift, FedBans!To
<1>5. /\ w.pc = "queue" /\ w.doc = command[j].doc /\ w.command = "funban" /\ w.chat = command[j].chat
      /\ w.listed = command[j].listed
  BY <1>2, <1>3 DEF Orders
<1>6. CommandFits(w) /\ ("race" \notin excused /\ CommandHolds(command[j]) => CommandHolds(w))
  BY <1>2, <1>5 DEF CommandFits, CommandHolds
<1>7. CommandFits(w)' /\ RecordsFit /\ bannedIn' \subseteq Chats
  BY <1>1, <1>2, <1>6, RecordsStay DEF CommandFits, Drawn, BansTyped
<1>8. BansTyped'
  BY <1>1, <1>2, <1>4, <1>7, CommandTyped DEF BansTyped
<1>9. BansApart'
  <2> SUFFICES ASSUME "race" \notin excused' PROVE "race" \notin excused /\ Grow /\ CommandHolds(w)'
    BY <1>1, <1>2, <1>4, CommandApart
  <2>1. "race" \notin excused /\ CommandHolds(command[j]) /\ Grow
    BY <1>1, <1>2, RecordsStay DEF BansApart
  <2> QED
    BY <1>1, <1>6, <2>1, HoldsOn
<1>10. command'[j] = w /\ \A i \in Updates \ {j} : command'[i] = command[i]
  BY <1>2, <1>4
<1>11. AllAccounted'
  <2>1. Freeing(command[j])'
    BY <1>5, <1>10 DEF Freeing
  <2>2. \A c \in command[j].listed : Accounted(c)'
    BY <1>5, <1>10, <2>1 DEF Accounted
  <2> QED
    BY <1>1, <1>2, <1>4, <2>2, CommandAccounts
<1>12. BansComing'
  <2> SUFFICES ASSUME excused' = {}, NEW s \in bans', FedBans!Chain(s.fed) = {}
               PROVE  /\ \A i \in Updates : Freeing(command[i])' => FedOf[command'[i].chat] # s.fed
                      /\ Coming(s.id)' \/ Queued(s.id, s.fed)' \/ Carried(s.id, s.fed)'
    BY DEF BansComing, FedBans!Chain
  <2>1. /\ s \in bans /\ excused = {} /\ bannedIn' = bannedIn \ {command[j].chat}
        /\ \A i \in Updates : Freeing(command[i]) => FedOf[command[i].chat] # s.fed
        /\ Coming(s.id) \/ Queued(s.id, s.fed) \/ Carried(s.id, s.fed)
    BY <1>1, <1>2 DEF BansComing
  <2>2. \A i \in Updates : Freeing(command[i])' => FedOf[command'[i].chat] # s.fed
    BY <1>2, <1>5, <1>10, <2>1 DEF Freeing
  <2>3. FedOf[command[j].chat] # s.fed
    BY <1>2, <2>1 DEF Freeing
  <2>4. Coming(s.id) => Coming(s.id)'
    <3> SUFFICES ASSUME NEW i \in Updates, command[i].command = "fban",
                        command[i].pc \in {"mark", "act", "save", "queue"}, command[i].doc.id = s.id
                 PROVE  Coming(s.id)'
      BY DEF Coming
    <3>1. command'[i] = command[i]
      BY <1>2, <1>10
    <3> QED
      BY <3>1 DEF Coming
  <2>5. Queued(s.id, s.fed) => Queued(s.id, s.fed)'
    BY <1>2 DEF Queued, Pending, Frees
  <2>6. Carried(s.id, s.fed) => Carried(s.id, s.fed)'
    BY <1>2, <2>1, <2>3 DEF Carried, Frees, Pending, FedBans!MemberChats
  <2> QED
    BY <2>1, <2>2, <2>4, <2>5, <2>6
<1> QED
  BY <1>8, <1>9, <1>11, <1>12 DEF BansInv

\* The record of the federation goes; its chats are the ones to be freed.
LEMMA DeleteKeeps ==
    ASSUME BansUsual, BansInv, NEW j \in Updates, FedBans!Delete(j) PROVE BansInv'
<1>1. BansTyped /\ BansApart /\ AllAccounted /\ BansComing
  BY DEF BansInv
<1>2. PICK d \in FedBans!Bans : d = command[j].doc
  BY <1>1 DEF BansTyped, FedBans!Delete, CommandFits
<1>3. /\ command \in [Updates -> Orders] /\ command[j] \in Orders /\ CommandFits(command[j])
      /\ command[j].pc = "delete" /\ command[j].command = "funban" /\ command[j].chat \in Chats
      /\ Drawn(d) /\ UNCHANGED <<lastBan, bannedIn, errands, carrier>>
      /\ bans' = {r \in bans : r.id # d.id}
      /\ excused \subseteq excused'
  BY <1>1, <1>2 DEF BansTyped, FedBans!Delete, CommandFits, FedBans!Raced
<1>4. ASSUME "race" \notin excused'
      PROVE  /\ excused' = excused /\ d \in bans /\ FedBans!Of({d.fed}) = {d}
             /\ \A e \in FedBans!Copies : e # None => e.id # d.id
             /\ CommandHolds(command[j])
  BY <1>1, <1>2, <1>4 DEF FedBans!Delete, FedBans!Raced, BansApart
<1>5. PICK w \in Orders : w = [command[j] EXCEPT !.pc = "unmark"]
  BY <1>3 DEF Orders, FedBans!Steps
<1>6. command' = [command EXCEPT ![j] = w]
  BY <1>3, <1>5 DEF FedBans!Delete, FedBans!To
<1>7. /\ w.pc = "unmark" /\ w.doc = d /\ w.command = "funban" /\ w.chat = command[j].chat
      /\ w.listed = command[j].listed
  BY <1>2, <1>3, <1>5 DEF Orders
<1>8. CommandFits(w)' /\ RecordsFit
  BY <1>1, <1>2, <1>3, <1>7 DEF CommandFits, Drawn, RecordsFit, BansTyped
<1>9. BansTyped'
  BY <1>1, <1>3, <1>6, <1>8, CommandTyped DEF BansTyped
<1>10. command'[j] = w /\ \A i \in Updates \ {j} : command'[i] = command[i]
  BY <1>3, <1>6
<1>11. \A id, f : Agrees(id, f) => Agrees(id, f)'
  BY <1>3 DEF Agrees
<1>12. \A e : e.id # d.id => (Known(e) => Known(e)') /\ (Listed(e) => Listed(e)')
  BY <1>3 DEF Known, Listed
<1>13. BansApart'
  <2> SUFFICES ASSUME "race" \notin excused'
               PROVE  /\ \A r \in bans' : Own(r)
                      /\ \A i \in Updates : CommandHolds(command[i])'
                      /\ \A i \in DOMAIN errands : ErrandHolds(errands[i])'
                      /\ CarrierHolds'
    BY <1>3 DEF BansApart, Own, In
  <2>1. /\ \A e \in FedBans!Copies : e # None => e.id # d.id
        /\ CommandHolds(command[j]) /\ "race" \notin excused
    BY <1>4
  <2>2. \A r \in bans' : Own(r)
    BY <1>1, <1>3, <2>1 DEF BansApart
  <2>3. \A i \in Updates : CommandHolds(command[i])'
    <3>1. ASSUME NEW i \in Updates, i # j PROVE CommandHolds(command[i])'
      <4>1. /\ command'[i] = command[i] /\ command[i] \in Orders /\ CommandFits(command[i])
            /\ CommandHolds(command[i])
        BY <1>1, <1>10, <2>1, <3>1 DEF BansTyped, BansApart
      <4>2. PICK u \in Orders : u = command[i]
        BY <4>1
      <4>3. u.pc \in {"reason", "mark", "act", "save"} => u.doc.id # d.id
        <5> SUFFICES ASSUME u.pc \in {"reason", "mark", "act", "save"} PROVE u.doc.id # d.id
          OBVIOUS
        <5>1. u.doc \in FedBans!Copies
          BY <4>2 DEF FedBans!Copies
        <5>2. u.doc # None
          BY <4>1, <4>2 DEF CommandFits, BansUsual
        <5> QED
          BY <2>1, <5>1, <5>2
      <4>4. CommandHolds(u)'
        BY <1>11, <1>12, <4>1, <4>2, <4>3 DEF CommandHolds, Own, In
      <4> QED
        BY <4>1, <4>2, <4>4 DEF CommandHolds
    <3>2. CommandHolds(w)'
      BY <1>2, <1>3, <1>7, <2>1 DEF CommandHolds, Own, In
    <3> QED
      BY <1>10, <3>1, <3>2 DEF CommandHolds
  <2>4. \A i \in DOMAIN errands : ErrandHolds(errands[i])'
    <3> SUFFICES ASSUME NEW i \in DOMAIN errands PROVE ErrandHolds(errands[i])'
      OBVIOUS
    <3>1. ErrandHolds(errands[i])
      BY <1>1, <2>1 DEF BansApart
    <3> QED
      BY <1>3, <1>11, <3>1 DEF ErrandHolds, In, Agrees
  <2>5. CarrierHolds'
    <3>1. CarrierHolds /\ CarrierFits
      BY <1>1, <2>1 DEF BansApart, BansTyped
    <3>2. carrier.pc = "ban" => carrier.doc # None /\ carrier.doc \in FedBans!Copies
      BY <3>1 DEF CarrierFits, BansUsual, FedBans!Copies
    <3>3. \A e \in carrier.docs : e # None /\ e \in FedBans!Copies
      BY <1>1 DEF BansTyped, Carriers, BansUsual, FedBans!Copies
    <3>4. carrier.pc = "ban" => Known(carrier.doc)'
      BY <1>3, <1>12, <2>1, <3>1, <3>2 DEF CarrierHolds, Known
    <3>5. \A e \in carrier.docs : Known(e)'
      BY <1>12, <2>1, <3>1, <3>3 DEF CarrierHolds
    <3> QED
      BY <1>3, <3>1, <3>4, <3>5 DEF CarrierHolds, Own, In
  <2> QED
    BY <2>2, <2>3, <2>4, <2>5
<1>14. AllAccounted'
  <2> SUFFICES ASSUME excused' \subseteq {"ban"}, NEW c \in bannedIn PROVE Accounted(c)'
    BY <1>3 DEF AllAccounted
  <2>1. excused' = excused /\ d \in bans /\ CommandHolds(command[j])
    BY <1>4
  <2>2. Accounted(c)
    BY <1>1, <2>1 DEF AllAccounted
  <2>3. CASE c \in d.chats
    <3>1. c \in w.listed
      BY <1>2, <1>3, <1>7, <2>1, <2>3 DEF CommandHolds
    <3>2. Freeing(command[j])' /\ c \in command'[j].listed
      BY <1>7, <1>10, <3>1 DEF Freeing
    <3> QED
      BY <3>2 DEF Accounted
  <2>4. CASE c \notin d.chats
    <3>1. CASE \E r \in bans : c \in r.chats
      <4>1. PICK r \in bans : c \in r.chats
        BY <3>1
      <4>2. r.id # d.id
        BY <1>1, <2>1, <2>4, <4>1 DEF BansTyped
      <4> QED
        BY <1>3, <4>1, <4>2 DEF Accounted
    <3>2. CASE \E i \in Updates : command[i].pc = "save" /\ c \in command[i].doc.chats
      <4>1. PICK i \in Updates : command[i].pc = "save" /\ c \in command[i].doc.chats
        BY <3>2
      <4>2. command'[i] = command[i]
        BY <1>3, <1>10, <4>1
      <4> QED
        BY <4>1, <4>2 DEF Accounted
    <3>3. CASE \E i \in Updates : Freeing(command[i]) /\ c \in command[i].listed
      <4>1. PICK i \in Updates : Freeing(command[i]) /\ c \in command[i].listed
        BY <3>3
      <4>2. command'[i] = command[i]
        BY <1>3, <1>10, <4>1 DEF Freeing
      <4>3. Freeing(command[i])' /\ c \in command'[i].listed
        BY <4>1, <4>2 DEF Freeing
      <4> QED
        BY <4>3 DEF Accounted
    <3>4. CASE \/ carrier.pc = "ban" /\ c \in carrier.hit
               \/ \E i \in DOMAIN errands : Pending(i, "funban") /\ c \in errands[i].chats
               \/ carrier.pc = "unban" /\ c \in carrier.left
      BY <1>3, <3>4 DEF Accounted, Pending
    <3> QED
      BY <2>2, <3>1, <3>2, <3>3, <3>4 DEF Accounted
  <2> QED
    BY <2>3, <2>4
<1>15. BansComing'
  <2> SUFFICES ASSUME excused' = {}, NEW s \in bans', FedBans!Chain(s.fed) = {}
               PROVE  /\ \A i \in Updates : Freeing(command[i])' => FedOf[command'[i].chat] # s.fed
                      /\ Coming(s.id)' \/ Queued(s.id, s.fed)' \/ Carried(s.id, s.fed)'
    BY DEF BansComing, FedBans!Chain
  <2>1. excused = {} /\ s \in bans /\ s.id # d.id /\ CommandHolds(command[j]) /\ FedBans!Of({d.fed}) = {d}
    BY <1>3, <1>4
  <2>2. /\ \A i \in Updates : Freeing(command[i]) => FedOf[command[i].chat] # s.fed
        /\ Coming(s.id) \/ Queued(s.id, s.fed) \/ Carried(s.id, s.fed)
    BY <1>1, <2>1 DEF BansComing
  <2>3. FedOf[command[j].chat] # s.fed
    BY <1>2, <1>3, <2>1 DEF CommandHolds, FedBans!Of
  <2>4. \A i \in Updates : Freeing(command[i])' => FedOf[command'[i].chat] # s.fed
    BY <1>7, <1>10, <2>2, <2>3 DEF Freeing
  <2>5. Coming(s.id) => Coming(s.id)'
    <3> SUFFICES ASSUME NEW i \in Updates, command[i].command = "fban",
                        command[i].pc \in {"mark", "act", "save", "queue"}, command[i].doc.id = s.id
                 PROVE  Coming(s.id)'
      BY DEF Coming
    <3>1. command'[i] = command[i]
      BY <1>3, <1>10
    <3> QED
      BY <3>1 DEF Coming
  <2>6. Queued(s.id, s.fed) => Queued(s.id, s.fed)'
    BY <1>3 DEF Queued, Pending, Frees
  <2>7. Carried(s.id, s.fed) => Carried(s.id, s.fed)'
    BY <1>3 DEF Carried, Frees, Pending, FedBans!MemberChats
  <2> QED
    BY <2>2, <2>4, <2>5, <2>6, <2>7
<1> QED
  BY <1>9, <1>13, <1>14, <1>15 DEF BansInv

\* An unban or a ban is queued: behind those that are pending.
LEMMA QueueKeeps ==
    ASSUME BansUsual, BansInv, NEW j \in Updates, FedBans!Queue(j) PROVE BansInv'
<1>1. BansTyped /\ BansApart /\ AllAccounted /\ BansComing
  BY DEF BansInv
<1>2. /\ command \in [Updates -> Orders] /\ command[j] \in Orders /\ CommandFits(command[j])
      /\ command[j].pc = "queue" /\ command[j].command \in {"fban", "funban"} /\ command[j].chat \in Chats
      /\ command[j].doc \in FedBans!Bans /\ Drawn(command[j].doc)
      /\ UNCHANGED <<bans, lastBan, bannedIn, carrier, excused>>
  BY <1>1 DEF BansTyped, FedBans!Queue, CommandFits
<1>3. PICK t \in Errands : t = FedBans!Task(j)
  <2>1. command[j].doc # None /\ command[j].doc.id \in Nat /\ FedOf[command[j].chat] \in Feds
    BY <1>2 DEF BansUsual, FedBans!Bans, FedBans!Ids
  <2>2. command[j].listed \in SUBSET Chats
    BY <1>2 DEF Orders
  <2> DEFINE C == IF command[j].command = "fban" THEN {command[j].chat} ELSE command[j].listed
  <2>3. C \in SUBSET Chats
    BY <1>2, <2>2
  <2>4. FedBans!Task(j) = [status |-> "PENDING", kind |-> command[j].command, fed |-> FedOf[command[j].chat],
                          ban |-> command[j].doc.id, chats |-> C]
    BY <2>1 DEF FedBans!Task, FedBans!Fed
  <2> HIDE DEF C
  <2> QED
    BY <1>2, <2>1, <2>3, <2>4 DEF Errands
<1>4. /\ t.status = "PENDING" /\ t.kind = command[j].command /\ t.fed = FedOf[command[j].chat]
      /\ t.ban = command[j].doc.id
      /\ t.chats = IF command[j].command = "fban" THEN {command[j].chat} ELSE command[j].listed
  BY <1>2, <1>3 DEF FedBans!Task, FedBans!Fed, BansUsual
<1>5. PICK n \in Nat : n = Len(errands)
  BY <1>1 DEF BansTyped
<1>6. /\ errands' = Append(errands, t) /\ errands \in Seq(Errands) /\ errands' \in Seq(Errands)
      /\ DOMAIN errands = 1 .. n /\ DOMAIN errands' = 1 .. (n + 1)
      /\ errands'[n + 1] = t /\ \A i \in 1 .. n : errands'[i] = errands[i]
  BY <1>1, <1>3, <1>5 DEF FedBans!Queue, BansTyped
<1>7. PICK w \in Orders : w = FedBans!At("done")
  BY DEF Orders, FedBans!Steps, FedBans!At
<1>8. w.pc = "done" /\ w.command = "none"
  BY <1>7 DEF FedBans!At
<1>9. /\ command' = [command EXCEPT ![j] = w]
      /\ command'[j] = w /\ \A i \in Updates \ {j} : command'[i] = command[i]
  BY <1>2, <1>7 DEF FedBans!Queue, FedBans!To
<1>10. BansTyped'
  <2>1. \A i \in DOMAIN errands' : errands'[i].ban <= lastBan
    BY <1>1, <1>2, <1>4, <1>6 DEF BansTyped, Drawn
  <2>2. \A i \in Updates : CommandFits(command[i])'
    BY <1>1, <1>2, <1>8, <1>9 DEF BansTyped, CommandFits, Drawn
  <2>3. CarrierFits'
    <3>1. carrier.todo \subseteq 1 .. n
      BY <1>1, <1>6 DEF BansTyped, CarrierFits
    <3>2. \A i \in DOMAIN errands' \ carrier.todo :
              errands'[i].status = "PENDING" => \A k \in carrier.todo : k < i
      <4> SUFFICES ASSUME NEW i \in 1 .. (n + 1), i \notin carrier.todo, errands'[i].status = "PENDING",
                          NEW k \in carrier.todo
                   PROVE  k < i
        BY <1>6
      <4>1. CASE i = n + 1
        BY <3>1, <4>1
      <4>2. CASE i \in 1 .. n
        BY <1>1, <1>6, <4>2 DEF BansTyped, CarrierFits
      <4> QED
        BY <4>1, <4>2
    <3>3. carrier.pc # "idle" => carrier.task \in 1 .. n /\ errands'[carrier.task] = errands[carrier.task]
      BY <1>1, <1>6 DEF BansTyped, CarrierFits
    <3>4. \A i \in carrier.todo : errands'[i].status = "PENDING"
      BY <1>1, <1>6, <3>1 DEF BansTyped, CarrierFits
    <3>5. carrier.todo \subseteq DOMAIN errands' /\ 1 .. n \subseteq DOMAIN errands'
      BY <1>6, <3>1
    <3> QED
      BY <1>1, <1>2, <3>2, <3>3, <3>4, <3>5 DEF BansTyped, CarrierFits, Drawn, FedBans!Chain, Carriers
  <2>4. command' \in [Updates -> Orders]
    BY <1>2, <1>9
  <2> QED
    BY <1>1, <1>2, <1>6, <2>1, <2>2, <2>3, <2>4 DEF BansTyped, Drawn
<1>11. ASSUME "race" \notin excused PROVE CommandHolds(command[j]) /\ \A r \in bans : Own(r)
  BY <1>1, <1>11 DEF BansApart
<1>12. BansApart'
  <2> SUFFICES ASSUME "race" \notin excused
               PROVE  /\ \A i \in Updates : CommandHolds(command[i])'
                      /\ \A i \in DOMAIN errands' : ErrandHolds(errands[i])'
                      /\ CarrierHolds'
    BY <1>1, <1>2 DEF BansApart, Own, In
  <2>1. \A i \in Updates : CommandHolds(command[i])'
    <3> SUFFICES ASSUME NEW i \in Updates PROVE CommandHolds(command[i])'
      OBVIOUS
    <3>1. CASE i = j
      BY <1>8, <1>9, <3>1 DEF CommandHolds
    <3>2. CASE i # j
      <4>1. command'[i] = command[i] /\ CommandHolds(command[i])
        BY <1>1, <1>9, <3>2 DEF BansApart
      <4> QED
        BY <1>2, <4>1 DEF CommandHolds, Known, Listed, Own, In, Agrees
    <3> QED
      BY <3>1, <3>2
  <2>2. \A i \in DOMAIN errands' : ErrandHolds(errands[i])'
    <3> SUFFICES ASSUME NEW i \in 1 .. (n + 1) PROVE ErrandHolds(errands[i])'
      BY <1>6
    <3>1. CASE i = n + 1
      <4>1. errands'[i] = t
        BY <1>6, <3>1
      <4> QED
        BY <1>2, <1>4, <1>11, <4>1 DEF ErrandHolds, CommandHolds, Own, In, Agrees
    <3>2. CASE i \in 1 .. n
      <4>1. errands'[i] = errands[i] /\ ErrandHolds(errands[i])
        BY <1>1, <1>6, <3>2 DEF BansApart
      <4> QED
        BY <1>2, <4>1 DEF ErrandHolds, In, Agrees
    <3> QED
      BY <3>1, <3>2
  <2>3. CarrierHolds'
    <3>1. CarrierHolds
      BY <1>1 DEF BansApart
    <3>2. carrier.pc = "unban" => errands'[carrier.task] = errands[carrier.task]
      BY <1>1, <1>6 DEF BansTyped, CarrierFits
    <3> QED
      BY <1>2, <3>1, <3>2 DEF CarrierHolds, Known, Own, In
  <2> QED
    BY <2>1, <2>2, <2>3
<1>13. \A i \in 1 .. n, k \in {"fban", "funban"} : Pending(i, k) <=> Pending(i, k)'
  BY <1>6 DEF Pending
<1>14. AllAccounted'
  <2> SUFFICES ASSUME excused \subseteq {"ban"}, NEW c \in bannedIn PROVE Accounted(c)'
    BY <1>2 DEF AllAccounted
  <2>1. Accounted(c)
    BY <1>1 DEF AllAccounted
  <2>2. CASE \E r \in bans : c \in r.chats
    BY <1>2, <2>2 DEF Accounted
  <2>3. CASE \E i \in Updates : command[i].pc = "save" /\ c \in command[i].doc.chats
    <3>1. PICK i \in Updates : command[i].pc = "save" /\ c \in command[i].doc.chats
      BY <2>3
    <3>2. command'[i] = command[i]
      BY <1>2, <1>9, <3>1
    <3> QED
      BY <3>1, <3>2 DEF Accounted
  <2>4. CASE \E i \in Updates : Freeing(command[i]) /\ c \in command[i].listed
    <3>1. PICK i \in Updates : Freeing(command[i]) /\ c \in command[i].listed
      BY <2>4
    <3>2. CASE i = j
      <4>1. Pending(n + 1, "funban")' /\ c \in errands'[n + 1].chats /\ n + 1 \in DOMAIN errands'
        BY <1>4, <1>6, <3>1, <3>2 DEF Pending, Freeing
      <4> QED
        BY <4>1 DEF Accounted, Pending
    <3>3. CASE i # j
      <4>1. command'[i] = command[i]
        BY <1>9, <3>3
      <4>2. Freeing(command[i])' /\ c \in command'[i].listed
        BY <3>1, <4>1 DEF Freeing
      <4> QED
        BY <4>2 DEF Accounted
    <3> QED
      BY <3>2, <3>3
  <2>5. CASE \E i \in DOMAIN errands : Pending(i, "funban") /\ c \in errands[i].chats
    <3>1. PICK i \in 1 .. n : Pending(i, "funban") /\ c \in errands[i].chats
      BY <1>6, <2>5
    <3>2. Pending(i, "funban")' /\ c \in errands'[i].chats /\ i \in DOMAIN errands'
      BY <1>6, <1>13, <3>1
    <3> QED
      BY <3>2 DEF Accounted, Pending
  <2>6. CASE \/ carrier.pc = "ban" /\ c \in carrier.hit
             \/ carrier.pc = "unban" /\ c \in carrier.left
    BY <1>2, <2>6 DEF Accounted
  <2> QED
    BY <2>1, <2>2, <2>3, <2>4, <2>5, <2>6 DEF Accounted
<1>15. BansComing'
  <2> SUFFICES ASSUME excused = {}, NEW s \in bans, FedBans!Chain(s.fed) = {}
               PROVE  /\ \A i \in Updates : Freeing(command[i])' => FedOf[command'[i].chat] # s.fed
                      /\ Coming(s.id)' \/ Queued(s.id, s.fed)' \/ Carried(s.id, s.fed)'
    BY <1>2 DEF BansComing, FedBans!Chain
  <2>1. /\ \A i \in Updates : Freeing(command[i]) => FedOf[command[i].chat] # s.fed
        /\ Coming(s.id) \/ Queued(s.id, s.fed) \/ Carried(s.id, s.fed)
        /\ CommandHolds(command[j])
    BY <1>1, <1>11 DEF BansComing
  <2>2. \A i \in Updates : Freeing(command[i])' => FedOf[command'[i].chat] # s.fed
    BY <1>8, <1>9, <2>1 DEF Freeing
  <2>3. \A k \in 1 .. n : Frees(k, s.fed)' => Frees(k, s.fed)
    BY <1>6, <1>13 DEF Frees
  <2>4. ~ Frees(n + 1, s.fed)'
    <3> SUFFICES ASSUME t.kind = "funban", NEW c \in t.chats, FedOf[c] = s.fed PROVE FALSE
      BY <1>6 DEF Frees, Pending
    <3>1. c \in command[j].doc.chats /\ In(c, FedOf[command[j].chat])
      BY <1>2, <1>4, <2>1 DEF CommandHolds, Own
    <3>2. FedOf[command[j].chat] = s.fed
      BY <3>1 DEF In
    <3> QED
      BY <1>2, <1>4, <2>1, <3>2 DEF Freeing
  <2>5. CASE Coming(s.id)
    <3>1. PICK i \in Updates : /\ command[i].command = "fban" /\ command[i].pc \in {"mark", "act", "save", "queue"}
                            /\ command[i].doc.id = s.id
      BY <2>5 DEF Coming
    <3>2. CASE i = j
      <4>1. Pending(n + 1, "fban")' /\ errands'[n + 1].ban = s.id /\ n + 1 \in DOMAIN errands'
        BY <1>4, <1>6, <3>1, <3>2 DEF Pending
      <4>2. \A k \in DOMAIN errands' : Frees(k, s.fed)' => k < n + 1
        <5> SUFFICES ASSUME NEW k \in 1 .. (n + 1), Frees(k, s.fed)' PROVE k < n + 1
          BY <1>6
        <5>1. k # n + 1
          BY <2>4
        <5> QED
          BY <5>1
      <4> QED
        BY <2>2, <4>1, <4>2 DEF Queued
    <3>3. CASE i # j
      <4>1. command'[i] = command[i]
        BY <1>9, <3>3
      <4> QED
        BY <2>2, <3>1, <4>1 DEF Coming
    <3> QED
      BY <2>2, <3>2, <3>3
  <2>6. CASE Queued(s.id, s.fed)
    <3>1. PICK i \in 1 .. n : /\ Pending(i, "fban") /\ errands[i].ban = s.id
                             /\ \A k \in DOMAIN errands : Frees(k, s.fed) => k < i
      BY <1>6, <2>6 DEF Queued
    <3>2. Pending(i, "fban")' /\ errands'[i].ban = s.id /\ i \in DOMAIN errands'
      BY <1>6, <1>13, <3>1
    <3>3. \A k \in DOMAIN errands' : Frees(k, s.fed)' => k < i
      <4> SUFFICES ASSUME NEW k \in 1 .. (n + 1), Frees(k, s.fed)' PROVE k < i
        BY <1>6
      <4>1. k \in 1 .. n
        BY <2>4
      <4> QED
        BY <1>6, <2>3, <3>1, <4>1
    <3> QED
      BY <2>2, <3>2, <3>3 DEF Queued
  <2>7. CASE Carried(s.id, s.fed)
    <3>1. \A k \in DOMAIN errands' : ~ Frees(k, s.fed)'
      <4> SUFFICES ASSUME NEW k \in 1 .. (n + 1), Frees(k, s.fed)' PROVE FALSE
        BY <1>6
      <4>1. k \in 1 .. n
        BY <2>4
      <4>2. Frees(k, s.fed) /\ k \in DOMAIN errands
        BY <1>6, <2>3, <4>1
      <4>3. \A h \in DOMAIN errands : ~ Frees(h, s.fed)
        BY <2>7 DEF Carried
      <4> QED
        BY <4>2, <4>3
    <3>2. carrier.pc = "get" => errands'[carrier.task] = errands[carrier.task]
      BY <1>1, <1>6 DEF BansTyped, CarrierFits
    <3> QED
      BY <1>2, <2>2, <2>7, <3>1, <3>2 DEF Carried, FedBans!MemberChats
  <2> QED
    BY <2>1, <2>5, <2>6, <2>7
<1> QED
  BY <1>10, <1>12, <1>14, <1>15 DEF BansInv

-----------------------------------------------------------------------------
(* The scheduler *)

\* The errands are the same, but for what became of them.
SameErrands ==
    /\ errands' \in Seq(Errands) /\ DOMAIN errands' = DOMAIN errands
    /\ \A i \in DOMAIN errands : /\ errands'[i].kind = errands[i].kind /\ errands'[i].fed = errands[i].fed
                                 /\ errands'[i].ban = errands[i].ban /\ errands'[i].chats = errands[i].chats

LEMMA ErrandMoves ==
    ASSUME BansTyped, NEW i \in DOMAIN errands, NEW s \in {"PENDING", "PROCESSING", "COMPLETED", "FAILED"},
           errands' = [errands EXCEPT ![i].status = s]
    PROVE  /\ SameErrands /\ errands'[i].status = s
           /\ \A k \in DOMAIN errands \ {i} : errands'[k].status = errands[k].status
<1>1. errands \in Seq(Errands) /\ \A k \in DOMAIN errands : errands[k] \in Errands
  BY DEF BansTyped
<1>2. DOMAIN errands' = DOMAIN errands /\ errands'[i] = [errands[i] EXCEPT !.status = s]
      /\ \A k \in DOMAIN errands \ {i} : errands'[k] = errands[k]
  BY <1>1
<1>3. [errands[i] EXCEPT !.status = s] \in Errands
  BY <1>1 DEF Errands
<1>4. errands' \in Seq(Errands)
  BY <1>1, <1>3
<1>5. /\ errands'[i].status = s /\ errands'[i].kind = errands[i].kind /\ errands'[i].fed = errands[i].fed
      /\ errands'[i].ban = errands[i].ban /\ errands'[i].chats = errands[i].chats
  BY <1>1, <1>2 DEF Errands
<1> QED
  BY <1>2, <1>4, <1>5 DEF SameErrands

LEMMA ErrandsStay ==
    ASSUME BansTyped, UNCHANGED errands PROVE SameErrands
BY DEF BansTyped, SameErrands

\* Types, and what is still so, when the scheduler moves.
LEMMA CarrierTyped ==
    ASSUME BansUsual, BansTyped, RecordsFit, SameErrands, UNCHANGED command,
           bannedIn' \subseteq Chats, carrier' \in Carriers, CarrierFits'
    PROVE  BansTyped'
<1>1. \A d \in FedBans!Bans : Drawn(d) => Drawn(d)'
  BY DEF Drawn, RecordsFit, FedBans!Bans, FedBans!Ids, BansUsual, BansTyped
<1>2. \A i \in Updates : CommandFits(command[i])'
  BY <1>1 DEF BansTyped, CommandFits
<1>3. \A i \in DOMAIN errands' : errands'[i].ban <= lastBan'
  <2> SUFFICES ASSUME NEW i \in DOMAIN errands PROVE errands'[i].ban <= lastBan'
    BY DEF SameErrands
  <2>1. errands[i] \in Errands /\ errands[i].ban <= lastBan /\ errands'[i].ban = errands[i].ban
    BY DEF BansTyped, SameErrands
  <2>2. errands[i].ban \in Nat /\ lastBan \in Nat /\ lastBan' \in Nat /\ lastBan <= lastBan'
    BY <2>1 DEF BansTyped, RecordsFit, Errands, BansUsual
  <2> QED
    BY <2>1, <2>2
<1> QED
  BY <1>2, <1>3 DEF BansTyped, RecordsFit, Drawn, SameErrands

LEMMA CarrierApart ==
    ASSUME BansUsual, BansTyped, BansApart, SameErrands, UNCHANGED command,
           "race" \notin excused' => "race" \notin excused /\ Grow /\ CarrierHolds'
    PROVE  BansApart'
<1> SUFFICES ASSUME "race" \notin excused'
             PROVE  /\ \A r \in bans' : Own(r)
                    /\ \A i \in Updates : CommandHolds(command[i])'
                    /\ \A i \in DOMAIN errands : ErrandHolds(errands[i])'
  BY DEF BansApart, Own, In, SameErrands
<1>1. "race" \notin excused /\ Grow
  OBVIOUS
<1>2. \A r \in bans' : Own(r)
  BY <1>1 DEF Grow
<1>3. \A i \in Updates : CommandHolds(command[i])'
  <2> SUFFICES ASSUME NEW i \in Updates PROVE CommandHolds(command[i])'
    OBVIOUS
  <2>1. command[i] \in Orders /\ CommandFits(command[i]) /\ CommandHolds(command[i])
    BY <1>1 DEF BansTyped, BansApart
  <2>2. PICK u \in Orders : u = command[i]
    BY <2>1
  <2>3. CommandHolds(u)'
    BY <1>1, <2>1, <2>2, HoldsOn
  <2> QED
    BY <2>2, <2>3 DEF CommandHolds
<1>4. \A i \in DOMAIN errands : ErrandHolds(errands[i])'
  <2> SUFFICES ASSUME NEW i \in DOMAIN errands PROVE ErrandHolds(errands[i])'
    OBVIOUS
  <2>1. errands[i] \in Errands /\ errands[i].ban <= lastBan /\ ErrandHolds(errands[i])
    BY <1>1 DEF BansTyped, BansApart
  <2>2. PICK t \in Errands : t = errands[i]
    BY <2>1
  <2>3. ErrandHolds(t)'
    BY <1>1, <2>1, <2>2, HoldsOn
  <2> QED
    BY <2>2, <2>3 DEF ErrandHolds, SameErrands
<1> QED
  BY <1>2, <1>3, <1>4

\* No chat is forgotten when the scheduler moves.
LEMMA CarrierAccounts ==
    ASSUME BansUsual, BansTyped, AllAccounted, SameErrands, UNCHANGED command,
           excused' \subseteq {"ban"} =>
               /\ excused \subseteq {"ban"}
               /\ \A r \in bans : \E s \in bans' : r.chats \subseteq s.chats
               /\ \A c \in bannedIn' \ bannedIn : Accounted(c)'
               /\ carrier.pc = "ban" => \A c \in carrier.hit : Accounted(c)'
               /\ carrier.pc = "unban" => \A c \in carrier.left \cap bannedIn' : Accounted(c)'
               /\ \A i \in DOMAIN errands :
                     Pending(i, "funban") /\ errands'[i].status # "PENDING" =>
                         \A c \in errands[i].chats : Accounted(c)'
    PROVE  AllAccounted'
<1> SUFFICES ASSUME excused' \subseteq {"ban"}, NEW c \in bannedIn', c \in bannedIn PROVE Accounted(c)'
  BY DEF AllAccounted
<1>1. Accounted(c)
  BY DEF AllAccounted
<1>2. CASE \E r \in bans : c \in r.chats
  BY <1>2 DEF Accounted
<1>3. CASE \/ \E i \in Updates : command[i].pc = "save" /\ c \in command[i].doc.chats
           \/ \E i \in Updates : Freeing(command[i]) /\ c \in command[i].listed
  BY <1>3 DEF Accounted, Freeing
<1>4. CASE \/ carrier.pc = "ban" /\ c \in carrier.hit
           \/ carrier.pc = "unban" /\ c \in carrier.left
  BY <1>4
<1>5. CASE \E i \in DOMAIN errands : Pending(i, "funban") /\ c \in errands[i].chats
  <2>1. PICK i \in DOMAIN errands : Pending(i, "funban") /\ c \in errands[i].chats
    BY <1>5
  <2>2. CASE errands'[i].status = "PENDING"
    <3>1. Pending(i, "funban")' /\ c \in errands'[i].chats /\ i \in DOMAIN errands'
      BY <2>1, <2>2 DEF Pending, SameErrands
    <3> QED
      BY <3>1 DEF Accounted, Pending
  <2> QED
    BY <2>1, <2>2
<1> QED
  BY <1>1, <1>2, <1>3, <1>4, <1>5 DEF Accounted

\* What a step of the scheduler must leave for the bans to come.
LEMMA CarrierComes ==
    ASSUME BansUsual, BansTyped, BansComing, SameErrands, UNCHANGED command,
           excused' = {} =>
               /\ excused = {}
               /\ \A s \in bans' : FedBans!Chain(s.fed) = {} => \E r \in bans : r.id = s.id /\ r.fed = s.fed
               /\ \A s \in bans' : FedBans!Chain(s.fed) = {} /\ (Queued(s.id, s.fed) \/ Carried(s.id, s.fed)) =>
                      Queued(s.id, s.fed)' \/ Carried(s.id, s.fed)'
    PROVE  BansComing'
<1> SUFFICES ASSUME excused' = {}, NEW s \in bans', FedBans!Chain(s.fed) = {}
             PROVE  /\ \A i \in Updates : Freeing(command[i])' => FedOf[command'[i].chat] # s.fed
                    /\ Coming(s.id)' \/ Queued(s.id, s.fed)' \/ Carried(s.id, s.fed)'
  BY DEF BansComing, FedBans!Chain
<1>1. PICK r \in bans : r.id = s.id /\ r.fed = s.fed
  OBVIOUS
<1>2. /\ \A i \in Updates : Freeing(command[i]) => FedOf[command[i].chat] # s.fed
      /\ Coming(s.id) \/ Queued(s.id, s.fed) \/ Carried(s.id, s.fed)
  BY <1>1 DEF BansComing
<1>3. \A i \in Updates : Freeing(command[i])' => FedOf[command'[i].chat] # s.fed
  BY <1>2 DEF Freeing
<1>4. Coming(s.id) => Coming(s.id)'
  BY DEF Coming
<1> QED
  BY <1>2, <1>3, <1>4
\* Steps of the scheduler that leave the records and the bans of Telegram
\* alone.
LEMMA CarrierTurns ==
    ASSUME BansUsual, BansInv, SameErrands, UNCHANGED <<bans, lastBan, bannedIn, command>>,
           excused \subseteq excused', carrier' \in Carriers, CarrierFits',
           "race" \notin excused' => CarrierHolds',
           excused' \subseteq {"ban"} =>
               /\ (carrier.pc = "ban" /\ carrier.hit # {}) => carrier'.pc = "ban" /\ carrier.hit \subseteq carrier'.hit
               /\ carrier.pc = "unban" /\ carrier.left # {} =>
                      carrier'.pc = "unban" /\ carrier.left \subseteq carrier'.left
               /\ \A i \in DOMAIN errands :
                     Pending(i, "funban") /\ errands'[i].status # "PENDING" =>
                         carrier'.pc = "unban" /\ errands[i].chats \subseteq carrier'.left,
           excused' = {} =>
               \A s \in bans : FedBans!Chain(s.fed) = {} /\ (Queued(s.id, s.fed) \/ Carried(s.id, s.fed)) =>
                   Queued(s.id, s.fed)' \/ Carried(s.id, s.fed)'
    PROVE  BansInv'
<1>1. BansTyped /\ BansApart /\ AllAccounted /\ BansComing
  BY DEF BansInv
<1>2. RecordsFit
  BY <1>1, RecordsStay
<1>3. BansTyped'
  BY <1>1, <1>2, CarrierTyped DEF BansTyped
<1>4. BansApart'
  <2> SUFFICES ASSUME "race" \notin excused' PROVE "race" \notin excused /\ Grow
    BY <1>1, CarrierApart
  <2>1. "race" \notin excused /\ \A r \in bans : Own(r)
    BY <1>1 DEF BansApart
  <2> QED
    BY <1>1, <2>1, RecordsStay
<1>5. AllAccounted'
  <2> SUFFICES ASSUME excused' \subseteq {"ban"}
               PROVE  /\ carrier.pc = "ban" => \A c \in carrier.hit : Accounted(c)'
                      /\ carrier.pc = "unban" => \A c \in carrier.left \cap bannedIn' : Accounted(c)'
                      /\ \A i \in DOMAIN errands :
                            Pending(i, "funban") /\ errands'[i].status # "PENDING" =>
                                \A c \in errands[i].chats : Accounted(c)'
    BY <1>1, CarrierAccounts
  <2> QED
    BY DEF Accounted
<1>6. BansComing'
  BY <1>1, CarrierComes
<1> QED
  BY <1>3, <1>4, <1>5, <1>6 DEF BansInv

\* The list of what is pending.
LEMMA PollKeeps ==
    ASSUME BansUsual, BansInv, FedBans!Poll PROVE BansInv'
<1>1. BansTyped /\ BansApart
  BY DEF BansInv
<1>2. /\ carrier.pc = "idle" /\ carrier \in Carriers /\ CarrierFits
      /\ UNCHANGED <<bans, lastBan, bannedIn, errands, command, excused>>
  BY <1>1 DEF BansTyped, FedBans!Poll
<1>3. PICK T \in SUBSET Nat : T = {i \in DOMAIN errands : errands[i].status = "PENDING"}
  <2>1. PICK n \in Nat : DOMAIN errands = 1 .. n
    BY <1>1 DEF BansTyped
  <2>2. {i \in DOMAIN errands : errands[i].status = "PENDING"} \in SUBSET Nat
    BY <2>1
  <2> QED
    BY <2>2
<1>4. carrier' = [carrier EXCEPT !.todo = T]
  BY <1>3 DEF FedBans!Poll
<1>5. carrier' \in Carriers /\ carrier'.pc = "idle" /\ carrier'.todo = T
      /\ carrier'.docs = carrier.docs /\ carrier'.feds = carrier.feds
  BY <1>2, <1>4 DEF Carriers
<1>6. CarrierFits'
  BY <1>2, <1>3, <1>5 DEF CarrierFits, Drawn, FedBans!Chain
<1>7. ASSUME "race" \notin excused PROVE CarrierHolds'
  BY <1>1, <1>2, <1>5, <1>7 DEF BansApart, CarrierHolds, Known, Own, In
<1>8. SameErrands
  BY <1>1, <1>2, ErrandsStay
<1>9. ASSUME NEW s \in bans, Queued(s.id, s.fed) \/ Carried(s.id, s.fed)
      PROVE  Queued(s.id, s.fed)' \/ Carried(s.id, s.fed)'
  <2>1. Queued(s.id, s.fed) => Queued(s.id, s.fed)'
    BY <1>2 DEF Queued, Pending, Frees
  <2>2. Carried(s.id, s.fed) => Carried(s.id, s.fed)'
    BY <1>2, <1>5 DEF Carried, Pending, Frees, FedBans!MemberChats
  <2> QED
    BY <1>9, <2>1, <2>2
<1> QED
  BY <1>2, <1>5, <1>6, <1>7, <1>8, <1>9, CarrierTurns DEF Pending

\* The oldest errand of the list is taken.
LEMMA StartKeeps ==
    ASSUME BansUsual, BansInv, NEW i \in DOMAIN errands, FedBans!Start(i) PROVE BansInv'
<1>1. BansTyped /\ BansApart
  BY DEF BansInv
<1>2. /\ carrier.pc = "idle" /\ carrier \in Carriers /\ CarrierFits
      /\ i \in carrier.todo /\ \A k \in carrier.todo : i <= k
      /\ UNCHANGED <<bans, lastBan, bannedIn, command, excused>>
      /\ errands' = [errands EXCEPT ![i].status = "PROCESSING"]
  BY <1>1 DEF BansTyped, FedBans!Start
<1>3. /\ SameErrands /\ errands'[i].status = "PROCESSING"
      /\ \A k \in DOMAIN errands \ {i} : errands'[k].status = errands[k].status
  BY <1>1, <1>2, ErrandMoves
<1>4. errands[i] \in Errands /\ errands[i].status = "PENDING" /\ errands \in Seq(Errands)
  BY <1>1, <1>2 DEF BansTyped, CarrierFits
<1>5. PICK L \in SUBSET Chats : L = IF errands[i].kind = "fban" THEN {} ELSE errands[i].chats
  BY <1>4 DEF Errands
<1>6. PICK p \in {"get", "unban"} : p = IF errands[i].kind = "fban" THEN "get" ELSE "unban"
  OBVIOUS
<1>7. carrier' = [pc |-> p, task |-> i, todo |-> carrier.todo \ {i}, doc |-> None, left |-> L, hit |-> {},
                  feds |-> {}, fed |-> None, docs |-> {}]
  BY <1>5, <1>6 DEF FedBans!Start, FedBans!Idle
<1>8. carrier' \in Carriers
  <2>1. i \in Nat /\ carrier.todo \ {i} \in SUBSET Nat
    BY <1>2, <1>4 DEF Carriers
  <2> QED
    BY <1>7, <2>1 DEF Carriers
<1>9. /\ carrier'.pc = p /\ carrier'.task = i /\ carrier'.todo = carrier.todo \ {i} /\ carrier'.left = L
      /\ carrier'.hit = {}
      /\ carrier'.feds = {} /\ carrier'.docs = {}
  BY <1>7
<1>10. \A k \in DOMAIN errands, x \in {"fban", "funban"} : Pending(k, x)' <=> k # i /\ Pending(k, x)
  BY <1>3 DEF Pending, SameErrands
<1>11. CarrierFits'
  <2>1. carrier'.todo \subseteq DOMAIN errands' /\ \A k \in carrier'.todo : errands'[k].status = "PENDING"
    BY <1>2, <1>3, <1>9 DEF CarrierFits, SameErrands
  <2>2. ASSUME NEW k \in DOMAIN errands' \ carrier'.todo, errands'[k].status = "PENDING"
        PROVE  \A h \in carrier'.todo : h < k
    BY <1>2, <1>3, <1>9, <2>2 DEF CarrierFits, SameErrands
  <2>3. /\ carrier'.task \in DOMAIN errands' /\ errands'[carrier'.task].status = "PROCESSING"
        /\ p = "get" => errands'[i].kind = "fban"
        /\ p = "unban" => errands'[i].kind = "funban"
    BY <1>3, <1>4, <1>6, <1>9 DEF SameErrands, Errands
  <2> QED
    BY <1>9, <2>1, <2>2, <2>3 DEF CarrierFits
<1>12. CarrierHolds'
  <2>1. p = "unban" => L = errands'[i].chats
    BY <1>3, <1>5, <1>6 DEF SameErrands
  <2> QED
    BY <1>9, <2>1 DEF CarrierHolds
<1>13. ASSUME NEW k \in DOMAIN errands, Pending(k, "funban"), errands'[k].status # "PENDING"
       PROVE  carrier'.pc = "unban" /\ errands[k].chats \subseteq carrier'.left
  <2>1. k = i /\ errands[i].kind = "funban"
    BY <1>3, <1>13 DEF Pending
  <2> QED
    BY <1>5, <1>6, <1>9, <2>1
<1>14. \A k \in DOMAIN errands, f \in Feds : Frees(k, f)' <=> k # i /\ Frees(k, f)
  BY <1>10, <1>3 DEF Frees, SameErrands
<1>15. ASSUME excused = {}, NEW s \in bans, Queued(s.id, s.fed) \/ Carried(s.id, s.fed)
       PROVE  Queued(s.id, s.fed)' \/ Carried(s.id, s.fed)'
  <2>1. s.fed \in Feds
    BY <1>1 DEF BansTyped, FedBans!Bans
  <2>2. CASE Queued(s.id, s.fed)
    <3>1. PICK q \in DOMAIN errands : /\ Pending(q, "fban") /\ errands[q].ban = s.id
                                     /\ \A k \in DOMAIN errands : Frees(k, s.fed) => k < q
      BY <2>2 DEF Queued
    <3>2. CASE q # i
      <4>1. q \in DOMAIN errands' /\ Pending(q, "fban")' /\ errands'[q].ban = s.id
        BY <1>3, <1>10, <3>1, <3>2 DEF SameErrands
      <4>2. \A k \in DOMAIN errands' : Frees(k, s.fed)' => k < q
        BY <1>3, <1>14, <2>1, <3>1 DEF SameErrands
      <4> QED
        BY <1>2, <4>1, <4>2 DEF Queued
    <3>3. CASE q = i
      <4>1. p = "get" /\ errands'[i].ban = s.id
        BY <1>3, <1>6, <3>1, <3>3 DEF Pending, SameErrands
      <4>2. \A k \in DOMAIN errands : Frees(k, s.fed) => FALSE
        <5> SUFFICES ASSUME NEW k \in DOMAIN errands, Frees(k, s.fed) PROVE FALSE
          OBVIOUS
        <5>1. k < i /\ errands[k].status = "PENDING" /\ i \in Nat /\ k \in Nat
          BY <1>4, <3>1, <3>3 DEF Frees, Pending
        <5>2. k \notin carrier.todo
          BY <1>2, <5>1
        <5>3. i < k
          BY <1>2, <5>1, <5>2 DEF CarrierFits
        <5> QED
          BY <5>1, <5>3
      <4>3. \A k \in DOMAIN errands' : ~ Frees(k, s.fed)'
        BY <1>3, <1>14, <2>1, <4>2 DEF SameErrands
      <4> QED
        BY <1>2, <1>9, <4>1, <4>3 DEF Carried
    <3> QED
      BY <3>2, <3>3
  <2>3. CASE Carried(s.id, s.fed)
    <3>1. \A k \in DOMAIN errands : ~ Frees(k, s.fed)
      BY <2>3 DEF Carried
    <3>2. \A c \in FedBans!MemberChats(s.fed) \cap Present : c \in bannedIn
      BY <1>2, <2>3 DEF Carried
    <3>3. \A k \in DOMAIN errands' : ~ Frees(k, s.fed)'
      BY <1>3, <1>14, <2>1, <3>1 DEF SameErrands
    <3>4. p = "unban" => \A c \in L : FedOf[c] # s.fed
      <4> SUFFICES ASSUME p = "unban", NEW c \in L, FedOf[c] = s.fed PROVE FALSE
        OBVIOUS
      <4>1. errands[i].kind = "funban" /\ c \in errands[i].chats
        BY <1>4, <1>5, <1>6 DEF Errands
      <4>2. Frees(i, s.fed)
        BY <1>4, <4>1 DEF Frees, Pending
      <4> QED
        BY <3>1, <4>2
    <3> QED
      BY <1>2, <1>9, <3>2, <3>3, <3>4 DEF Carried, FedBans!MemberChats
  <2> QED
    BY <1>15, <2>2, <2>3
<1> QED
  BY <1>2, <1>3, <1>8, <1>11, <1>12, <1>13, <1>15, CarrierTurns

\* The errand in hand comes to its end.
LEMMA CarrierEnds ==
    ASSUME BansUsual, BansInv, carrier.pc # "idle", NEW s \in {"COMPLETED", "FAILED"}, FedBans!Status(s),
           carrier' = [FedBans!Idle EXCEPT !.todo = carrier.todo],
           UNCHANGED <<bans, lastBan, bannedIn, command>>, excused \subseteq excused',
           excused' \subseteq {"ban"} =>
               /\ carrier.pc = "ban" => carrier.hit = {}
               /\ carrier.pc = "unban" => carrier.left = {},
           excused' = {} =>
               /\ carrier.pc = "get" => \A r \in bans : r.id # errands[carrier.task].ban
               /\ carrier.pc = "ban" => carrier.left = {}
    PROVE  BansInv'
<1>1. BansTyped /\ BansApart
  BY DEF BansInv
<1>2. carrier \in Carriers /\ CarrierFits
  BY <1>1 DEF BansTyped
<1>3. PICK i \in DOMAIN errands : i = carrier.task /\ errands[i].status = "PROCESSING"
  BY <1>2 DEF CarrierFits
<1>4. /\ SameErrands /\ errands'[i].status = s
      /\ \A k \in DOMAIN errands \ {i} : errands'[k].status = errands[k].status
  BY <1>1, <1>3, ErrandMoves DEF FedBans!Status
<1>5. carrier' = [pc |-> "idle", task |-> 0, todo |-> carrier.todo, doc |-> None, left |-> {}, hit |-> {},
                  feds |-> {}, fed |-> None, docs |-> {}]
  BY DEF FedBans!Idle
<1>6. carrier' \in Carriers
  <2>1. PICK T \in SUBSET Nat : T = carrier.todo
    BY <1>2 DEF Carriers
  <2>2. PICK q \in Carriers : q = [pc |-> "idle", task |-> 0, todo |-> T, doc |-> None, left |-> {}, hit |-> {},
                                  feds |-> {}, fed |-> None, docs |-> {}]
    BY DEF Carriers
  <2> QED
    BY <1>5, <2>1, <2>2
<1>7. /\ carrier'.pc = "idle" /\ carrier'.todo = carrier.todo /\ carrier'.feds = {} /\ carrier'.docs = {}
  BY <1>5
<1>8. \A k \in DOMAIN errands, x \in {"fban", "funban"} : Pending(k, x)' <=> Pending(k, x)
  BY <1>3, <1>4 DEF Pending, SameErrands
<1>9. CarrierFits'
  <2>1. i \notin carrier.todo
    BY <1>2, <1>3 DEF CarrierFits
  <2>2. carrier'.todo \subseteq DOMAIN errands' /\ \A k \in carrier'.todo : errands'[k].status = "PENDING"
    BY <1>2, <1>4, <1>7, <2>1 DEF CarrierFits, SameErrands
  <2>3. ASSUME NEW k \in DOMAIN errands' \ carrier'.todo, errands'[k].status = "PENDING"
        PROVE  \A h \in carrier'.todo : h < k
    BY <1>2, <1>3, <1>4, <1>7, <2>3 DEF CarrierFits, SameErrands
  <2> QED
    BY <1>7, <2>2, <2>3 DEF CarrierFits
<1>10. CarrierHolds'
  BY <1>7 DEF CarrierHolds
<1>11. \A k \in DOMAIN errands, f \in Feds : Frees(k, f)' <=> Frees(k, f)
  BY <1>4, <1>8 DEF Frees, SameErrands
<1>12. ASSUME NEW k \in DOMAIN errands, Pending(k, "funban"), errands'[k].status # "PENDING" PROVE FALSE
  BY <1>3, <1>4, <1>12 DEF Pending
<1>13. ASSUME excused' = {}, NEW r \in bans, Queued(r.id, r.fed) \/ Carried(r.id, r.fed)
       PROVE  Queued(r.id, r.fed)' \/ Carried(r.id, r.fed)'
  <2>1. r.fed \in Feds
    BY <1>1 DEF BansTyped, FedBans!Bans
  <2>2. CASE Queued(r.id, r.fed)
    <3>1. PICK q \in DOMAIN errands : /\ Pending(q, "fban") /\ errands[q].ban = r.id
                                     /\ \A k \in DOMAIN errands : Frees(k, r.fed) => k < q
      BY <2>2 DEF Queued
    <3>2. q \in DOMAIN errands' /\ Pending(q, "fban")' /\ errands'[q].ban = r.id
      BY <1>4, <1>8, <3>1 DEF SameErrands
    <3>3. \A k \in DOMAIN errands' : Frees(k, r.fed)' => k < q
      BY <1>4, <1>11, <2>1, <3>1 DEF SameErrands
    <3> QED
      BY <3>2, <3>3 DEF Queued
  <2>3. CASE Carried(r.id, r.fed)
    <3>1. \A k \in DOMAIN errands : ~ Frees(k, r.fed)
      BY <2>3 DEF Carried
    <3>2. \A c \in FedBans!MemberChats(r.fed) \cap Present : c \in bannedIn
      BY <1>13, <2>3 DEF Carried
    <3>3. \A k \in DOMAIN errands' : ~ Frees(k, r.fed)'
      BY <1>4, <1>11, <2>1, <3>1 DEF SameErrands
    <3> QED
      BY <1>7, <3>2, <3>3 DEF Carried, FedBans!MemberChats
  <2> QED
    BY <1>13, <2>2, <2>3
<1> QED
  BY <1>4, <1>6, <1>9, <1>10, <1>12, <1>13, CarrierTurns

\* The record of the errand is fetched.
LEMMA GetBanKeeps ==
    ASSUME BansUsual, BansInv, FedBans!GetBan PROVE BansInv'
<1>1. BansTyped /\ BansApart
  BY DEF BansInv
<1>2. /\ carrier.pc = "get" /\ carrier \in Carriers /\ CarrierFits
      /\ UNCHANGED <<bans, lastBan, bannedIn, command, excused>>
  BY <1>1 DEF BansTyped, FedBans!GetBan
<1>3. CASE /\ \A r \in bans : r.id # FedBans!Current.ban
           /\ FedBans!Status("COMPLETED")
           /\ carrier' = [FedBans!Idle EXCEPT !.todo = carrier.todo]
  BY <1>2, <1>3, CarrierEnds DEF FedBans!Current
<1>4. ASSUME NEW r \in bans, r.id = FedBans!Current.ban, UNCHANGED errands,
             carrier' = [carrier EXCEPT
                 !.pc = "ban", !.doc = r, !.feds = FedBans!Followers(r.fed),
                 !.left = (FedBans!MemberChats(r.fed) \cap Present) \cup FedBans!Current.chats]
      PROVE  BansInv'
  <2>1. SameErrands
    BY <1>1, <1>4, ErrandsStay
  <2>2. PICK i \in DOMAIN errands : i = carrier.task /\ errands[i].status = "PROCESSING" /\ errands[i].kind = "fban"
    BY <1>2 DEF CarrierFits
  <2>3. errands[i] \in Errands /\ r \in FedBans!Bans /\ Drawn(r) /\ r.id = errands[i].ban
    BY <1>1, <1>4, <2>2 DEF BansTyped, FedBans!Current
  <2>4. PICK L \in SUBSET Chats : L = (FedBans!MemberChats(r.fed) \cap Present) \cup errands[i].chats
    BY <2>3 DEF FedBans!MemberChats, Errands
  <2>5. PICK F \in SUBSET Feds : F = FedBans!Followers(r.fed)
    BY DEF FedBans!Followers
  <2>6. carrier' = [carrier EXCEPT !.pc = "ban", !.doc = r, !.feds = F, !.left = L]
    BY <1>4, <2>2, <2>4, <2>5 DEF FedBans!Current
  <2>7. /\ carrier' \in Carriers /\ carrier'.pc = "ban" /\ carrier'.doc = r /\ carrier'.feds = F
        /\ carrier'.left = L /\ carrier'.hit = carrier.hit /\ carrier'.docs = carrier.docs
        /\ carrier'.todo = carrier.todo /\ carrier'.task = carrier.task
    BY <1>2, <2>3, <2>6 DEF Carriers
  <2>8. CarrierFits'
    <3>1. \A g \in F : FedBans!Chain(g) # {}
      BY <2>5 DEF FedBans!Followers
    <3> QED
      BY <1>2, <1>4, <2>2, <2>3, <2>7, <3>1 DEF CarrierFits, Drawn, FedBans!Chain
  <2>9. ASSUME "race" \notin excused PROVE CarrierHolds'
    <3>1. CarrierHolds /\ ErrandHolds(errands[i]) /\ Own(r)
      BY <1>1, <1>4, <2>2, <2>9 DEF BansApart
    <3>2. r.fed = errands[i].fed
      BY <1>4, <2>2, <2>3, <3>1 DEF ErrandHolds, Agrees
    <3>3. \A c \in L : In(c, r.fed)
      BY <2>2, <2>4, <3>1, <3>2 DEF ErrandHolds, In, FedBans!MemberChats
    <3> QED
      BY <1>2, <1>4, <2>7, <3>1, <3>3 DEF CarrierHolds, CarrierFits, Known, Own, In
  <2>10. ASSUME excused = {}, NEW s \in bans, Queued(s.id, s.fed) \/ Carried(s.id, s.fed)
        PROVE  Queued(s.id, s.fed)' \/ Carried(s.id, s.fed)'
    <3>1. Queued(s.id, s.fed) => Queued(s.id, s.fed)'
      BY <1>2, <1>4 DEF Queued, Pending, Frees
    <3>2. ASSUME Carried(s.id, s.fed) PROVE Carried(s.id, s.fed)'
      <4>1. \A k \in DOMAIN errands' : ~ Frees(k, s.fed)'
        BY <1>4, <3>2 DEF Carried, Frees, Pending
      <4>2. \A c \in FedBans!MemberChats(s.fed) \cap Present : c \in bannedIn \/ c \in L
        <5>1. CASE errands[i].ban = s.id
          <6>1. r = s
            BY <1>1, <2>3, <5>1 DEF BansTyped
          <6> QED
            BY <2>4, <6>1
        <5>2. CASE errands[i].ban # s.id
          BY <1>2, <2>2, <3>2, <5>2 DEF Carried
        <5> QED
          BY <5>1, <5>2
      <4> QED
        BY <1>2, <2>7, <4>1, <4>2 DEF Carried, FedBans!MemberChats
    <3> QED
      BY <2>10, <3>1, <3>2
  <2> QED
    BY <1>2, <1>4, <2>1, <2>7, <2>8, <2>9, <2>10, CarrierTurns DEF Pending
<1> QED
  BY <1>3, <1>4 DEF FedBans!GetBan

\* A chat of the errand is banned, or is not.
LEMMA BanChatKeeps ==
    ASSUME BansUsual, BansInv, NEW c \in Chats, FedBans!BanChat(c) PROVE BansInv'
<1>1. BansTyped /\ BansApart /\ AllAccounted /\ BansComing
  BY DEF BansInv
<1>2. /\ carrier.pc = "ban" /\ c \in carrier.left /\ carrier \in Carriers /\ CarrierFits
      /\ UNCHANGED <<bans, lastBan, errands, command>>
  BY <1>1 DEF BansTyped, FedBans!BanChat
<1>3. SameErrands /\ RecordsFit
  BY <1>1, <1>2, ErrandsStay, RecordsStay
<1>4. PICK H \in SUBSET Chats : /\ carrier' = [carrier EXCEPT !.left = @ \ {c}, !.hit = H]
                               /\ \/ H = carrier.hit \cup {c} /\ bannedIn' = bannedIn \cup {c} /\ excused' = excused
                                  \/ H = carrier.hit /\ bannedIn' = bannedIn /\ excused' = excused \cup {"ban"}
  <2>1. CASE FedBans!Ban(c) /\ carrier' = [carrier EXCEPT !.left = @ \ {c}, !.hit = @ \cup {c}]
    <3>1. carrier.hit \cup {c} \in SUBSET Chats
      BY <1>2 DEF Carriers
    <3> QED
      BY <2>1, <3>1 DEF FedBans!Ban
  <2>2. CASE FedBans!BanRefused /\ carrier' = [carrier EXCEPT !.left = @ \ {c}]
    <3>1. carrier.hit \in SUBSET Chats /\ carrier' = [carrier EXCEPT !.left = @ \ {c}, !.hit = carrier.hit]
      BY <1>2, <2>2 DEF Carriers
    <3> QED
      BY <2>2, <3>1 DEF FedBans!BanRefused, FedBans!Fault
  <2> QED
    BY <2>1, <2>2 DEF FedBans!BanChat
<1>5. /\ carrier' \in Carriers /\ carrier'.pc = "ban" /\ carrier'.left = carrier.left \ {c}
      /\ carrier'.hit = H /\ carrier'.doc = carrier.doc /\ carrier'.feds = carrier.feds
      /\ carrier'.docs = carrier.docs /\ carrier'.todo = carrier.todo /\ carrier'.task = carrier.task
  BY <1>2, <1>4 DEF Carriers
<1>6. CarrierFits'
  BY <1>2, <1>5 DEF CarrierFits, Drawn, FedBans!Chain
<1>7. BansTyped'
  <2>1. bannedIn' \subseteq Chats
    BY <1>1, <1>4 DEF BansTyped
  <2> QED
    BY <1>1, <1>2, <1>3, <1>5, <1>6, <2>1, CarrierTyped
<1>8. BansApart'
  <2> SUFFICES ASSUME "race" \notin excused' PROVE "race" \notin excused /\ Grow /\ CarrierHolds'
    BY <1>1, <1>2, <1>3, CarrierApart
  <2>1. "race" \notin excused
    BY <1>4
  <2>2. (\A r \in bans : Own(r)) /\ CarrierHolds
    BY <1>1, <2>1 DEF BansApart
  <2>3. Grow
    BY <1>1, <1>2, <2>2, RecordsStay
  <2>4. \A x \in carrier'.left \cup carrier'.hit : x \in carrier.left \cup carrier.hit
    BY <1>2, <1>4, <1>5
  <2> QED
    BY <1>2, <1>5, <2>1, <2>2, <2>3, <2>4 DEF CarrierHolds, Known, Own, In
<1>9. AllAccounted'
  <2> SUFFICES ASSUME excused' \subseteq {"ban"}
               PROVE  /\ \A x \in bannedIn' \ bannedIn : Accounted(x)'
                      /\ \A x \in carrier.hit : Accounted(x)'
    <3>1. /\ excused' \subseteq {"ban"} => excused \subseteq {"ban"}
          /\ \A r \in bans : \E s \in bans' : r.chats \subseteq s.chats
      BY <1>2, <1>4
    <3>2. \A i \in DOMAIN errands : Pending(i, "funban") /\ errands'[i].status # "PENDING" => FALSE
      BY <1>2 DEF Pending
    <3> QED
      BY <1>1, <1>2, <1>3, <3>1, <3>2, CarrierAccounts
  <2>1. \A x \in H : Accounted(x)'
    BY <1>5 DEF Accounted
  <2> QED
    BY <1>4, <2>1
<1>10. BansComing'
  <2> SUFFICES ASSUME excused' = {}
               PROVE  \A s \in bans : Queued(s.id, s.fed) \/ Carried(s.id, s.fed) =>
                          Queued(s.id, s.fed)' \/ Carried(s.id, s.fed)'
    BY <1>1, <1>2, <1>3, <1>4, CarrierComes
  <2> SUFFICES ASSUME NEW s \in bans, Queued(s.id, s.fed) \/ Carried(s.id, s.fed)
               PROVE  Queued(s.id, s.fed)' \/ Carried(s.id, s.fed)'
    OBVIOUS
  <2>1. Queued(s.id, s.fed) => Queued(s.id, s.fed)'
    BY <1>2 DEF Queued, Pending, Frees
  <2>2. bannedIn' = bannedIn \cup {c}
    BY <1>4
  <2>3. Carried(s.id, s.fed) => Carried(s.id, s.fed)'
    BY <1>2, <1>5, <2>2 DEF Carried, Pending, Frees, FedBans!MemberChats
  <2> QED
    BY <2>1, <2>3
<1> QED
  BY <1>7, <1>8, <1>9, <1>10 DEF BansInv

\* The record of the errand, or of a subscriber, is saved with the chats.
LEMMA SaveBanKeeps ==
    ASSUME BansUsual, BansInv, FedBans!SaveBan PROVE BansInv'
<1>1. BansTyped /\ BansApart /\ AllAccounted /\ BansComing
  BY DEF BansInv
<1>2. /\ carrier.pc = "ban" /\ carrier.left = {} /\ carrier \in Carriers /\ CarrierFits
      /\ carrier.doc \in FedBans!Bans /\ Drawn(carrier.doc)
      /\ UNCHANGED <<lastBan, bannedIn, errands, command>>
  BY <1>1 DEF BansTyped, FedBans!SaveBan, CarrierFits
<1>3. PICK d \in FedBans!Bans : /\ d = [carrier.doc EXCEPT !.chats = @ \cup carrier.hit]
                              /\ d.id = carrier.doc.id /\ d.fed = carrier.doc.fed
                              /\ d.chats = carrier.doc.chats \cup carrier.hit
  <2>1. carrier.hit \in SUBSET Chats
    BY <1>2 DEF Carriers
  <2>2. PICK C \in SUBSET Chats : C = carrier.doc.chats \cup carrier.hit
    BY <1>2, <2>1 DEF FedBans!Bans
  <2>3. PICK e \in FedBans!Bans : e = carrier.doc
    BY <1>2
  <2>4. [e EXCEPT !.chats = C] \in FedBans!Bans
    BY DEF FedBans!Bans
  <2>5. /\ [e EXCEPT !.chats = C].id = e.id /\ [e EXCEPT !.chats = C].fed = e.fed
        /\ [e EXCEPT !.chats = C].chats = C
    BY DEF FedBans!Bans
  <2>6. [carrier.doc EXCEPT !.chats = @ \cup carrier.hit] = [e EXCEPT !.chats = C]
    BY <2>2, <2>3
  <2> QED
    BY <2>2, <2>3, <2>4, <2>5, <2>6
<1>4. IF carrier.hit = {} THEN UNCHANGED <<bans, excused>>
      ELSE FedBans!Save(d) /\ FedBans!Raced(FedBans!Overwrites(d))
  BY <1>3 DEF FedBans!SaveBan
<1>5. carrier' = [carrier EXCEPT !.pc = "lazy", !.doc = None, !.hit = {}]
  BY DEF FedBans!SaveBan
<1>6. /\ carrier' \in Carriers /\ carrier'.pc = "lazy" /\ carrier'.hit = {} /\ carrier'.left = carrier.left
      /\ carrier'.feds = carrier.feds /\ carrier'.docs = carrier.docs
      /\ carrier'.todo = carrier.todo /\ carrier'.task = carrier.task
  BY <1>2, <1>5 DEF Carriers
<1>7. CarrierFits'
  BY <1>2, <1>6 DEF CarrierFits, Drawn, FedBans!Chain
<1>8. SameErrands /\ Drawn(d) /\ excused \subseteq excused'
  BY <1>1, <1>2, <1>3, <1>4, ErrandsStay DEF Drawn, FedBans!Raced
<1>9. RecordsFit
  BY <1>1, <1>2, <1>4, <1>8, SavedFits, RecordsStay
<1>10. BansTyped'
  BY <1>1, <1>2, <1>6, <1>7, <1>8, <1>9, CarrierTyped DEF BansTyped
<1>11. ASSUME "race" \notin excused'
       PROVE  "race" \notin excused /\ excused' = excused /\ Grow /\ CarrierHolds
  <2>1. "race" \notin excused
    BY <1>8, <1>11
  <2>2. (\A r \in bans : Own(r)) /\ CarrierHolds
    BY <1>1, <2>1 DEF BansApart
  <2>3. Known(d) /\ Own(d)
    BY <1>2, <1>3, <2>2 DEF CarrierHolds, Known, Own
  <2>4. UNCHANGED bans \/ (FedBans!Save(d) /\ ~ FedBans!Overwrites(d))
    BY <1>4, <1>11 DEF FedBans!Raced
  <2>5. Grow
    BY <1>1, <1>2, <1>8, <2>2, <2>3, <2>4, RecordsStay, SavedGrows
  <2>6. excused' = excused
    BY <1>4, <1>11 DEF FedBans!Raced
  <2> QED
    BY <2>1, <2>2, <2>5, <2>6
<1>12. BansApart'
  <2> SUFFICES ASSUME "race" \notin excused' PROVE CarrierHolds'
    BY <1>1, <1>2, <1>8, <1>11, CarrierApart
  <2>1. CarrierHolds /\ Grow
    BY <1>11
  <2> QED
    BY <1>6, <2>1, StillKnown DEF CarrierHolds, Own, In
<1>13. AllAccounted'
  <2> SUFFICES ASSUME excused' \subseteq {"ban"}
               PROVE  /\ excused \subseteq {"ban"}
                      /\ \A r \in bans : \E s \in bans' : r.chats \subseteq s.chats
                      /\ \A c \in carrier.hit : Accounted(c)'
    <3>1. \A i \in DOMAIN errands : Pending(i, "funban") /\ errands'[i].status # "PENDING" => FALSE
      BY <1>2 DEF Pending
    <3> QED
      BY <1>1, <1>2, <1>8, <3>1, CarrierAccounts
  <2>1. Grow
    BY <1>11
  <2>2. \A c \in carrier.hit : d \in bans' /\ c \in d.chats
    BY <1>3, <1>4 DEF FedBans!Save
  <2> QED
    BY <1>8, <2>1, <2>2 DEF Grow, Accounted
<1>14. BansComing'
  <2> SUFFICES ASSUME excused' = {}
               PROVE  /\ \A s \in bans' : \E r \in bans : r.id = s.id /\ r.fed = s.fed
                      /\ \A s \in bans' : Queued(s.id, s.fed) \/ Carried(s.id, s.fed) =>
                             Queued(s.id, s.fed)' \/ Carried(s.id, s.fed)'
    BY <1>1, <1>2, <1>8, CarrierComes
  <2>1. Grow
    BY <1>11
  <2>2. \A s \in bans' : \E r \in bans : r.id = s.id /\ r.fed = s.fed
    BY <1>2, <1>9, <2>1 DEF Grow, RecordsFit, FedBans!Bans, FedBans!Ids
  <2>3. ASSUME NEW s \in bans', Queued(s.id, s.fed) \/ Carried(s.id, s.fed)
        PROVE  Queued(s.id, s.fed)' \/ Carried(s.id, s.fed)'
    <3>1. PICK x, f : x = s.id /\ f = s.fed
      OBVIOUS
    <3>2. Queued(x, f) => Queued(x, f)'
      BY <1>2 DEF Queued, Pending, Frees
    <3>3. Carried(x, f) => Carried(x, f)'
      BY <1>2, <1>6 DEF Carried, Pending, Frees, FedBans!MemberChats
    <3> QED
      BY <2>3, <3>1, <3>2, <3>3
  <2> QED
    BY <2>2, <2>3
<1> QED
  BY <1>10, <1>12, <1>13, <1>14 DEF BansInv

\* A subscriber is passed over, or gets a record of its own.
LEMMA LazyKeeps ==
    ASSUME BansUsual, BansInv, NEW g \in Feds, FedBans!Lazy(g) PROVE BansInv'
<1>1. BansTyped /\ BansApart
  BY DEF BansInv
<1>2. /\ carrier.pc = "lazy" /\ g \in carrier.feds /\ carrier \in Carriers /\ CarrierFits
      /\ UNCHANGED <<bans, lastBan, bannedIn, errands, command, excused>>
  BY <1>1 DEF BansTyped, FedBans!Lazy
<1>3. PICK p \in {"lazy", "insert"}, h \in {carrier.fed, g} :
          carrier' = [carrier EXCEPT !.feds = @ \ {g}, !.pc = p, !.fed = h] /\ (p = "insert" => h = g)
  <2>1. CASE carrier' = [carrier EXCEPT !.feds = @ \ {g}]
    <3>1. carrier' = [carrier EXCEPT !.feds = @ \ {g}, !.pc = "lazy", !.fed = carrier.fed]
      BY <1>2, <2>1 DEF Carriers
    <3> QED
      BY <3>1
  <2>2. CASE carrier' = [carrier EXCEPT !.feds = @ \ {g}, !.pc = "insert", !.fed = g]
    BY <2>2
  <2> QED
    BY <2>1, <2>2 DEF FedBans!Lazy
<1>4. /\ carrier' \in Carriers /\ carrier'.pc = p /\ carrier'.fed = h /\ carrier'.feds = carrier.feds \ {g}
      /\ carrier'.hit = carrier.hit /\ carrier'.left = carrier.left /\ carrier'.docs = carrier.docs
      /\ carrier'.todo = carrier.todo /\ carrier'.task = carrier.task
  BY <1>2, <1>3 DEF Carriers
<1>5. CarrierFits'
  BY <1>2, <1>3, <1>4 DEF CarrierFits, Drawn, FedBans!Chain
<1>6. ASSUME "race" \notin excused PROVE CarrierHolds'
  BY <1>1, <1>2, <1>4, <1>6 DEF BansApart, CarrierHolds, Known, Own, In
<1>7. ASSUME NEW s \in bans, Queued(s.id, s.fed) \/ Carried(s.id, s.fed)
      PROVE  Queued(s.id, s.fed)' \/ Carried(s.id, s.fed)'
  <2>1. Queued(s.id, s.fed) => Queued(s.id, s.fed)'
    BY <1>2 DEF Queued, Pending, Frees
  <2>2. Carried(s.id, s.fed) => Carried(s.id, s.fed)'
    BY <1>2, <1>4 DEF Carried, Pending, Frees, FedBans!MemberChats
  <2> QED
    BY <1>7, <2>1, <2>2
<1>8. SameErrands
  BY <1>1, <1>2, ErrandsStay
<1> QED
  BY <1>2, <1>4, <1>5, <1>6, <1>7, <1>8, CarrierTurns DEF Pending

\* The chats of a subscriber are next.
LEMMA LazyBanKeeps ==
    ASSUME BansUsual, BansInv, NEW d \in carrier.docs, FedBans!LazyBan(d) PROVE BansInv'
<1>1. BansTyped /\ BansApart
  BY DEF BansInv
<1>2. /\ carrier.pc = "lazy" /\ carrier \in Carriers /\ CarrierFits
      /\ UNCHANGED <<bans, lastBan, bannedIn, errands, command, excused>>
  BY <1>1 DEF BansTyped, FedBans!LazyBan
<1>3. d \in FedBans!Bans /\ Drawn(d)
  BY <1>2 DEF Carriers, CarrierFits
<1>4. PICK L \in SUBSET Chats : L = FedBans!MemberChats(d.fed) \cap Present
  BY DEF FedBans!MemberChats
<1>5. carrier' = [carrier EXCEPT !.pc = "ban", !.doc = d, !.docs = @ \ {d}, !.left = L]
  BY <1>4 DEF FedBans!LazyBan
<1>6. /\ carrier' \in Carriers /\ carrier'.pc = "ban" /\ carrier'.doc = d /\ carrier'.feds = carrier.feds
      /\ carrier'.hit = carrier.hit /\ carrier'.left = L /\ carrier'.docs = carrier.docs \ {d}
      /\ carrier'.todo = carrier.todo /\ carrier'.task = carrier.task
  BY <1>2, <1>3, <1>5 DEF Carriers
<1>7. CarrierFits'
  BY <1>2, <1>3, <1>6 DEF CarrierFits, Drawn, FedBans!Chain
<1>8. ASSUME "race" \notin excused PROVE CarrierHolds'
  <2>1. CarrierHolds /\ carrier.hit = {} /\ \A c \in L : In(c, d.fed)
    BY <1>1, <1>2, <1>4, <1>8 DEF BansApart, CarrierFits, In, FedBans!MemberChats
  <2> QED
    BY <1>2, <1>6, <2>1 DEF CarrierHolds, Known, Own, In
<1>9. ASSUME NEW s \in bans, Queued(s.id, s.fed) \/ Carried(s.id, s.fed)
      PROVE  Queued(s.id, s.fed)' \/ Carried(s.id, s.fed)'
  <2>1. Queued(s.id, s.fed) => Queued(s.id, s.fed)'
    BY <1>2 DEF Queued, Pending, Frees
  <2>2. Carried(s.id, s.fed) => Carried(s.id, s.fed)'
    BY <1>2, <1>6 DEF Carried, Pending, Frees, FedBans!MemberChats
  <2> QED
    BY <1>9, <2>1, <2>2
<1>10. SameErrands
  BY <1>1, <1>2, ErrandsStay
<1> QED
  BY <1>2, <1>6, <1>7, <1>8, <1>9, <1>10, CarrierTurns DEF Pending

\* The record of a subscriber is inserted.
LEMMA LazyInsertKeeps ==
    ASSUME BansUsual, BansInv, FedBans!LazyInsert PROVE BansInv'
<1>1. BansTyped /\ BansApart /\ AllAccounted /\ BansComing
  BY DEF BansInv
<1>2. /\ carrier.pc = "insert" /\ carrier \in Carriers /\ CarrierFits
      /\ carrier.fed \in Feds /\ FedBans!Chain(carrier.fed) # {}
      /\ UNCHANGED <<bannedIn, errands, command>>
  BY <1>1 DEF BansTyped, FedBans!LazyInsert, CarrierFits
<1>3. PICK f \in Feds, o \in {None} \cup Feds : f = carrier.fed /\ o = FedBans!Current.fed
  <2>1. PICK i \in DOMAIN errands : i = carrier.task
    BY <1>2 DEF CarrierFits
  <2>2. errands[i] \in Errands
    BY <1>1 DEF BansTyped
  <2>3. errands[i].fed \in Feds
    BY <2>2 DEF Errands
  <2> QED
    BY <1>2, <2>1, <2>3 DEF FedBans!Current
<1>4. FedBans!Insert(f, o)
  BY <1>3 DEF FedBans!LazyInsert
<1>5. PICK d \in FedBans!Bans :
          /\ d = [id |-> lastBan + 1, fed |-> f, origin |-> o, chats |-> {}]
          /\ bans' = bans \cup {d} /\ lastBan' = lastBan + 1
          /\ RecordsFit /\ excused \subseteq excused'
          /\ "race" \notin excused' => excused' = excused
          /\ (\A r \in bans : Own(r)) => Grow
  BY <1>1, <1>4, InsertFits
<1>6. d.id = lastBan + 1 /\ d.fed = f /\ d.chats = {} /\ d \in bans' /\ d.id = lastBan'
  BY <1>5
<1>7. carrier' = [carrier EXCEPT !.pc = "lazy", !.fed = None, !.docs = @ \cup {d}]
  <2>1. [FedBans!Added(f) EXCEPT !.origin = o] = d
    BY <1>5 DEF FedBans!Added
  <2> QED
    BY <1>3, <2>1 DEF FedBans!LazyInsert
<1>8. /\ carrier' \in Carriers /\ carrier'.pc = "lazy" /\ carrier'.hit = carrier.hit
      /\ carrier'.left = carrier.left
      /\ carrier'.feds = carrier.feds /\ carrier'.docs = carrier.docs \cup {d}
      /\ carrier'.todo = carrier.todo /\ carrier'.task = carrier.task
  BY <1>2, <1>7 DEF Carriers
<1>9. CarrierFits'
  <2>1. \A e \in carrier.docs : Drawn(e)'
    <3> SUFFICES ASSUME NEW e \in carrier.docs PROVE e.id <= lastBan'
      BY DEF Drawn
    <3>1. e.id \in Nat /\ e.id <= lastBan /\ lastBan \in Nat
      BY <1>1, <1>2 DEF CarrierFits, Drawn, Carriers, FedBans!Bans, FedBans!Ids, BansTyped, BansUsual
    <3> QED
      BY <1>5, <3>1
  <2>2. Drawn(d)'
    <3>1. lastBan' \in Nat /\ d.id = lastBan'
      BY <1>5, <1>6 DEF RecordsFit, BansUsual
    <3> QED
      BY <3>1 DEF Drawn
  <2> QED
    BY <1>2, <1>8, <2>1, <2>2 DEF CarrierFits, FedBans!Chain
<1>10. SameErrands
  BY <1>1, <1>2, ErrandsStay
<1>11. BansTyped'
  BY <1>1, <1>2, <1>5, <1>8, <1>9, <1>10, CarrierTyped DEF BansTyped
<1>12. BansApart'
  <2> SUFFICES ASSUME "race" \notin excused' PROVE "race" \notin excused /\ Grow /\ CarrierHolds'
    BY <1>1, <1>2, <1>10, CarrierApart
  <2>1. "race" \notin excused
    BY <1>5
  <2>2. (\A r \in bans : Own(r)) /\ CarrierHolds
    BY <1>1, <2>1 DEF BansApart
  <2>3. Grow
    BY <1>5, <2>2
  <2>4. Known(d)' /\ Own(d)
    BY <1>6 DEF Known, Own
  <2>5. \A e \in carrier.docs : Known(e)' /\ Own(e)
    BY <2>2, <2>3, StillKnown DEF CarrierHolds
  <2> QED
    BY <1>8, <2>1, <2>3, <2>4, <2>5 DEF CarrierHolds, Own, In
<1>13. AllAccounted'
  <2>1. \A i \in DOMAIN errands : Pending(i, "funban") /\ errands'[i].status # "PENDING" => FALSE
    BY <1>2 DEF Pending
  <2>2. \A r \in bans : \E s \in bans' : r.chats \subseteq s.chats
    BY <1>5
  <2> QED
    BY <1>1, <1>2, <1>5, <1>10, <2>1, <2>2, CarrierAccounts
<1>14. BansComing'
  <2>1. \A s \in bans' : FedBans!Chain(s.fed) = {} => s \in bans
    BY <1>2, <1>3, <1>5, <1>6
  <2>2. ASSUME NEW s \in bans, Queued(s.id, s.fed) \/ Carried(s.id, s.fed)
        PROVE  Queued(s.id, s.fed)' \/ Carried(s.id, s.fed)'
    <3>1. Queued(s.id, s.fed) => Queued(s.id, s.fed)'
      BY <1>2 DEF Queued, Pending, Frees
    <3>2. Carried(s.id, s.fed) => Carried(s.id, s.fed)'
      BY <1>2, <1>8 DEF Carried, Pending, Frees, FedBans!MemberChats
    <3> QED
      BY <2>2, <3>1, <3>2
  <2> QED
    BY <1>1, <1>2, <1>5, <1>10, <2>1, <2>2, CarrierComes
<1> QED
  BY <1>11, <1>12, <1>13, <1>14 DEF BansInv

\* A chat of an unban is freed, or is not.
LEMMA UnbanChatKeeps ==
    ASSUME BansUsual, BansInv, NEW c \in Chats, FedBans!UnbanChat(c) PROVE BansInv'
<1>1. BansTyped /\ BansApart /\ AllAccounted /\ BansComing
  BY DEF BansInv
<1>2. /\ carrier.pc = "unban" /\ carrier \in Carriers /\ CarrierFits
      /\ UNCHANGED <<bans, lastBan, errands, command>>
      /\ carrier' = [carrier EXCEPT !.left = @ \ {c}]
  BY <1>1 DEF BansTyped, FedBans!UnbanChat
<1>3. SameErrands /\ RecordsFit
  BY <1>1, <1>2, ErrandsStay, RecordsStay
<1>4. \/ bannedIn' = bannedIn \ {c} /\ excused' = excused
      \/ bannedIn' = bannedIn /\ excused' = excused \cup {"unban"}
  BY DEF FedBans!UnbanChat, FedBans!Lifted, FedBans!UnbanRefused, FedBans!Fault
<1>5. /\ carrier' \in Carriers /\ carrier'.pc = "unban" /\ carrier'.left = carrier.left \ {c}
      /\ carrier'.feds = carrier.feds /\ carrier'.hit = carrier.hit
      /\ carrier'.docs = carrier.docs /\ carrier'.todo = carrier.todo /\ carrier'.task = carrier.task
  BY <1>2 DEF Carriers
<1>6. CarrierFits'
  BY <1>2, <1>5 DEF CarrierFits, Drawn, FedBans!Chain
<1>7. BansTyped'
  <2>1. bannedIn' \subseteq Chats
    BY <1>1, <1>4 DEF BansTyped
  <2> QED
    BY <1>1, <1>2, <1>3, <1>5, <1>6, <2>1, CarrierTyped
<1>8. BansApart'
  <2> SUFFICES ASSUME "race" \notin excused' PROVE "race" \notin excused /\ Grow /\ CarrierHolds'
    BY <1>1, <1>2, <1>3, CarrierApart
  <2>1. "race" \notin excused
    BY <1>4
  <2>2. (\A r \in bans : Own(r)) /\ CarrierHolds
    BY <1>1, <2>1 DEF BansApart
  <2>3. Grow
    BY <1>1, <1>2, <2>2, RecordsStay
  <2> QED
    BY <1>2, <1>5, <2>1, <2>2, <2>3 DEF CarrierHolds, Known, Own, In
<1>9. AllAccounted'
  <2>1. /\ excused' \subseteq {"ban"} => excused \subseteq {"ban"} /\ bannedIn' = bannedIn \ {c}
        /\ \A r \in bans : \E s \in bans' : r.chats \subseteq s.chats
    BY <1>2, <1>4
  <2>2. \A i \in DOMAIN errands : Pending(i, "funban") /\ errands'[i].status # "PENDING" => FALSE
    BY <1>2 DEF Pending
  <2>3. \A x \in carrier.left \ {c} : Accounted(x)'
    BY <1>5 DEF Accounted
  <2> QED
    BY <1>1, <1>2, <1>3, <2>1, <2>2, <2>3, CarrierAccounts
<1>10. BansComing'
  <2> SUFFICES ASSUME excused' = {}
               PROVE  \A s \in bans : Queued(s.id, s.fed) \/ Carried(s.id, s.fed) =>
                          Queued(s.id, s.fed)' \/ Carried(s.id, s.fed)'
    BY <1>1, <1>2, <1>3, <1>4, CarrierComes
  <2> SUFFICES ASSUME NEW s \in bans, Queued(s.id, s.fed) \/ Carried(s.id, s.fed)
               PROVE  Queued(s.id, s.fed)' \/ Carried(s.id, s.fed)'
    OBVIOUS
  <2>1. Queued(s.id, s.fed) => Queued(s.id, s.fed)'
    BY <1>2 DEF Queued, Pending, Frees
  <2>2. bannedIn' = bannedIn \ {c}
    BY <1>4
  <2>3. c \in carrier.left
    BY DEF FedBans!UnbanChat
  <2>4. ASSUME Carried(s.id, s.fed) PROVE Carried(s.id, s.fed)'
    <3>1. \A k \in DOMAIN errands' : ~ Frees(k, s.fed)'
      BY <1>2, <2>4 DEF Carried, Pending, Frees
    <3>2. \A x \in carrier.left : FedOf[x] # s.fed
      BY <1>2, <2>4 DEF Carried
    <3>3. \A x \in FedBans!MemberChats(s.fed) \cap Present : x \in bannedIn'
      BY <1>2, <2>2, <2>3, <2>4, <3>2 DEF Carried, FedBans!MemberChats
    <3> QED
      BY <1>5, <3>1, <3>2, <3>3 DEF Carried, FedBans!MemberChats
  <2> QED
    BY <2>1, <2>4
<1> QED
  BY <1>7, <1>8, <1>9, <1>10 DEF BansInv

\* The errand is done, it fails, the scheduler dies, or a lost errand is
\* given up.
LEMMA FinishKeeps ==
    ASSUME BansUsual, BansInv, FedBans!Complete PROVE BansInv'
<1>1. /\ carrier.pc \in {"lazy", "unban"} /\ (carrier.pc = "unban" => carrier.left = {})
      /\ FedBans!Status("COMPLETED") /\ carrier' = [FedBans!Idle EXCEPT !.todo = carrier.todo]
      /\ UNCHANGED <<bans, lastBan, bannedIn, command, excused>>
  BY DEF FedBans!Complete
<1> QED
  BY <1>1, CarrierEnds

LEMMA FailKeeps ==
    ASSUME BansUsual, BansInv, FedBans!Fail PROVE BansInv'
<1>1. /\ carrier.pc # "idle" /\ excused \subseteq excused' /\ "crash" \in excused'
      /\ FedBans!Status("FAILED") /\ carrier' = [FedBans!Idle EXCEPT !.todo = carrier.todo]
      /\ UNCHANGED <<bans, lastBan, bannedIn, command>>
  BY DEF FedBans!Fail, FedBans!Fault
<1> QED
  BY <1>1, CarrierEnds

LEMMA CrashKeeps ==
    ASSUME BansUsual, BansInv, FedBans!Crash PROVE BansInv'
<1>1. BansTyped
  BY DEF BansInv
<1>2. /\ excused \subseteq excused' /\ "crash" \in excused'
      /\ UNCHANGED <<bans, lastBan, bannedIn, errands, command>>
  BY DEF FedBans!Crash, FedBans!Fault
<1>3. PICK w \in Carriers :
          w = [pc |-> "idle", task |-> 0, todo |-> {}, doc |-> None, left |-> {}, hit |-> {},
               feds |-> {}, fed |-> None, docs |-> {}]
  BY DEF Carriers
<1>4. carrier' = w
  BY <1>3 DEF FedBans!Crash, FedBans!Idle
<1>5. w.pc = "idle" /\ w.todo = {} /\ w.feds = {} /\ w.docs = {}
  BY <1>3
<1>6. CarrierFits' /\ CarrierHolds'
  BY <1>4, <1>5 DEF CarrierFits, CarrierHolds
<1>7. SameErrands
  BY <1>1, <1>2, ErrandsStay
<1> QED
  BY <1>2, <1>4, <1>6, <1>7, CarrierTurns

LEMMA ReapKeeps ==
    ASSUME BansUsual, BansInv, NEW i \in DOMAIN errands, FedBans!Reap(i) PROVE BansInv'
<1>1. BansTyped /\ BansApart
  BY DEF BansInv
<1>2. /\ carrier \in Carriers /\ CarrierFits /\ errands[i].status = "PROCESSING" /\ carrier.task # i
      /\ UNCHANGED <<bans, lastBan, bannedIn, command, carrier, excused>>
      /\ errands' = [errands EXCEPT ![i].status = "FAILED"]
  BY <1>1 DEF BansTyped, FedBans!Reap
<1>3. /\ SameErrands /\ errands'[i].status = "FAILED"
      /\ \A k \in DOMAIN errands \ {i} : errands'[k].status = errands[k].status
  BY <1>1, <1>2, ErrandMoves
<1>4. \A k \in DOMAIN errands, x \in {"fban", "funban"} : Pending(k, x)' <=> Pending(k, x)
  BY <1>2, <1>3 DEF Pending, SameErrands
<1>5. \A k \in DOMAIN errands, f \in Feds : Frees(k, f)' <=> Frees(k, f)
  BY <1>3, <1>4 DEF Frees, SameErrands
<1>6. CarrierFits'
  <2>1. carrier.todo \subseteq DOMAIN errands' /\ \A k \in carrier.todo : errands'[k].status = "PENDING"
    BY <1>2, <1>3 DEF CarrierFits, SameErrands
  <2>2. ASSUME NEW k \in DOMAIN errands' \ carrier.todo, errands'[k].status = "PENDING"
        PROVE  \A h \in carrier.todo : h < k
    BY <1>2, <1>3, <2>2 DEF CarrierFits, SameErrands
  <2>3. carrier.pc # "idle" =>
            /\ carrier.task \in DOMAIN errands' /\ errands'[carrier.task].status = "PROCESSING"
            /\ errands'[carrier.task].kind = errands[carrier.task].kind
    BY <1>2, <1>3 DEF CarrierFits, SameErrands
  <2> QED
    BY <1>2, <2>1, <2>2, <2>3 DEF CarrierFits, Drawn, FedBans!Chain
<1>7. ASSUME "race" \notin excused PROVE CarrierHolds'
  <2>1. CarrierHolds
    BY <1>1, <1>7 DEF BansApart
  <2>2. carrier.pc = "unban" => errands'[carrier.task].chats = errands[carrier.task].chats
    BY <1>2, <1>3 DEF CarrierFits, SameErrands
  <2> QED
    BY <1>2, <2>1, <2>2 DEF CarrierHolds, Known, Own, In
<1>8. \A k \in DOMAIN errands : Pending(k, "funban") => errands'[k].status = "PENDING"
  BY <1>2, <1>3 DEF Pending
<1>9. ASSUME NEW s \in bans, Queued(s.id, s.fed) \/ Carried(s.id, s.fed)
      PROVE  Queued(s.id, s.fed)' \/ Carried(s.id, s.fed)'
  <2>1. s.fed \in Feds
    BY <1>1 DEF BansTyped, FedBans!Bans
  <2>2. CASE Queued(s.id, s.fed)
    <3>1. PICK q \in DOMAIN errands : /\ Pending(q, "fban") /\ errands[q].ban = s.id
                                     /\ \A k \in DOMAIN errands : Frees(k, s.fed) => k < q
      BY <2>2 DEF Queued
    <3>2. q \in DOMAIN errands' /\ Pending(q, "fban")' /\ errands'[q].ban = s.id
      BY <1>3, <1>4, <3>1 DEF SameErrands
    <3>3. \A k \in DOMAIN errands' : Frees(k, s.fed)' => k < q
      BY <1>3, <1>5, <2>1, <3>1 DEF SameErrands
    <3> QED
      BY <1>2, <3>2, <3>3 DEF Queued
  <2>3. CASE Carried(s.id, s.fed)
    <3>1. \A k \in DOMAIN errands : ~ Frees(k, s.fed)
      BY <2>3 DEF Carried
    <3>2. \A k \in DOMAIN errands' : ~ Frees(k, s.fed)'
      BY <1>3, <1>5, <2>1, <3>1 DEF SameErrands
    <3>3. carrier.pc = "get" => errands'[carrier.task].ban = errands[carrier.task].ban
      BY <1>2, <1>3 DEF CarrierFits, SameErrands
    <3> QED
      BY <1>2, <2>3, <3>2, <3>3 DEF Carried, FedBans!MemberChats
  <2> QED
    BY <1>9, <2>2, <2>3
<1> QED
  BY <1>2, <1>3, <1>6, <1>7, <1>8, <1>9, CarrierTurns

\* A step of the rest of the system, or the end of a cached status.
LEMMA BansStay ==
    ASSUME BansUsual, BansInv, UNCHANGED <<bans, lastBan, bannedIn, errands, command, carrier, excused>>
    PROVE  BansInv'
<1>1. BansTyped /\ BansApart
  BY DEF BansInv
<1>2. carrier \in Carriers /\ CarrierFits
  BY <1>1 DEF BansTyped
<1>3. CarrierFits'
  BY <1>2 DEF CarrierFits, Drawn, FedBans!Chain
<1>4. "race" \notin excused => CarrierHolds'
  BY <1>1 DEF BansApart, CarrierHolds, Known, Own, In
<1>5. SameErrands
  BY <1>1, ErrandsStay
<1>6. \A s \in bans : Queued(s.id, s.fed) \/ Carried(s.id, s.fed) => Queued(s.id, s.fed)' \/ Carried(s.id, s.fed)'
  <2> SUFFICES ASSUME NEW s \in bans
               PROVE  /\ Queued(s.id, s.fed) => Queued(s.id, s.fed)'
                      /\ Carried(s.id, s.fed) => Carried(s.id, s.fed)'
    OBVIOUS
  <2> QED
    BY DEF Queued, Carried, Pending, Frees, FedBans!MemberChats
<1> QED
  BY <1>2, <1>3, <1>4, <1>5, <1>6, CarrierTurns DEF Pending

\* Every step of the bans, and of what is composed with them, keeps the
\* invariant.
LEMMA BansNextPreserves ==
    ASSUME BansUsual, BansInv, [FedBans!Next]_FedBans!vars PROVE BansInv'
<1>1. ASSUME NEW j \in Updates, FedBans!Handle(j) PROVE BansInv'
  BY <1>1, ReasonKeeps, BanUserKeeps, MarkKeeps, ActKeepsBans, SaveChatKeeps, QueueKeeps, FindKeepsBans,
     InheritedKeeps, DeleteKeeps, UnmarkKeeps, LiftKeeps, LookupKeeps, EndKeeps DEF FedBans!Handle
<1>2. ASSUME NEW j \in Updates, FedBans!Die(j) PROVE BansInv'
  BY <1>2, EndKeeps
<1>3. ASSUME NEW j \in Updates, NEW c \in Chats, FedBans!Receive(j, c) PROVE BansInv'
  BY <1>3, ReceiveKeeps
<1>4. CASE FedBans!Work
  BY <1>4, PollKeeps, GetBanKeeps, SaveBanKeeps, LazyInsertKeeps, FinishKeeps, BanChatKeeps,
     UnbanChatKeeps, LazyKeeps, LazyBanKeeps, StartKeeps DEF FedBans!Work
<1>5. CASE FedBans!Fail \/ FedBans!Crash
  BY <1>5, FailKeeps, CrashKeeps
<1>6. ASSUME NEW i \in DOMAIN errands, FedBans!Reap(i) PROVE BansInv'
  BY <1>6, ReapKeeps
<1>7. ASSUME NEW f \in Feds, FedBans!Expire(f) PROVE BansInv'
  BY <1>7, BansStay DEF FedBans!Expire
<1>8. CASE UNCHANGED FedBans!vars
  BY <1>8, BansStay DEF FedBans!vars
<1> QED
  BY <1>1, <1>2, <1>3, <1>4, <1>5, <1>6, <1>7, <1>8 DEF FedBans!Next

LEMMA BansStart ==
    ASSUME BansUsual, FedBans!Init PROVE BansInv
<1>1. PICK w \in Orders : w = FedBans!At("new")
  BY DEF Orders, FedBans!Steps, FedBans!At
<1>2. w.pc = "new" /\ w.command = "none"
  BY <1>1 DEF FedBans!At
<1>3. PICK u \in Carriers :
          u = [pc |-> "idle", task |-> 0, todo |-> {}, doc |-> None, left |-> {}, hit |-> {},
               feds |-> {}, fed |-> None, docs |-> {}]
  BY DEF Carriers
<1>4. u.pc = "idle" /\ u.todo = {} /\ u.feds = {} /\ u.docs = {}
  BY <1>3
<1>5. /\ bans = {} /\ lastBan = 0 /\ bannedIn = {} /\ errands = <<>>
      /\ command = [j \in Updates |-> w] /\ carrier = u
  BY <1>1, <1>3 DEF FedBans!Init, FedBans!Idle
<1>6. BansTyped
  <2>1. errands \in Seq(Errands) /\ DOMAIN errands = {}
    BY <1>5
  <2>2. command \in [Updates -> Orders] /\ \A j \in Updates : CommandFits(command[j])
    BY <1>2, <1>5 DEF CommandFits
  <2>3. CarrierFits
    BY <1>4, <1>5, <2>1 DEF CarrierFits
  <2> QED
    BY <1>5, <2>1, <2>2, <2>3 DEF BansTyped, BansUsual
<1>7. BansApart
  BY <1>2, <1>4, <1>5 DEF BansApart, CommandHolds, CarrierHolds
<1>8. AllAccounted /\ BansComing
  BY <1>5 DEF AllAccounted, BansComing
<1> QED
  BY <1>6, <1>7, <1>8 DEF BansInv

\* The two properties, once nothing is under way.
LEMMA BansHold ==
    ASSUME BansUsual, BansInv PROVE FedBans!BansListed /\ FedBans!BansInForce
<1>1. BansTyped /\ BansApart /\ AllAccounted /\ BansComing
  BY DEF BansInv
<1>2. ASSUME FedBans!Quiet
      PROVE  /\ carrier.pc = "idle" /\ \A j \in Updates : command[j].pc \in {"new", "done"}
             /\ \A i \in DOMAIN errands : errands[i].status # "PENDING"
  BY <1>2 DEF FedBans!Quiet, FedBans!Idle, FedBans!Terminal
<1>3. FedBans!BansListed
  BY <1>1, <1>2 DEF FedBans!BansListed, AllAccounted, Accounted, Freeing, Pending
<1>4. FedBans!BansInForce
  <2> SUFFICES ASSUME FedBans!Quiet, excused = {}, NEW r \in bans, FedBans!Chain(r.fed) = {}
               PROVE  FedBans!MemberChats(r.fed) \cap Present \subseteq bannedIn
    BY DEF FedBans!BansInForce
  <2>1. Coming(r.id) \/ Queued(r.id, r.fed) \/ Carried(r.id, r.fed)
    BY <1>1 DEF BansComing
  <2>2. ~ Coming(r.id) /\ ~ Queued(r.id, r.fed)
    BY <1>2 DEF Coming, Queued, Pending
  <2> QED
    BY <1>2, <2>1, <2>2 DEF Carried
<1> QED
  BY <1>3, <1>4

\* The invariant of the bans of federations.
THEOREM BansInvariance ==
    ASSUME BansUsual PROVE FedBans!Spec => []BansInv
<1>1. FedBans!Init => BansInv
  BY BansStart
<1>2. BansInv /\ [FedBans!Next]_(FedBans!vars) => BansInv'
  BY BansNextPreserves
<1> QED
  BY <1>1, <1>2, PTL DEF FedBans!Spec

\* Once everything is done, a ban in force is listed by a record, and the
\* record of a federation that inherits from no other is in force in its chats.
THEOREM BansHoldAlways ==
    ASSUME BansUsual PROVE FedBans!Spec => [](FedBans!BansListed /\ FedBans!BansInForce)
<1>1. BansInv => FedBans!BansListed /\ FedBans!BansInForce
  BY BansHold
<1> QED
  BY <1>1, BansInvariance, PTL

-----------------------------------------------------------------------------
(* CommunityBans, by its own names of the slots *)

homes == v1
edges == v2
posts == v4
cbans == v5
lastCban == v6
cbanned == v7
duties == v8
turns == v9
porter == v10
blurred == v11

USE DEF homes, edges, posts, cbans, lastCban, cbanned, duties, turns, porter, blurred

\* None is no record, and what excuses a run is no chat.
TownUsual ==
    /\ None \notin Town!Bans /\ TownPresent \subseteq TownChats
    /\ {"race", "late", "ban", "unban", "crash"} \cap TownChats = {}
    /\ MaxTownBans \in Nat

Duties ==
    [status : {"PENDING", "PROCESSING", "COMPLETED", "FAILED"}, kind : {"cban", "cunban"}, chat : TownChats,
     ban : Nat, chats : SUBSET TownChats]

Turns ==
    [pc : {"new", "probe", "attach", "look", "reason", "insert", "act", "save", "queue", "snapshot",
           "find", "delete", "lift", "lookup", "done"},
     command : {"none", "cban", "cunban", "message"},
     chat : {None} \cup TownChats, community : {None} \cup Communities,
     doc : {None} \cup Town!Bans, listed : SUBSET TownChats]

Porters ==
    [pc : {"idle", "get", "ban", "unban"}, task : Nat, doc : {None} \cup Town!Bans,
     left : SUBSET TownChats, hit : SUBSET TownChats]

Dealt(d) == d.id <= lastCban

\* What a turn carries is of the community it found.
TurnFits(w) ==
    /\ w.pc \notin {"new", "done"} => w.chat \in TownChats
    /\ w.pc \notin {"new", "done", "probe"} => w.community \in Communities
    /\ w.pc \in {"reason", "act", "save", "delete"} =>
           w.doc \in Town!Bans /\ Dealt(w.doc) /\ w.doc.community = w.community
    /\ w.pc = "queue" /\ w.command = "cban" =>
           w.doc \in Town!Bans /\ Dealt(w.doc) /\ w.doc.community = w.community
    /\ w.pc = "queue" /\ w.command = "cunban" => w.doc = None
    /\ w.pc \in {"probe", "attach", "snapshot", "find", "lift"} => w.doc = None
    /\ w.pc \in {"probe", "attach", "queue"} => w.command \in {"cban", "cunban"}
    /\ w.pc \in {"look", "reason", "insert"} => w.command = "cban"
    /\ w.pc \in {"act", "save"} => w.command \in {"cban", "message"}
    /\ w.pc \in {"snapshot", "find", "delete", "lift"} => w.command = "cunban"
    /\ w.pc = "lookup" => w.command = "message"

PorterFits ==
    /\ porter.pc # "idle" => porter.task \in DOMAIN duties /\ duties[porter.task].status = "PROCESSING"
    /\ porter.pc = "get" => duties[porter.task].kind = "cban" /\ porter.hit = {}
    /\ porter.pc = "ban" => porter.doc \in Town!Bans /\ Dealt(porter.doc)

TownTyped ==
    /\ edges \in [TownChats -> Town!Places]
    /\ cbans \in SUBSET Town!Bans
    /\ lastCban \in 0 .. MaxTownBans
    /\ \A r \in cbans : Dealt(r)
    /\ \A r, s \in cbans : r.id = s.id => r = s
    /\ \A r, s \in cbans : r.community = s.community => r = s
    /\ cbanned \subseteq TownChats
    /\ duties \in Seq(Duties)
    /\ \A i \in DOMAIN duties : duties[i].ban <= lastCban
    /\ turns \in [TownUpdates -> Turns]
    /\ \A j \in TownUpdates : TurnFits(turns[j])
    /\ porter \in Porters
    /\ PorterFits

\* The record a copy was taken of is there, and lists what the copy lists.
Kept(d) == \E r \in cbans : r.id = d.id /\ r.community = d.community
Covered(d) == \E r \in cbans : r.id = d.id /\ d.chats \subseteq r.chats

Settles(id, k) == \A r \in cbans : r.id = id => r.community = k

TurnHolds(w) ==
    /\ w.pc \in {"reason", "act"} => Covered(w.doc)
    /\ w.pc \in {"reason", "act", "save"} => Kept(w.doc)
    /\ w.pc \in {"reason", "act", "save", "queue"} /\ w.command = "cban" => Settles(w.doc.id, w.doc.community)
    /\ w.pc = "delete" => w.doc.chats = w.listed

\* Commands that do not overlap on a record.
TurnsApart ==
    "race" \notin blurred =>
        /\ \A j \in TownUpdates : TurnHolds(turns[j])
        /\ porter.pc = "ban" => Kept(porter.doc)

\* The chats of a record are stored for its community.
Inside(C, k) == \A c \in C : edges[c] = k
Proper(d) == Inside(d.chats, d.community)

TurnInside(w) ==
    /\ w.pc \notin {"new", "done", "probe", "attach"} => edges[w.chat] = w.community
    /\ w.pc \in {"reason", "act", "save"} => Proper(w.doc)
    /\ w.pc \in {"find", "delete", "lift", "queue"} /\ w.command = "cunban" => Inside(w.listed, w.community)

DutyInside(t) == t.kind = "cban" => Settles(t.ban, edges[t.chat])

AllInside ==
    blurred = {} =>
        /\ \A r \in cbans : Proper(r)
        /\ \A j \in TownUpdates : TurnInside(turns[j])
        /\ \A i \in DOMAIN duties : DutyInside(duties[i])
        /\ porter.pc = "ban" => Proper(porter.doc) /\ Inside(porter.left \cup porter.hit, porter.doc.community)

\* An unban whose record is gone and which has yet to queue the rest.
Lifting(w) == w.command = "cunban" /\ w.pc \in {"lift", "queue"}

Waiting(i, kind) == i \in DOMAIN duties /\ duties[i].status = "PENDING" /\ duties[i].kind = kind

\* A chat that is banned is listed, is about to be, or is about to be freed.
Traced(c) ==
    \/ \E r \in cbans : c \in r.chats
    \/ \E j \in TownUpdates : turns[j].pc = "save" /\ c \in turns[j].doc.chats
    \/ porter.pc = "ban" /\ c \in porter.hit
    \/ \E j \in TownUpdates : Lifting(turns[j]) /\ c \in turns[j].listed
    \/ \E i \in DOMAIN duties : Waiting(i, "cunban") /\ c \in duties[i].chats
    \/ porter.pc = "unban" /\ c \in porter.left

Calm == "race" \notin blurred /\ "crash" \notin blurred /\ "unban" \notin blurred

AllTraced == Calm => \A c \in cbanned : Traced(c)

Undoes(i, k) == Waiting(i, "cunban") /\ \E c \in duties[i].chats : edges[c] = k

Bans(w, id) == w.command = "cban" /\ w.pc \in {"act", "save", "queue"} /\ w.doc.id = id

Underway(id) == \E j \in TownUpdates : Bans(turns[j], id)

Behind(id, k) ==
    \E i \in DOMAIN duties : Waiting(i, "cban") /\ duties[i].ban = id
                             /\ \A h \in DOMAIN duties : Undoes(h, k) => h < i

Done(id, k) ==
    /\ \A h \in DOMAIN duties : ~ Undoes(h, k)
    /\ porter.pc = "unban" => \A c \in porter.left : edges[c] # k
    /\ \/ porter.pc = "get" /\ duties[porter.task].ban = id
       \/ \A c \in TownPresent \cap TownChats : edges[c] = k => c \in cbanned \/ (porter.pc = "ban" /\ c \in porter.left)

AllUnderway ==
    blurred = {} =>
        \A r \in cbans :
            /\ \A j \in TownUpdates : Lifting(turns[j]) => turns[j].community # r.community
            /\ Underway(r.id) \/ Behind(r.id, r.community) \/ Done(r.id, r.community)

TownInv == TownTyped /\ TurnsApart /\ AllInside /\ AllTraced /\ AllUnderway

-----------------------------------------------------------------------------

\* The service messages of a chat, one after the other.
Posts == [to : Town!Places, copy : Town!Places, pc : {"new", "read", "done"}]

StoredFor(c) ==
    /\ posts[c] # <<>> => posts[c][Len(posts[c])].to = homes[c]
    /\ \A i, h \in DOMAIN posts[c] : h < i /\ posts[c][i].pc # "new" => posts[c][h].pc = "done"
    /\ \A i \in DOMAIN posts[c] : posts[c][i].pc = "read" => posts[c][i].copy = edges[c]
    /\ \A i \in DOMAIN posts[c] :
          posts[c][i].pc = "done" /\ (\A h \in DOMAIN posts[c] : i < h => posts[c][h].pc # "done") =>
              edges[c] = posts[c][i].to

PostsTyped ==
    /\ homes \in [TownChats -> Town!Places]
    /\ posts \in [TownChats -> Seq(Posts)]

StoredInv == PostsTyped /\ \A c \in TownChats \ blurred : StoredFor(c)
-----------------------------------------------------------------------------

\* What a step may do to the records: x apart, none loses its chats or its
\* community, and a new id is one that was not drawn.
Grows(x) ==
    /\ \A r \in cbans : r.id # x => \E s \in cbans' : s.id = r.id /\ s.community = r.community /\ r.chats \subseteq s.chats
    /\ \A s \in cbans' : s.id > lastCban \/ \E r \in cbans : r.id = s.id /\ r.community = s.community

CbansFit ==
    /\ cbans' \in SUBSET Town!Bans
    /\ lastCban <= lastCban' /\ lastCban' \in 0 .. MaxTownBans
    /\ \A r \in cbans' : r.id <= lastCban'
    /\ \A r, s \in cbans' : r.id = s.id => r = s
    /\ \A r, s \in cbans' : r.community = s.community => r = s

LEMMA CbansStay ==
    ASSUME TownUsual, TownTyped, UNCHANGED <<cbans, lastCban>> PROVE CbansFit /\ Grows(0)
BY DEF TownTyped, CbansFit, Dealt, Grows

\* A save that the unique index lets through.
LEMMA SaveFits ==
    ASSUME TownUsual, TownTyped, NEW d \in Town!Bans, Dealt(d), Town!Save(d), ~ Town!Clash(d),
           lastCban' = lastCban
    PROVE  CbansFit
<1>1. \A r \in cbans' : r = d \/ (r \in cbans /\ r.id # d.id /\ r.community # d.community)
  BY DEF Town!Save, Town!Clash, Town!Of
<1> QED
  BY <1>1 DEF TownTyped, Dealt, CbansFit, Town!Save

\* ... of a copy that is known, and overwrites nothing.
LEMMA SaveGrows ==
    ASSUME TownUsual, TownTyped, NEW d \in Town!Bans, Dealt(d), Town!Save(d), ~ Town!Overwrites(d), Kept(d)
    PROVE  Grows(0)
<1>1. PICK r0 \in cbans : r0.id = d.id /\ r0.community = d.community
  BY DEF Kept
<1>2. \A r \in cbans : r.id = d.id => r.community = d.community /\ r.chats \subseteq d.chats
  BY <1>1 DEF TownTyped, Town!Overwrites
<1>3. ASSUME NEW r \in cbans
      PROVE  \E s \in cbans' : s.id = r.id /\ s.community = r.community /\ r.chats \subseteq s.chats
  <2>1. CASE r.id = d.id
    BY <1>2, <2>1 DEF Town!Save
  <2>2. CASE r.id # d.id
    BY <2>2 DEF Town!Save
  <2> QED
    BY <2>1, <2>2
<1>4. \A s \in cbans' : \E r \in cbans : r.id = s.id /\ r.community = s.community
  BY <1>1 DEF Town!Save
<1> QED
  BY <1>3, <1>4 DEF Grows

\* What held of drawn ids still does.
LEMMA KeptStays ==
    ASSUME NEW x, Grows(x), NEW d, d.id # x PROVE (Kept(d) => Kept(d)') /\ (Covered(d) => Covered(d)')
BY DEF Grows, Kept, Covered

LEMMA SettlesStays ==
    ASSUME NEW x, TownTyped, Grows(x), NEW id \in Nat, id <= lastCban, NEW k, Settles(id, k) PROVE Settles(id, k)'
BY DEF Grows, Settles, TownTyped

\* A turn that does not carry the record x.
Spared(w, x) == w.pc \in {"reason", "act", "save"} => w.doc.id # x

LEMMA TurnHoldsOn ==
    ASSUME TownUsual, NEW x, TownTyped, Grows(x), NEW w \in Turns, TurnFits(w), Spared(w, x), TurnHolds(w)
    PROVE  TurnHolds(w)'
<1>1. w.pc \in {"reason", "act"} => Covered(w.doc)'
  BY KeptStays DEF TurnHolds, Spared
<1>2. w.pc \in {"reason", "act", "save"} => Kept(w.doc)'
  BY KeptStays DEF TurnHolds, Spared
<1>3. w.pc \in {"reason", "act", "save", "queue"} /\ w.command = "cban" => w.doc.id \in Nat /\ w.doc.id <= lastCban
  BY DEF TurnFits, Dealt, Town!Bans, Town!Ids, TownUsual
<1>4. w.pc \in {"reason", "act", "save", "queue"} /\ w.command = "cban" => Settles(w.doc.id, w.doc.community)'
  BY <1>3, SettlesStays DEF TurnHolds
<1> QED
  BY <1>1, <1>2, <1>4 DEF TurnHolds

LEMMA DealtStays ==
    ASSUME TownUsual, TownTyped, CbansFit, NEW d \in Town!Bans, Dealt(d) PROVE Dealt(d)'
BY DEF Dealt, CbansFit, Town!Bans, Town!Ids, TownUsual, TownTyped

LEMMA TurnFitsOn ==
    ASSUME TownUsual, TownTyped, CbansFit, NEW w, TurnFits(w) PROVE TurnFits(w)'
BY DealtStays DEF TurnFits

LEMMA BansDealt ==
    ASSUME TownUsual, TownTyped, CbansFit, NEW i \in DOMAIN duties PROVE duties[i].ban <= lastCban'
<1>1. duties[i] \in Duties /\ duties[i].ban <= lastCban
  BY DEF TownTyped
<1>2. duties[i].ban \in Nat /\ lastCban \in Nat /\ lastCban' \in Nat /\ lastCban <= lastCban'
  BY <1>1 DEF TownTyped, CbansFit, Duties, TownUsual
<1> QED
  BY <1>1, <1>2

\* What one turn must see to when it moves, for every property to stay.  The
\* record x is the one it deletes, if any.
LEMMA TurnStep ==
    ASSUME TownUsual, TownInv, NEW j \in TownUpdates, NEW w \in Turns, turns' = [turns EXCEPT ![j] = w],
           UNCHANGED <<duties, porter>>, CbansFit, TurnFits(w)',
           edges' \in [TownChats -> Town!Places], cbanned' \subseteq TownChats, blurred \subseteq blurred',
           NEW x \in Nat,
           "race" \notin blurred' =>
               /\ Grows(x) /\ TurnHolds(w)'
               /\ \A i \in TownUpdates \ {j} : Spared(turns[i], x)
               /\ porter.pc = "ban" => porter.doc.id # x,
           blurred' = {} => edges' = edges /\ (\A s \in cbans' : Proper(s)) /\ TurnInside(w),
           Calm' =>
               /\ \A c \in cbanned' \ cbanned : Traced(c)'
               /\ \A r \in cbans : r.id = x => \A c \in r.chats : Traced(c)'
               /\ turns[j].pc = "save" => \A c \in turns[j].doc.chats : Traced(c)'
               /\ Lifting(turns[j]) => \A c \in turns[j].listed \cap cbanned' : Traced(c)',
           blurred' = {} =>
               /\ \A s \in cbans' :
                     \/ \E r \in cbans : r.id = s.id /\ r.community = s.community
                     \/ Bans(w, s.id) /\ \A i \in TownUpdates : Lifting(turns[i]) => turns[i].community # s.community
               /\ \A s \in cbans', c \in cbanned \ cbanned' : edges[c] # s.community
               /\ Lifting(w) => \A s \in cbans' : w.community # s.community
               /\ \A s \in cbans' : Bans(turns[j], s.id) => Bans(w, s.id)
    PROVE  TownInv'
<1>1. TownTyped /\ TurnsApart /\ AllInside /\ AllTraced /\ AllUnderway
  BY DEF TownInv
<1>2. turns' \in [TownUpdates -> Turns] /\ turns'[j] = w /\ \A i \in TownUpdates \ {j} : turns'[i] = turns[i]
  BY <1>1 DEF TownTyped
<1>3. TownTyped'
  <2>1. \A i \in TownUpdates : TurnFits(turns[i])'
    <3> SUFFICES ASSUME NEW i \in TownUpdates PROVE TurnFits(turns[i])'
      OBVIOUS
    <3>1. CASE i = j
      BY <1>2, <3>1 DEF TurnFits
    <3>2. CASE i # j
      <4>1. PICK u : u = turns[i]
        OBVIOUS
      <4>2. TurnFits(u)'
        BY <1>1, <4>1, TurnFitsOn DEF TownTyped
      <4> QED
        BY <1>2, <3>2, <4>1, <4>2 DEF TurnFits
    <3> QED
      BY <3>1, <3>2
  <2>2. PorterFits'
    <3>1. PICK d : d = porter.doc
      OBVIOUS
    <3>2. porter.pc = "ban" => d \in Town!Bans /\ Dealt(d)'
      BY <1>1, <3>1, DealtStays DEF TownTyped, PorterFits
    <3> QED
      BY <1>1, <3>1, <3>2 DEF TownTyped, PorterFits, Dealt
  <2>3. \A i \in DOMAIN duties : duties[i].ban <= lastCban'
    BY <1>1, BansDealt
  <2> QED
    BY <1>1, <1>2, <2>1, <2>2, <2>3 DEF TownTyped, CbansFit, Dealt
<1>4. TurnsApart'
  <2> SUFFICES ASSUME "race" \notin blurred'
               PROVE  /\ \A i \in TownUpdates : TurnHolds(turns[i])'
                      /\ porter.pc = "ban" => Kept(porter.doc)'
    BY DEF TurnsApart, Kept
  <2>1. /\ \A i \in TownUpdates : TurnHolds(turns[i])
        /\ porter.pc = "ban" => Kept(porter.doc)
    BY <1>1 DEF TurnsApart
  <2>2. ASSUME NEW i \in TownUpdates, i # j PROVE TurnHolds(turns[i])'
    <3>1. PICK u \in Turns : u = turns[i]
      BY <1>1 DEF TownTyped
    <3>2. TurnHolds(u)'
      BY <1>1, <2>1, <2>2, <3>1, TurnHoldsOn DEF TownTyped
    <3> QED
      BY <1>2, <2>2, <3>1, <3>2 DEF TurnHolds
  <2>3. TurnHolds(turns[j])'
    BY <1>2 DEF TurnHolds
  <2>4. porter.pc = "ban" => Kept(porter.doc)'
    <3>1. PICK d : d = porter.doc
      OBVIOUS
    <3>2. porter.pc = "ban" => Kept(d)'
      BY <2>1, <3>1, KeptStays
    <3> QED
      BY <3>1, <3>2 DEF Kept
  <2> QED
    BY <2>2, <2>3, <2>4
<1>5. AllInside'
  <2> SUFFICES ASSUME blurred' = {}
               PROVE  /\ \A r \in cbans' : Proper(r)
                      /\ \A i \in TownUpdates : TurnInside(turns[i])'
                      /\ \A i \in DOMAIN duties : DutyInside(duties[i])'
    BY <1>1 DEF AllInside, Proper, Inside
  <2>1. /\ edges' = edges /\ (\A s \in cbans' : Proper(s)) /\ TurnInside(w) /\ Grows(x)
        /\ \A i \in TownUpdates : TurnInside(turns[i])
        /\ \A i \in DOMAIN duties : DutyInside(duties[i])
    BY <1>1 DEF AllInside
  <2>2. ASSUME NEW i \in TownUpdates PROVE TurnInside(turns[i])'
    <3>1. TurnInside(turns'[i])
      BY <1>2, <2>1
    <3> QED
      BY <2>1, <3>1 DEF TurnInside, Proper, Inside
  <2>3. ASSUME NEW i \in DOMAIN duties PROVE DutyInside(duties[i])'
    <3>1. PICK t \in Duties : t = duties[i]
      BY <1>1 DEF TownTyped
    <3>2. t.kind = "cban" => Settles(t.ban, edges[t.chat])
      BY <2>1, <3>1 DEF DutyInside
    <3>3. t.ban \in Nat /\ t.ban <= lastCban
      BY <1>1, <3>1 DEF TownTyped, Duties
    <3>4. PICK k : k = edges[t.chat]
      OBVIOUS
    <3>5. t.kind = "cban" => Settles(t.ban, k)'
      BY <1>1, <2>1, <3>2, <3>3, <3>4, SettlesStays
    <3> QED
      BY <2>1, <3>1, <3>4, <3>5 DEF DutyInside, Settles
  <2> QED
    BY <2>1, <2>2, <2>3
<1>6. AllTraced'
  <2> SUFFICES ASSUME Calm', NEW c \in cbanned', c \in cbanned PROVE Traced(c)'
    BY DEF AllTraced
  <2>1. Traced(c) /\ Grows(x)
    BY <1>1 DEF AllTraced, Calm
  <2>2. CASE \E r \in cbans : c \in r.chats
    BY <2>1, <2>2 DEF Traced, Grows
  <2>3. CASE \E i \in TownUpdates : turns[i].pc = "save" /\ c \in turns[i].doc.chats
    <3>1. PICK i \in TownUpdates : turns[i].pc = "save" /\ c \in turns[i].doc.chats
      BY <2>3
    <3>2. i # j => turns'[i] = turns[i]
      BY <1>2
    <3> QED
      BY <3>1, <3>2 DEF Traced
  <2>4. CASE \E i \in TownUpdates : Lifting(turns[i]) /\ c \in turns[i].listed
    <3>1. PICK i \in TownUpdates : Lifting(turns[i]) /\ c \in turns[i].listed
      BY <2>4
    <3>2. i # j => turns'[i] = turns[i]
      BY <1>2
    <3>3. i # j => Lifting(turns[i])'
      BY <3>1, <3>2 DEF Lifting
    <3>4. i # j => Lifting(turns[i])' /\ c \in turns'[i].listed
      BY <3>1, <3>2, <3>3
    <3>5. CASE i = j
      BY <3>1, <3>5
    <3>6. CASE i # j
      BY <3>4, <3>6 DEF Traced
    <3> QED
      BY <3>5, <3>6
  <2>5. CASE \/ porter.pc = "ban" /\ c \in porter.hit
             \/ \E i \in DOMAIN duties : Waiting(i, "cunban") /\ c \in duties[i].chats
             \/ porter.pc = "unban" /\ c \in porter.left
    BY <2>5 DEF Traced, Waiting
  <2> QED
    BY <2>1, <2>2, <2>3, <2>4, <2>5 DEF Traced
<1>7. AllUnderway'
  <2> SUFFICES ASSUME blurred' = {}, NEW s \in cbans'
               PROVE  /\ \A i \in TownUpdates : Lifting(turns[i])' => turns'[i].community # s.community
                      /\ Underway(s.id)' \/ Behind(s.id, s.community)' \/ Done(s.id, s.community)'
    BY DEF AllUnderway
  <2>1. /\ edges' = edges /\ blurred = {}
        /\ \A c \in cbanned \ cbanned' : edges[c] # s.community
        /\ Lifting(w) => w.community # s.community
    OBVIOUS
  <2>2. Lifting(turns[j])' => w.community # s.community
    BY <1>2, <2>1 DEF Lifting
  <2>3. CASE \E r \in cbans : r.id = s.id /\ r.community = s.community
    <3>1. /\ \A i \in TownUpdates : Lifting(turns[i]) => turns[i].community # s.community
          /\ Underway(s.id) \/ Behind(s.id, s.community) \/ Done(s.id, s.community)
      BY <1>1, <2>1, <2>3 DEF AllUnderway
    <3>2. \A i \in TownUpdates : Lifting(turns[i])' => turns'[i].community # s.community
      BY <1>2, <2>2, <3>1 DEF Lifting
    <3>3. ASSUME Underway(s.id) PROVE Underway(s.id)'
      <4>1. PICK i \in TownUpdates : Bans(turns[i], s.id)
        BY <3>3 DEF Underway
      <4>2. Bans(turns[i], s.id)'
        BY <1>2, <4>1 DEF Bans
      <4> QED
        BY <4>2 DEF Underway
    <3>4. Behind(s.id, s.community) => Behind(s.id, s.community)'
      BY <2>1 DEF Behind, Waiting, Undoes
    <3>5. Done(s.id, s.community) => Done(s.id, s.community)'
      BY <2>1 DEF Done, Waiting, Undoes
    <3> QED
      BY <3>1, <3>2, <3>3, <3>4, <3>5
  <2>4. CASE Bans(w, s.id) /\ \A i \in TownUpdates : Lifting(turns[i]) => turns[i].community # s.community
    <3>1. \A i \in TownUpdates : Lifting(turns[i])' => turns'[i].community # s.community
      BY <1>2, <2>2, <2>4 DEF Lifting
    <3>2. Bans(turns[j], s.id)'
      BY <1>2, <2>4 DEF Bans
    <3> QED
      BY <3>1, <3>2 DEF Underway
  <2> QED
    BY <2>3, <2>4
<1> QED
  BY <1>3, <1>4, <1>5, <1>6, <1>7 DEF TownInv
\* A turn that moves and changes nothing but itself.
LEMMA TurnOnly ==
    ASSUME TownUsual, TownInv, NEW j \in TownUpdates, NEW w \in Turns, turns' = [turns EXCEPT ![j] = w],
           UNCHANGED <<edges, cbans, lastCban, cbanned, duties, porter>>, blurred \subseteq blurred',
           TurnFits(w),
           "race" \notin blurred' => TurnHolds(w),
           blurred' = {} => TurnInside(w),
           Calm' =>
               /\ turns[j].pc # "save"
               /\ Lifting(turns[j]) => Lifting(w) /\ w.listed = turns[j].listed,
           blurred' = {} =>
               /\ Lifting(w) => \A s \in cbans : w.community # s.community
               /\ \A s \in cbans : Bans(turns[j], s.id) => Bans(w, s.id)
    PROVE  TownInv'
<1>1. TownTyped /\ TurnsApart /\ AllInside
  BY DEF TownInv
<1>2. CbansFit /\ Grows(0)
  BY <1>1, CbansStay
<1>3. TurnFits(w)'
  BY <1>1, <1>2, TurnFitsOn
<1>4. ASSUME "race" \notin blurred'
      PROVE  /\ Grows(0) /\ TurnHolds(w)'
             /\ \A i \in TownUpdates \ {j} : Spared(turns[i], 0)
             /\ porter.pc = "ban" => porter.doc.id # 0
  <2>1. \A d \in Town!Bans : d.id # 0
    BY DEF Town!Bans, Town!Ids, TownUsual
  <2>2. Spared(w, 0) /\ \A i \in TownUpdates : Spared(turns[i], 0)
    BY <1>1, <2>1 DEF Spared, TownTyped, TurnFits
  <2>3. TurnHolds(w)'
    BY <1>1, <1>2, <1>4, <2>2, TurnHoldsOn
  <2> QED
    BY <1>1, <1>2, <2>1, <2>2, <2>3 DEF TownTyped, PorterFits
<1>5. ASSUME blurred' = {} PROVE \A s \in cbans' : Proper(s)
  BY <1>1, <1>5 DEF AllInside
<1>6. ASSUME Lifting(turns[j]), Calm', NEW c \in turns[j].listed PROVE Traced(c)'
  <2>1. turns'[j] = w /\ Lifting(w) /\ w.listed = turns[j].listed
    BY <1>1, <1>6 DEF TownTyped
  <2>2. Lifting(turns[j])' /\ c \in turns'[j].listed
    BY <1>6, <2>1 DEF Lifting
  <2> QED
    BY <2>2 DEF Traced
<1>7. \A r \in cbans : r.id # 0
  BY <1>1 DEF TownTyped, Town!Bans, Town!Ids, TownUsual
<1>8. edges' \in [TownChats -> Town!Places] /\ cbanned' \subseteq TownChats /\ cbanned' \ cbanned = {} /\ cbanned \ cbanned' = {}
  BY <1>1 DEF TownTyped, Town!Places
<1>9. PICK z \in Nat : z = 0
  OBVIOUS
<1> QED
  BY <1>2, <1>3, <1>4, <1>5, <1>6, <1>7, <1>8, <1>9, TurnStep

\* A turn ends.
LEMMA TurnEnds ==
    ASSUME TownUsual, TownInv, NEW j \in TownUpdates, Town!To(j, "done"),
           UNCHANGED <<edges, cbans, lastCban, cbanned, duties, porter>>, blurred \subseteq blurred',
           Calm' => turns[j].pc # "save" /\ ~ Lifting(turns[j]),
           blurred' = {} => turns[j].pc \notin {"act", "save", "queue"} \/ turns[j].command # "cban"
    PROVE  TownInv'
<1>1. PICK w \in Turns : w = Town!At("done")
  BY DEF Turns, Town!At
<1>2. turns' = [turns EXCEPT ![j] = w]
  BY <1>1 DEF Town!To
<1>3. w.pc = "done" /\ w.command = "none"
  BY <1>1 DEF Town!At
<1>4. TurnFits(w) /\ TurnHolds(w) /\ TurnInside(w) /\ ~ Lifting(w)
  BY <1>3 DEF TurnFits, TurnHolds, TurnInside, Lifting
<1>5. blurred' = {} => \A s \in cbans : ~ Bans(turns[j], s.id)
  BY DEF Bans
<1> QED
  BY <1>2, <1>4, <1>5, TurnOnly

\* What a turn is at a step.
LEMMA TurnIs ==
    ASSUME TownInv, NEW j \in TownUpdates
    PROVE  /\ turns \in [TownUpdates -> Turns] /\ turns[j] \in Turns /\ TurnFits(turns[j])
           /\ "race" \notin blurred => TurnHolds(turns[j])
           /\ blurred = {} => TurnInside(turns[j]) /\ \A r \in cbans : Proper(r)
BY DEF TownInv, TownTyped, TurnsApart, AllInside

\* getChat answers.
LEMMA ProbeTurns ==
    ASSUME TownUsual, TownInv, homes \in [TownChats -> Town!Places], NEW j \in TownUpdates, Town!Probe(j) PROVE TownInv'
<1>1. /\ turns[j] \in Turns /\ TurnFits(turns[j]) /\ turns[j].pc = "probe" /\ turns[j].chat \in TownChats
      /\ turns[j].command \in {"cban", "cunban"}
      /\ UNCHANGED <<edges, cbans, lastCban, cbanned, duties, porter, blurred>>
  BY TurnIs DEF Town!Probe, TurnFits
<1>2. CASE Town!To(j, "done")
  BY <1>1, <1>2, TurnEnds DEF Lifting
<1>3. CASE /\ homes[turns[j].chat] # None
           /\ turns' = [turns EXCEPT ![j].pc = "attach", ![j].community = homes[turns[j].chat]]
  <2>1. PICK k \in Communities : k = homes[turns[j].chat]
    BY <1>1, <1>3 DEF Town!Places
  <2>2. PICK w \in Turns : w = [turns[j] EXCEPT !.pc = "attach", !.community = k]
    BY <1>1 DEF Turns
  <2>3. turns' = [turns EXCEPT ![j] = w]
    BY <1>3, <2>1, <2>2, TurnIs DEF Turns
  <2>4. /\ w.pc = "attach" /\ w.chat = turns[j].chat /\ w.command = turns[j].command /\ w.community = k
        /\ w.doc = turns[j].doc
    BY <1>1, <2>2 DEF Turns
  <2>5. TurnFits(w) /\ TurnHolds(w) /\ TurnInside(w)
    BY <1>1, <2>4 DEF TurnFits, TurnHolds, TurnInside
  <2> QED
    BY <1>1, <2>3, <2>4, <2>5, TurnOnly DEF Lifting, Bans
<1> QED
  BY <1>2, <1>3 DEF Town!Probe

\* An update arrives.
LEMMA ReceiveTurns ==
    ASSUME TownUsual, TownInv, NEW j \in TownUpdates, NEW c \in TownChats, Town!Receive(j, c) PROVE TownInv'
<1>1. /\ turns[j].pc = "new"
      /\ UNCHANGED <<edges, cbans, lastCban, cbanned, duties, porter, blurred>>
      /\ edges \in [TownChats -> Town!Places]
  BY DEF Town!Receive, TownInv, TownTyped
<1>2. PICK m \in {"cban", "cunban", "message"}, p \in {"look", "snapshot", "probe", "lookup"} :
          /\ turns' = [turns EXCEPT ![j] = [Town!At(p) EXCEPT !.command = m, !.chat = c, !.community = edges[c]]]
          /\ p = "look" => m = "cban" /\ edges[c] # None
          /\ p = "snapshot" => m = "cunban" /\ edges[c] # None
          /\ p = "probe" => m \in {"cban", "cunban"}
          /\ p = "lookup" => m = "message" /\ edges[c] # None
  BY DEF Town!Receive
<1>3. PICK k \in {None} \cup Communities : k = edges[c]
  BY <1>1 DEF Town!Places
<1>4. PICK a \in Turns : a = Town!At(p)
  BY DEF Town!At, Turns
<1>5. PICK w \in Turns : w = [a EXCEPT !.command = m, !.chat = c, !.community = k]
  BY DEF Turns
<1>6. /\ turns' = [turns EXCEPT ![j] = w]
      /\ w.pc = p /\ w.command = m /\ w.chat = c /\ w.community = k /\ w.doc = None /\ w.listed = {}
  <2>1. turns' = [turns EXCEPT ![j] = w]
    BY <1>2, <1>3, <1>4, <1>5
  <2>2. a.pc = p /\ a.doc = None /\ a.listed = {}
    BY <1>4 DEF Town!At
  <2> QED
    BY <1>5, <2>1, <2>2 DEF Turns
<1>7. TurnFits(w) /\ TurnHolds(w) /\ TurnInside(w)
  BY <1>2, <1>3, <1>6 DEF TurnFits, TurnHolds, TurnInside, Inside
<1> QED
  BY <1>1, <1>2, <1>6, <1>7, TurnOnly DEF Lifting, Bans

\* ban_user finds the record, or none.
LEMMA LookTurns ==
    ASSUME TownUsual, TownInv, NEW j \in TownUpdates, Town!Look(j) PROVE TownInv'
<1>1. /\ turns \in [TownUpdates -> Turns] /\ turns[j] \in Turns /\ TurnFits(turns[j]) /\ turns[j].pc = "look"
      /\ turns[j].community \in Communities
      /\ UNCHANGED <<edges, cbans, lastCban, cbanned, duties, porter, blurred>>
      /\ cbans \in SUBSET Town!Bans /\ (\A r \in cbans : Dealt(r))
      /\ \A r, s \in cbans : r.id = s.id => r = s
  BY TurnIs DEF Town!Look, TurnFits, TownInv, TownTyped
<1>2. CASE Town!To(j, "insert")
  <2>1. PICK w \in Turns : w = [turns[j] EXCEPT !.pc = "insert"]
    BY <1>1 DEF Turns
  <2>2. turns' = [turns EXCEPT ![j] = w]
    BY <1>2, <2>1 DEF Town!To
  <2>3. /\ w.pc = "insert" /\ w.chat = turns[j].chat /\ w.command = turns[j].command
        /\ w.community = turns[j].community
    BY <1>1, <2>1 DEF Turns
  <2>4. TurnFits(w) /\ TurnHolds(w) /\ (blurred = {} => TurnInside(w))
    BY <1>1, <2>3, TurnIs DEF TurnFits, TurnHolds, TurnInside
  <2> QED
    BY <1>1, <2>2, <2>3, <2>4, TurnOnly DEF Lifting, Bans
<1>3. ASSUME NEW r \in Town!Of(turns[j].community), Town!Keep(j, "reason", r) PROVE TownInv'
  <2>1. PICK d \in Town!Bans : d = r /\ d \in cbans /\ d.community = turns[j].community /\ Dealt(d)
    BY <1>1 DEF Town!Of
  <2>2. PICK w \in Turns : w = [turns[j] EXCEPT !.pc = "reason", !.doc = d]
    BY <1>1 DEF Turns
  <2>3. turns' = [turns EXCEPT ![j] = w]
    BY <1>1, <1>3, <2>1, <2>2 DEF Town!Keep, Turns
  <2>4. /\ w.pc = "reason" /\ w.chat = turns[j].chat /\ w.command = turns[j].command
        /\ w.community = turns[j].community /\ w.doc = d
    BY <1>1, <2>2 DEF Turns
  <2>5. TurnFits(w)
    BY <1>1, <2>1, <2>4 DEF TurnFits
  <2>6. TurnHolds(w)
    BY <1>1, <2>1, <2>4 DEF TurnHolds, Covered, Kept, Settles
  <2>7. blurred = {} => TurnInside(w)
    BY <1>1, <2>1, <2>4, TurnIs DEF TurnInside
  <2> QED
    BY <1>1, <2>3, <2>4, <2>5, <2>6, <2>7, TurnOnly DEF Lifting, Bans
<1> QED
  BY <1>2, <1>3 DEF Town!Look

\* is_cbanned.
LEMMA LookupTurns ==
    ASSUME TownUsual, TownInv, NEW j \in TownUpdates, Town!Lookup(j) PROVE TownInv'
<1>1. /\ turns \in [TownUpdates -> Turns] /\ turns[j] \in Turns /\ TurnFits(turns[j]) /\ turns[j].pc = "lookup"
      /\ turns[j].community \in Communities /\ turns[j].command = "message"
      /\ UNCHANGED <<edges, cbans, lastCban, cbanned, duties, porter, blurred>>
      /\ cbans \in SUBSET Town!Bans /\ \A r \in cbans : Dealt(r)
  BY TurnIs DEF Town!Lookup, TurnFits, TownInv, TownTyped
<1>2. CASE Town!To(j, "done")
  BY <1>1, <1>2, TurnEnds DEF Lifting
<1>3. ASSUME NEW r \in Town!Of(turns[j].community), Town!Keep(j, "act", r) PROVE TownInv'
  <2>1. PICK d \in Town!Bans : d = r /\ d \in cbans /\ d.community = turns[j].community /\ Dealt(d)
    BY <1>1 DEF Town!Of
  <2>2. PICK w \in Turns : w = [turns[j] EXCEPT !.pc = "act", !.doc = d]
    BY <1>1 DEF Turns
  <2>3. turns' = [turns EXCEPT ![j] = w]
    BY <1>1, <1>3, <2>1, <2>2 DEF Town!Keep, Turns
  <2>4. /\ w.pc = "act" /\ w.chat = turns[j].chat /\ w.command = turns[j].command
        /\ w.community = turns[j].community /\ w.doc = d
    BY <1>1, <2>2 DEF Turns
  <2>5. TurnFits(w)
    BY <1>1, <2>1, <2>4 DEF TurnFits
  <2>6. TurnHolds(w)
    BY <1>1, <2>1, <2>4 DEF TurnHolds, Covered, Kept
  <2>7. blurred = {} => TurnInside(w)
    BY <1>1, <2>1, <2>4, TurnIs DEF TurnInside
  <2> QED
    BY <1>1, <2>3, <2>4, <2>5, <2>6, <2>7, TurnOnly DEF Lifting, Bans
<1> QED
  BY <1>2, <1>3 DEF Town!Lookup

\* The chats of the record, before it is removed.
LEMMA SnapshotTurns ==
    ASSUME TownUsual, TownInv, NEW j \in TownUpdates, Town!Snapshot(j) PROVE TownInv'
<1>1. /\ turns \in [TownUpdates -> Turns] /\ turns[j] \in Turns /\ TurnFits(turns[j]) /\ turns[j].pc = "snapshot"
      /\ turns[j].community \in Communities /\ turns[j].command = "cunban"
      /\ UNCHANGED <<edges, cbans, lastCban, cbanned, duties, porter, blurred>>
      /\ cbans \in SUBSET Town!Bans
  BY TurnIs DEF Town!Snapshot, TurnFits, TownInv, TownTyped
<1>2. CASE Town!To(j, "done")
  BY <1>1, <1>2, TurnEnds DEF Lifting
<1>3. ASSUME NEW r \in Town!Of(turns[j].community),
             turns' = [turns EXCEPT ![j].pc = "find", ![j].listed = r.chats]
      PROVE  TownInv'
  <2>1. PICK d \in Town!Bans : d = r /\ d \in cbans /\ d.community = turns[j].community
    BY <1>1 DEF Town!Of
  <2>2. PICK C \in SUBSET TownChats : C = d.chats
    BY DEF Town!Bans
  <2>3. PICK w \in Turns : w = [turns[j] EXCEPT !.pc = "find", !.listed = C]
    BY <1>1 DEF Turns
  <2>4. turns' = [turns EXCEPT ![j] = w]
    BY <1>1, <1>3, <2>1, <2>2, <2>3 DEF Turns
  <2>5. /\ w.pc = "find" /\ w.chat = turns[j].chat /\ w.command = turns[j].command
        /\ w.community = turns[j].community /\ w.listed = d.chats /\ w.doc = turns[j].doc
    BY <1>1, <2>2, <2>3 DEF Turns
  <2>6. TurnFits(w) /\ TurnHolds(w)
    BY <1>1, <2>5 DEF TurnFits, TurnHolds
  <2>7. blurred = {} => TurnInside(w)
    BY <1>1, <2>1, <2>5, TurnIs DEF TurnInside, Proper
  <2> QED
    BY <1>1, <2>4, <2>5, <2>6, <2>7, TurnOnly DEF Lifting, Bans
<1> QED
  BY <1>2, <1>3 DEF Town!Snapshot

\* unban_user reads the record again.
LEMMA FindTurns ==
    ASSUME TownUsual, TownInv, NEW j \in TownUpdates, Town!Find(j) PROVE TownInv'
<1>1. /\ turns \in [TownUpdates -> Turns] /\ turns[j] \in Turns /\ TurnFits(turns[j]) /\ turns[j].pc = "find"
      /\ turns[j].community \in Communities /\ turns[j].command = "cunban" /\ turns[j].doc = None
      /\ UNCHANGED <<edges, cbans, lastCban, cbanned, duties, porter>>
      /\ cbans \in SUBSET Town!Bans /\ \A r \in cbans : Dealt(r)
  BY TurnIs DEF Town!Find, TurnFits, TownInv, TownTyped
<1>2. CASE Town!Of(turns[j].community) = {} /\ Town!To(j, "lift") /\ UNCHANGED blurred
  <2>1. PICK w \in Turns : w = [turns[j] EXCEPT !.pc = "lift"]
    BY <1>1 DEF Turns
  <2>2. turns' = [turns EXCEPT ![j] = w]
    BY <1>2, <2>1 DEF Town!To
  <2>3. /\ w.pc = "lift" /\ w.chat = turns[j].chat /\ w.command = turns[j].command
        /\ w.community = turns[j].community /\ w.doc = None /\ w.listed = turns[j].listed
    BY <1>1, <2>1 DEF Turns
  <2>4. TurnFits(w) /\ TurnHolds(w) /\ (blurred = {} => TurnInside(w))
    BY <1>1, <2>3, TurnIs DEF TurnFits, TurnHolds, TurnInside
  <2>5. \A s \in cbans : w.community # s.community
    BY <1>2, <2>3 DEF Town!Of
  <2> QED
    BY <1>1, <1>2, <2>2, <2>3, <2>4, <2>5, TurnOnly DEF Lifting, Bans
<1>3. ASSUME NEW r \in Town!Of(turns[j].community), Town!Keep(j, "delete", r),
             Town!Excused(r.chats # turns[j].listed, "race")
      PROVE  TownInv'
  <2>1. PICK d \in Town!Bans : d = r /\ d \in cbans /\ d.community = turns[j].community /\ Dealt(d)
    BY <1>1 DEF Town!Of
  <2>2. PICK w \in Turns : w = [turns[j] EXCEPT !.pc = "delete", !.doc = d]
    BY <1>1 DEF Turns
  <2>3. turns' = [turns EXCEPT ![j] = w]
    BY <1>1, <1>3, <2>1, <2>2 DEF Town!Keep, Turns
  <2>4. /\ w.pc = "delete" /\ w.chat = turns[j].chat /\ w.command = turns[j].command
        /\ w.community = turns[j].community /\ w.doc = d /\ w.listed = turns[j].listed
    BY <1>1, <2>2 DEF Turns
  <2>5. TurnFits(w) /\ blurred \subseteq blurred'
    BY <1>1, <1>3, <2>1, <2>4 DEF TurnFits, Town!Excused
  <2>6. "race" \notin blurred' => TurnHolds(w)
    BY <1>3, <2>1, <2>4 DEF TurnHolds, Town!Excused
  <2>7. blurred' = {} => TurnInside(w)
    BY <1>1, <2>1, <2>4, <2>5, TurnIs DEF TurnInside
  <2> QED
    BY <1>1, <2>3, <2>4, <2>5, <2>6, <2>7, TurnOnly DEF Lifting, Bans
<1> QED
  BY <1>2, <1>3 DEF Town!Find

\* The bot dies in the middle of an update.
LEMMA DieTurns ==
    ASSUME TownUsual, TownInv, NEW j \in TownUpdates, Town!Die(j) PROVE TownInv'
<1>1. /\ Town!To(j, "done") /\ UNCHANGED <<edges, cbans, lastCban, cbanned, duties, porter>>
      /\ blurred \subseteq blurred' /\ "crash" \in blurred'
  BY DEF Town!Die, Town!Fault
<1> QED
  BY <1>1, TurnEnds DEF Calm

\* No record, and no copy, has the id 0.
LEMMA NobodyAtZero ==
    ASSUME TownUsual, TownInv
    PROVE  /\ \A i \in TownUpdates : Spared(turns[i], 0)
           /\ porter.pc = "ban" => porter.doc.id # 0
           /\ \A r \in cbans : r.id # 0
<1>1. \A d \in Town!Bans : d.id # 0
  BY DEF Town!Bans, Town!Ids, TownUsual
<1> QED
  BY <1>1 DEF TownInv, TownTyped, Spared, TurnFits, PorterFits

\* What a turn carries, while it carries a copy.
LEMMA TurnCarries ==
    ASSUME TownUsual, TownInv, NEW j \in TownUpdates, turns[j].pc \in {"reason", "act", "save", "delete"}
    PROVE  /\ turns \in [TownUpdates -> Turns] /\ turns[j] \in Turns /\ TurnFits(turns[j])
           /\ turns[j].chat \in TownChats /\ turns[j].community \in Communities
           /\ turns[j].doc \in Town!Bans /\ Dealt(turns[j].doc) /\ turns[j].doc.community = turns[j].community
           /\ TownTyped
BY TurnIs DEF TurnFits, TownInv

\* A copy is saved, where the unique index lets it through.
LEMMA SaveTurns ==
    ASSUME TownUsual, TownInv, NEW j \in TownUpdates, NEW w \in Turns, turns' = [turns EXCEPT ![j] = w],
           turns[j].pc \in {"reason", "save"},
           ~ Town!Clash(turns[j].doc), Town!Save(turns[j].doc), Town!Excused(Town!Overwrites(turns[j].doc), "race"),
           UNCHANGED <<edges, lastCban, cbanned, duties, porter>>,
           TurnFits(w), blurred = {} => TurnInside(w), ~ Lifting(w),
           w.pc \in {"act", "queue"} => w.doc = turns[j].doc /\ w.command = turns[j].command,
           w.pc \in {"act", "queue", "done"},
           turns[j].command = "cban" => w.pc # "done"
    PROVE  TownInv'
<1> DEFINE d == turns[j].doc
<1>1. /\ turns[j] \in Turns /\ d \in Town!Bans /\ Dealt(d) /\ TownTyped
  BY TurnCarries
<1>2. CbansFit
  BY <1>1, SaveFits
<1>3. d \in cbans' /\ \A s \in cbans' : s = d \/ s \in cbans
  BY DEF Town!Save
<1>4. blurred \subseteq blurred' /\ ("race" \notin blurred' => ~ Town!Overwrites(d))
  BY DEF Town!Excused
<1>5. ASSUME "race" \notin blurred'
      PROVE  Kept(d) /\ Grows(0) /\ (turns[j].command = "cban" => Settles(d.id, d.community))
  <2>1. TurnHolds(turns[j])
    BY <1>4, <1>5, TurnIs
  <2>2. Kept(d) /\ (turns[j].command = "cban" => Settles(d.id, d.community))
    BY <2>1 DEF TurnHolds
  <2> QED
    BY <1>1, <1>4, <1>5, <2>2, SaveGrows
<1>6. TurnFits(w)'
  BY <1>1, <1>2, TurnFitsOn
<1>7. PICK e \in Town!Bans : e = d
  BY <1>1
<1>8. ASSUME "race" \notin blurred' PROVE TurnHolds(w)'
  <2>1. Covered(e)' /\ Kept(e)'
    BY <1>3, <1>7 DEF Covered, Kept
  <2>2. e.id \in Nat /\ e.id <= lastCban
    BY <1>1, <1>7 DEF Dealt, Town!Bans, Town!Ids, TownUsual
  <2>3. w.command = "cban" /\ w.pc \in {"act", "queue"} => Settles(e.id, e.community)'
    BY <1>1, <1>5, <1>7, <1>8, <2>2, SettlesStays
  <2>4. w.pc \in {"act", "queue"} => w.doc = e
    BY <1>7
  <2> QED
    BY <2>1, <2>3, <2>4 DEF TurnHolds
<1>9. ASSUME blurred' = {} PROVE (\A s \in cbans' : Proper(s)) /\ TurnInside(w)
  <2>1. Proper(d) /\ \A r \in cbans : Proper(r)
    BY <1>4, <1>9, TurnIs DEF TurnInside
  <2> QED
    BY <1>3, <1>4, <1>9, <2>1
<1>10. ASSUME Calm', turns[j].pc = "save", NEW c \in turns[j].doc.chats PROVE Traced(c)'
  BY <1>3, <1>10 DEF Traced
<1>11. ~ Lifting(turns[j])
  BY DEF Lifting
<1>12. ASSUME blurred' = {}, NEW s \in cbans'
       PROVE  /\ \E r \in cbans : r.id = s.id /\ r.community = s.community
              /\ Bans(turns[j], s.id) => Bans(w, s.id)
  <2>1. \E r \in cbans : r.id = s.id /\ r.community = s.community
    BY <1>3, <1>5, <1>12 DEF Kept
  <2> QED
    BY <2>1 DEF Bans
<1>13. \A c \in cbanned' \cup cbanned : c \in cbanned' /\ c \in cbanned
  OBVIOUS
<1>14. edges' \in [TownChats -> Town!Places] /\ cbanned' \subseteq TownChats /\ edges' = edges
  BY <1>1 DEF TownTyped
<1>15. PICK z \in Nat : z = 0
  OBVIOUS
<1> HIDE DEF d
<1> QED
  BY <1>2, <1>4, <1>5, <1>6, <1>8, <1>9, <1>10, <1>11, <1>12, <1>13, <1>14, <1>15, NobodyAtZero, TurnStep

\* A reason that differs is saved.
LEMMA ReasonTurns ==
    ASSUME TownUsual, TownInv, NEW j \in TownUpdates, Town!Reason(j) PROVE TownInv'
<1>1. /\ turns \in [TownUpdates -> Turns] /\ turns[j] \in Turns /\ TurnFits(turns[j]) /\ turns[j].pc = "reason"
      /\ turns[j].command = "cban"
      /\ UNCHANGED <<edges, lastCban, cbanned, duties, porter>>
  BY TurnIs DEF Town!Reason, TurnFits
<1>2. CASE Town!To(j, "done") /\ UNCHANGED <<cbans, blurred>>
  BY <1>1, <1>2, TurnEnds DEF Lifting
<1>3. CASE Town!To(j, "act")
  <2>1. PICK w \in Turns : w = [turns[j] EXCEPT !.pc = "act"]
    BY <1>1 DEF Turns
  <2>2. turns' = [turns EXCEPT ![j] = w]
    BY <1>3, <2>1 DEF Town!To
  <2>3. /\ w.pc = "act" /\ w.chat = turns[j].chat /\ w.command = turns[j].command
        /\ w.community = turns[j].community /\ w.doc = turns[j].doc
    BY <1>1, <2>1 DEF Turns
  <2>4. TurnFits(w) /\ (blurred = {} => TurnInside(w)) /\ ~ Lifting(w)
    BY <1>1, <2>3, TurnIs DEF TurnFits, TurnInside, Lifting
  <2>5. CASE UNCHANGED <<cbans, blurred>>
    <3>1. "race" \notin blurred => TurnHolds(w)
      BY <1>1, <2>3, TurnIs DEF TurnHolds
    <3> QED
      BY <1>1, <2>2, <2>3, <2>4, <2>5, <3>1, TurnOnly DEF Lifting, Bans
  <2>6. CASE /\ ~ Town!Clash(turns[j].doc) /\ Town!Save(turns[j].doc)
             /\ Town!Excused(Town!Overwrites(turns[j].doc), "race")
    BY <1>1, <2>2, <2>3, <2>4, <2>6, SaveTurns
  <2> QED
    BY <1>3, <2>5, <2>6 DEF Town!Reason, Town!To
<1> QED
  BY <1>2, <1>3 DEF Town!Reason

\* The record is inserted, or another /cban was first.
LEMMA InsertTurns ==
    ASSUME TownUsual, TownInv, NEW j \in TownUpdates, Town!Insert(j) PROVE TownInv'
<1>1. /\ turns \in [TownUpdates -> Turns] /\ turns[j] \in Turns /\ TurnFits(turns[j]) /\ turns[j].pc = "insert"
      /\ turns[j].command = "cban" /\ turns[j].community \in Communities /\ TownTyped
      /\ UNCHANGED <<edges, cbanned, duties, porter>>
  BY TurnIs DEF Town!Insert, TurnFits, TownInv
<1>2. CASE Town!To(j, "done") /\ UNCHANGED <<cbans, lastCban, blurred>>
  BY <1>1, <1>2, TurnEnds DEF Lifting
<1>3. PICK d : d = [id |-> lastCban + 1, community |-> turns[j].community, chats |-> {}]
  OBVIOUS
<1>4. CASE /\ Town!Of(turns[j].community) = {} /\ lastCban < MaxTownBans
           /\ cbans' = cbans \cup {d} /\ lastCban' = lastCban + 1
           /\ Town!Excused(Town!Unbanning(turns[j].community), "race")
           /\ Town!Keep(j, "act", d)
  <2>1. lastCban \in Nat /\ MaxTownBans \in Nat /\ lastCban <= MaxTownBans
    BY <1>1 DEF TownTyped, TownUsual
  <2>2. /\ d \in Town!Bans /\ d.id = lastCban + 1 /\ d.community = turns[j].community /\ d.chats = {}
    BY <1>1, <1>3, <1>4, <2>1 DEF Town!Bans, Town!Ids
  <2>3. \A r \in cbans : r \in Town!Bans /\ r.id \in Nat /\ r.id <= lastCban /\ r.community # d.community
    BY <1>1, <1>4, <2>2 DEF TownTyped, Dealt, Town!Bans, Town!Ids, TownUsual, Town!Of
  <2>4. CbansFit
    <3>1. \A r \in cbans : r.id # d.id /\ r.id <= lastCban'
      BY <1>4, <2>1, <2>2, <2>3
    <3>2. lastCban' \in 0 .. MaxTownBans /\ lastCban <= lastCban' /\ d.id <= lastCban'
      BY <1>4, <2>1, <2>2
    <3> QED
      BY <1>1, <1>4, <2>2, <2>3, <3>1, <3>2 DEF CbansFit, TownTyped
  <2>5. Grows(0)
    BY <1>4, <2>1, <2>2 DEF Grows
  <2>6. PICK w \in Turns : w = [turns[j] EXCEPT !.pc = "act", !.doc = d]
    BY <1>1, <2>2 DEF Turns
  <2>7. turns' = [turns EXCEPT ![j] = w]
    BY <1>1, <1>4, <2>6 DEF Town!Keep, Turns
  <2>8. /\ w.pc = "act" /\ w.chat = turns[j].chat /\ w.command = "cban"
        /\ w.community = turns[j].community /\ w.doc = d
    BY <1>1, <2>6 DEF Turns
  <2>9. TurnFits(w)'
    BY <1>1, <1>4, <2>1, <2>2, <2>8 DEF TurnFits, Dealt
  <2>10. TurnHolds(w)'
    <3>1. \A r \in cbans' : r.id = d.id => r = d
      BY <1>4, <2>1, <2>2, <2>3
    <3> QED
      BY <1>4, <2>8, <3>1 DEF TurnHolds, Covered, Kept, Settles
  <2>11. blurred \subseteq blurred'
    BY <1>4 DEF Town!Excused
  <2>12. ASSUME blurred' = {} PROVE (\A s \in cbans' : Proper(s)) /\ TurnInside(w)
    <3>1. TurnInside(turns[j]) /\ \A r \in cbans : Proper(r)
      BY <2>11, <2>12, TurnIs
    <3>2. Proper(d)
      BY <2>2 DEF Proper, Inside
    <3> QED
      BY <1>1, <1>4, <2>8, <3>1, <3>2 DEF TurnInside
  <2>13. ASSUME blurred' = {}
         PROVE  \A i \in TownUpdates : Lifting(turns[i]) => turns[i].community # d.community
    <3>1. ~ Town!Unbanning(turns[j].community)
      BY <1>4, <2>13 DEF Town!Excused
    <3> QED
      BY <2>2, <3>1 DEF Town!Unbanning, Lifting
  <2>14. ASSUME blurred' = {}, NEW s \in cbans'
         PROVE  \/ \E r \in cbans : r.id = s.id /\ r.community = s.community
                \/ Bans(w, s.id) /\ \A i \in TownUpdates : Lifting(turns[i]) => turns[i].community # s.community
    BY <1>4, <2>8, <2>13, <2>14 DEF Bans
  <2>15. \A s \in cbans' : ~ Lifting(w) /\ ~ Lifting(turns[j]) /\ ~ Bans(turns[j], s.id)
    BY <1>1, <2>8 DEF Lifting, Bans
  <2>16. \A c \in cbanned' \cup cbanned : c \in cbanned' /\ c \in cbanned
    BY <1>1
  <2>17. edges' \in [TownChats -> Town!Places] /\ cbanned' \subseteq TownChats /\ edges' = edges
    BY <1>1 DEF TownTyped
  <2>18. PICK z \in Nat : z = 0
    OBVIOUS
  <2>19. /\ \A i \in TownUpdates : Spared(turns[i], 0)
         /\ porter.pc = "ban" => porter.doc.id # 0
         /\ \A r \in cbans : r.id # 0
    BY NobodyAtZero
  <2>20. ASSUME blurred' = {}
         PROVE  /\ \A s \in cbans' :
                      \/ \E r \in cbans : r.id = s.id /\ r.community = s.community
                      \/ Bans(w, s.id) /\ \A i \in TownUpdates : Lifting(turns[i]) => turns[i].community # s.community
                /\ \A s \in cbans', c \in cbanned \ cbanned' : edges[c] # s.community
                /\ Lifting(w) => \A s \in cbans' : w.community # s.community
                /\ \A s \in cbans' : Bans(turns[j], s.id) => Bans(w, s.id)
    BY <2>14, <2>15, <2>16, <2>20
  <2>21. /\ \A c \in cbanned' \ cbanned : Traced(c)'
         /\ ~ Lifting(turns[j]) /\ turns[j].pc # "save"
    BY <1>1, <2>16 DEF Lifting
  <2> QED
    BY <1>1, <2>4, <2>5, <2>7, <2>9, <2>10, <2>11, <2>12, <2>17, <2>18, <2>19, <2>20, <2>21, TurnStep
<1> QED
  BY <1>1, <1>2, <1>3, <1>4 DEF Town!Insert

\* A turn that bans or frees a chat, and leaves the records alone.
LEMMA TurnActs ==
    ASSUME TownUsual, TownInv, NEW j \in TownUpdates, NEW w \in Turns, turns' = [turns EXCEPT ![j] = w],
           UNCHANGED <<edges, cbans, lastCban, duties, porter>>, cbanned' \subseteq TownChats,
           blurred \subseteq blurred', TurnFits(w), turns[j].pc # "save",
           "race" \notin blurred' => TurnHolds(w),
           blurred' = {} => TurnInside(w),
           Calm' =>
               /\ \A c \in cbanned' \ cbanned : Traced(c)'
               /\ Lifting(turns[j]) => \A c \in turns[j].listed \cap cbanned' : Traced(c)',
           blurred' = {} =>
               /\ \A s \in cbans, c \in cbanned \ cbanned' : edges[c] # s.community
               /\ Lifting(w) => \A s \in cbans : w.community # s.community
               /\ \A s \in cbans : Bans(turns[j], s.id) => Bans(w, s.id)
    PROVE  TownInv'
<1>1. TownTyped /\ TurnsApart /\ AllInside
  BY DEF TownInv
<1>2. CbansFit /\ Grows(0)
  BY <1>1, CbansStay
<1>3. TurnFits(w)'
  BY <1>1, <1>2, TurnFitsOn
<1>4. /\ \A i \in TownUpdates : Spared(turns[i], 0)
      /\ porter.pc = "ban" => porter.doc.id # 0
      /\ \A r \in cbans : r.id # 0
  BY NobodyAtZero
<1>5. ASSUME "race" \notin blurred' PROVE TurnHolds(w)'
  <2>1. Spared(w, 0)
    BY <1>1, <1>5 DEF Spared, TownTyped, TurnFits, Town!Bans, Town!Ids, TownUsual
  <2> QED
    BY <1>1, <1>2, <1>5, <2>1, TurnHoldsOn
<1>6. ASSUME blurred' = {} PROVE \A s \in cbans' : Proper(s)
  BY <1>1, <1>6 DEF AllInside
<1>7. edges' \in [TownChats -> Town!Places] /\ edges' = edges
  BY <1>1 DEF TownTyped
<1>8. PICK z \in Nat : z = 0
  OBVIOUS
<1>9. ASSUME blurred' = {}
      PROVE  /\ \A s \in cbans' : \E r \in cbans : r.id = s.id /\ r.community = s.community
             /\ \A s \in cbans', c \in cbanned \ cbanned' : edges[c] # s.community
             /\ Lifting(w) => \A s \in cbans' : w.community # s.community
             /\ \A s \in cbans' : Bans(turns[j], s.id) => Bans(w, s.id)
  BY <1>9
<1>10. ASSUME blurred' = {}
       PROVE  /\ \A s \in cbans' :
                    \/ \E r \in cbans : r.id = s.id /\ r.community = s.community
                    \/ Bans(w, s.id) /\ \A i \in TownUpdates : Lifting(turns[i]) => turns[i].community # s.community
              /\ \A s \in cbans', c \in cbanned \ cbanned' : edges[c] # s.community
              /\ Lifting(w) => \A s \in cbans' : w.community # s.community
              /\ \A s \in cbans' : Bans(turns[j], s.id) => Bans(w, s.id)
  BY <1>9, <1>10
<1>11. ASSUME Calm'
       PROVE  /\ \A c \in cbanned' \ cbanned : Traced(c)'
              /\ \A r \in cbans : r.id # 0
              /\ Lifting(turns[j]) => \A c \in turns[j].listed \cap cbanned' : Traced(c)'
  BY <1>4, <1>11
<1> QED
  BY <1>2, <1>3, <1>4, <1>5, <1>6, <1>7, <1>8, <1>10, <1>11, TurnStep

\* The ban in the chat of the command or message.
LEMMA ActTurns ==
    ASSUME TownUsual, TownInv, NEW j \in TownUpdates, Town!Act(j) PROVE TownInv'
<1>1. /\ turns \in [TownUpdates -> Turns] /\ turns[j] \in Turns /\ TurnFits(turns[j]) /\ turns[j].pc = "act"
      /\ turns[j].command \in {"cban", "message"} /\ turns[j].chat \in TownChats
      /\ turns[j].community \in Communities
      /\ UNCHANGED <<edges, cbans, lastCban, duties, porter>>
      /\ TownTyped
  BY TurnIs DEF Town!Act, TurnFits, TownInv
<1>2. PICK d \in Town!Bans : d = turns[j].doc /\ Dealt(d) /\ d.community = turns[j].community
  BY <1>1 DEF TurnFits
<1>3. PICK c0 \in TownChats : c0 = turns[j].chat
  BY <1>1
<1>4. \/ cbanned' = cbanned \cup {c0} /\ UNCHANGED blurred
      \/ UNCHANGED cbanned /\ blurred' = blurred \cup {"ban"}
  BY <1>3 DEF Town!Act, Town!Ban, Town!BanRefused, Town!Fault
<1>5. cbanned' \subseteq TownChats /\ cbanned \ cbanned' = {} /\ blurred \subseteq blurred'
  BY <1>1, <1>4 DEF TownTyped
<1>6. "race" \notin blurred' => TurnHolds(turns[j])
  BY <1>5, TurnIs
<1>7. blurred' = {} => TurnInside(turns[j])
  BY <1>5, TurnIs
<1>8. CASE /\ Town!To(j, Town!After(j))
           /\ c0 \in d.chats \/ UNCHANGED cbanned
  <2>1. PICK w \in Turns : /\ turns' = [turns EXCEPT ![j] = w]
                          /\ IF turns[j].command = "cban"
                             THEN /\ w.pc = "queue" /\ w.chat = turns[j].chat /\ w.command = turns[j].command
                                  /\ w.community = turns[j].community /\ w.doc = turns[j].doc
                             ELSE w.pc = "done" /\ w.command = "none"
    <3>1. CASE turns[j].command = "cban"
      <4>1. PICK w \in Turns : w = [turns[j] EXCEPT !.pc = "queue"]
        BY <1>1 DEF Turns
      <4>2. turns' = [turns EXCEPT ![j] = w]
        BY <1>8, <3>1, <4>1 DEF Town!To, Town!After
      <4>3. /\ w.pc = "queue" /\ w.chat = turns[j].chat /\ w.command = turns[j].command
            /\ w.community = turns[j].community /\ w.doc = turns[j].doc
        BY <1>1, <4>1 DEF Turns
      <4> QED
        BY <3>1, <4>2, <4>3
    <3>2. CASE turns[j].command # "cban"
      <4>1. PICK w \in Turns : w = Town!At("done")
        BY DEF Turns, Town!At
      <4>2. turns' = [turns EXCEPT ![j] = w]
        BY <1>8, <3>2, <4>1 DEF Town!To, Town!After
      <4>3. w.pc = "done" /\ w.command = "none"
        BY <4>1 DEF Town!At
      <4> QED
        BY <3>2, <4>2, <4>3
    <3> QED
      BY <3>1, <3>2
  <2>2. TurnFits(w)
    BY <1>1, <1>2, <2>1 DEF TurnFits
  <2>3. "race" \notin blurred' => TurnHolds(w)
    BY <1>1, <1>6, <2>1 DEF TurnHolds
  <2>4. blurred' = {} => TurnInside(w)
    BY <1>1, <1>7, <2>1 DEF TurnInside
  <2>5. ASSUME Calm', NEW c \in cbanned' \ cbanned PROVE Traced(c)'
    <3>1. c = c0 /\ c0 \in d.chats
      BY <1>4, <1>8, <2>5
    <3>2. Covered(d)
      BY <1>1, <1>2, <1>6, <2>5 DEF Calm, TurnHolds
    <3>3. \E r \in cbans' : c \in r.chats
      BY <1>1, <3>1, <3>2 DEF Covered
    <3> QED
      BY <3>3 DEF Traced
  <2>6. ~ Lifting(w) /\ ~ Lifting(turns[j]) /\ \A s \in cbans : Bans(turns[j], s.id) => Bans(w, s.id)
    BY <1>1, <2>1 DEF Lifting, Bans
  <2> QED
    BY <1>1, <1>5, <2>1, <2>2, <2>3, <2>4, <2>5, <2>6, TurnActs
<1>9. CASE /\ Town!Keep(j, "save", [turns[j].doc EXCEPT !.chats = @ \cup {turns[j].chat}])
           /\ cbanned' = cbanned \cup {c0}
  <2>1. PICK e \in Town!Bans : e = [d EXCEPT !.chats = @ \cup {c0}]
    BY <1>2, <1>3 DEF Town!Bans
  <2>2. e.id = d.id /\ e.community = d.community /\ e.chats = d.chats \cup {c0}
    BY <1>2, <2>1 DEF Town!Bans
  <2>3. PICK w \in Turns : w = [turns[j] EXCEPT !.pc = "save", !.doc = e]
    BY <1>1 DEF Turns
  <2>4. turns' = [turns EXCEPT ![j] = w]
    BY <1>1, <1>2, <1>3, <1>9, <2>1, <2>3 DEF Town!Keep, Turns
  <2>5. /\ w.pc = "save" /\ w.chat = turns[j].chat /\ w.command = turns[j].command
        /\ w.community = turns[j].community /\ w.doc = e
    BY <1>1, <2>3 DEF Turns
  <2>6. TurnFits(w)
    BY <1>1, <1>2, <2>2, <2>5 DEF TurnFits, Dealt
  <2>7. "race" \notin blurred' => TurnHolds(w)
    BY <1>1, <1>2, <1>6, <2>2, <2>5 DEF TurnHolds, Kept, Settles
  <2>8. blurred' = {} => TurnInside(w)
    BY <1>1, <1>2, <1>3, <1>7, <2>2, <2>5 DEF TurnInside, Proper, Inside
  <2>9. \A c \in cbanned' \ cbanned : Traced(c)'
    <3>1. turns'[j] = w /\ c0 \in w.doc.chats
      BY <1>1, <2>2, <2>4, <2>5
    <3> QED
      BY <1>9, <2>5, <3>1 DEF Traced
  <2>10. ~ Lifting(w) /\ ~ Lifting(turns[j]) /\ \A s \in cbans : Bans(turns[j], s.id) => Bans(w, s.id)
    BY <1>1, <1>2, <2>2, <2>5 DEF Lifting, Bans
  <2> QED
    BY <1>1, <1>5, <2>4, <2>6, <2>7, <2>8, <2>9, <2>10, TurnActs
<1> QED
  BY <1>2, <1>3, <1>8, <1>9 DEF Town!Act, Town!Ban, Town!BanRefused

\* The copy with the chat added is saved.
LEMMA SaveChatTurns ==
    ASSUME TownUsual, TownInv, NEW j \in TownUpdates, Town!SaveChat(j) PROVE TownInv'
<1>1. /\ turns \in [TownUpdates -> Turns] /\ turns[j] \in Turns /\ TurnFits(turns[j]) /\ turns[j].pc = "save"
      /\ turns[j].command \in {"cban", "message"}
      /\ UNCHANGED <<edges, lastCban, cbanned, duties, porter>>
  BY TurnIs DEF Town!SaveChat, TurnFits
<1>2. CASE Town!To(j, "done") /\ Town!Excused(TRUE, "race") /\ UNCHANGED cbans
  <2>1. blurred \subseteq blurred' /\ "race" \in blurred'
    BY <1>2 DEF Town!Excused
  <2> QED
    BY <1>1, <1>2, <2>1, TurnEnds DEF Calm
<1>3. CASE /\ ~ Town!Clash(turns[j].doc) /\ Town!Save(turns[j].doc)
           /\ Town!Excused(Town!Overwrites(turns[j].doc), "race") /\ Town!To(j, Town!After(j))
  <2>1. CASE turns[j].command = "cban"
    <3>1. PICK w \in Turns : w = [turns[j] EXCEPT !.pc = "queue"]
      BY <1>1 DEF Turns
    <3>2. turns' = [turns EXCEPT ![j] = w]
      BY <1>3, <2>1, <3>1 DEF Town!To, Town!After
    <3>3. /\ w.pc = "queue" /\ w.chat = turns[j].chat /\ w.command = turns[j].command
          /\ w.community = turns[j].community /\ w.doc = turns[j].doc
      BY <1>1, <3>1 DEF Turns
    <3>4. TurnFits(w) /\ (blurred = {} => TurnInside(w)) /\ ~ Lifting(w)
      BY <1>1, <2>1, <3>3, TurnIs DEF TurnFits, TurnInside, Lifting
    <3> QED
      BY <1>1, <1>3, <3>2, <3>3, <3>4, SaveTurns
  <2>2. CASE turns[j].command # "cban"
    <3>1. PICK w \in Turns : w = Town!At("done")
      BY DEF Turns, Town!At
    <3>2. turns' = [turns EXCEPT ![j] = w]
      BY <1>3, <2>2, <3>1 DEF Town!To, Town!After
    <3>3. w.pc = "done" /\ w.command = "none"
      BY <3>1 DEF Town!At
    <3>4. TurnFits(w) /\ TurnInside(w) /\ ~ Lifting(w)
      BY <3>3 DEF TurnFits, TurnInside, Lifting
    <3> QED
      BY <1>1, <1>3, <2>2, <3>2, <3>3, <3>4, SaveTurns
  <2> QED
    BY <2>1, <2>2
<1> QED
  BY <1>2, <1>3 DEF Town!SaveChat

\* The ban in the chat of the command is lifted.
LEMMA UnbanTurns ==
    ASSUME TownUsual, TownInv, NEW j \in TownUpdates, Town!Unban(j) PROVE TownInv'
<1>1. /\ turns \in [TownUpdates -> Turns] /\ turns[j] \in Turns /\ TurnFits(turns[j]) /\ turns[j].pc = "lift"
      /\ turns[j].command = "cunban" /\ turns[j].doc = None
      /\ UNCHANGED <<edges, cbans, lastCban, duties, porter>>
      /\ TownTyped
  BY TurnIs DEF Town!Unban, TurnFits, TownInv
<1>2. /\ cbanned' \subseteq cbanned /\ cbanned \ cbanned' \subseteq {turns[j].chat} /\ cbanned' \subseteq TownChats
      /\ blurred \subseteq blurred'
  BY <1>1 DEF Town!Unban, Town!Lift, Town!Fault, TownTyped
<1>3. PICK w \in Turns : w = [turns[j] EXCEPT !.pc = "queue"]
  BY <1>1 DEF Turns
<1>4. turns' = [turns EXCEPT ![j] = w]
  BY <1>3 DEF Town!Unban, Town!To
<1>5. /\ w.pc = "queue" /\ w.chat = turns[j].chat /\ w.command = turns[j].command
      /\ w.community = turns[j].community /\ w.doc = None /\ w.listed = turns[j].listed
  BY <1>1, <1>3 DEF Turns
<1>6. TurnFits(w) /\ TurnHolds(w) /\ (blurred = {} => TurnInside(w))
  BY <1>1, <1>5, TurnIs DEF TurnFits, TurnHolds, TurnInside
<1>7. \A c \in turns[j].listed : Traced(c)'
  <2>1. Lifting(w) /\ turns'[j] = w
    BY <1>1, <1>4, <1>5 DEF Lifting
  <2>2. Lifting(turns[j])'
    BY <2>1 DEF Lifting
  <2> QED
    BY <1>5, <2>1, <2>2 DEF Traced
<1>8. ASSUME blurred' = {}
      PROVE  /\ \A s \in cbans : w.community # s.community
             /\ \A s \in cbans, c \in cbanned \ cbanned' : edges[c] # s.community
  <2>1. blurred = {} /\ Lifting(turns[j])
    BY <1>1, <1>2, <1>8 DEF Lifting
  <2>2. edges[turns[j].chat] = turns[j].community
    BY <1>1, <2>1, TurnIs DEF TurnInside
  <2>3. \A s \in cbans : turns[j].community # s.community
    BY <2>1 DEF TownInv, AllUnderway
  <2> QED
    BY <1>2, <1>5, <2>2, <2>3
<1>9. \A s \in cbans : ~ Bans(turns[j], s.id)
  BY <1>1 DEF Bans
<1> QED
  BY <1>1, <1>2, <1>4, <1>6, <1>7, <1>8, <1>9, TurnActs

\* set_community of what getChat answered.
LEMMA AttachTurns ==
    ASSUME TownUsual, TownInv, NEW j \in TownUpdates, Town!Attach(j) PROVE TownInv'
<1>1. /\ turns \in [TownUpdates -> Turns] /\ turns[j] \in Turns /\ TurnFits(turns[j]) /\ turns[j].pc = "attach"
      /\ turns[j].command \in {"cban", "cunban"} /\ turns[j].chat \in TownChats
      /\ UNCHANGED <<cbans, lastCban, cbanned, duties, porter>>
      /\ TownTyped
  BY TurnIs DEF Town!Attach, TurnFits, TownInv
<1>2. PICK k \in Communities : k = turns[j].community
  BY <1>1 DEF TurnFits
<1>3. edges' \in [TownChats -> Town!Places] /\ cbanned' \subseteq TownChats
  BY <1>1, <1>2 DEF Town!Attach, TownTyped, Town!Places
<1>4. blurred \subseteq blurred' /\ blurred' # {}
  BY DEF Town!Attach
<1>5. PICK p \in {"look", "snapshot"} : p = IF turns[j].command = "cban" THEN "look" ELSE "snapshot"
  BY <1>1
<1>6. PICK w \in Turns : w = [turns[j] EXCEPT !.community = k, !.pc = p]
  BY <1>1 DEF Turns
<1>7. turns' = [turns EXCEPT ![j] = w]
  BY <1>1, <1>2, <1>5, <1>6 DEF Town!Attach, Town!Known, Turns
<1>8. w.pc = p /\ w.chat = turns[j].chat /\ w.command = turns[j].command /\ w.community = k
  BY <1>1, <1>6 DEF Turns
<1>9. w.doc = turns[j].doc
  BY <1>1, <1>6 DEF Turns
<1>10. PICK m : m = w.doc
  OBVIOUS
<1>11. CbansFit /\ Grows(0)
  BY <1>1, CbansStay
<1>12. TurnFits(w) /\ TurnHolds(w)
  BY <1>1, <1>2, <1>5, <1>8, <1>9 DEF TurnFits, TurnHolds
<1>13. TurnFits(w)' /\ TurnHolds(w)'
  BY <1>1, <1>11, <1>12, TurnFitsOn, <1>8, <1>5 DEF TurnHolds
<1>14. /\ \A i \in TownUpdates : Spared(turns[i], 0)
       /\ porter.pc = "ban" => porter.doc.id # 0
       /\ \A r \in cbans : r.id # 0
  BY NobodyAtZero
<1>15. /\ \A c \in cbanned' \ cbanned : Traced(c)'
       /\ ~ Lifting(turns[j]) /\ turns[j].pc # "save"
  BY <1>1 DEF Lifting
<1>16. PICK z \in Nat : z = 0
  OBVIOUS
<1> QED
  BY <1>1, <1>3, <1>4, <1>7, <1>11, <1>13, <1>14, <1>15, <1>16, TurnStep

\* The record is deleted by _id, whatever copies of it are about to be saved.
LEMMA DeleteTurns ==
    ASSUME TownUsual, TownInv, NEW j \in TownUpdates, Town!Delete(j) PROVE TownInv'
<1>1. /\ turns \in [TownUpdates -> Turns] /\ turns[j] \in Turns /\ TurnFits(turns[j]) /\ turns[j].pc = "delete"
      /\ turns[j].command = "cunban" /\ turns[j].chat \in TownChats
      /\ UNCHANGED <<edges, lastCban, cbanned, duties, porter>>
      /\ TownTyped
  BY TurnIs DEF Town!Delete, TurnFits, TownInv
<1>2. PICK d \in Town!Bans : d = turns[j].doc /\ Dealt(d) /\ d.community = turns[j].community
  BY <1>1, TurnCarries
<1>3. /\ cbans' = {r \in cbans : r.id # d.id}
      /\ Town!Excused(\/ d \notin cbans
                      \/ porter.doc # None /\ porter.doc.id = d.id
                      \/ \E i \in TownUpdates \ {j} : turns[i].doc # None /\ turns[i].doc.id = d.id
                                                /\ turns[i].pc \in {"reason", "act", "save"}, "race")
      /\ Town!Keep(j, "lift", None)
  BY <1>2 DEF Town!Delete
<1>4. PICK x \in Nat : x = d.id
  BY <1>2 DEF Town!Bans, Town!Ids, TownUsual
<1>5. CbansFit /\ Grows(x)
  <2>1. \A r \in cbans' : r \in cbans /\ r.id # x
    BY <1>3, <1>4
  <2>2. CbansFit
    BY <1>1, <2>1 DEF TownTyped, CbansFit, Dealt
  <2>3. \A r \in cbans : r.id # x => r \in cbans'
    BY <1>3, <1>4
  <2>4. Grows(x)
    BY <2>1, <2>3 DEF Grows
  <2> QED
    BY <2>2, <2>4
<1>6. PICK w \in Turns : w = [turns[j] EXCEPT !.pc = "lift", !.doc = None]
  BY <1>1 DEF Turns
<1>7. turns' = [turns EXCEPT ![j] = w]
  BY <1>1, <1>3, <1>6 DEF Town!Keep, Turns
<1>8. /\ w.pc = "lift" /\ w.chat = turns[j].chat /\ w.command = "cunban"
      /\ w.community = turns[j].community /\ w.doc = None /\ w.listed = turns[j].listed
  BY <1>1, <1>6 DEF Turns
<1>9. TurnFits(w)' /\ TurnHolds(w)'
  BY <1>1, <1>2, <1>8 DEF TurnFits, TurnHolds
<1>10. blurred \subseteq blurred'
  BY <1>3 DEF Town!Excused
<1>11. ASSUME "race" \notin blurred'
       PROVE  /\ d \in cbans /\ (porter.doc = None \/ porter.doc.id # x)
              /\ \A i \in TownUpdates \ {j} :
                    turns[i].pc \in {"reason", "act", "save"} => turns[i].doc = None \/ turns[i].doc.id # x
              /\ d.chats = turns[j].listed
  <2>1. d.chats = turns[j].listed
    BY <1>1, <1>2, <1>10, <1>11, TurnIs DEF TurnHolds
  <2> QED
    BY <1>3, <1>4, <1>11, <2>1 DEF Town!Excused
<1>12. ASSUME "race" \notin blurred'
       PROVE  /\ \A i \in TownUpdates \ {j} : Spared(turns[i], x)
              /\ porter.pc = "ban" => porter.doc.id # x
  <2>1. ASSUME NEW i \in TownUpdates \ {j} PROVE Spared(turns[i], x)
    <3>1. turns[i].pc \in {"reason", "act", "save"} => turns[i].doc # None
      BY TurnCarries DEF TownUsual
    <3> QED
      BY <1>11, <1>12, <3>1 DEF Spared
  <2>2. porter.pc = "ban" => porter.doc # None
    BY <1>1 DEF TownTyped, PorterFits, TownUsual
  <2> QED
    BY <1>11, <1>12, <2>1, <2>2
<1>13. ASSUME blurred' = {} PROVE (\A s \in cbans' : Proper(s)) /\ TurnInside(w)
  <2>1. blurred = {} /\ TurnInside(turns[j]) /\ \A r \in cbans : Proper(r)
    BY <1>10, <1>13, TurnIs
  <2> QED
    BY <1>1, <1>3, <1>8, <2>1 DEF TurnInside
<1>14. \A c \in turns[j].listed : Traced(c)'
  <2>1. Lifting(w) /\ turns'[j] = w
    BY <1>1, <1>7, <1>8 DEF Lifting
  <2>2. Lifting(turns[j])'
    BY <2>1 DEF Lifting
  <2> QED
    BY <1>8, <2>1, <2>2 DEF Traced
<1>15. ASSUME Calm'
       PROVE  /\ \A c \in cbanned' \ cbanned : Traced(c)'
              /\ \A r \in cbans : r.id = x => \A c \in r.chats : Traced(c)'
              /\ Lifting(turns[j]) => \A c \in turns[j].listed \cap cbanned' : Traced(c)'
  <2>1. d \in cbans /\ d.chats = turns[j].listed
    BY <1>11, <1>15 DEF Calm
  <2>2. \A r \in cbans : r.id = x => r = d
    BY <1>1, <1>4, <2>1 DEF TownTyped
  <2> QED
    BY <1>1, <1>14, <2>1, <2>2
<1>16. ASSUME blurred' = {}
       PROVE  /\ \A s \in cbans' :
                    \/ \E r \in cbans : r.id = s.id /\ r.community = s.community
                    \/ Bans(w, s.id) /\ \A i \in TownUpdates : Lifting(turns[i]) => turns[i].community # s.community
              /\ \A s \in cbans', c \in cbanned \ cbanned' : edges[c] # s.community
              /\ Lifting(w) => \A s \in cbans' : w.community # s.community
              /\ \A s \in cbans' : Bans(turns[j], s.id) => Bans(w, s.id)
  <2>1. \A s \in cbans' : s \in cbans /\ s.id # d.id
    BY <1>3
  <2>2. d \in cbans
    BY <1>11, <1>16
  <2>3. \A s \in cbans' : w.community # s.community
    BY <1>1, <1>2, <1>8, <2>1, <2>2 DEF TownTyped
  <2>4. \A s \in cbans' : ~ Bans(turns[j], s.id)
    BY <1>1 DEF Bans
  <2> QED
    BY <1>1, <2>1, <2>3, <2>4
<1>17. edges' \in [TownChats -> Town!Places] /\ cbanned' \subseteq TownChats /\ edges' = edges /\ turns[j].pc # "save"
  BY <1>1 DEF TownTyped
<1> QED
  BY <1>1, <1>5, <1>7, <1>9, <1>10, <1>12, <1>13, <1>15, <1>16, <1>17, TurnStep

\* The task is inserted, at the end of /cban and /cunban.
LEMMA QueueTurns ==
    ASSUME TownUsual, TownInv, NEW j \in TownUpdates, Town!Queue(j) PROVE TownInv'
<1>1. /\ turns \in [TownUpdates -> Turns] /\ turns[j] \in Turns /\ TurnFits(turns[j]) /\ turns[j].pc = "queue"
      /\ turns[j].command \in {"cban", "cunban"} /\ turns[j].chat \in TownChats
      /\ UNCHANGED <<edges, cbans, lastCban, cbanned, porter, blurred>>
      /\ TownTyped /\ TurnsApart /\ AllInside /\ AllTraced /\ AllUnderway
  BY TurnIs DEF Town!Queue, TurnFits, TownInv
<1>2. PICK b \in Nat : b = IF turns[j].doc = None THEN 0 ELSE turns[j].doc.id
  BY <1>1 DEF Turns, Town!Bans, Town!Ids, TownUsual
<1>3. turns[j].command = "cban" => turns[j].doc \in Town!Bans /\ b = turns[j].doc.id /\ b <= lastCban
  BY <1>1, <1>2 DEF TurnFits, TownUsual, Dealt
<1>4. turns[j].command = "cunban" => b = 0
  BY <1>1, <1>2 DEF TurnFits
<1>5. PICK t \in Duties :
          t = [status |-> "PENDING", kind |-> turns[j].command, chat |-> turns[j].chat, ban |-> b,
               chats |-> turns[j].listed]
  BY <1>1 DEF Duties, Turns
<1>6. /\ t.status = "PENDING" /\ t.kind = turns[j].command /\ t.chat = turns[j].chat /\ t.ban = b
      /\ t.chats = turns[j].listed
  BY <1>5
<1>7. PICK n \in Nat : n = Len(duties)
  BY <1>1 DEF TownTyped
<1>8. /\ duties' = Append(duties, t) /\ duties \in Seq(Duties) /\ duties' \in Seq(Duties)
      /\ DOMAIN duties = 1 .. n /\ DOMAIN duties' = 1 .. (n + 1)
      /\ duties'[n + 1] = t /\ \A i \in 1 .. n : duties'[i] = duties[i]
  <2>1. duties' = Append(duties, t)
    BY <1>2, <1>5 DEF Town!Queue
  <2> QED
    BY <1>1, <1>7, <2>1 DEF TownTyped
<1>9. PICK w \in Turns : w = Town!At("done")
  BY DEF Turns, Town!At
<1>10. w.pc = "done" /\ w.command = "none"
  BY <1>9 DEF Town!At
<1>11. /\ turns' = [turns EXCEPT ![j] = w]
       /\ turns'[j] = w /\ \A i \in TownUpdates \ {j} : turns'[i] = turns[i]
  BY <1>1, <1>9 DEF Town!Queue, Town!To
<1>12. porter.pc # "idle" => porter.task \in 1 .. n /\ duties'[porter.task] = duties[porter.task]
  BY <1>1, <1>8 DEF TownTyped, PorterFits
<1>13. TownTyped'
  <2>1. \A i \in DOMAIN duties' : duties'[i].ban <= lastCban
    <3>1. 0 <= lastCban
      BY <1>1 DEF TownTyped, TownUsual
    <3>2. t.ban <= lastCban
      BY <1>1, <1>3, <1>4, <1>6, <3>1
    <3> QED
      BY <1>1, <1>8, <3>2 DEF TownTyped
  <2>2. \A i \in TownUpdates : TurnFits(turns[i])'
    BY <1>1, <1>10, <1>11 DEF TownTyped, TurnFits, Dealt
  <2>3. PorterFits'
    BY <1>1, <1>8, <1>12 DEF TownTyped, PorterFits, Dealt, Porters
  <2>4. turns' \in [TownUpdates -> Turns]
    BY <1>1, <1>11
  <2> QED
    BY <1>1, <1>8, <2>1, <2>2, <2>3, <2>4 DEF TownTyped, Dealt
<1>14. TurnsApart'
  <2> SUFFICES ASSUME "race" \notin blurred
               PROVE  /\ \A i \in TownUpdates : TurnHolds(turns[i])'
                      /\ porter.pc = "ban" => Kept(porter.doc)'
    BY <1>1 DEF TurnsApart, Kept
  <2>1. ASSUME NEW i \in TownUpdates PROVE TurnHolds(turns[i])'
    <3>1. CASE i = j
      BY <1>10, <1>11, <3>1 DEF TurnHolds
    <3>2. CASE i # j
      <4>1. turns'[i] = turns[i] /\ TurnHolds(turns[i])
        BY <1>1, <1>11, <3>2 DEF TurnsApart
      <4> QED
        BY <1>1, <4>1 DEF TurnHolds, Covered, Kept, Settles
    <3> QED
      BY <3>1, <3>2
  <2>2. porter.pc = "ban" => Kept(porter.doc)'
    BY <1>1 DEF TurnsApart, Kept
  <2> QED
    BY <2>1, <2>2
<1>15. AllInside'
  <2> SUFFICES ASSUME blurred = {}
               PROVE  /\ \A i \in TownUpdates : TurnInside(turns[i])'
                      /\ \A i \in DOMAIN duties' : DutyInside(duties[i])'
    BY <1>1 DEF AllInside, Proper, Inside
  <2>1. ASSUME NEW i \in TownUpdates PROVE TurnInside(turns[i])'
    <3>1. CASE i = j
      BY <1>10, <1>11, <3>1 DEF TurnInside
    <3>2. CASE i # j
      <4>1. turns'[i] = turns[i] /\ TurnInside(turns[i])
        BY <1>1, <1>11, <3>2 DEF AllInside
      <4> QED
        BY <1>1, <4>1 DEF TurnInside, Proper, Inside
    <3> QED
      BY <3>1, <3>2
  <2>2. ASSUME NEW i \in 1 .. (n + 1) PROVE DutyInside(duties[i])'
    <3>1. CASE i = n + 1
      <4>1. duties'[i] = t
        BY <1>8, <3>1
      <4>2. TurnHolds(turns[j]) /\ TurnInside(turns[j])
        BY <1>1, TurnIs
      <4>3. t.kind = "cban" => Settles(t.ban, edges[t.chat])
        BY <1>1, <1>3, <1>6, <4>2 DEF TurnHolds, TurnInside, TurnFits
      <4> QED
        BY <1>1, <4>1, <4>3 DEF DutyInside, Settles
    <3>2. CASE i \in 1 .. n
      <4>1. duties'[i] = duties[i] /\ DutyInside(duties[i])
        BY <1>1, <1>8, <3>2 DEF AllInside
      <4> QED
        BY <1>1, <4>1 DEF DutyInside, Settles
    <3> QED
      BY <3>1, <3>2
  <2> QED
    BY <1>8, <2>1, <2>2
<1>16. \A i \in 1 .. n, k \in {"cban", "cunban"} : Waiting(i, k) <=> Waiting(i, k)'
  BY <1>8 DEF Waiting
<1>17. AllTraced'
  <2> SUFFICES ASSUME Calm, NEW c \in cbanned PROVE Traced(c)'
    BY <1>1 DEF AllTraced, Calm
  <2>1. Traced(c)
    BY <1>1 DEF AllTraced
  <2>2. CASE \E r \in cbans : c \in r.chats
    BY <1>1, <2>2 DEF Traced
  <2>3. CASE \E i \in TownUpdates : turns[i].pc = "save" /\ c \in turns[i].doc.chats
    <3>1. PICK i \in TownUpdates : turns[i].pc = "save" /\ c \in turns[i].doc.chats
      BY <2>3
    <3>2. turns'[i] = turns[i]
      BY <1>1, <1>11, <3>1
    <3> QED
      BY <3>1, <3>2 DEF Traced
  <2>4. CASE \E i \in TownUpdates : Lifting(turns[i]) /\ c \in turns[i].listed
    <3>1. PICK i \in TownUpdates : Lifting(turns[i]) /\ c \in turns[i].listed
      BY <2>4
    <3>2. CASE i = j
      <4>1. Waiting(n + 1, "cunban")' /\ c \in duties'[n + 1].chats /\ n + 1 \in DOMAIN duties'
        BY <1>6, <1>8, <3>1, <3>2 DEF Waiting, Lifting
      <4> QED
        BY <4>1 DEF Traced, Waiting
    <3>3. CASE i # j
      <4>1. turns'[i] = turns[i]
        BY <1>11, <3>3
      <4>2. Lifting(turns[i])' /\ c \in turns'[i].listed
        BY <3>1, <4>1 DEF Lifting
      <4> QED
        BY <4>2 DEF Traced
    <3> QED
      BY <3>2, <3>3
  <2>5. CASE \E i \in DOMAIN duties : Waiting(i, "cunban") /\ c \in duties[i].chats
    <3>1. PICK i \in 1 .. n : Waiting(i, "cunban") /\ c \in duties[i].chats
      BY <1>8, <2>5
    <3>2. Waiting(i, "cunban")' /\ c \in duties'[i].chats /\ i \in DOMAIN duties'
      BY <1>8, <1>16, <3>1
    <3> QED
      BY <3>2 DEF Traced, Waiting
  <2>6. CASE \/ porter.pc = "ban" /\ c \in porter.hit
             \/ porter.pc = "unban" /\ c \in porter.left
    BY <1>1, <2>6 DEF Traced
  <2> QED
    BY <2>1, <2>2, <2>3, <2>4, <2>5, <2>6 DEF Traced
<1>18. AllUnderway'
  <2> SUFFICES ASSUME blurred = {}, NEW s \in cbans
               PROVE  /\ \A i \in TownUpdates : Lifting(turns[i])' => turns'[i].community # s.community
                      /\ Underway(s.id)' \/ Behind(s.id, s.community)' \/ Done(s.id, s.community)'
    BY <1>1 DEF AllUnderway
  <2>1. /\ \A i \in TownUpdates : Lifting(turns[i]) => turns[i].community # s.community
        /\ Underway(s.id) \/ Behind(s.id, s.community) \/ Done(s.id, s.community)
        /\ TurnInside(turns[j])
    BY <1>1, TurnIs DEF AllUnderway
  <2>2. \A i \in TownUpdates : Lifting(turns[i])' => turns'[i].community # s.community
    BY <1>10, <1>11, <2>1 DEF Lifting
  <2>3. \A k \in 1 .. n : Undoes(k, s.community)' => Undoes(k, s.community)
    BY <1>1, <1>8, <1>16 DEF Undoes
  <2>4. ~ Undoes(n + 1, s.community)'
    <3> SUFFICES ASSUME t.kind = "cunban", NEW c \in t.chats, edges[c] = s.community PROVE FALSE
      BY <1>1, <1>8 DEF Undoes, Waiting
    <3>1. edges[c] = turns[j].community
      BY <1>1, <1>6, <2>1 DEF TurnInside, Inside
    <3> QED
      BY <1>1, <1>6, <2>1, <3>1 DEF Lifting
  <2>5. CASE Underway(s.id)
    <3>1. PICK i \in TownUpdates : Bans(turns[i], s.id)
      BY <2>5 DEF Underway
    <3>2. CASE i = j
      <4>1. Waiting(n + 1, "cban")' /\ duties'[n + 1].ban = s.id /\ n + 1 \in DOMAIN duties'
        BY <1>3, <1>6, <1>8, <3>1, <3>2 DEF Waiting, Bans
      <4>2. \A k \in DOMAIN duties' : Undoes(k, s.community)' => k < n + 1
        <5> SUFFICES ASSUME NEW k \in 1 .. (n + 1), Undoes(k, s.community)' PROVE k < n + 1
          BY <1>8
        <5>1. k # n + 1
          BY <2>4
        <5> QED
          BY <5>1
      <4> QED
        BY <2>2, <4>1, <4>2 DEF Behind
    <3>3. CASE i # j
      <4>1. turns'[i] = turns[i]
        BY <1>11, <3>3
      <4>2. Bans(turns[i], s.id)'
        BY <3>1, <4>1 DEF Bans
      <4> QED
        BY <2>2, <4>2 DEF Underway
    <3> QED
      BY <3>2, <3>3
  <2>6. CASE Behind(s.id, s.community)
    <3>1. PICK i \in 1 .. n : /\ Waiting(i, "cban") /\ duties[i].ban = s.id
                             /\ \A k \in DOMAIN duties : Undoes(k, s.community) => k < i
      BY <1>8, <2>6 DEF Behind
    <3>2. Waiting(i, "cban")' /\ duties'[i].ban = s.id /\ i \in DOMAIN duties'
      BY <1>8, <1>16, <3>1
    <3>3. \A k \in DOMAIN duties' : Undoes(k, s.community)' => k < i
      <4> SUFFICES ASSUME NEW k \in 1 .. (n + 1), Undoes(k, s.community)' PROVE k < i
        BY <1>8
      <4>1. k \in 1 .. n
        BY <2>4
      <4> QED
        BY <1>8, <2>3, <3>1, <4>1
    <3> QED
      BY <2>2, <3>2, <3>3 DEF Behind
  <2>7. CASE Done(s.id, s.community)
    <3>1. \A k \in DOMAIN duties' : ~ Undoes(k, s.community)'
      <4> SUFFICES ASSUME NEW k \in 1 .. (n + 1), Undoes(k, s.community)' PROVE FALSE
        BY <1>8
      <4>1. k \in 1 .. n
        BY <2>4
      <4>2. Undoes(k, s.community) /\ k \in DOMAIN duties
        BY <1>8, <2>3, <4>1
      <4> QED
        BY <2>7, <4>2 DEF Done
    <3> QED
      BY <1>1, <1>12, <2>2, <2>7, <3>1 DEF Done
  <2> QED
    BY <2>1, <2>5, <2>6, <2>7
<1> QED
  BY <1>13, <1>14, <1>15, <1>17, <1>18 DEF TownInv

-----------------------------------------------------------------------------
(* The scheduler *)

\* The tasks are the same, but for what became of them.
SameDuties ==
    /\ duties' \in Seq(Duties) /\ DOMAIN duties' = DOMAIN duties
    /\ \A i \in DOMAIN duties : /\ duties'[i].kind = duties[i].kind /\ duties'[i].chat = duties[i].chat
                                /\ duties'[i].ban = duties[i].ban /\ duties'[i].chats = duties[i].chats

LEMMA DutyMoves ==
    ASSUME TownTyped, NEW i \in DOMAIN duties, NEW s \in {"PROCESSING", "COMPLETED", "FAILED"},
           duties' = [duties EXCEPT ![i].status = s]
    PROVE  /\ SameDuties
           /\ duties'[i].status = s /\ \A h \in DOMAIN duties \ {i} : duties'[h] = duties[h]
<1>1. PICK n \in Nat : n = Len(duties)
  BY DEF TownTyped
<1>2. duties \in [1 .. n -> Duties] /\ DOMAIN duties = 1 .. n
  BY <1>1 DEF TownTyped
<1>3. PICK t \in Duties : t = [duties[i] EXCEPT !.status = s]
  BY <1>2 DEF Duties
<1>4. duties' = [duties EXCEPT ![i] = t]
  BY <1>2, <1>3
<1>5. /\ duties'[i] = t /\ DOMAIN duties' = 1 .. n /\ duties' \in [1 .. n -> Duties]
      /\ \A h \in DOMAIN duties \ {i} : duties'[h] = duties[h]
  BY <1>2, <1>4
<1>6. duties' \in Seq(Duties)
  BY <1>4 DEF TownTyped
<1>7. t.status = s /\ t.kind = duties[i].kind /\ t.chat = duties[i].chat /\ t.ban = duties[i].ban /\ t.chats = duties[i].chats
  BY <1>2, <1>3 DEF Duties
<1> QED
  BY <1>2, <1>5, <1>6, <1>7 DEF SameDuties

LEMMA DutiesStay ==
    ASSUME TownTyped, UNCHANGED duties PROVE SameDuties
BY DEF TownTyped, SameDuties

\* What the scheduler, or a service message, must see to for every property
\* to stay.
LEMMA PorterStep ==
    ASSUME TownUsual, TownInv, SameDuties, UNCHANGED turns, CbansFit, porter' \in Porters, PorterFits',
           edges' \in [TownChats -> Town!Places], cbanned' \subseteq TownChats, blurred \subseteq blurred',
           "race" \notin blurred' => Grows(0) /\ (porter'.pc = "ban" => Kept(porter.doc)'),
           blurred' = {} =>
               /\ edges' = edges
               /\ \A s \in cbans' : Proper(s)
               /\ porter'.pc = "ban" =>
                      Proper(porter'.doc) /\ Inside(porter'.left \cup porter'.hit, porter'.doc.community),
           Calm' =>
               /\ \A c \in cbanned' \ cbanned : Traced(c)'
               /\ porter.pc = "ban" => \A c \in porter.hit : Traced(c)'
               /\ porter.pc = "unban" => \A c \in porter.left \cap cbanned' : Traced(c)'
               /\ \A i \in DOMAIN duties :
                     Waiting(i, "cunban") /\ ~ Waiting(i, "cunban")' => \A c \in duties[i].chats : Traced(c)',
           blurred' = {} =>
               \A s \in cbans' :
                   /\ \E r \in cbans : r.id = s.id /\ r.community = s.community
                   /\ Behind(s.id, s.community) \/ Done(s.id, s.community)
                      => Behind(s.id, s.community)' \/ Done(s.id, s.community)'
    PROVE  TownInv'
<1>1. TownTyped /\ TurnsApart /\ AllInside /\ AllTraced /\ AllUnderway
  BY DEF TownInv
<1>2. TownTyped'
  <2>1. \A i \in TownUpdates : TurnFits(turns[i])'
    <3> SUFFICES ASSUME NEW i \in TownUpdates PROVE TurnFits(turns[i])'
      OBVIOUS
    <3>1. PICK u : u = turns[i]
      OBVIOUS
    <3>2. TurnFits(u)'
      BY <1>1, <3>1, TurnFitsOn DEF TownTyped
    <3> QED
      BY <3>1, <3>2 DEF TurnFits
  <2>2. \A i \in DOMAIN duties' : duties'[i].ban <= lastCban'
    <3> SUFFICES ASSUME NEW i \in DOMAIN duties PROVE duties'[i].ban <= lastCban'
      BY DEF SameDuties
    <3>1. duties[i].ban <= lastCban'
      BY <1>1, BansDealt
    <3> QED
      BY <3>1 DEF SameDuties
  <2> QED
    BY <1>1, <2>1, <2>2 DEF TownTyped, CbansFit, Dealt, SameDuties
<1>3. TurnsApart'
  <2> SUFFICES ASSUME "race" \notin blurred'
               PROVE  /\ \A i \in TownUpdates : TurnHolds(turns[i])'
                      /\ porter'.pc = "ban" => Kept(porter.doc)'
    BY DEF TurnsApart, Kept
  <2>1. ASSUME NEW i \in TownUpdates PROVE TurnHolds(turns[i])'
    <3>1. PICK u \in Turns : u = turns[i] /\ TurnFits(u) /\ TurnHolds(u) /\ Spared(u, 0)
      BY <1>1, NobodyAtZero DEF TownTyped, TurnsApart
    <3>2. TurnHolds(u)'
      BY <1>1, <3>1, TurnHoldsOn
    <3> QED
      BY <3>1, <3>2 DEF TurnHolds
  <2> QED
    BY <2>1
<1>4. AllInside'
  <2> SUFFICES ASSUME blurred' = {}
               PROVE  /\ \A i \in TownUpdates : TurnInside(turns[i])'
                      /\ \A i \in DOMAIN duties' : DutyInside(duties[i])'
                      /\ porter'.pc = "ban" =>
                           Proper(porter.doc)' /\ Inside(porter.left \cup porter.hit, porter.doc.community)'
                      /\ \A r \in cbans' : Proper(r)'
    BY DEF AllInside
  <2>1. /\ edges' = edges /\ blurred = {} /\ Grows(0)
        /\ \A i \in TownUpdates : TurnInside(turns[i])
        /\ \A i \in DOMAIN duties : DutyInside(duties[i])
    BY <1>1 DEF AllInside
  <2>2. \A i \in TownUpdates : TurnInside(turns[i])'
    BY <2>1 DEF TurnInside, Proper, Inside
  <2>3. ASSUME NEW i \in DOMAIN duties PROVE DutyInside(duties[i])'
    <3>1. PICK t \in Duties : t = duties[i]
      BY <1>1 DEF TownTyped
    <3>2. t.kind = "cban" => Settles(t.ban, edges[t.chat])
      BY <2>1, <3>1 DEF DutyInside
    <3>3. t.ban \in Nat /\ t.ban <= lastCban
      BY <1>1, <3>1 DEF TownTyped, Duties
    <3>4. PICK k : k = edges[t.chat]
      OBVIOUS
    <3>5. t.kind = "cban" => Settles(t.ban, k)'
      BY <1>1, <2>1, <3>2, <3>3, <3>4, SettlesStays
    <3>6. duties'[i].kind = t.kind /\ duties'[i].ban = t.ban /\ duties'[i].chat = t.chat
      BY <3>1 DEF SameDuties
    <3> QED
      BY <2>1, <3>4, <3>5, <3>6 DEF DutyInside, Settles
  <2>4. porter'.pc = "ban" => Proper(porter.doc)' /\ Inside(porter.left \cup porter.hit, porter.doc.community)'
    BY <2>1 DEF Proper, Inside
  <2>5. \A r \in cbans' : Proper(r)'
    BY <2>1 DEF Proper, Inside
  <2> QED
    BY <2>2, <2>3, <2>4, <2>5 DEF SameDuties
<1>5. AllTraced'
  <2> SUFFICES ASSUME Calm', NEW c \in cbanned', c \in cbanned PROVE Traced(c)'
    BY DEF AllTraced
  <2>1. Traced(c) /\ Grows(0)
    BY <1>1 DEF AllTraced, Calm
  <2>2. CASE \E r \in cbans : c \in r.chats
    <3>1. PICK r \in cbans : c \in r.chats /\ r.id # 0
      BY <2>2, NobodyAtZero
    <3> QED
      BY <2>1, <3>1 DEF Traced, Grows
  <2>3. CASE \E i \in TownUpdates : turns[i].pc = "save" /\ c \in turns[i].doc.chats
    BY <2>3 DEF Traced
  <2>4. CASE \E i \in TownUpdates : Lifting(turns[i]) /\ c \in turns[i].listed
    BY <2>4 DEF Traced, Lifting
  <2>5. CASE \E i \in DOMAIN duties : Waiting(i, "cunban") /\ c \in duties[i].chats
    <3>1. PICK i \in DOMAIN duties : Waiting(i, "cunban") /\ c \in duties[i].chats
      BY <2>5
    <3>2. CASE Waiting(i, "cunban")'
      <4>1. c \in duties'[i].chats /\ i \in DOMAIN duties'
        BY <3>1 DEF SameDuties
      <4> QED
        BY <3>2, <4>1 DEF Traced, Waiting
    <3>3. CASE ~ Waiting(i, "cunban")'
      BY <3>1, <3>3
    <3> QED
      BY <3>2, <3>3
  <2>6. CASE \/ porter.pc = "ban" /\ c \in porter.hit
             \/ porter.pc = "unban" /\ c \in porter.left
    BY <2>6
  <2> QED
    BY <2>1, <2>2, <2>3, <2>4, <2>5, <2>6 DEF Traced
<1>6. AllUnderway'
  <2> SUFFICES ASSUME blurred' = {}, NEW s \in cbans'
               PROVE  /\ \A i \in TownUpdates : Lifting(turns[i])' => turns'[i].community # s.community
                      /\ Underway(s.id)' \/ Behind(s.id, s.community)' \/ Done(s.id, s.community)'
    BY DEF AllUnderway
  <2>1. blurred = {} /\ Grows(0)
    OBVIOUS
  <2>2. CASE \E r \in cbans : r.id = s.id /\ r.community = s.community
    <3>1. /\ \A i \in TownUpdates : Lifting(turns[i]) => turns[i].community # s.community
          /\ Underway(s.id) \/ Behind(s.id, s.community) \/ Done(s.id, s.community)
      BY <1>1, <2>1, <2>2 DEF AllUnderway
    <3>2. \A i \in TownUpdates : Lifting(turns[i])' => turns'[i].community # s.community
      BY <3>1 DEF Lifting
    <3>3. Underway(s.id) => Underway(s.id)'
      BY DEF Underway, Bans
    <3> QED
      BY <3>1, <3>2, <3>3
  <2>3. CASE ~ \E r \in cbans : r.id = s.id /\ r.community = s.community
    BY <2>3
  <2> QED
    BY <2>2, <2>3
<1> QED
  BY <1>2, <1>3, <1>4, <1>5, <1>6 DEF TownInv

\* Nothing but the communities of the chats and the history changes.
LEMMA TownStays ==
    ASSUME TownUsual, TownInv, UNCHANGED <<cbans, lastCban, cbanned, duties, turns, porter>>,
           edges' \in [TownChats -> Town!Places], blurred \subseteq blurred', blurred' = {} => edges' = edges
    PROVE  TownInv'
<1>1. TownTyped /\ TurnsApart /\ AllInside /\ AllTraced /\ AllUnderway
  BY DEF TownInv
<1>2. CbansFit /\ Grows(0) /\ SameDuties
  BY <1>1, CbansStay, DutiesStay
<1>3. porter' \in Porters /\ PorterFits' /\ cbanned' \subseteq TownChats /\ cbanned' \ cbanned = {}
  BY <1>1 DEF TownTyped, PorterFits, Dealt
<1>4. "race" \notin blurred' => (porter'.pc = "ban" => Kept(porter.doc)')
  BY <1>1 DEF TurnsApart, Kept
<1>5. ASSUME blurred' = {}
      PROVE  /\ \A s \in cbans' : Proper(s)
             /\ porter'.pc = "ban" =>
                    Proper(porter'.doc) /\ Inside(porter'.left \cup porter'.hit, porter'.doc.community)
  BY <1>1, <1>5 DEF AllInside
<1>6. porter.pc = "ban" => \A c \in porter.hit : Traced(c)'
  BY DEF Traced
<1>7. porter.pc = "unban" => \A c \in porter.left : Traced(c)'
  BY DEF Traced
<1>8. \A i \in DOMAIN duties : Waiting(i, "cunban") => Waiting(i, "cunban")'
  BY DEF Waiting
<1>9. ASSUME blurred' = {}, NEW s \in cbans'
      PROVE  /\ \E r \in cbans : r.id = s.id /\ r.community = s.community
             /\ Behind(s.id, s.community) \/ Done(s.id, s.community)
                => Behind(s.id, s.community)' \/ Done(s.id, s.community)'
  <2>1. edges' = edges
    BY <1>9
  <2>2. Behind(s.id, s.community) => Behind(s.id, s.community)'
    BY <2>1 DEF Behind, Waiting, Undoes
  <2>3. Done(s.id, s.community) => Done(s.id, s.community)'
    BY <2>1 DEF Done, Waiting, Undoes
  <2> QED
    BY <2>2, <2>3
<1> QED
  BY <1>2, <1>3, <1>4, <1>5, <1>6, <1>7, <1>8, <1>9, PorterStep

\* What the scheduler is at a step.
LEMMA PorterIs ==
    ASSUME TownInv
    PROVE  /\ TownTyped /\ porter \in Porters /\ PorterFits
           /\ edges \in [TownChats -> Town!Places] /\ cbanned \subseteq TownChats /\ duties \in Seq(Duties)
           /\ "race" \notin blurred => (porter.pc = "ban" => Kept(porter.doc))
           /\ blurred = {} =>
                /\ \A r \in cbans : Proper(r)
                /\ porter.pc = "ban" => Proper(porter.doc) /\ Inside(porter.left \cup porter.hit, porter.doc.community)
BY DEF TownInv, TownTyped, TurnsApart, AllInside

\* The oldest of the pending tasks is taken up.
LEMMA StartTurns ==
    ASSUME TownUsual, TownInv, NEW i \in DOMAIN duties, Town!Start(i) PROVE TownInv'
<1>1. /\ TownTyped /\ porter.pc = "idle" /\ duties \in Seq(Duties)
      /\ duties[i].status = "PENDING" /\ \A h \in 1 .. i - 1 : duties[h].status # "PENDING"
      /\ duties' = [duties EXCEPT ![i].status = "PROCESSING"]
      /\ UNCHANGED <<edges, cbans, lastCban, cbanned, turns, blurred>>
  BY PorterIs DEF Town!Start
<1>2. /\ SameDuties /\ duties'[i].status = "PROCESSING"
      /\ \A h \in DOMAIN duties \ {i} : duties'[h] = duties[h]
  BY <1>1, DutyMoves
<1>3. PICK n \in Nat : DOMAIN duties = 1 .. n
  BY <1>1
<1>4. PICK t \in Duties : t = duties[i]
  BY <1>1
<1>5. PICK p \in {"get", "unban"} : p = IF t.kind = "cban" THEN "get" ELSE "unban"
  OBVIOUS
<1>6. PICK a \in Porters : a = Town!Idle
  BY DEF Porters, Town!Idle
<1>7. PICK k \in Nat : k = i
  BY <1>3
<1>8. PICK C \in SUBSET TownChats : C = t.chats
  BY DEF Duties
<1>9. PICK w \in Porters : w = [a EXCEPT !.task = k, !.pc = p, !.left = C]
  BY DEF Porters
<1>10. w.task = i /\ w.pc = p /\ w.left = t.chats /\ w.hit = {}
  <2>1. a.hit = {}
    BY <1>6 DEF Town!Idle
  <2> QED
    BY <1>7, <1>8, <1>9, <2>1 DEF Porters
<1>11. porter' = w
  BY <1>4, <1>5, <1>6, <1>7, <1>8, <1>9 DEF Town!Start
<1>12. porter' \in Porters /\ PorterFits'
  BY <1>1, <1>2, <1>4, <1>5, <1>10, <1>11 DEF PorterFits, SameDuties
<1>13. CbansFit /\ Grows(0)
  BY <1>1, CbansStay
<1>14. blurred' = {} => \A s \in cbans' : Proper(s)
  BY <1>1, PorterIs
<1>15. \A h \in DOMAIN duties \ {i}, m \in {"cban", "cunban"} : Waiting(h, m) <=> Waiting(h, m)'
  BY <1>2 DEF Waiting, SameDuties
<1>16. \A h \in DOMAIN duties, m \in {"cban", "cunban"} : Waiting(h, m)' => Waiting(h, m)
  BY <1>1, <1>2, <1>15 DEF Waiting
<1>17. ASSUME NEW h \in DOMAIN duties, Waiting(h, "cunban"), ~ Waiting(h, "cunban")', NEW c \in duties[h].chats
       PROVE  Traced(c)'
  <2>1. h = i /\ t.kind = "cunban" /\ c \in t.chats
    BY <1>4, <1>15, <1>17 DEF Waiting
  <2> QED
    BY <1>5, <1>10, <1>11, <2>1 DEF Traced
<1>18. ASSUME NEW s \in cbans
       PROVE  Behind(s.id, s.community) \/ Done(s.id, s.community)
              => Behind(s.id, s.community)' \/ Done(s.id, s.community)'
  <2>1. \A h \in DOMAIN duties : Undoes(h, s.community)' => Undoes(h, s.community) /\ h # i
    BY <1>1, <1>2, <1>16 DEF Undoes, SameDuties, Waiting
  <2>2. CASE Behind(s.id, s.community)
    <3>1. PICK b \in DOMAIN duties : /\ Waiting(b, "cban") /\ duties[b].ban = s.id
                                    /\ \A h \in DOMAIN duties : Undoes(h, s.community) => h < b
      BY <2>2 DEF Behind
    <3>2. CASE b = i
      <4>1. \A h \in DOMAIN duties' : ~ Undoes(h, s.community)'
        <5> SUFFICES ASSUME NEW h \in 1 .. n, Undoes(h, s.community)' PROVE FALSE
          BY <1>2, <1>3 DEF SameDuties
        <5>1. Undoes(h, s.community) /\ h < i
          BY <1>3, <2>1, <3>1, <3>2
        <5>2. h \in 1 .. i - 1 /\ duties[h].status = "PENDING"
          BY <1>3, <5>1 DEF Undoes, Waiting
        <5> QED
          BY <1>1, <5>2
      <4>2. porter'.pc = "get" /\ duties'[porter'.task].ban = s.id
        BY <1>2, <1>4, <1>5, <1>10, <1>11, <3>1, <3>2 DEF SameDuties, Waiting
      <4> QED
        BY <4>1, <4>2 DEF Done
    <3>3. CASE b # i
      <4>1. Waiting(b, "cban")' /\ duties'[b].ban = s.id /\ b \in DOMAIN duties'
        BY <1>2, <1>15, <3>1, <3>3 DEF SameDuties
      <4>2. \A h \in DOMAIN duties' : Undoes(h, s.community)' => h < b
        BY <1>2, <2>1, <3>1 DEF SameDuties
      <4> QED
        BY <4>1, <4>2 DEF Behind
    <3> QED
      BY <3>2, <3>3
  <2>3. CASE Done(s.id, s.community)
    <3>1. \A h \in DOMAIN duties' : ~ Undoes(h, s.community)'
      BY <1>2, <2>1, <2>3 DEF SameDuties, Done
    <3>2. ~ Undoes(i, s.community)
      BY <2>3 DEF Done
    <3>3. porter'.pc = "unban" => \A c \in porter'.left : edges[c] # s.community
      <4> SUFFICES ASSUME t.kind # "cban", NEW c \in t.chats PROVE edges[c] # s.community
        BY <1>5, <1>10, <1>11
      <4>1. t.kind = "cunban"
        BY DEF Duties
      <4>2. Waiting(i, "cunban")
        BY <1>1, <1>4, <4>1 DEF Waiting
      <4> QED
        BY <1>4, <3>2, <4>2 DEF Undoes
    <3>4. \A c \in TownPresent \cap TownChats : edges[c] = s.community => c \in cbanned
      BY <1>1, <2>3 DEF Done
    <3> QED
      BY <1>1, <3>1, <3>3, <3>4 DEF Done
  <2> QED
    BY <2>2, <2>3
<1>19. porter'.pc # "ban" /\ edges' \in [TownChats -> Town!Places] /\ cbanned' \subseteq TownChats /\ cbanned' \ cbanned = {}
  BY <1>1, <1>5, <1>10, <1>11, PorterIs
<1>20. \A s \in cbans' :
          /\ \E r \in cbans : r.id = s.id /\ r.community = s.community
          /\ Behind(s.id, s.community) \/ Done(s.id, s.community)
             => Behind(s.id, s.community)' \/ Done(s.id, s.community)'
  BY <1>1, <1>18
<1> QED
  BY <1>1, <1>2, <1>12, <1>13, <1>14, <1>17, <1>19, <1>20, PorterStep

\* The scheduler is done with a task, or dies.
LEMMA PorterEnds ==
    ASSUME TownUsual, TownInv, porter' = Town!Idle, porter.pc # "idle",
           UNCHANGED <<edges, cbanned, turns>>,
           \/ UNCHANGED duties
           \/ \E s \in {"COMPLETED", "FAILED"} : duties' = [duties EXCEPT ![porter.task].status = s],
           blurred \subseteq blurred', CbansFit,
           "race" \notin blurred' => Grows(0),
           blurred' = {} =>
               /\ \A s \in cbans' : Proper(s)
               /\ \A s \in cbans' : \E r \in cbans : r.id = s.id /\ r.community = s.community
               /\ porter.pc = "ban" => porter.left = {}
               /\ porter.pc = "get" => \A s \in cbans' : s.id # duties[porter.task].ban,
           Calm' =>
               /\ porter.pc = "ban" => \A c \in porter.hit : \E s \in cbans' : c \in s.chats
               /\ porter.pc = "unban" => porter.left = {}
    PROVE  TownInv'
<1>1. /\ TownTyped /\ duties \in Seq(Duties) /\ porter.task \in DOMAIN duties
      /\ duties[porter.task].status = "PROCESSING"
      /\ edges \in [TownChats -> Town!Places] /\ cbanned \subseteq TownChats
  BY PorterIs DEF PorterFits
<1>2. SameDuties /\ \A h \in DOMAIN duties \ {porter.task} : duties'[h] = duties[h]
  <2>1. CASE UNCHANGED duties
    BY <1>1, <2>1, DutiesStay
  <2>2. ASSUME NEW s \in {"COMPLETED", "FAILED"}, duties' = [duties EXCEPT ![porter.task].status = s]
        PROVE  SameDuties /\ \A h \in DOMAIN duties \ {porter.task} : duties'[h] = duties[h]
    BY <1>1, <2>2, DutyMoves
  <2> QED
    BY <2>1, <2>2
<1>3. duties'[porter.task].status # "PENDING"
  <2>1. ASSUME NEW s \in {"COMPLETED", "FAILED"}, duties' = [duties EXCEPT ![porter.task].status = s]
        PROVE  duties'[porter.task].status # "PENDING"
    <3>1. duties'[porter.task].status = s
      BY <1>1, <2>1, DutyMoves
    <3> QED
      BY <3>1
  <2> QED
    BY <1>1, <2>1
<1>4. \A h \in DOMAIN duties, m \in {"cban", "cunban"} : Waiting(h, m) <=> Waiting(h, m)'
  BY <1>1, <1>2, <1>3 DEF Waiting, SameDuties
<1>5. porter' \in Porters /\ porter'.pc = "idle" /\ PorterFits'
  BY DEF Porters, PorterFits, Town!Idle
<1>6. porter.pc = "unban" /\ Calm' => porter.left = {}
  OBVIOUS
<1>7. ASSUME Calm', porter.pc = "ban", NEW c \in porter.hit PROVE Traced(c)'
  BY <1>7 DEF Traced
<1>8. ASSUME blurred' = {}, NEW s \in cbans'
      PROVE  Behind(s.id, s.community) \/ Done(s.id, s.community)
             => Behind(s.id, s.community)' \/ Done(s.id, s.community)'
  <2>1. \A h \in DOMAIN duties : Undoes(h, s.community) <=> Undoes(h, s.community)'
    BY <1>2, <1>4 DEF Undoes, SameDuties
  <2>2. Behind(s.id, s.community) => Behind(s.id, s.community)'
    BY <1>2, <1>4, <2>1 DEF Behind, SameDuties
  <2>3. ASSUME Done(s.id, s.community) PROVE Done(s.id, s.community)'
    <3>1. \A c \in TownPresent \cap TownChats : edges[c] = s.community => c \in cbanned
      BY <1>8, <2>3 DEF Done
    <3> QED
      BY <1>2, <1>5, <2>1, <2>3, <3>1 DEF Done, SameDuties
  <2> QED
    BY <2>2, <2>3
<1>9. edges' \in [TownChats -> Town!Places] /\ cbanned' \subseteq TownChats /\ cbanned' \ cbanned = {} /\ porter'.pc # "ban"
  BY <1>1, <1>5
<1> QED
  BY <1>2, <1>4, <1>5, <1>6, <1>7, <1>8, <1>9, PorterStep

LEMMA CompleteTurns ==
    ASSUME TownUsual, TownInv, Town!Complete PROVE TownInv'
<1>1. /\ porter.pc = "unban" /\ porter.left = {} /\ porter' = Town!Idle
      /\ duties' = [duties EXCEPT ![porter.task].status = "COMPLETED"]
      /\ UNCHANGED <<edges, cbans, lastCban, cbanned, turns, blurred>>
  BY DEF Town!Complete, Town!Status
<1>2. CbansFit /\ Grows(0)
  BY <1>1, PorterIs, CbansStay
<1>3. blurred' = {} => \A s \in cbans' : Proper(s)
  BY <1>1, PorterIs
<1> QED
  BY <1>1, <1>2, <1>3, PorterEnds

\* The task fails, or the scheduler dies.
LEMMA FailTurns ==
    ASSUME TownUsual, TownInv, Town!Fail \/ Town!Crash PROVE TownInv'
<1>1. /\ porter.pc # "idle" /\ porter' = Town!Idle /\ blurred' = blurred \cup {"crash"}
      /\ \/ UNCHANGED duties
         \/ duties' = [duties EXCEPT ![porter.task].status = "FAILED"]
      /\ UNCHANGED <<edges, cbans, lastCban, cbanned, turns>>
  BY DEF Town!Fail, Town!Crash, Town!Fault, Town!Status
<1>2. CbansFit /\ Grows(0)
  BY <1>1, PorterIs, CbansStay
<1>3. blurred' # {} /\ ~ Calm' /\ blurred \subseteq blurred'
  BY <1>1 DEF Calm
<1> QED
  BY <1>1, <1>2, <1>3, PorterEnds

\* The record and the chats, unless the record was superseded.
LEMMA GetBanTurns ==
    ASSUME TownUsual, TownInv, Town!GetBan PROVE TownInv'
<1>1. /\ TownTyped /\ porter \in Porters /\ porter.pc = "get"
      /\ porter.task \in DOMAIN duties /\ duties[porter.task].status = "PROCESSING"
      /\ duties[porter.task].kind = "cban" /\ porter.hit = {}
      /\ UNCHANGED <<edges, cbans, lastCban, cbanned, turns, blurred>>
      /\ cbans \in SUBSET Town!Bans /\ (\A r \in cbans : Dealt(r))
      /\ \A r, s \in cbans : r.id = s.id => r = s
  BY PorterIs DEF Town!GetBan, PorterFits, TownTyped
<1>2. CbansFit /\ Grows(0)
  BY <1>1, CbansStay
<1>3. blurred' = {} => \A s \in cbans' : Proper(s)
  BY <1>1, PorterIs
<1>4. CASE /\ \A r \in cbans : r.id # duties[porter.task].ban
           /\ duties' = [duties EXCEPT ![porter.task].status = "COMPLETED"] /\ porter' = Town!Idle
  BY <1>1, <1>2, <1>3, <1>4, PorterEnds
<1>5. ASSUME NEW r \in cbans, r.id = duties[porter.task].ban,
             porter' = [porter EXCEPT !.pc = "ban", !.doc = r,
                 !.left = {c \in TownPresent : edges[c] = r.community} \cup {duties[porter.task].chat}],
             UNCHANGED duties
      PROVE  TownInv'
  <2>1. PICK d \in Town!Bans : d = r /\ Dealt(d)
    BY <1>1
  <2>2. PICK t \in Duties : t = duties[porter.task]
    BY <1>1, PorterIs
  <2>3. PICK C \in SUBSET TownChats : C = {c \in TownPresent : edges[c] = d.community} \cup {t.chat}
    BY DEF Duties, TownUsual
  <2>4. PICK w \in Porters : w = [porter EXCEPT !.pc = "ban", !.doc = d, !.left = C]
    BY <1>1 DEF Porters
  <2>5. porter' = w
    BY <1>5, <2>1, <2>2, <2>3, <2>4
  <2>6. w.pc = "ban" /\ w.doc = d /\ w.left = C /\ w.task = porter.task /\ w.hit = {}
    BY <1>1, <2>4 DEF Porters
  <2>7. porter' \in Porters /\ PorterFits'
    BY <1>1, <1>5, <2>1, <2>5, <2>6 DEF PorterFits, Dealt
  <2>8. Kept(porter.doc)'
    BY <1>1, <1>5, <2>1, <2>5, <2>6 DEF Kept
  <2>9. ASSUME blurred' = {}
        PROVE  Proper(porter'.doc) /\ Inside(porter'.left \cup porter'.hit, porter'.doc.community)
    <3>1. Proper(d)
      BY <1>1, <1>5, <2>1, <2>9, PorterIs
    <3>2. DutyInside(t)
      BY <1>1, <2>2, <2>9 DEF TownInv, AllInside
    <3>3. edges[t.chat] = d.community
      BY <1>1, <1>5, <2>1, <2>2, <3>2 DEF DutyInside, Settles
    <3>4. Inside(C, d.community)
      BY <2>3, <3>3 DEF Inside
    <3> QED
      BY <2>5, <2>6, <3>1, <3>4
  <2>10. SameDuties
    BY <1>1, <1>5, DutiesStay
  <2>11. \A h \in DOMAIN duties, m \in {"cban", "cunban"} : Waiting(h, m) <=> Waiting(h, m)'
    BY <1>5 DEF Waiting
  <2>12. ASSUME NEW s \in cbans
         PROVE  Behind(s.id, s.community) \/ Done(s.id, s.community)
                => Behind(s.id, s.community)' \/ Done(s.id, s.community)'
    <3>1. Behind(s.id, s.community) => Behind(s.id, s.community)'
      BY <1>1, <1>5 DEF Behind, Waiting, Undoes
    <3>2. ASSUME Done(s.id, s.community) PROVE Done(s.id, s.community)'
      <4>1. \A h \in DOMAIN duties' : ~ Undoes(h, s.community)'
        BY <1>1, <1>5, <3>2 DEF Done, Waiting, Undoes
      <4>2. \A c \in TownPresent \cap TownChats : edges[c] = s.community => c \in cbanned \/ c \in C
        <5>1. CASE duties[porter.task].ban = s.id
          <6>1. s = d
            BY <1>1, <1>5, <2>1, <5>1
          <6> QED
            BY <2>3, <6>1
        <5>2. CASE duties[porter.task].ban # s.id
          BY <1>1, <3>2, <5>2 DEF Done
        <5> QED
          BY <5>1, <5>2
      <4> QED
        BY <1>1, <2>5, <2>6, <4>1, <4>2 DEF Done
    <3> QED
      BY <3>1, <3>2
  <2>13. edges' \in [TownChats -> Town!Places] /\ cbanned' \subseteq TownChats /\ cbanned' \ cbanned = {}
    BY <1>1, PorterIs
  <2>14. \A s \in cbans' :
            /\ \E q \in cbans : q.id = s.id /\ q.community = s.community
            /\ Behind(s.id, s.community) \/ Done(s.id, s.community)
               => Behind(s.id, s.community)' \/ Done(s.id, s.community)'
    BY <1>1, <2>12
  <2> QED
    BY <1>1, <1>2, <1>3, <2>7, <2>8, <2>9, <2>10, <2>11, <2>13, <2>14, PorterStep
<1> QED
  BY <1>4, <1>5 DEF Town!GetBan, Town!Status, Town!Current

\* The ban in one chat of the record.
LEMMA BanChatTurns ==
    ASSUME TownUsual, TownInv, NEW c \in TownChats, Town!BanChat(c) PROVE TownInv'
<1>1. /\ TownTyped /\ porter \in Porters /\ porter.pc = "ban" /\ c \in porter.left /\ PorterFits
      /\ UNCHANGED <<edges, cbans, lastCban, duties, turns>>
      /\ edges \in [TownChats -> Town!Places] /\ cbanned \subseteq TownChats
  BY PorterIs DEF Town!BanChat
<1>2. PICK L \in SUBSET TownChats, H \in SUBSET TownChats :
          /\ L = porter.left \ {c}
          /\ \/ H = porter.hit \cup {c} /\ cbanned' = cbanned \cup {c} /\ UNCHANGED blurred
             \/ H = porter.hit /\ UNCHANGED cbanned /\ blurred' = blurred \cup {"ban"}
          /\ porter' = [porter EXCEPT !.left = L, !.hit = H]
  <2>1. CASE Town!Ban(c) /\ porter' = [porter EXCEPT !.left = @ \ {c}, !.hit = @ \cup {c}]
    <3>1. porter.left \ {c} \in SUBSET TownChats /\ porter.hit \cup {c} \in SUBSET TownChats
      BY <1>1 DEF Porters
    <3>2. porter' = [porter EXCEPT !.left = porter.left \ {c}, !.hit = porter.hit \cup {c}]
      BY <1>1, <2>1 DEF Porters
    <3> QED
      BY <2>1, <3>1, <3>2 DEF Town!Ban
  <2>2. CASE Town!BanRefused /\ porter' = [porter EXCEPT !.left = @ \ {c}]
    <3>1. porter.left \ {c} \in SUBSET TownChats /\ porter.hit \in SUBSET TownChats
      BY <1>1 DEF Porters
    <3>2. porter' = [porter EXCEPT !.left = porter.left \ {c}, !.hit = porter.hit]
      BY <1>1, <2>2 DEF Porters
    <3> QED
      BY <2>2, <3>1, <3>2 DEF Town!BanRefused, Town!Fault
  <2> QED
    BY <2>1, <2>2 DEF Town!BanChat
<1>3. PICK w \in Porters : w = [porter EXCEPT !.left = L, !.hit = H]
  BY <1>1 DEF Porters
<1>4. porter' = w /\ w.pc = "ban" /\ w.doc = porter.doc /\ w.left = L /\ w.hit = H /\ w.task = porter.task
  BY <1>1, <1>2, <1>3 DEF Porters
<1>5. porter' \in Porters /\ PorterFits'
  BY <1>1, <1>4 DEF PorterFits, Dealt
<1>6. CbansFit /\ Grows(0) /\ SameDuties
  BY <1>1, CbansStay, DutiesStay
<1>7. blurred \subseteq blurred' /\ cbanned' \subseteq TownChats /\ cbanned \subseteq cbanned'
  BY <1>1, <1>2
<1>8. "race" \notin blurred' => Kept(porter.doc)'
  BY <1>1, <1>4, <1>7, PorterIs DEF Kept
<1>9. ASSUME blurred' = {}
      PROVE  /\ \A s \in cbans' : Proper(s)
             /\ Proper(porter'.doc) /\ Inside(porter'.left \cup porter'.hit, porter'.doc.community)
  <2>1. /\ \A s \in cbans : Proper(s)
        /\ Proper(porter.doc) /\ Inside(porter.left \cup porter.hit, porter.doc.community)
    BY <1>1, <1>7, <1>9, PorterIs
  <2>2. L \cup H \subseteq porter.left \cup porter.hit
    BY <1>1, <1>2
  <2> QED
    BY <1>1, <1>4, <2>1, <2>2 DEF Inside
<1>10. \A b \in (cbanned' \ cbanned) \cup porter.hit : Traced(b)'
  BY <1>2, <1>4 DEF Traced
<1>11. \A h \in DOMAIN duties, m \in {"cban", "cunban"} : Waiting(h, m) <=> Waiting(h, m)'
  BY <1>1 DEF Waiting
<1>12. ASSUME blurred' = {}, NEW s \in cbans'
       PROVE  /\ \E q \in cbans : q.id = s.id /\ q.community = s.community
              /\ Behind(s.id, s.community) \/ Done(s.id, s.community)
                 => Behind(s.id, s.community)' \/ Done(s.id, s.community)'
  <2>1. Behind(s.id, s.community) => Behind(s.id, s.community)'
    BY <1>1 DEF Behind, Waiting, Undoes
  <2>2. ASSUME Done(s.id, s.community) PROVE Done(s.id, s.community)'
    <3>1. \A h \in DOMAIN duties' : ~ Undoes(h, s.community)'
      BY <1>1, <2>2 DEF Done, Waiting, Undoes
    <3>2. \A b \in TownPresent \cap TownChats : edges[b] = s.community => b \in cbanned \/ b \in porter.left
      BY <1>1, <2>2 DEF Done
    <3>3. cbanned' = cbanned \cup {c} /\ L = porter.left \ {c}
      BY <1>2, <1>12
    <3> QED
      BY <1>1, <1>4, <3>1, <3>2, <3>3 DEF Done
  <2> QED
    BY <1>1, <2>1, <2>2
<1> QED
  BY <1>1, <1>4, <1>5, <1>6, <1>7, <1>8, <1>9, <1>10, <1>11, <1>12, PorterStep

\* The copy with the chats added is saved, if any was banned.
LEMMA SaveBanTurns ==
    ASSUME TownUsual, TownInv, Town!SaveBan PROVE TownInv'
<1>1. /\ TownTyped /\ porter \in Porters /\ porter.pc = "ban" /\ porter.left = {}
      /\ porter.doc \in Town!Bans /\ Dealt(porter.doc) /\ porter' = Town!Idle
      /\ UNCHANGED <<edges, lastCban, cbanned, turns>>
  BY PorterIs DEF Town!SaveBan, PorterFits
<1>2. PICK d \in Town!Bans : /\ d = [porter.doc EXCEPT !.chats = @ \cup porter.hit]
                            /\ d.id = porter.doc.id /\ d.community = porter.doc.community
                            /\ d.chats = porter.doc.chats \cup porter.hit
  <2>1. PICK e \in Town!Bans, H \in SUBSET TownChats : e = porter.doc /\ H = porter.hit
    BY <1>1 DEF Porters
  <2>2. PICK d \in Town!Bans : d = [e EXCEPT !.chats = @ \cup H]
    BY DEF Town!Bans
  <2>3. d.id = e.id /\ d.community = e.community /\ d.chats = e.chats \cup H
    BY <2>2 DEF Town!Bans
  <2> QED
    BY <2>1, <2>2, <2>3
<1>3. Dealt(d)
  BY <1>1, <1>2 DEF Dealt
<1>4. "race" \notin blurred => Kept(d)
  BY <1>1, <1>2, PorterIs DEF Kept
<1>5. CASE /\ porter.hit = {} /\ duties' = [duties EXCEPT ![porter.task].status = "COMPLETED"]
           /\ UNCHANGED <<cbans, blurred>>
  <2>1. CbansFit /\ Grows(0)
    BY <1>1, <1>5, CbansStay
  <2>2. blurred' = {} => \A s \in cbans' : Proper(s)
    BY <1>1, <1>5, PorterIs
  <2> QED
    BY <1>1, <1>5, <2>1, <2>2, PorterEnds
<1>6. CASE /\ duties' = [duties EXCEPT ![porter.task].status = "FAILED"] /\ Town!Excused(TRUE, "race")
           /\ UNCHANGED cbans
  <2>1. CbansFit
    BY <1>1, <1>6, CbansStay
  <2>2. blurred \subseteq blurred' /\ "race" \in blurred' /\ ~ Calm' /\ blurred' # {}
    BY <1>6 DEF Town!Excused, Calm
  <2> QED
    BY <1>1, <1>6, <2>1, <2>2, PorterEnds
<1>7. CASE /\ ~ Town!Clash(d) /\ Town!Save(d) /\ Town!Excused(Town!Overwrites(d), "race")
           /\ duties' = [duties EXCEPT ![porter.task].status = "COMPLETED"]
  <2>1. CbansFit
    BY <1>1, <1>3, <1>7, SaveFits
  <2>2. blurred \subseteq blurred' /\ ("race" \notin blurred' => ~ Town!Overwrites(d))
    BY <1>7 DEF Town!Excused
  <2>3. "race" \notin blurred' => Grows(0)
    BY <1>1, <1>3, <1>4, <1>7, <2>2, SaveGrows
  <2>4. d \in cbans' /\ \A s \in cbans' : s = d \/ s \in cbans
    BY <1>7 DEF Town!Save
  <2>5. ASSUME blurred' = {}
        PROVE  /\ \A s \in cbans' : Proper(s)
               /\ \A s \in cbans' : \E r \in cbans : r.id = s.id /\ r.community = s.community
    <3>1. /\ \A s \in cbans : Proper(s)
          /\ Proper(porter.doc) /\ Inside(porter.hit, porter.doc.community) /\ Kept(d)
      BY <1>1, <1>4, <2>2, <2>5, PorterIs DEF Inside
    <3>2. Proper(d)
      BY <1>2, <3>1 DEF Proper, Inside
    <3> QED
      BY <2>4, <3>1, <3>2 DEF Kept
  <2>6. \A c \in porter.hit : \E s \in cbans' : c \in s.chats
    BY <1>2, <2>4
  <2> QED
    BY <1>1, <1>7, <2>1, <2>2, <2>3, <2>5, <2>6, PorterEnds
<1> QED
  BY <1>2, <1>5, <1>6, <1>7 DEF Town!SaveBan, Town!Status

\* The ban in one chat of an unban is lifted.
LEMMA UnbanChatTurns ==
    ASSUME TownUsual, TownInv, NEW c \in TownChats, Town!UnbanChat(c) PROVE TownInv'
<1>1. /\ TownTyped /\ porter \in Porters /\ porter.pc = "unban" /\ c \in porter.left /\ PorterFits
      /\ UNCHANGED <<edges, cbans, lastCban, duties, turns>>
      /\ edges \in [TownChats -> Town!Places] /\ cbanned \subseteq TownChats
      /\ \/ cbanned' = cbanned \ {c} /\ UNCHANGED blurred
         \/ UNCHANGED cbanned /\ blurred' = blurred \cup {"unban"}
  BY PorterIs DEF Town!UnbanChat, Town!Lift, Town!Fault
<1>2. PICK L \in SUBSET TownChats : L = porter.left \ {c}
  BY <1>1 DEF Porters
<1>3. PICK w \in Porters : w = [porter EXCEPT !.left = L]
  BY <1>1 DEF Porters
<1>4. porter' = w
  BY <1>1, <1>2, <1>3 DEF Town!UnbanChat, Porters
<1>5. w.pc = "unban" /\ w.left = L /\ w.task = porter.task
  BY <1>1, <1>3 DEF Porters
<1>6. porter' \in Porters /\ PorterFits' /\ porter'.pc # "ban"
  BY <1>1, <1>4, <1>5 DEF PorterFits
<1>7. CbansFit /\ Grows(0) /\ SameDuties
  BY <1>1, CbansStay, DutiesStay
<1>8. blurred \subseteq blurred' /\ cbanned' \subseteq TownChats /\ cbanned' \ cbanned = {}
  BY <1>1
<1>9. blurred' = {} => \A s \in cbans' : Proper(s)
  BY <1>1, <1>8, PorterIs
<1>10. ASSUME Calm', NEW b \in porter.left \cap cbanned' PROVE Traced(b)'
  <2>1. cbanned' = cbanned \ {c}
    BY <1>1, <1>10 DEF Calm
  <2>2. b \in L
    BY <1>2, <1>10, <2>1
  <2> QED
    BY <1>4, <1>5, <2>2 DEF Traced
<1>11. \A h \in DOMAIN duties, m \in {"cban", "cunban"} : Waiting(h, m) <=> Waiting(h, m)'
  BY <1>1 DEF Waiting
<1>12. ASSUME NEW s \in cbans'
       PROVE  /\ \E q \in cbans : q.id = s.id /\ q.community = s.community
              /\ Behind(s.id, s.community) \/ Done(s.id, s.community)
                 => Behind(s.id, s.community)' \/ Done(s.id, s.community)'
  <2>1. Behind(s.id, s.community) => Behind(s.id, s.community)'
    BY <1>1 DEF Behind, Waiting, Undoes
  <2>2. ASSUME Done(s.id, s.community) PROVE Done(s.id, s.community)'
    <3>1. \A h \in DOMAIN duties' : ~ Undoes(h, s.community)'
      BY <1>1, <2>2 DEF Done, Waiting, Undoes
    <3>2. \A b \in porter.left : edges[b] # s.community
      BY <1>1, <2>2 DEF Done
    <3>3. \A b \in TownPresent \cap TownChats : edges[b] = s.community => b \in cbanned
      BY <1>1, <2>2 DEF Done
    <3>4. \A b \in TownPresent \cap TownChats : edges[b] = s.community => b \in cbanned'
      BY <1>1, <3>2, <3>3
    <3> QED
      BY <1>1, <1>2, <1>4, <1>5, <3>1, <3>2, <3>4 DEF Done
  <2> QED
    BY <1>1, <2>1, <2>2
<1> QED
  BY <1>1, <1>6, <1>7, <1>8, <1>9, <1>10, <1>11, <1>12, PorterStep

-----------------------------------------------------------------------------
(* The community of a chat *)

\* The messages of one chat, and its places: what StoredFor says of them.
Followed(q, home, edge) ==
    /\ q # <<>> => q[Len(q)].to = home
    /\ \A i, h \in DOMAIN q : h < i /\ q[i].pc # "new" => q[h].pc = "done"
    /\ \A i \in DOMAIN q : q[i].pc = "read" => q[i].copy = edge
    /\ \A i \in DOMAIN q : q[i].pc = "done" /\ (\A h \in DOMAIN q : i < h => q[h].pc # "done") => edge = q[i].to

LEMMA StoredIs ==
    ASSUME NEW c PROVE StoredFor(c) <=> Followed(posts[c], homes[c], edges[c])
BY DEF StoredFor, Followed

\* A chat that a step leaves alone.
LEMMA StoredOn ==
    ASSUME NEW c, StoredFor(c), posts'[c] = posts[c], homes'[c] = homes[c], edges'[c] = edges[c] PROVE StoredFor(c)'
BY DEF StoredFor

LEMMA StoredStays ==
    ASSUME StoredInv, UNCHANGED <<homes, edges, posts>>, blurred \subseteq blurred' PROVE StoredInv'
BY StoredOn DEF StoredInv, PostsTyped

\* A chat joins or leaves a community.
LEMMA MoveStored ==
    ASSUME TownInv, StoredInv, NEW c \in TownChats, NEW k \in Town!Places, Town!Move(c, k) PROVE StoredInv'
<1>1. /\ homes' = [homes EXCEPT ![c] = k] /\ homes \in [TownChats -> Town!Places] /\ posts \in [TownChats -> Seq(Posts)]
      /\ UNCHANGED <<edges, blurred>>
  BY DEF Town!Move, StoredInv, PostsTyped
<1>2. PICK m \in Posts : m = [to |-> k, copy |-> None, pc |-> "new"]
  BY DEF Posts, Town!Places
<1>3. posts' = [posts EXCEPT ![c] = Append(posts[c], m)]
  BY <1>1, <1>2 DEF Town!Move
<1>4. PICK q \in Seq(Posts), n \in Nat : q = posts[c] /\ n = Len(q)
  BY <1>1
<1>5. /\ posts'[c] = Append(q, m) /\ Append(q, m) \in Seq(Posts) /\ Len(Append(q, m)) = n + 1
      /\ DOMAIN q = 1 .. n /\ DOMAIN Append(q, m) = 1 .. (n + 1)
      /\ Append(q, m)[n + 1] = m /\ \A i \in 1 .. n : Append(q, m)[i] = q[i]
  BY <1>1, <1>3, <1>4
<1>6. PostsTyped'
  BY <1>1, <1>3, <1>4, <1>5 DEF PostsTyped
<1>7. ASSUME NEW b \in TownChats \ blurred' PROVE StoredFor(b)'
  <2>1. StoredFor(b)
    BY <1>1 DEF StoredInv
  <2>2. CASE b # c
    BY <1>1, <1>3, <2>1, <2>2, StoredOn
  <2>3. CASE b = c
    <3>1. Followed(q, homes[c], edges[c])
      BY <1>4, <2>1, <2>3, StoredIs
    <3>2. PICK e, p : e = edges[c] /\ p = Append(q, m)
      OBVIOUS
    <3>3. m.to = k /\ m.pc = "new"
      BY <1>2
    <3>4. \A i, h \in DOMAIN p : h < i /\ p[i].pc # "new" => p[h].pc = "done"
      <4> SUFFICES ASSUME NEW i \in 1 .. (n + 1), NEW h \in 1 .. (n + 1), h < i, p[i].pc # "new"
                   PROVE  p[h].pc = "done"
        BY <1>5, <3>2
      <4>1. i # n + 1
        BY <1>5, <3>2, <3>3
      <4>2. i \in 1 .. n /\ h \in 1 .. n
        BY <4>1
      <4> QED
        BY <1>5, <3>1, <3>2, <4>2 DEF Followed
    <3>5. \A i \in DOMAIN p : p[i].pc = "read" => p[i].copy = e
      <4> SUFFICES ASSUME NEW i \in 1 .. (n + 1), p[i].pc = "read" PROVE p[i].copy = e
        BY <1>5, <3>2
      <4>1. i # n + 1
        BY <1>5, <3>2, <3>3
      <4>2. i \in 1 .. n
        BY <4>1
      <4> QED
        BY <1>5, <3>1, <3>2, <4>2 DEF Followed
    <3>6. \A i \in DOMAIN p : p[i].pc = "done" /\ (\A h \in DOMAIN p : i < h => p[h].pc # "done") => e = p[i].to
      <4> SUFFICES ASSUME NEW i \in 1 .. (n + 1), p[i].pc = "done", \A h \in 1 .. (n + 1) : i < h => p[h].pc # "done"
                   PROVE  e = p[i].to
        BY <1>5, <3>2
      <4>1. i # n + 1
        BY <1>5, <3>2, <3>3
      <4>2. i \in 1 .. n /\ \A h \in 1 .. n : h \in 1 .. (n + 1)
        BY <4>1
      <4>3. \A h \in 1 .. n : i < h => q[h].pc # "done"
        BY <1>5, <3>2, <4>2
      <4> QED
        BY <1>5, <3>1, <3>2, <4>2, <4>3 DEF Followed
    <3>7. p # <<>> => p[Len(p)].to = k
      BY <1>5, <3>2, <3>3
    <3>8. Followed(p, k, e)
      BY <3>4, <3>5, <3>6, <3>7 DEF Followed
    <3>9. posts'[c] = p /\ homes'[c] = k /\ edges'[c] = e
      BY <1>1, <1>5, <3>2
    <3> QED
      BY <2>3, <3>8, <3>9 DEF StoredFor, Followed
  <2> QED
    BY <2>2, <2>3
<1> QED
  BY <1>6, <1>7 DEF StoredInv

\* One message of a chat changes.
LEMMA PostMoves ==
    ASSUME StoredInv, NEW c \in TownChats, NEW i \in DOMAIN posts[c], NEW m \in Posts,
           posts' = [posts EXCEPT ![c] = [posts[c] EXCEPT ![i] = m]], UNCHANGED homes
    PROVE  /\ PostsTyped'
           /\ posts'[c] = [posts[c] EXCEPT ![i] = m]
           /\ \A b \in TownChats \ {c} : posts'[b] = posts[b]
<1>1. posts \in [TownChats -> Seq(Posts)] /\ homes \in [TownChats -> Town!Places]
  BY DEF StoredInv, PostsTyped
<1>2. PICK q \in Seq(Posts) : q = posts[c]
  BY <1>1
<1>3. [q EXCEPT ![i] = m] \in Seq(Posts)
  BY <1>2
<1> QED
  BY <1>1, <1>2, <1>3 DEF PostsTyped

\* The middleware reads a message, and has a copy of the group.
LEMMA ReadNoteStored ==
    ASSUME TownUsual, TownInv, StoredInv, NEW c \in TownChats, NEW i \in DOMAIN posts[c], Town!ReadNote(c, i)
    PROVE  StoredInv'
<1>1. /\ homes \in [TownChats -> Town!Places] /\ posts \in [TownChats -> Seq(Posts)] /\ edges \in [TownChats -> Town!Places]
      /\ UNCHANGED <<homes, edges>> /\ posts[c][i].pc = "new"
  BY DEF Town!ReadNote, StoredInv, PostsTyped, TownInv, TownTyped
<1>2. PICK q \in Seq(Posts), n \in Nat : q = posts[c] /\ n = Len(q)
  BY <1>1
<1>3. DOMAIN q = 1 .. n /\ i \in 1 .. n /\ q[i] \in Posts
  BY <1>2
<1>4. PICK e \in Town!Places : e = edges[c]
  BY <1>1
<1>5. PICK m \in Posts : m = [q[i] EXCEPT !.pc = "read", !.copy = e]
  BY <1>3 DEF Posts
<1>6. m.pc = "read" /\ m.copy = e /\ m.to = q[i].to
  BY <1>3, <1>5 DEF Posts
<1>7. posts' = [posts EXCEPT ![c] = [posts[c] EXCEPT ![i] = m]]
  BY <1>1, <1>2, <1>3, <1>4, <1>5 DEF Town!ReadNote, Posts
<1>8. PostsTyped' /\ posts'[c] = [q EXCEPT ![i] = m] /\ \A b \in TownChats \ {c} : posts'[b] = posts[b]
  BY <1>1, <1>2, <1>7, PostMoves
<1>9. /\ blurred \subseteq blurred'
      /\ (c \notin blurred')
         => \A h \in 1 .. n : (h < i => q[h].pc = "done") /\ (i < h => q[h].pc = "new")
  <2>1. blurred \subseteq blurred'
    BY DEF Town!ReadNote, Town!Excused
  <2>2. ASSUME c \notin blurred', NEW h \in 1 .. n
        PROVE  (h < i => q[h].pc = "done") /\ (i < h => q[h].pc = "new")
    <3>1. ~ \E g \in DOMAIN q \ {i} : IF g < i THEN q[g].pc # "done" ELSE q[g].pc # "new"
      BY <1>2, <2>2 DEF Town!ReadNote, Town!Excused
    <3> QED
      BY <1>3, <3>1
  <2> QED
    BY <2>1, <2>2
<1>10. ASSUME NEW b \in TownChats \ blurred' PROVE StoredFor(b)'
  <2>1. StoredFor(b)
    BY <1>9 DEF StoredInv
  <2>2. CASE b # c
    BY <1>1, <1>8, <2>1, <2>2, StoredOn
  <2>3. CASE b = c
    <3>1. Followed(q, homes[c], e)
      BY <1>2, <1>4, <2>1, <2>3, StoredIs
    <3>2. PICK p, k : p = [q EXCEPT ![i] = m] /\ k = homes[c]
      OBVIOUS
    <3>3. /\ DOMAIN p = 1 .. n /\ Len(p) = n /\ p[i] = m /\ \A h \in 1 .. n : h # i => p[h] = q[h]
          /\ p # <<>> /\ q # <<>>
      BY <1>2, <1>3, <3>2
    <3>4. \A h \in 1 .. n : (h < i => q[h].pc = "done") /\ (i < h => q[h].pc = "new")
      <4>1. c \notin blurred'
        BY <1>10, <2>3
      <4> QED
        BY <1>9, <4>1
    <3>5. p[Len(p)].to = k
      BY <1>2, <1>3, <1>6, <3>1, <3>2, <3>3 DEF Followed
    <3>6. \A g, h \in 1 .. n : h < g /\ p[g].pc # "new" => p[h].pc = "done"
      <4> SUFFICES ASSUME NEW g \in 1 .. n, NEW h \in 1 .. n, h < g, p[g].pc # "new" PROVE p[h].pc = "done"
        OBVIOUS
      <4>1. g <= i
        BY <1>3, <3>3, <3>4
      <4> QED
        BY <1>3, <3>3, <3>4, <4>1
    <3>7. \A g \in 1 .. n : p[g].pc = "read" => p[g].copy = e
      BY <1>3, <1>6, <3>1, <3>3 DEF Followed
    <3>8. ASSUME NEW g \in 1 .. n, p[g].pc = "done", \A h \in 1 .. n : g < h => p[h].pc # "done" PROVE e = p[g].to
      <4>1. g # i
        BY <1>6, <3>3, <3>8
      <4>2. p[g] = q[g]
        BY <3>3, <4>1
      <4>3. \A h \in 1 .. n : g < h => q[h].pc # "done"
        BY <1>1, <1>2, <3>3, <3>8
      <4> QED
        BY <1>3, <3>1, <3>8, <4>2, <4>3 DEF Followed
    <3>9. Followed(p, k, e)
      BY <3>3, <3>5, <3>6, <3>7, <3>8 DEF Followed
    <3>10. posts'[c] = p /\ homes'[c] = k /\ edges'[c] = e
      BY <1>1, <1>4, <1>8, <3>2
    <3> QED
      BY <2>3, <3>9, <3>10 DEF StoredFor, Followed
  <2> QED
    BY <2>2, <2>3
<1> QED
  BY <1>8, <1>10 DEF StoredInv

\* save_community: set_community or clear_community.
LEMMA SaveCommunityStored ==
    ASSUME TownUsual, TownInv, StoredInv, NEW c \in TownChats, NEW i \in DOMAIN posts[c], Town!SaveCommunity(c, i)
    PROVE  StoredInv' /\ TownInv'
<1>1. /\ homes \in [TownChats -> Town!Places] /\ posts \in [TownChats -> Seq(Posts)] /\ edges \in [TownChats -> Town!Places]
      /\ UNCHANGED homes /\ posts[c][i].pc = "read"
  BY DEF Town!SaveCommunity, StoredInv, PostsTyped, TownInv, TownTyped
<1>2. PICK q \in Seq(Posts), n \in Nat : q = posts[c] /\ n = Len(q)
  BY <1>1
<1>3. DOMAIN q = 1 .. n /\ i \in 1 .. n /\ q[i] \in Posts
  BY <1>2
<1>4. PICK t \in Town!Places : t = q[i].to
  BY <1>3 DEF Posts
<1>5. PICK m \in Posts : m = [q[i] EXCEPT !.pc = "done"]
  BY <1>3 DEF Posts
<1>6. m.pc = "done" /\ m.to = t
  BY <1>3, <1>4, <1>5 DEF Posts
<1>7. posts' = [posts EXCEPT ![c] = [posts[c] EXCEPT ![i] = m]]
  BY <1>1, <1>2, <1>5 DEF Town!SaveCommunity
<1>8. PostsTyped' /\ posts'[c] = [q EXCEPT ![i] = m] /\ \A b \in TownChats \ {c} : posts'[b] = posts[b]
  BY <1>1, <1>2, <1>7, PostMoves
<1>9. \/ t = q[i].copy /\ UNCHANGED <<edges, blurred>>
      \/ edges' = [edges EXCEPT ![c] = t] /\ blurred' = blurred \cup {"late"}
  BY <1>2, <1>4 DEF Town!SaveCommunity
<1>10. /\ blurred \subseteq blurred' /\ edges' \in [TownChats -> Town!Places]
       /\ blurred' = {} => edges' = edges
       /\ \A b \in TownChats \ {c} : edges'[b] = edges[b]
  BY <1>1, <1>9
<1>11. ASSUME NEW b \in TownChats \ blurred' PROVE StoredFor(b)'
  <2>1. StoredFor(b)
    BY <1>10 DEF StoredInv
  <2>2. CASE b # c
    BY <1>1, <1>8, <1>10, <2>1, <2>2, StoredOn
  <2>3. CASE b = c
    <3>1. Followed(q, homes[c], edges[c])
      BY <1>2, <2>1, <2>3, StoredIs
    <3>2. PICK p, k : p = [q EXCEPT ![i] = m] /\ k = homes[c]
      OBVIOUS
    <3>3. /\ DOMAIN p = 1 .. n /\ Len(p) = n /\ p[i] = m /\ \A h \in 1 .. n : h # i => p[h] = q[h]
          /\ p # <<>> /\ q # <<>>
      BY <1>2, <1>3, <3>2
    <3>4. \A h \in 1 .. n : (h < i => q[h].pc = "done") /\ (i < h => q[h].pc = "new")
      BY <1>1, <1>2, <1>3, <3>1 DEF Followed
    <3>5. p[Len(p)].to = k
      BY <1>2, <1>3, <1>4, <1>6, <3>1, <3>2, <3>3 DEF Followed
    <3>6. \A g, h \in 1 .. n : h < g /\ p[g].pc # "new" => p[h].pc = "done"
      BY <1>3, <1>6, <3>3, <3>4
    <3>7. edges'[c] = t
      BY <1>1, <1>2, <1>3, <1>9, <3>1 DEF Followed
    <3>8. \A g \in 1 .. n : p[g].pc # "read"
      BY <1>3, <1>6, <3>3, <3>4
    <3>9. \A g \in 1 .. n : p[g].pc = "done" /\ (\A h \in 1 .. n : g < h => p[h].pc # "done") => p[g].to = t
      <4> SUFFICES ASSUME NEW g \in 1 .. n, p[g].pc = "done", \A h \in 1 .. n : g < h => p[h].pc # "done"
                   PROVE  g = i
        BY <1>6, <3>3
      <4>1. ~ (g < i)
        BY <1>3, <1>6, <3>3
      <4>2. ~ (i < g)
        BY <1>3, <3>3, <3>4
      <4> QED
        BY <1>3, <4>1, <4>2
    <3>10. Followed(p, k, t)
      BY <3>3, <3>5, <3>6, <3>8, <3>9 DEF Followed
    <3>11. posts'[c] = p /\ homes'[c] = k
      BY <1>1, <1>8, <3>2
    <3> QED
      BY <2>3, <3>7, <3>10, <3>11 DEF StoredFor, Followed
  <2> QED
    BY <2>2, <2>3
<1>12. StoredInv'
  BY <1>8, <1>11 DEF StoredInv
<1>13. TownInv'
  BY <1>10, TownStays DEF Town!SaveCommunity
<1> QED
  BY <1>12, <1>13

\* set_community of what getChat answered.
LEMMA AttachStored ==
    ASSUME TownUsual, TownInv, StoredInv, NEW j \in TownUpdates, Town!Attach(j) PROVE StoredInv'
<1>1. /\ homes \in [TownChats -> Town!Places] /\ posts \in [TownChats -> Seq(Posts)] /\ edges \in [TownChats -> Town!Places]
      /\ UNCHANGED <<homes, posts>> /\ turns[j].chat \in TownChats
  BY TurnIs DEF Town!Attach, StoredInv, PostsTyped, TownInv, TownTyped, TurnFits
<1>2. PICK c \in TownChats : c = turns[j].chat
  BY <1>1
<1>12. PICK k : k = turns[j].community
  OBVIOUS
<1>3. edges' = [edges EXCEPT ![c] = k]
  BY <1>2, <1>12 DEF Town!Attach
<1>4. /\ blurred \subseteq blurred'
      /\ c \notin blurred' => homes[c] = k /\ \A i \in DOMAIN posts[c] : posts[c][i].pc = "done"
  BY <1>2, <1>12 DEF Town!Attach
<1>5. ASSUME NEW b \in TownChats \ blurred' PROVE StoredFor(b)'
  <2>1. StoredFor(b)
    BY <1>4 DEF StoredInv
  <2>2. CASE b # c
    BY <1>1, <1>3, <2>1, <2>2, StoredOn
  <2>3. CASE b = c
    <3>1. PICK q \in Seq(Posts), n \in Nat : q = posts[c] /\ n = Len(q)
      BY <1>1
    <3>2. DOMAIN q = 1 .. n /\ (q # <<>> => n \in 1 .. n) /\ (q = <<>> => n = 0)
      BY <3>1
    <3>3. homes[c] = k /\ (\A i \in 1 .. n : q[i].pc = "done") /\ Followed(q, homes[c], edges[c])
      BY <1>4, <2>1, <2>3, <3>1, <3>2, StoredIs
    <3>4. ASSUME NEW i \in 1 .. n, \A h \in 1 .. n : i < h => q[h].pc # "done" PROVE k = q[i].to
      <4>1. n \in 1 .. n /\ ~ (i < n)
        BY <3>3, <3>4
      <4>2. i = n /\ q # <<>>
        BY <3>2, <4>1
      <4> QED
        BY <3>1, <3>3, <4>2 DEF Followed
    <3>5. Followed(q, k, k)
      BY <3>2, <3>3, <3>4 DEF Followed
    <3> QED
      BY <1>1, <1>3, <2>3, <3>1, <3>3, <3>5 DEF StoredFor, Followed
  <2> QED
    BY <2>2, <2>3
<1> QED
  BY <1>1, <1>5 DEF StoredInv, PostsTyped

-----------------------------------------------------------------------------

LEMMA TownStutters ==
    ASSUME TownUsual, TownInv, StoredInv, UNCHANGED Town!vars PROVE TownInv' /\ StoredInv'
<1>1. UNCHANGED <<homes, edges, posts, cbans, lastCban, cbanned, duties, turns, porter, blurred>>
  BY DEF Town!vars
<1> QED
  BY <1>1, TownStays, StoredStays, PorterIs

LEMMA TownNextPreserves ==
    ASSUME TownUsual, TownInv, StoredInv, [Town!Next]_(Town!vars) PROVE TownInv' /\ StoredInv'
<1>1. homes \in [TownChats -> Town!Places]
  BY DEF StoredInv, PostsTyped
<1>2. ASSUME NEW c \in TownChats, NEW k \in Town!Places, Town!Move(c, k) PROVE TownInv' /\ StoredInv'
  BY <1>2, MoveStored, TownStays, PorterIs DEF Town!Move
<1>3. ASSUME NEW c \in TownChats, NEW i \in DOMAIN posts[c], Town!ReadNote(c, i) PROVE TownInv' /\ StoredInv'
  <2>1. blurred \subseteq blurred'
    BY <1>3 DEF Town!ReadNote, Town!Excused
  <2> QED
    BY <1>3, <2>1, ReadNoteStored, TownStays, PorterIs DEF Town!ReadNote
<1>4. ASSUME NEW c \in TownChats, NEW i \in DOMAIN posts[c], Town!SaveCommunity(c, i) PROVE TownInv' /\ StoredInv'
  BY <1>4, SaveCommunityStored
<1>5. ASSUME NEW j \in TownUpdates, NEW c \in TownChats, Town!Receive(j, c) PROVE TownInv' /\ StoredInv'
  BY <1>5, ReceiveTurns, StoredStays DEF Town!Receive
<1>6. ASSUME NEW j \in TownUpdates, Town!Probe(j) \/ Town!Look(j) \/ Town!Queue(j) \/ Town!Snapshot(j) \/ Town!Lookup(j)
      PROVE  TownInv' /\ StoredInv'
  <2>1. UNCHANGED <<homes, edges, posts, blurred>>
    BY <1>6 DEF Town!Probe, Town!Look, Town!Queue, Town!Snapshot, Town!Lookup
  <2> QED
    BY <1>1, <1>6, <2>1, ProbeTurns, LookTurns, QueueTurns, SnapshotTurns, LookupTurns, StoredStays
<1>7. ASSUME NEW j \in TownUpdates, Town!Attach(j) PROVE TownInv' /\ StoredInv'
  BY <1>7, AttachTurns, AttachStored
<1>8. ASSUME NEW j \in TownUpdates, Town!Reason(j) \/ Town!Insert(j) \/ Town!Act(j) \/ Town!SaveChat(j)
      PROVE  TownInv' /\ StoredInv'
  <2>1. UNCHANGED <<homes, edges, posts>>
    BY <1>8 DEF Town!Reason, Town!Insert, Town!Act, Town!SaveChat
  <2>2. blurred \subseteq blurred'
    BY <1>8 DEF Town!Reason, Town!Insert, Town!Act, Town!SaveChat, Town!Excused, Town!Ban, Town!BanRefused, Town!Fault
  <2> QED
    BY <1>8, <2>1, <2>2, ReasonTurns, InsertTurns, ActTurns, SaveChatTurns, StoredStays
<1>9. ASSUME NEW j \in TownUpdates, Town!Find(j) \/ Town!Delete(j) \/ Town!Unban(j) \/ Town!Die(j)
      PROVE  TownInv' /\ StoredInv'
  <2>1. UNCHANGED <<homes, edges, posts>>
    BY <1>9 DEF Town!Find, Town!Delete, Town!Unban, Town!Die
  <2>2. blurred \subseteq blurred'
    BY <1>9 DEF Town!Find, Town!Delete, Town!Unban, Town!Die, Town!Excused, Town!Lift, Town!Fault
  <2> QED
    BY <1>9, <2>1, <2>2, FindTurns, DeleteTurns, UnbanTurns, DieTurns, StoredStays
<1>10. ASSUME NEW c \in TownChats, Town!BanChat(c) \/ Town!UnbanChat(c) PROVE TownInv' /\ StoredInv'
  <2>1. UNCHANGED <<homes, edges, posts>> /\ blurred \subseteq blurred'
    BY <1>10 DEF Town!BanChat, Town!UnbanChat, Town!Ban, Town!BanRefused, Town!Lift, Town!Fault
  <2> QED
    BY <1>10, <2>1, BanChatTurns, UnbanChatTurns, StoredStays
<1>11. ASSUME NEW i \in DOMAIN duties, Town!Start(i) PROVE TownInv' /\ StoredInv'
  BY <1>11, StartTurns, StoredStays DEF Town!Start
<1>12. ASSUME Town!GetBan \/ Town!SaveBan \/ Town!Complete \/ Town!Fail \/ Town!Crash PROVE TownInv' /\ StoredInv'
  <2>1. UNCHANGED <<homes, edges, posts>>
    BY <1>12 DEF Town!GetBan, Town!SaveBan, Town!Complete, Town!Fail, Town!Crash
  <2>2. blurred \subseteq blurred'
    BY <1>12 DEF Town!GetBan, Town!SaveBan, Town!Complete, Town!Fail, Town!Crash, Town!Excused, Town!Fault
  <2> QED
    BY <1>12, <2>1, <2>2, GetBanTurns, SaveBanTurns, CompleteTurns, FailTurns, StoredStays
<1>13. CASE UNCHANGED Town!vars
  BY <1>13, TownStutters
<1> QED
  BY <1>2, <1>3, <1>4, <1>5, <1>6, <1>7, <1>8, <1>9, <1>10, <1>11, <1>12, <1>13 DEF Town!Next

LEMMA TownStarts ==
    ASSUME TownUsual, Town!Init PROVE TownInv /\ StoredInv
<1>1. /\ homes \in [TownChats -> Communities] /\ edges \in [TownChats -> Town!Places]
      /\ posts = [c \in TownChats |-> <<>>] /\ cbans = {} /\ lastCban = 0 /\ cbanned = {} /\ duties = <<>>
      /\ turns = [j \in TownUpdates |-> Town!At("new")] /\ porter = Town!Idle /\ blurred = {}
  BY DEF Town!Init
<1>2. porter \in Porters /\ porter.pc = "idle"
  BY <1>1 DEF Porters, Town!Idle
<1>3. Town!At("new") \in Turns /\ Town!At("new").pc = "new" /\ Town!At("new").command = "none"
  BY DEF Turns, Town!At
<1>4. turns \in [TownUpdates -> Turns] /\ \A j \in TownUpdates : turns[j].pc = "new" /\ turns[j].command = "none"
  BY <1>1, <1>3
<1>5. TownTyped
  <2>1. 0 \in 0 .. MaxTownBans /\ duties \in Seq(Duties) /\ DOMAIN duties = {}
    BY <1>1 DEF TownUsual
  <2> QED
    BY <1>1, <1>2, <1>4, <2>1 DEF TownTyped, TurnFits, PorterFits
<1>6. TurnsApart /\ AllTraced /\ AllUnderway
  BY <1>1, <1>2, <1>4 DEF TurnsApart, TurnHolds, AllTraced, AllUnderway
<1>7. AllInside
  <2>1. DOMAIN duties = {}
    BY <1>1
  <2> QED
    BY <1>1, <1>2, <1>4, <2>1 DEF AllInside, TurnInside
<1>8. StoredInv
  <2>1. homes \in [TownChats -> Town!Places]
    BY <1>1 DEF Town!Places
  <2>2. posts \in [TownChats -> Seq(Posts)] /\ \A c \in TownChats : posts[c] = <<>> /\ DOMAIN posts[c] = {}
    BY <1>1
  <2> QED
    BY <2>1, <2>2 DEF StoredInv, PostsTyped, StoredFor
<1> QED
  BY <1>5, <1>6, <1>7, <1>8 DEF TownInv

\* What the invariant says when nothing is under way.
LEMMA TownHolds ==
    ASSUME TownUsual, TownInv, StoredInv PROVE Town!CommunitiesHold
<1>1. TownTyped /\ TurnsApart /\ AllInside /\ AllTraced /\ AllUnderway
  BY DEF TownInv
<1>2. Town!CommunityStored
  <2> SUFFICES ASSUME NEW c \in TownChats \ blurred, Town!Settled(c), posts[c] # <<>> PROVE edges[c] = homes[c]
    BY DEF Town!CommunityStored
  <2>1. StoredFor(c) /\ posts[c] \in Seq(Posts)
    BY DEF StoredInv, PostsTyped
  <2>2. PICK q \in Seq(Posts), n \in Nat : q = posts[c] /\ n = Len(q)
    BY <2>1
  <2>3. DOMAIN q = 1 .. n /\ n \in 1 .. n
    BY <2>2
  <2>4. q[n].pc = "done" /\ q[n].to = homes[c]
    BY <2>1, <2>2, <2>3 DEF Town!Settled, StoredFor
  <2>5. \A h \in DOMAIN q : ~ (n < h)
    BY <2>2, <2>3
  <2> QED
    BY <2>1, <2>2, <2>3, <2>4, <2>5 DEF StoredFor
<1>3. ASSUME Town!Quiet
      PROVE  /\ porter.pc = "idle" /\ \A i \in DOMAIN duties : duties[i].status # "PENDING"
             /\ \A j \in TownUpdates : turns[j].pc \in {"new", "done"}
  BY <1>3 DEF Town!Quiet, Town!Idle
<1>4. Town!BansListed
  <2> SUFFICES ASSUME Town!Quiet, blurred \subseteq {"late", "ban"} \cup TownChats, NEW c \in cbanned
               PROVE  \E r \in cbans : c \in r.chats
    BY DEF Town!BansListed
  <2>1. Calm
    BY DEF Calm, TownUsual
  <2>2. Traced(c)
    BY <1>1, <2>1 DEF AllTraced
  <2> QED
    BY <1>3, <2>2 DEF Traced, Lifting, Waiting
<1>5. Town!BansInForce
  <2> SUFFICES ASSUME Town!Quiet, blurred = {}, NEW r \in cbans, NEW c \in TownPresent, edges[c] = r.community
               PROVE  c \in cbanned
    BY DEF Town!BansInForce
  <2>1. Underway(r.id) \/ Behind(r.id, r.community) \/ Done(r.id, r.community)
    BY <1>1 DEF AllUnderway
  <2>2. Done(r.id, r.community)
    BY <1>3, <2>1 DEF Underway, Bans, Behind, Waiting
  <2>3. c \in TownPresent \cap TownChats
    BY DEF TownUsual
  <2> QED
    BY <1>3, <2>2, <2>3 DEF Done
<1> QED
  BY <1>2, <1>4, <1>5 DEF Town!CommunitiesHold

\* The invariant of the bans of the communities.
THEOREM TownInvariance == ASSUME TownUsual PROVE Town!Spec => [](TownInv /\ StoredInv)
<1>1. Town!Init => TownInv /\ StoredInv
  BY TownStarts
<1>2. TownInv /\ StoredInv /\ [Town!Next]_(Town!vars) => TownInv' /\ StoredInv'
  BY TownNextPreserves
<1> QED
  BY <1>1, <1>2, PTL DEF Town!Spec

\* A chat that moved is stored in its community; a chat the user is banned in
\* is listed by a record, and a record is in force.
THEOREM CommunitiesHoldAlways == ASSUME TownUsual PROVE Town!Spec => []Town!CommunitiesHold
<1>1. TownInv /\ StoredInv => Town!CommunitiesHold
  BY TownHolds
<1> QED
  BY <1>1, TownInvariance, PTL
=============================================================================
