-------------------------- MODULE MutePermissions --------------------------
(***************************************************************************)
(* Mutes and their release for one member of one chat                      *)
(* (restrictions/utils/restrictions.py): execute_restriction, _snapshot,   *)
(* _apply, _restore, _restore_owned_snapshot and the scheduler's sweep     *)
(* restore_expired_permissions.                                            *)
(*                                                                         *)
(* Sophie keeps three things in step that no transaction covers: what      *)
(* Telegram enforces (member), what she remembers of the time before her   *)
(* mute (snapshot), and the operation in progress (op).  Operations hold   *)
(* the lease of module MuteLock, so there is one at a time (LeaseMutex);   *)
(* between two of its steps the clock moves, administrators act in         *)
(* Telegram, and the process may die.  Every await on Telegram or MongoDB  *)
(* ends a step.                                                            *)
(*                                                                         *)
(* Data: a ChatPermissions is the set of rights it grants.  A regular      *)
(* member and one who left without a restriction of their own are both     *)
(* "member"; "out" is banned or removed.  applied_until is None in every   *)
(* document the code writes, so ownership asks for no deadline.  The       *)
(* applied flag is written and never read.                                 *)
(***************************************************************************)
EXTENDS Integers, FiniteSets

CONSTANTS
    Rights,          \* the fields of ChatPermissions
    WelcomeRights,   \* those a welcome restriction keeps (the five of _apply)
    None,            \* no value, no document, no deadline
    Commands,        \* the operations that may be asked for
    MuteDurations,   \* durations a mute may be asked for, None for permanent
    InitialMembers,  \* the member before Sophie does anything
    AdminPerms,      \* permissions an administrator restricts the member to
    AdminDurations,  \* for how long, None for ever
    DefaultPerms,    \* default permissions the group may be given
    RacingAdmin,     \* administrators act while an operation is in progress
    BodyTimeout,     \* 45 seconds
    Margin,          \* 60 seconds: "a nearly expired old restriction"
    TelegramForever, \* 30 seconds: nearer deadlines are for ever to Telegram
    CallLatency,     \* longest time from planning a restore to Telegram's act
    MaxTime,         \* bound on the clock
    MaxCommands,     \* bound on the operations asked for
    MaxChanges,      \* bound on the administrators' changes
    MaxFaults        \* bound on refusals, ambiguous calls and crashes

Perms == SUBSET Rights

Times == 0 .. 2 * MaxTime

ASSUME ValuesAssumption ==
    /\ WelcomeRights \subseteq Rights
    /\ \A x \in Perms \cup (0 .. 2 * MaxTime) : x # None
    /\ AdminPerms \subseteq Perms \ {Rights}
    /\ DefaultPerms \subseteq Perms
    /\ Commands \subseteq {"mute", "restrict", "unmute", "ban", "kick", "unban"}

ASSUME MembersAssumption ==
    InitialMembers \subseteq
        [status : {"member", "out", "restricted"},
         perms : Perms,
         until : {None} \cup (TelegramForever .. MaxTime)]

ASSUME TimeAssumption ==
    /\ {BodyTimeout, Margin, TelegramForever, CallLatency} \subseteq Nat
    /\ {MaxTime, MaxCommands, MaxChanges, MaxFaults} \subseteq Nat
    /\ MuteDurations \subseteq (1 .. MaxTime) \cup {None}
    /\ AdminDurations \subseteq (TelegramForever .. MaxTime) \cup {None}
    /\ RacingAdmin \in BOOLEAN

VARIABLES
    now,       \* the clock
    member,    \* the ChatMember Telegram would report
    defaults,  \* the group's default permissions
    snapshot,  \* the MutePermissionsModel document, or None
    pc,        \* the next step of the operation in progress, or "idle"
    op,        \* its local variables
    due,       \* the sweep's query returned the snapshot
    author,    \* history: who gave the member the present restriction
    original,  \* history: the member before Sophie's mute
    budget     \* commands, changes and faults so far

vars == <<now, member, defaults, snapshot, pc, op, due, author, original, budget>>

---------------------------------------------------------------------------

Unrestricted == [status |-> "member", perms |-> Rights, until |-> None]
Out == [status |-> "out", perms |-> {}, until |-> None]
Restricted(p, t) == [status |-> "restricted", perms |-> p, until |-> t]

Members == [status : {"member", "out", "restricted"},
            perms : Perms, until : {None} \cup Times]

Snapshots ==
    [permissions : {None} \cup Perms,
     restore_group_defaults : BOOLEAN,
     previous_until : {None} \cup Times,
     applied_permissions : {None} \cup Perms,
     pending_permissions : {None} \cup Perms,
     expires_at : {None} \cup Times]

ASSUME DocumentsAssumption == None \notin Snapshots

Passed(t) == t # None /\ t <= now

\* Mutant: a restriction with an administrator's deadline passes for Sophie's.
OwnsAnyDeadline(s, m) ==
    /\ m.status = "restricted"
    /\ s.applied_permissions # None
    /\ m.perms \in {s.applied_permissions, s.pending_permissions}

\* _owns_restriction
Owns(s, m) ==
    /\ m.status = "restricted"
    /\ s.applied_permissions # None
    /\ m.perms \in {s.applied_permissions, s.pending_permissions}
    /\ m.until = None

\* The document _snapshot inserts for the member it saw.
Fresh(m) ==
    [permissions |-> IF m.status = "restricted" THEN m.perms ELSE None,
     restore_group_defaults |-> m.status # "restricted",
     previous_until |-> IF m.status = "restricted" THEN m.until ELSE None,
     applied_permissions |-> None,
     pending_permissions |-> None,
     expires_at |-> None]

\* What restrictChatMember makes of the member: all rights lift the
\* restriction, a deadline that is too near is for ever.
Restriction(p, t) ==
    IF p = Rights THEN Unrestricted
    ELSE Restricted(p, IF t # None /\ t < now + TelegramForever THEN None ELSE t)

NoOp == [act |-> "none", duration |-> None, began |-> 0, planned |-> 0,
         seen |-> Out, doc |-> None, created |-> FALSE, before |-> None,
         perms |-> {}, until |-> None, release |-> FALSE]

Acts == {"none", "mute", "restrict", "unmute", "sweep", "ban", "kick", "unban"}

Ops == [act : Acts,
        duration : MuteDurations \cup {None},
        began : 0 .. MaxTime,
        planned : 0 .. MaxTime,
        seen : Members,
        doc : {None} \cup Snapshots,
        created : BOOLEAN,
        before : {None} \cup Snapshots,
        perms : Perms,
        until : {None} \cup Times,
        release : BOOLEAN]

Steps == {"idle", "look", "capture", "insert", "defaults", "save", "call",
          "settle", "undo", "find", "check", "discard", "plan", "purge"}

TypeOK ==
    /\ now \in 0 .. MaxTime
    /\ member \in Members
    /\ defaults \in Perms
    /\ snapshot \in {None} \cup Snapshots
    /\ pc \in Steps
    /\ op \in Ops
    /\ due \in BOOLEAN
    /\ author \in {"admin", "sophie", "restored"}
    /\ original \in Members
    /\ budget \in [commands : 0 .. MaxCommands, changes : 0 .. MaxChanges,
                   faults : 0 .. MaxFaults]

\* An administrator may have restricted the member already; a document that
\* was written before applied_permissions existed may lie about.
Legacy == [Fresh(Unrestricted) EXCEPT !.expires_at = None]

Init ==
    /\ now = 0
    /\ member \in InitialMembers
    /\ defaults \in DefaultPerms
    /\ snapshot \in {None, Legacy}
    /\ pc = "idle"
    /\ op = NoOp
    /\ due = FALSE
    /\ author = "admin"
    /\ original = member
    /\ budget = [commands |-> 0, changes |-> 0, faults |-> 0]

---------------------------------------------------------------------------
(* execute_restriction takes the lease and starts an operation. *)

FirstStep(a) ==
    CASE a \in {"mute", "restrict"} -> "look"
      [] a \in {"unmute", "sweep"} -> "find"
      [] a \in {"ban", "kick", "unban"} -> "call"

Begin(a, d) ==
    /\ pc = "idle"
    /\ pc' = FirstStep(a)
    /\ op' = [NoOp EXCEPT !.act = a, !.duration = d, !.began = now]

\* A command, a filter, a warn limit, Welcome Security...: any bot handler.
Command(a, d) ==
    /\ budget.commands < MaxCommands
    /\ d # None => a \in {"mute", "restrict"} /\ now + d <= MaxTime
    /\ Begin(a, d)
    /\ budget' = [budget EXCEPT !.commands = @ + 1]
    /\ UNCHANGED <<now, member, defaults, snapshot, due, author, original>>

\* restore_expired_permissions: the query, and later the call for a document
\* it returned.
SweepFind ==
    /\ ~ due
    /\ snapshot # None /\ Passed(snapshot.expires_at)
    /\ due' = TRUE
    /\ UNCHANGED <<now, member, defaults, snapshot, pc, op, author, original, budget>>

SweepRestore ==
    /\ due
    /\ due' = FALSE
    /\ Begin("sweep", None)
    /\ UNCHANGED <<now, member, defaults, snapshot, author, original, budget>>

End == pc' = "idle" /\ op' = NoOp

---------------------------------------------------------------------------
(* _snapshot and _apply: MUTE and RESTRICT. *)

\* get_chat_member
Look ==
    /\ pc = "look"
    /\ op' = [op EXCEPT !.seen = member]
    /\ pc' = "capture"
    /\ UNCHANGED <<now, member, defaults, snapshot, due, author, original, budget>>

\* The intent _apply is going to save over the document s.
Intent(s, p) ==
    [s EXCEPT !.pending_permissions = s.applied_permissions,
              !.applied_permissions = p,
              !.expires_at = IF op.duration = None THEN None ELSE now + op.duration]

\* Lines 213-218, or get_chat first when the action is RESTRICT.
Proceed(s, created) ==
    IF op.act = "restrict"
    THEN /\ pc' = "defaults"
         /\ op' = [op EXCEPT !.before = s, !.created = created]
    ELSE /\ pc' = "save"
         /\ op' = [op EXCEPT !.before = s, !.created = created,
                             !.perms = {}, !.doc = Intent(s, {})]

\* Mutant: every mute captures anew.
CaptureAnew ==
    /\ pc = "capture"
    /\ snapshot' = None
    /\ pc' = "insert"
    /\ UNCHANGED <<now, member, defaults, op, due, author, original, budget>>

\* find_one: keep a document that owns the restriction, its present state
\* resolved in memory; delete any other.
Capture ==
    /\ pc = "capture"
    /\ IF snapshot # None /\ Owns(snapshot, op.seen)
       THEN /\ Proceed([snapshot EXCEPT !.applied_permissions = op.seen.perms,
                                        !.pending_permissions = None], FALSE)
            /\ UNCHANGED snapshot
       ELSE /\ snapshot' = None
            /\ pc' = "insert"
            /\ UNCHANGED op
    /\ UNCHANGED <<now, member, defaults, due, author, original, budget>>

Insert ==
    /\ pc = "insert"
    /\ snapshot' = Fresh(op.seen)
    /\ Proceed(Fresh(op.seen), TRUE)
    /\ UNCHANGED <<now, member, defaults, due, author, original, budget>>

\* get_chat: a welcome restriction keeps what both the member had before the
\* captcha and the group's defaults allow.
WelcomePerms(s) ==
    WelcomeRights \cap defaults
                  \cap (IF s.permissions = None THEN defaults ELSE s.permissions)

Defaults ==
    /\ pc = "defaults"
    /\ op' = [op EXCEPT !.perms = WelcomePerms(op.before),
                        !.doc = Intent(op.before, WelcomePerms(op.before))]
    /\ pc' = "save"
    /\ UNCHANGED <<now, member, defaults, snapshot, due, author, original, budget>>

\* get_chat reports no permissions: undo the insertion and give up.
NoDefaults ==
    /\ pc = "defaults"
    /\ budget.faults < MaxFaults
    /\ budget' = [budget EXCEPT !.faults = @ + 1]
    /\ snapshot' = IF op.created THEN None ELSE snapshot
    /\ End
    /\ UNCHANGED <<now, member, defaults, due, author, original>>

\* Mutant: the intent is not persisted before the call.
SaveSkipped ==
    /\ pc = "save"
    /\ pc' = "call"
    /\ UNCHANGED <<now, member, defaults, snapshot, op, due, author, original, budget>>

\* "Persist the intended state BEFORE Telegram."
Save ==
    /\ pc = "save"
    /\ snapshot' = op.doc
    /\ pc' = "call"
    /\ UNCHANGED <<now, member, defaults, op, due, author, original, budget>>

---------------------------------------------------------------------------
(* _restore and _restore_owned_snapshot: UNMUTE and the sweep. *)

Find ==
    /\ pc = "find"
    /\ IF snapshot = None \/ (op.act = "sweep" /\ ~ Passed(snapshot.expires_at))
       THEN End
       ELSE /\ pc' = "check"
            /\ op' = [op EXCEPT !.doc = snapshot, !.planned = now]
    /\ UNCHANGED <<now, member, defaults, snapshot, due, author, original, budget>>

\* get_chat_member
Check ==
    /\ pc = "check"
    /\ op' = [op EXCEPT !.seen = member]
    /\ pc' = IF Owns(op.doc, member) THEN "plan" ELSE "discard"
    /\ UNCHANGED <<now, member, defaults, snapshot, due, author, original, budget>>

\* "Legacy snapshots have no ownership proof: leave the current state alone."
Discard ==
    /\ pc = "discard"
    /\ snapshot' = None
    /\ End
    /\ UNCHANGED <<now, member, defaults, due, author, original, budget>>

\* _restoration_permissions: op.planned is the time _restore read before it
\* asked for the member.
Lifted(s) ==
    s.restore_group_defaults
        \/ (s.previous_until # None /\ s.previous_until <= op.planned)

\* Mutant: the group's defaults replace what the member had.
RestoreDefaults(s) == IF Lifted(s) THEN Rights ELSE defaults

RestorePerms(s) == IF Lifted(s) THEN Rights ELSE s.permissions \cap defaults

RestoreUntil(s) == IF Lifted(s) THEN None ELSE s.previous_until

\* Mutant: no margin for the latency of the request.
NearForTelegram(t) == t # None /\ t < now + TelegramForever

\* The deadline is too near to be given to Telegram.
Near(t) == t # None /\ t < now + Margin

\* get_chat when it is needed, then the plan of _restore_owned_snapshot.
Plan ==
    /\ pc = "plan"
    /\ LET s == op.doc
           release == Near(RestoreUntil(s))
       IN  /\ op' = [op EXCEPT
                        !.planned = now,
                        !.perms = RestorePerms(s),
                        !.until = IF release THEN None ELSE RestoreUntil(s),
                        !.release = release,
                        !.before = s,
                        !.doc = IF release
                                THEN [s EXCEPT !.pending_permissions = op.seen.perms,
                                               !.applied_permissions = RestorePerms(s),
                                               !.expires_at = RestoreUntil(s)]
                                ELSE s]
           /\ pc' = IF release THEN "save" ELSE "call"
    /\ UNCHANGED <<now, member, defaults, snapshot, due, author, original, budget>>

---------------------------------------------------------------------------
(* The Telegram call and what follows it. *)

Muting == op.act \in {"mute", "restrict"}
Restoring == op.act \in {"unmute", "sweep"}

\* The member after Telegram has acted.  unbanChatMember removes a member
\* unless only_if_banned is set, and then leaves one who is not banned alone.
Outcome ==
    IF Muting THEN Restriction(op.perms, None)
    ELSE IF Restoring THEN Restriction(op.perms, op.until)
    ELSE IF op.act = "unban" THEN member
    ELSE Out

\* A restriction Sophie has to release later is hers; what she gives back is
\* restored, and a removal or a no-op is not hers to undo.
Author ==
    IF Muting \/ (Restoring /\ op.release) THEN "sophie"
    ELSE IF Restoring THEN "restored"
    ELSE IF op.act = "unban" THEN author
    ELSE "admin"

Act ==
    /\ member' = Outcome
    /\ author' = IF Outcome.status = "restricted" \/ op.act = "unban"
                 THEN Author ELSE "admin"
    /\ original' = IF Muting /\ author = "admin" THEN member ELSE original

AfterSuccess ==
    IF Muting
    THEN IF op.doc.pending_permissions # None THEN "settle" ELSE "idle"
    ELSE IF Restoring THEN "settle" ELSE "purge"

\* Telegram answers True.
CallApplied ==
    /\ pc = "call"
    /\ Act
    /\ pc' = AfterSuccess
    /\ op' = IF AfterSuccess = "idle" THEN NoOp ELSE op
    /\ UNCHANGED <<now, defaults, snapshot, due, budget>>

\* A definite error (BadRequest, Forbidden, Unauthorized) or the answer False.
CallRefused ==
    /\ pc = "call"
    /\ budget.faults < MaxFaults
    /\ budget' = [budget EXCEPT !.faults = @ + 1]
    /\ IF Muting \/ (Restoring /\ op.release)
       THEN pc' = "undo" /\ UNCHANGED op
       ELSE End
    /\ UNCHANGED <<now, member, defaults, snapshot, due, author, original>>

\* Telegram acted, and a network error, a timeout or a crash hid it.
CallUnanswered ==
    /\ pc = "call"
    /\ budget.faults < MaxFaults
    /\ budget' = [budget EXCEPT !.faults = @ + 1]
    /\ Act
    /\ End
    /\ UNCHANGED <<now, defaults, snapshot, due>>

\* Mutant: a finished restore always deletes its document.
SettleDelete ==
    /\ pc = "settle"
    /\ snapshot' = IF Muting
                   THEN [op.doc EXCEPT !.pending_permissions = None]
                   ELSE None
    /\ End
    /\ UNCHANGED <<now, member, defaults, due, author, original, budget>>

\* After success: the pending state is settled, a finished restore's document
\* is deleted.
Settle ==
    /\ pc = "settle"
    /\ snapshot' = IF Muting \/ op.release
                   THEN [op.doc EXCEPT !.pending_permissions = None]
                   ELSE None
    /\ End
    /\ UNCHANGED <<now, member, defaults, due, author, original, budget>>

\* After a refusal: the document as it was, or none if _apply created it.
Undo ==
    /\ pc = "undo"
    /\ snapshot' = IF Muting /\ op.created THEN None ELSE op.before
    /\ End
    /\ UNCHANGED <<now, member, defaults, due, author, original, budget>>

\* BAN, KICK and UNBAN forget the snapshot.
Purge ==
    /\ pc = "purge"
    /\ snapshot' = None
    /\ End
    /\ UNCHANGED <<now, member, defaults, due, author, original, budget>>

\* A crash, the 45-second timeout or a transient error before the step that
\* is next takes effect: the operation is gone, what it saved stays.
Abort ==
    /\ pc # "idle"
    /\ budget.faults < MaxFaults
    /\ budget' = [budget EXCEPT !.faults = @ + 1]
    /\ End
    /\ UNCHANGED <<now, member, defaults, snapshot, due, author, original>>

---------------------------------------------------------------------------
(* The world outside. *)

\* An administrator, or the member, changes the member's state in Telegram.
AdminChange(m) ==
    /\ budget.changes < MaxChanges
    /\ RacingAdmin \/ pc = "idle"
    /\ m # member
    /\ member' = m
    /\ author' = "admin"
    /\ budget' = [budget EXCEPT !.changes = @ + 1]
    /\ UNCHANGED <<now, defaults, snapshot, pc, op, due, original>>

AdminChoices ==
    {Unrestricted, Out} \cup
    {Restricted(p, IF d = None THEN None ELSE now + d) :
        p \in AdminPerms, d \in AdminDurations}

DefaultsChange(p) ==
    /\ budget.changes < MaxChanges
    /\ p # defaults
    /\ defaults' = p
    /\ budget' = [budget EXCEPT !.changes = @ + 1]
    /\ UNCHANGED <<now, member, snapshot, pc, op, due, author, original>>

\* Time passes; a restriction with a deadline ends by itself.  The body's
\* timeout fires on time, and a planned restore reaches Telegram in time.
Tick ==
    /\ now < MaxTime
    /\ pc # "idle" => now < op.began + BodyTimeout
    /\ pc \in {"save", "call"} /\ Restoring => now < op.planned + CallLatency
    /\ now' = now + 1
    /\ IF member.until # None /\ member.until <= now + 1
       THEN member' = Unrestricted /\ author' = "admin"
       ELSE UNCHANGED <<member, author>>
    /\ UNCHANGED <<defaults, snapshot, pc, op, due, original, budget>>

Advance ==
    \/ Look \/ Capture \/ Insert \/ Defaults \/ Save
    \/ Find \/ Check \/ Discard \/ Plan
    \/ CallApplied \/ Settle \/ Undo \/ Purge

Next ==
    \/ \E a \in Commands, d \in MuteDurations \cup {None} : Command(a, d)
    \/ SweepFind \/ SweepRestore
    \/ Advance
    \/ NoDefaults \/ CallRefused \/ CallUnanswered \/ Abort
    \/ \E m \in AdminChoices : AdminChange(m)
    \/ \E p \in DefaultPerms : DefaultsChange(p)
    \/ Tick

Spec == Init /\ [][Next]_vars

\* The scheduler runs the sweep every ten seconds, operations go on by
\* themselves, and time passes.
Fairness ==
    /\ WF_vars(Tick)
    /\ WF_vars(Advance)
    /\ WF_vars(SweepFind)
    /\ WF_vars(SweepRestore)

FairSpec == Spec /\ Fairness

---------------------------------------------------------------------------
(* Properties. *)

\* Whatever crashes, times out or is refused in between, a restriction Sophie
\* put in force is one her snapshot recognises: /unmute and the sweep can
\* still undo it ("recovery accepts either possible Telegram outcome").
NoOrphanMute ==
    author = "sophie" => snapshot # None /\ Owns(snapshot, member)

\* Repeated mutes, captcha-to-welcome replacements and half-done restores never
\* capture Sophie's own restriction: while it lasts, the snapshot describes
\* the member as they were before it, unless that restriction has run out.
BaselineKept ==
    author = "sophie" /\ snapshot # None =>
        \/ snapshot.previous_until # None /\ snapshot.previous_until <= now
        \/ IF original.status = "restricted"
           THEN /\ ~ snapshot.restore_group_defaults
                /\ snapshot.permissions \subseteq original.perms
                /\ snapshot.previous_until = original.until
           ELSE snapshot.restore_group_defaults

\* What the member may have once Sophie lets go.
Entitled ==
    IF original.status # "restricted" \/ Passed(original.until)
    THEN Rights
    ELSE original.perms

\* A restore gives back no right the member lacked before the mute, and does
\* not end an older restriction before its deadline.
RestoresNoMoreThanOriginal ==
    [][ pc = "call" /\ Restoring /\ member' # member =>
            /\ member'.perms \subseteq Entitled
            /\ Entitled # Rights => member'.until \in {None, original.until} ]_vars

\* A restriction or a release an administrator decided on after Sophie's mute
\* survives her unmutes and sweeps ("superseded snapshots are discarded").
NewerAdminChangeKept ==
    [][ author = "admin" /\ pc = "call" /\ Restoring => member' = member ]_vars

\* Giving back an old restriction that had a deadline never makes it one for
\* ever: "a nearly expired old restriction remains until the sweep can safely
\* release it, rather than forever".
NeverForever ==
    author = "restored" /\ member.status = "restricted" /\ original.until # None
        => member.until # None

\* A mute of Sophie's that is past its deadline, or that nothing remembers.
Overdue ==
    /\ author = "sophie"
    /\ snapshot = None \/ Passed(snapshot.expires_at)

\* A timed mute or pending release ends: once commands and faults stop, no
\* crash, refusal, restart or interference of an administrator leaves it in
\* force for ever ("failed restores remain due and are retried on the next
\* sweep").
TimedMuteEnds == Overdue ~> ~ Overdue
============================================================================
