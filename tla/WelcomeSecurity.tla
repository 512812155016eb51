-------------------------- MODULE WelcomeSecurity --------------------------
(***************************************************************************)
(* The captcha for new members (modules/welcomesecurity) for one user and  *)
(* one group: how the membership row (users_in_groups), the pending record *)
(* (ws_users) and the captcha mute stay together while the user joins,     *)
(* leaves and rejoins, and Telegram's updates are handled concurrently,    *)
(* out of order and more than once.                                        *)
(*                                                                         *)
(* A task is one run of a coroutine: the handler of a join or leave        *)
(* message (SaveChatsMiddleware, then NewUserMiddleware), of a join        *)
(* request, of the solved captcha, or the scheduler's sweep of expired     *)
(* records (KickUnpassedUsers).  Each await on MongoDB, Redis or Telegram  *)
(* ends a step.                                                            *)
(*                                                                         *)
(* Data: a message is its chat-local message id.  0 stands for None and a  *)
(* document with id 0 for no document.  The clock is the flag "late" of a  *)
(* record whose deadline has passed.  restriction is what                  *)
(* execute_restriction (module MutePermissions) has in force; the pending  *)
(* lock is a mutex.  The user is not a bot, an administrator or            *)
(* whitelisted, the captcha is enabled, and no join is too old.            *)
(***************************************************************************)
EXTENDS Integers, FiniteSets

CONSTANTS
    Entries,      \* how the user may enter: "join", "request"
    WelcomeMute,  \* the group has a welcome mute for verified members
    Faults,       \* what may go wrong: "refusal", "timeout", "crash"
    MaxMessages,  \* bound on the service messages in the group
    MaxFaults,    \* bound on faults
    MaxRepeats    \* bound on updates delivered again

ASSUME EntriesAssumption == Entries \subseteq {"join", "request"}

ASSUME OptionsAssumption ==
    /\ WelcomeMute \in BOOLEAN
    /\ Faults \subseteq {"refusal", "timeout", "crash"}

ASSUME BoundsAssumption == {MaxMessages, MaxFaults, MaxRepeats} \subseteq Nat

Updates == 1 .. MaxMessages     \* the handler of each message
Request == MaxMessages + 1      \* ChatJoinRequestHandler
Captcha == MaxMessages + 2      \* complete_captcha
Sweep == MaxMessages + 3        \* KickUnpassedUsers.process_user
Tasks == 1 .. MaxMessages + 3
Free == 0
Ids == 1 .. 2 * MaxMessages + 9

VARIABLES
    kind,         \* what each service message says
    sent,         \* number of messages Telegram has sent
    present,      \* message of the join that began the user's stay, 0 if out
    requested,    \* a join request is open in Telegram
    restriction,  \* Sophie's restriction in force: none, captcha, welcome
    row,          \* UserInGroupModel
    record,       \* WSUserModel
    key,          \* chat_ws_join_request:... in Redis
    dm,           \* the captcha open in the private chat: none, join, request
    lock,         \* the holder of the pending-user lock
    task,         \* step and local variables of each coroutine
    excused,      \* history: a handler died, or a join passed for approved
    verified,     \* history: how far the captcha has let the session in
    faults,       \* faults so far
    repeats       \* updates delivered again so far

telegram == <<kind, sent, present, requested>>
stored == <<row, record, key>>
history == <<excused, verified>>
budget == <<faults, repeats>>
vars == <<telegram, restriction, stored, dm, lock, task, history, budget>>

---------------------------------------------------------------------------

NoRow == [id |-> 0, last |-> 0, joined |-> 0]
NoRecord == [id |-> 0, member |-> 0, joined |-> 0, request |-> FALSE, late |-> FALSE]
Exists(d) == d.id # 0

Steps == {"idle", "done", "seen", "joined", "left", "drop", "look", "remove",
          "key", "wait", "read", "upsert", "session", "reload", "mute",
          "approve", "restrict", "forget",
          "current", "check", "recheck", "expel", "erase"}

Rows == [id : {0} \cup Ids, last : 0 .. MaxMessages, joined : 0 .. MaxMessages]
Records == [id : {0} \cup Ids, member : {0} \cup Ids, joined : 0 .. MaxMessages,
            request : BOOLEAN, late : BOOLEAN]

Blank == [pc |-> "idle", row |-> NoRow, doc |-> NoRecord, request |-> FALSE]

TypeOK ==
    /\ kind \in [Updates -> {"none", "join", "leave", "removed"}]
    /\ sent \in 0 .. MaxMessages
    /\ present \in 0 .. MaxMessages
    /\ requested \in BOOLEAN
    /\ restriction \in {"none", "captcha", "welcome"}
    /\ row \in Rows
    /\ record \in Records
    /\ key \in BOOLEAN
    /\ dm \in {"none", "join", "request"}
    /\ lock \in {Free} \cup Tasks
    /\ task \in [Tasks -> [pc : Steps, row : Rows, doc : Records, request : BOOLEAN]]
    /\ excused \in BOOLEAN
    /\ verified \in {"no", "approved", "released"}
    /\ faults \in 0 .. MaxFaults
    /\ repeats \in 0 .. MaxRepeats

Init ==
    /\ kind = [m \in Updates |-> "none"]
    /\ sent = 0 /\ present = 0 /\ requested = FALSE
    /\ restriction = "none"
    /\ row = NoRow /\ record = NoRecord
    /\ key = FALSE
    /\ dm = "none"
    /\ lock = Free
    /\ task = [t \in Tasks |-> Blank]
    /\ excused = FALSE /\ verified = "no"
    /\ faults = 0 /\ repeats = 0

At(t, step) == task[t].pc = step
Go(t, step) == task' = [task EXCEPT ![t].pc = step]

\* The coroutine returns or raises; leaving the lock's block releases it.
End(t) ==
    /\ task' = [task EXCEPT ![t] = [Blank EXCEPT !.pc = IF t \in Updates THEN "done"
                                                        ELSE "idle"]]
    /\ lock' = IF lock = t THEN Free ELSE lock

Fault(f) ==
    /\ f \in Faults
    /\ faults < MaxFaults
    /\ faults' = faults + 1

---------------------------------------------------------------------------
(* Telegram. *)

\* One more service message; the next delivery of it starts its handler.
Say(k) ==
    /\ sent < MaxMessages
    /\ sent' = sent + 1
    /\ kind' = [kind EXCEPT ![sent + 1] = k]

\* The user enters.
Enter ==
    /\ Say("join")
    /\ present' = sent + 1

Join ==
    /\ "join" \in Entries
    /\ present = 0
    /\ Enter
    /\ requested' = FALSE
    /\ UNCHANGED <<restriction, stored, dm, lock, task, history, budget>>

\* The restriction of a member who leaves stays in force.
Leave ==
    /\ present # 0
    /\ Say("leave")
    /\ present' = 0
    /\ UNCHANGED <<requested, restriction, stored, dm, lock, task, history, budget>>

AskToJoin ==
    /\ "request" \in Entries
    /\ present = 0 /\ ~ requested
    /\ sent < MaxMessages
    /\ requested' = TRUE
    /\ At(Request, "idle")
    /\ task' = [task EXCEPT ![Request].pc = "wait", ![Request].request = TRUE]
    /\ UNCHANGED <<kind, sent, present, restriction, stored, dm, lock, history, budget>>

\* An administrator of the group accepts the request by hand.
AdminApproves ==
    /\ requested
    /\ requested' = FALSE
    /\ Enter
    /\ UNCHANGED <<restriction, stored, dm, lock, task, history, budget>>

\* A webhook that Telegram did not see answered is delivered again.
Redeliver(m) ==
    /\ At(m, "done")
    /\ repeats < MaxRepeats
    /\ repeats' = repeats + 1
    /\ Go(m, "idle")
    /\ UNCHANGED <<telegram, restriction, stored, dm, lock, history, faults>>

\* The deadline of the pending record passes.
Late ==
    /\ Exists(record) /\ ~ record.late
    /\ record' = [record EXCEPT !.late = TRUE]
    /\ UNCHANGED <<telegram, restriction, row, key, dm, lock, task, history, budget>>

\* The timed welcome mute ends.
WelcomeMuteEnds ==
    /\ restriction = "welcome"
    /\ restriction' = "none"
    /\ UNCHANGED <<telegram, stored, dm, lock, task, history, budget>>

---------------------------------------------------------------------------
(* SaveChatsMiddleware. *)

Greater(i, j) == IF i > j THEN i ELSE j

\* An ObjectId is new when nothing refers to it.
UnusedId(used) == CHOOSE i \in Ids : i \notin used /\ \A j \in Ids \ used : i <= j
NewRowId == UnusedId({row.id, record.member}
                        \cup {task[t].row.id : t \in Tasks}
                        \cup {task[t].doc.member : t \in Tasks})
NewRecordId == UnusedId({record.id} \cup {task[t].doc.id : t \in Tasks})

\* Mutant: one message too far.
EnsureRowAhead(m, join) ==
    IF Exists(row)
    THEN row' = [row EXCEPT !.last = Greater(@, m + 1),
                            !.joined = IF join THEN Greater(@, m + 1) ELSE @]
    ELSE row' = [id |-> NewRowId, last |-> m + 1, joined |-> IF join THEN m + 1 ELSE 0]

\* UserInGroupModel.ensure_user_in_group
EnsureRow(m, join) ==
    IF Exists(row)
    THEN row' = [row EXCEPT !.last = Greater(@, m),
                            !.joined = IF join THEN Greater(@, m) ELSE @]
    ELSE row' = [id |-> NewRowId, last |-> m, joined |-> IF join THEN m ELSE 0]

\* update_from_user: whoever produced the message is a member.
Seen(m) ==
    /\ At(m, "idle")
    /\ kind[m] \in {"join", "leave"}
    /\ EnsureRow(m, FALSE)
    /\ Go(m, IF kind[m] = "join" THEN "joined" ELSE "left")
    /\ UNCHANGED <<telegram, restriction, record, key, dm, lock, history, budget>>

\* _handle_new_chat_members
Joined(m) ==
    /\ At(m, "joined")
    /\ EnsureRow(m, TRUE)
    /\ Go(m, "key")
    /\ UNCHANGED <<telegram, restriction, record, key, dm, lock, history, budget>>

\* _delete_user_in_chat_by_user_id.  The message of a removal comes from the
\* bot, so it starts here.
Left(m) ==
    /\ At(m, "left") \/ (At(m, "idle") /\ kind[m] = "removed")
    /\ IF Exists(row)
       THEN task' = [task EXCEPT ![m].pc = "drop", ![m].row = row] /\ UNCHANGED lock
       ELSE End(m)
    /\ UNCHANGED <<telegram, restriction, stored, dm, history, budget>>

\* Mutant: a leave is not fenced by the messages seen since.
DropUnfenced(m) ==
    /\ At(m, "drop")
    /\ IF row.id = task[m].row.id
       THEN row' = NoRow /\ Go(m, "look") /\ UNCHANGED lock
       ELSE End(m) /\ UNCHANGED row
    /\ UNCHANGED <<telegram, restriction, record, key, dm, history, budget>>

\* UserInGroupModel.ensure_delete
Drop(m) ==
    /\ At(m, "drop")
    /\ IF row.id = task[m].row.id /\ row.last <= m
       THEN row' = NoRow /\ Go(m, "look") /\ UNCHANGED lock
       ELSE End(m) /\ UNCHANGED row
    /\ UNCHANGED <<telegram, restriction, record, key, dm, history, budget>>

\* WSUserModel.is_user
Look(m) ==
    /\ At(m, "look")
    /\ IF Exists(record)
       THEN task' = [task EXCEPT ![m].pc = "remove", ![m].doc = record] /\ UNCHANGED lock
       ELSE End(m)
    /\ UNCHANGED <<telegram, restriction, stored, dm, history, budget>>

\* Mutant: the session of the record is not compared.
EndedByAny(r, m) == r.id = task[m].doc.id

\* The record the leave m may remove: the one it read, of the stay it ended.
EndedBy(r, m) ==
    /\ r.id = task[m].doc.id
    /\ \/ r.member = task[m].row.id /\ r.joined = task[m].row.joined
       \/ r.member = 0 /\ r.joined = 0

\* WSUserModel.remove_unpassed_user
Remove(m) ==
    /\ At(m, "remove")
    /\ record' = IF EndedBy(record, m) THEN NoRecord ELSE record
    /\ End(m)
    /\ UNCHANGED <<telegram, restriction, row, key, dm, history, budget>>

---------------------------------------------------------------------------
(* NewUserMiddleware, ws_on_new_user(_mute) and WSUserModel.ensure_user. *)

\* A member who was approved has seen the captcha already.
Key(m) ==
    /\ At(m, "key")
    /\ IF key
       THEN key' = FALSE /\ excused' = TRUE /\ End(m)
       ELSE Go(m, "wait") /\ UNCHANGED <<key, lock, excused>>
    /\ UNCHANGED <<telegram, restriction, row, record, dm, verified, budget>>

FirstStep(t) ==
    CASE t \in Updates \cup {Request} -> "read"
      [] t = Captcha -> IF task[t].request THEN "approve" ELSE "restrict"
      [] t = Sweep -> "current"

\* Mutant: whoever comes gets the lock.
AcquireAny(t) ==
    /\ At(t, "wait")
    /\ lock' = t
    /\ Go(t, FirstStep(t))
    /\ UNCHANGED <<telegram, restriction, stored, dm, history, budget>>

\* pending_user_lock
Acquire(t) ==
    /\ At(t, "wait")
    /\ lock = Free
    /\ lock' = t
    /\ Go(t, FirstStep(t))
    /\ UNCHANGED <<telegram, restriction, stored, dm, history, budget>>

ReadRow(t) ==
    /\ At(t, "read")
    /\ task' = [task EXCEPT ![t].pc = "upsert", ![t].row = row]
    /\ UNCHANGED <<telegram, restriction, stored, dm, lock, history, budget>>

\* Insert a record unless there is one.
Upsert(t) ==
    /\ At(t, "upsert")
    /\ IF Exists(record)
       THEN UNCHANGED <<record, verified>>
       ELSE /\ record' = [id |-> NewRecordId, member |-> task[t].row.id,
                          joined |-> task[t].row.joined,
                          request |-> task[t].request, late |-> FALSE]
            /\ verified' = "no"
    /\ Go(t, IF Exists(task[t].row) THEN "session" ELSE "reload")
    /\ UNCHANGED <<telegram, restriction, row, key, dm, lock, excused, budget>>

\* Mutant: $lte where $lt is meant.
OutdatedSame(r, s) ==
    IF s.joined = 0 THEN r.member # s.id ELSE r.joined <= s.joined

\* The record belongs to an earlier session than the row the task read.
Outdated(r, s) ==
    IF s.joined = 0 THEN r.member # s.id
    ELSE r.joined < s.joined \/ (r.joined = s.joined /\ r.member # s.id)

\* Mutant: a new deadline for the old session.
RenewedDeadline(t) == [record EXCEPT !.late = FALSE, !.request = task[t].request]

Renewed(t) == [record EXCEPT !.member = task[t].row.id, !.joined = task[t].row.joined,
                             !.late = FALSE, !.request = task[t].request]

Session(t) ==
    /\ At(t, "session")
    /\ IF Exists(record) /\ Outdated(record, task[t].row)
       THEN record' = Renewed(t) /\ verified' = "no"
       ELSE UNCHANGED <<record, verified>>
    /\ task' = [task EXCEPT ![t].pc = "reload", ![t].row = NoRow]
    /\ UNCHANGED <<telegram, restriction, row, key, dm, lock, excused, budget>>

\* No record: ws_user_db.passed raises AttributeError.  A join request gets
\* its captcha at once, in the private chat.
Reload(t) ==
    /\ At(t, "reload")
    /\ IF ~ Exists(record)
       THEN End(t) /\ excused' = TRUE /\ UNCHANGED dm
       ELSE IF t = Request
            THEN End(t) /\ dm' = "request" /\ UNCHANGED excused
            ELSE Go(t, "mute") /\ UNCHANGED <<lock, dm, excused>>
    /\ UNCHANGED <<telegram, restriction, stored, verified, budget>>

Mute(t) ==
    /\ At(t, "mute")
    /\ restriction' = "captcha"
    /\ End(t)
    /\ UNCHANGED <<telegram, stored, dm, history, budget>>

---------------------------------------------------------------------------
(* The captcha. *)

\* LegacyWSButtonHandler: no record, no captcha.  A member whose row is gone
\* gets one.
Button ==
    /\ dm = "none"
    /\ Exists(record)
    /\ IF record.request \/ Exists(row)
       THEN UNCHANGED row
       ELSE present # 0 /\ EnsureRow(0, FALSE)
    /\ dm' = IF record.request THEN "request" ELSE "join"
    /\ UNCHANGED <<telegram, restriction, record, key, lock, task, history, budget>>

\* CaptchaConfirmHandler: the state is cleared, complete_captcha begins.
Solve ==
    /\ dm # "none"
    /\ At(Captcha, "idle")
    /\ dm' = "none"
    /\ task' = [task EXCEPT ![Captcha].pc = "wait", ![Captcha].request = (dm = "request")]
    /\ UNCHANGED <<telegram, restriction, stored, lock, history, budget>>

\* The key for the join handler, then approve_chat_join_request; any other
\* error than USER_ALREADY_PARTICIPANT is raised.
Approve ==
    /\ At(Captcha, "approve")
    /\ key' = TRUE
    /\ \/ /\ requested
          /\ requested' = FALSE
          /\ Enter
       \/ /\ ~ requested
          /\ UNCHANGED telegram
    /\ IF requested \/ present # 0
       THEN /\ Go(Captcha, "restrict")
            /\ verified' = "approved"
            /\ UNCHANGED <<lock, excused>>
       ELSE /\ End(Captcha)
            /\ excused' = TRUE
            /\ UNCHANGED verified
    /\ UNCHANGED <<restriction, row, record, dm, budget>>

\* _ws_on_user_passed: RESTRICT, or UNMUTE, which fails when Sophie has no
\* restriction in force.
OnUserPassed ==
    /\ At(Captcha, "restrict")
    /\ IF WelcomeMute \/ restriction # "none"
       THEN /\ restriction' = IF WelcomeMute THEN "welcome" ELSE "none"
            /\ verified' = "released"
            /\ Go(Captcha, "forget")
            /\ UNCHANGED lock
       ELSE End(Captcha) /\ UNCHANGED <<restriction, verified>>
    /\ UNCHANGED <<telegram, stored, dm, excused, budget>>

\* WSUserModel.remove_user
Forget ==
    /\ At(Captcha, "forget")
    /\ record' = NoRecord
    /\ End(Captcha)
    /\ UNCHANGED <<telegram, restriction, row, key, dm, history, budget>>

---------------------------------------------------------------------------
(* KickUnpassedUsers. *)

\* handle: a record the cursor returned.
Find ==
    /\ At(Sweep, "idle")
    /\ Exists(record)
    /\ task' = [task EXCEPT ![Sweep].pc = "wait", ![Sweep].doc = record]
    /\ UNCHANGED <<telegram, restriction, stored, dm, lock, history, budget>>

\* Mutant: the record is not read again under the lock.
CurrentStale ==
    /\ At(Sweep, "current")
    /\ Go(Sweep, "check")
    /\ UNCHANGED <<telegram, restriction, stored, dm, lock, history, budget>>

\* The record is read again under the lock.
Current ==
    /\ At(Sweep, "current")
    /\ IF Exists(record)
       THEN task' = [task EXCEPT ![Sweep].pc = "check", ![Sweep].doc = record] /\ UNCHANGED lock
       ELSE End(Sweep)
    /\ UNCHANGED <<telegram, restriction, stored, dm, history, budget>>

\* _is_current_session
IsCurrent(r) ==
    IF r.member = 0 /\ r.joined = 0
    THEN row.joined = 0
    ELSE row.id = r.member /\ row.joined = r.joined

\* The first session check and the deadline.
Check ==
    /\ At(Sweep, "check")
    /\ IF IsCurrent(task[Sweep].doc) /\ task[Sweep].doc.late
       THEN Go(Sweep, "recheck") /\ UNCHANGED lock
       ELSE End(Sweep)
    /\ UNCHANGED <<telegram, restriction, stored, dm, history, budget>>

\* The session check before acting.
Recheck ==
    /\ At(Sweep, "recheck")
    /\ IF IsCurrent(task[Sweep].doc)
       THEN Go(Sweep, "expel") /\ UNCHANGED lock
       ELSE End(Sweep)
    /\ UNCHANGED <<telegram, restriction, stored, dm, history, budget>>

\* Decline the request; without one Telegram answers with an error.
Decline ==
    /\ At(Sweep, "expel")
    /\ task[Sweep].doc.request
    /\ IF requested
       THEN requested' = FALSE /\ Go(Sweep, "erase") /\ UNCHANGED lock
       ELSE End(Sweep) /\ UNCHANGED requested
    /\ UNCHANGED <<kind, sent, present, restriction, stored, dm, history, budget>>

\* KICK: the member, if there is one, is out and free of restrictions.  At the
\* bound the message about it is left out.
Kick ==
    /\ At(Sweep, "expel")
    /\ ~ task[Sweep].doc.request
    /\ IF present # 0 /\ sent < MaxMessages THEN Say("removed") ELSE UNCHANGED <<kind, sent>>
    /\ present' = 0
    /\ restriction' = "none"
    /\ Go(Sweep, "erase")
    /\ UNCHANGED <<requested, stored, dm, lock, history, budget>>

Erase ==
    /\ At(Sweep, "erase")
    /\ record' = IF record.id = task[Sweep].doc.id THEN NoRecord ELSE record
    /\ End(Sweep)
    /\ UNCHANGED <<telegram, restriction, row, key, dm, history, budget>>

---------------------------------------------------------------------------
(* Faults. *)

\* Telegram refuses the restriction, or the captcha message cannot be edited:
\* the coroutine returns or raises, with the lock released.
Refused(t) ==
    /\ task[t].pc \in {"mute", "approve", "restrict", "expel"}
    /\ Fault("refusal")
    /\ End(t)
    /\ UNCHANGED <<telegram, restriction, stored, dm, history, repeats>>

\* Thirty seconds pass without the lock: TimeoutError.
TimedOut(t) ==
    /\ At(t, "wait")
    /\ lock # Free
    /\ Fault("timeout")
    /\ End(t)
    /\ excused' = (excused \/ t # Sweep)
    /\ UNCHANGED <<telegram, restriction, stored, dm, verified, repeats>>

\* The process dies; the lock's lease runs out.
Crash(t) ==
    /\ task[t].pc \notin {"idle", "done"}
    /\ Fault("crash")
    /\ End(t)
    /\ excused' = (excused \/ t # Sweep)
    /\ UNCHANGED <<telegram, restriction, stored, dm, verified, repeats>>

---------------------------------------------------------------------------

\* One more step of a coroutine under way.
Advance(t) ==
    \/ t \in Updates /\ (Joined(t) \/ Left(t) \/ Drop(t) \/ Look(t) \/ Remove(t) \/ Key(t))
    \/ ReadRow(t) \/ Upsert(t) \/ Session(t) \/ Reload(t) \/ Mute(t)
    \/ t = Captcha /\ (Approve \/ OnUserPassed \/ Forget)
    \/ t = Sweep /\ (Current \/ Check \/ Recheck \/ Decline \/ Kick \/ Erase)

Next ==
    \/ Join \/ Leave \/ AskToJoin \/ AdminApproves
    \/ Late \/ WelcomeMuteEnds
    \/ \E m \in Updates : Redeliver(m) \/ Seen(m)
    \/ Button \/ Solve \/ Find
    \/ \E t \in Tasks :
          Acquire(t) \/ Advance(t) \/ Refused(t) \/ TimedOut(t) \/ Crash(t)

Spec == Init /\ [][Next]_vars

\* Telegram delivers its updates, coroutines go on by themselves, deadlines
\* pass and the sweep comes back.  A waiter tries every ten milliseconds for a
\* lock the sweep leaves alone for ten minutes between two visits.  The steps
\* of the message handlers are finitely many, so they share a condition.
Fairness ==
    /\ WF_vars(Late)
    /\ WF_vars(Find)
    /\ WF_vars(\E m \in Updates : Seen(m) \/ Advance(m))
    /\ SF_vars(\E m \in Updates : Acquire(m))
    /\ \A t \in {Request, Captcha, Sweep} : WF_vars(Advance(t)) /\ SF_vars(Acquire(t))

FairSpec == Spec /\ Fairness

---------------------------------------------------------------------------
(* Properties. *)

KeepsNewer ==
    present # 0 =>
        /\ row.joined = present => Exists(row')
        /\ record.joined = present /\ ~ Exists(record') => lock \in {Captcha, Sweep}

\* Leave handlers take no lock, and come late: still, the row and the pending
\* record of the stay the user is in are removed by the captcha or the sweep
\* alone ("Delayed leave processing cannot remove a newer membership or its
\* pending captcha session").
LeaveKeepsNewer == [][KeepsNewer]_vars

\* While the sweep decides about a record, no rejoin replaces it or moves its
\* deadline ("A rejoin cannot reset a pending deadline while an expiry action
\* is still using the old session").
ExpiryKeepsSession ==
    task[Sweep].pc \in {"check", "recheck", "expel", "erase"} /\ Exists(record) =>
        [record EXCEPT !.late = TRUE] = [task[Sweep].doc EXCEPT !.late = TRUE]

SparesReleased == Kick /\ present # 0 => verified # "released" \/ excused

\* The sweep and the captcha race for the lock, and deadlines outlive sessions:
\* a member the captcha let go is not kicked for the session they solved it
\* in, unless a handler died half way.
ReleasedNotKicked == [][SparesReleased]_vars

KeepsDeadline ==
    record.late /\ present # 0 /\ record.joined = present /\ Exists(record') => record'.late

\* "Duplicate delivery of the same join does not extend that deadline": once the
\* deadline of the stay the user is in has passed, no handler moves it.
DeadlineStands == [][KeepsDeadline]_vars

\* All that was sent is handled and no coroutine is under way.
Quiet ==
    /\ \A t \in Tasks : task[t].pc \in {"idle", "done"}
    /\ \A m \in Updates : kind[m] # "none" => At(m, "done")

\* When everything has been handled, a member held by the captcha mute has a
\* pending record: the button opens their captcha and the sweep will see them.
HeldHasRecord ==
    Quiet /\ present # 0 /\ restriction = "captcha" => Exists(record)

\* The same, unless a handler died with an error in the log or a join was let
\* through as that of an approved request.
HeldHasRecordOrExcused == excused \/ HeldHasRecord

\* A member who solved the captcha through a join request is let alone: with
\* no record, LockMutedUsers leaves their messages.
VerifiedLetAlone ==
    Quiet /\ verified # "no" /\ present # 0 => ~ Exists(record)

\* "Users who already passed verification keep their passed status when they
\* leave and rejoin": nothing makes them pending again.
PassedStaysPassed ==
    [][ verified = "released" /\ ~ Exists(record) => ~ Exists(record') ]_vars

\* A pending member is verified, leaves or is expelled.
PendingEnds == present # 0 /\ Exists(record) ~> present = 0 \/ ~ Exists(record)
===========================================================================
