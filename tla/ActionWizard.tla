---------------------------- MODULE ActionWizard ----------------------------
(***************************************************************************)
(* Configuring actions with buttons (modules/utils_/wizard, action_config_ *)
(* wizard): filters, and the actions of warnings and floods.  A session of *)
(* an administrator keeps a draft that buttons and typed answers change    *)
(* and "Done" stores.  The updates of an administrator run one by one;     *)
(* other administrators, the REST API and /lock write the same documents.  *)
(* The data of an action is left out; of a message, only what handlers it  *)
(* could be.                                                               *)
(***************************************************************************)
EXTENDS Integers, FiniteSets

CONSTANTS
    Admins,
    Requests,      \* requests of the REST API and of /lock
    Chats,
    Handlers,
    LockTypes,     \* the handlers that name a lock type
    AIHandlers,    \* the handlers that are prompts
    Actions,
    Payloads,      \* the actions in requests of the API
    Asking,        \* the actions with an interactive setup
    FilterMax,     \* FILTER_MAX_ACTIONS
    ModelMax,      \* max_actions of warnings or floods
    AiLimit,       \* AI_FILTER_LIMIT_PER_CHAT
    Ids,           \* bound on the filters
    MaxSessions,   \* bound on the sessions
    MaxWrites,     \* bound on the writes
    None

VARIABLES
    stored,       \* the FiltersModel documents
    gone,         \* identifiers of deleted documents
    settings,     \* the actions of the chat's WarnSettingsModel or AntifloodModel
    locked,       \* LocksModel.locked_types
    connected,    \* the chat an administrator configures
    wizard,       \* the session in the FSM data of an administrator
    sessions,     \* sessions begun
    writes,       \* writes begun
    job,          \* what is between its checks and its write
    asked,        \* history: the prompt an administrator has been shown last
    overlapped    \* history: two requests were between their checks and their writes

vars == <<stored, gone, settings, locked, connected, wizard, sessions, writes, job, asked, overlapped>>

NoJob == [pc |-> "idle"]

Used == {i \in Ids : stored[i] # None}

Same(c, h) == {i \in Used : stored[i].chat = c /\ stored[i].handler = h}

AIFilters(c) == {i \in Used : stored[i].chat = c /\ stored[i].handler \in AIHandlers}

TypeOK ==
    /\ \A i \in Used : stored[i].chat \in Chats /\ stored[i].handler \in Handlers
    /\ gone \subseteq Ids /\ sessions \in 0 .. MaxSessions /\ writes \in 0 .. MaxWrites
    /\ settings \in [Chats -> SUBSET Actions] /\ locked \in [Chats -> SUBSET LockTypes]
    /\ connected \in [Admins -> Chats]
    /\ \A u \in Admins : wizard[u] # None => wizard[u].id \in 1 .. sessions /\ wizard[u].actions \subseteq Actions
    /\ \A k \in Admins \cup Requests : job[k].pc \in {"idle", "find", "filter", "settings", "lock"}
    /\ overlapped \in BOOLEAN

Init ==
    /\ stored = [i \in Ids |-> None] /\ gone = {}
    /\ settings = [c \in Chats |-> {}] /\ locked = [c \in Chats |-> {}]
    /\ connected \in [Admins -> Chats]
    /\ wizard = [u \in Admins |-> None] /\ sessions = 0 /\ writes = 0
    /\ job = [k \in Admins \cup Requests |-> NoJob]
    /\ asked = [u \in Admins |-> None]
    /\ overlapped = FALSE

Busy == {k \in Admins \cup Requests : job[k].pc # "idle"}

---------------------------------------------------------------------------
(* validate_filter_handler, of the bot and of the API *)

Room(c, id) ==
    (id \in Used /\ stored[id].handler \in AIHandlers) \/ Cardinality(AIFilters(c)) < AiLimit

\* The bot refuses a lock type with a filter, even when it edits that filter.
Valid(c, h, id) ==
    /\ h \in LockTypes => h \notin locked[c] /\ Same(c, h) = {}
    /\ Same(c, h) \subseteq {id}
    /\ h \in AIHandlers => Room(c, id)

\* find_one gives any of several filters.
ApiValid(c, h, id) ==
    /\ h \in LockTypes => h \notin locked[c]
    /\ Same(c, h) = {} \/ id \in Same(c, h)
    /\ h \in AIHandlers => Room(c, id)

---------------------------------------------------------------------------
(* WizardSession and ActionWizard *)

Free(u) == job[u].pc = "idle"

Start(u, scope, filter, handler, actions) ==
    /\ sessions < MaxSessions
    /\ sessions' = sessions + 1
    /\ wizard' = [wizard EXCEPT ![u] =
           [id |-> sessions + 1, scope |-> scope, chat |-> connected[u], filter |-> filter,
            handler |-> handler, actions |-> actions, input |-> None, fresh |-> TRUE]]
    /\ asked' = [asked EXCEPT ![u] = None]
    /\ UNCHANGED <<stored, gone, settings, locked, connected, job, overlapped, writes>>

\* /add_filter.
New(u, h) == Free(u) /\ Valid(connected[u], h, None) /\ Start(u, "filter", None, h, {})

\* /edit_filter and the button of /filters.
Edit(u, i) ==
    /\ Free(u) /\ i \in Used /\ stored[i].chat = connected[u]
    /\ Start(u, "filter", i, stored[i].handler, stored[i].actions)

\* The session of a button or an answer: not expired, and of this chat.
Active(u) == wizard[u] # None /\ wizard[u].fresh /\ wizard[u].chat = connected[u]

\* A button works in its own session only.
Live(u, s) == Free(u) /\ Active(u) /\ wizard[u].id = s

Limit(u) == IF wizard[u].scope = "filter" THEN FilterMax ELSE ModelMax

Change(u, actions, input) ==
    /\ wizard' = [wizard EXCEPT ![u].actions = actions, ![u].input = input]
    /\ asked' = [asked EXCEPT ![u] = IF input = None THEN None ELSE <<wizard[u].id, input.action>>]
    /\ UNCHANGED <<stored, gone, settings, locked, connected, sessions, job, overlapped, writes>>

\* A press that is refused: the session's input is cleared, its message stays.
Alert(u) ==
    /\ wizard' = [wizard EXCEPT ![u].input = None]
    /\ UNCHANGED <<stored, gone, settings, locked, connected, sessions, job, asked, overlapped, writes>>

Clear(u) ==
    /\ wizard' = [wizard EXCEPT ![u] = None]
    /\ asked' = [asked EXCEPT ![u] = None]
    /\ UNCHANGED <<stored, gone, settings, locked, connected, sessions, job, overlapped, writes>>

\* The command of warnings or floods starts a session; its button shows one that
\* is open again, and else starts one too.
Open(u) ==
    /\ Free(u)
    /\ \/ Start(u, "model", None, None, settings[connected[u]])
       \/ Active(u) /\ wizard[u].scope = "model" /\ Change(u, wizard[u].actions, None)

\* Home, the list of actions, the settings of one, "silent".
Show(u, s) == Live(u, s) /\ Change(u, wizard[u].actions, None)

\* Mutant: the draft is not counted.
AcceptsAny(u, a) == a \notin wizard[u].actions

\* With one action at most, a selection replaces it.
Accepts(u, a) ==
    Limit(u) > 1 => a \notin wizard[u].actions /\ Cardinality(wizard[u].actions) < Limit(u)

With(u, a) == (IF Limit(u) = 1 THEN {} ELSE wizard[u].actions) \cup {a}

Select(u, s, a) ==
    /\ Live(u, s)
    /\ IF ~Accepts(u, a) THEN Alert(u)
       ELSE IF a \in Asking THEN Change(u, wizard[u].actions, [action |-> a, setting |-> FALSE])
       ELSE Change(u, With(u, a), None)

Setting(u, s, a) ==
    /\ Live(u, s)
    /\ IF a \in wizard[u].actions \cap Asking
       THEN Change(u, wizard[u].actions, [action |-> a, setting |-> TRUE]) ELSE Alert(u)

Remove(u, s, a) ==
    /\ Live(u, s)
    /\ IF a \in wizard[u].actions THEN Change(u, wizard[u].actions \ {a}, None) ELSE Alert(u)

\* Cancel, and "Back" where it leaves the wizard.
Cancel(u, s) == Live(u, s) /\ Clear(u)

\* A message while an answer is awaited: the draft takes what it sets up.
Answer(u) ==
    /\ Free(u) /\ wizard[u] # None /\ wizard[u].input # None
    /\ IF ~Active(u) THEN Clear(u)
       ELSE LET a == wizard[u].input.action IN
            Change(u, IF wizard[u].input.setting THEN wizard[u].actions \cup {a} ELSE With(u, a), None)

\* An answer of somebody who may no longer configure.
Reject(u) == Free(u) /\ wizard[u] # None /\ wizard[u].input # None /\ Clear(u)

---------------------------------------------------------------------------
(* The writes *)

Begin(k, j) ==
    /\ writes < MaxWrites /\ writes' = writes + 1
    /\ job' = [job EXCEPT ![k] = j]
    /\ overlapped' = (overlapped \/ Busy # {})
    /\ UNCHANGED <<stored, gone, settings, locked, connected, sessions, asked>>

Done(u, s) ==
    /\ Live(u, s)
    /\ LET w == wizard[u] IN
       IF w.scope = "filter"
       THEN IF w.actions # {} /\ Valid(w.chat, w.handler, w.filter)
            THEN /\ Begin(u, [pc |-> IF w.filter = None THEN "filter" ELSE "find", id |-> w.filter,
                              doc |-> [chat |-> w.chat, handler |-> w.handler, actions |-> w.actions]])
                 /\ wizard' = [wizard EXCEPT ![u].input = None]
            ELSE Alert(u)
       ELSE /\ Begin(u, [pc |-> "settings", chat |-> w.chat, actions |-> w.actions])
            /\ wizard' = [wizard EXCEPT ![u].input = None]

\* _save_filter: the filter it edits has to be there.
Find(u) ==
    /\ job[u].pc = "find"
    /\ job' = [job EXCEPT ![u] = IF job[u].id \in Used THEN [@ EXCEPT !.pc = "filter"] ELSE NoJob]
    /\ UNCHANGED <<stored, gone, settings, locked, connected, wizard, sessions, asked, overlapped, writes>>

\* The end of a write: the session of an administrator is over.
End(k) ==
    /\ job' = [job EXCEPT ![k] = NoJob]
    /\ wizard' = [u \in Admins |-> IF u = k THEN None ELSE wizard[u]]
    /\ asked' = [u \in Admins |-> IF u = k THEN None ELSE asked[u]]

\* save() writes the document whatever has become of it.
Save(k) ==
    /\ job[k].pc = "filter"
    /\ \E i \in Ids :
        /\ IF job[k].id = None THEN i \notin Used \cup gone ELSE i = job[k].id
        /\ stored' = [stored EXCEPT ![i] = job[k].doc]
    /\ End(k)
    /\ UNCHANGED <<gone, settings, locked, connected, sessions, overlapped, writes>>

SaveSettings(u) ==
    /\ job[u].pc = "settings"
    /\ settings' = [settings EXCEPT ![job[u].chat] = job[u].actions]
    /\ End(u)
    /\ UNCHANGED <<stored, gone, locked, connected, sessions, overlapped, writes>>

ApiCreate(r, c, h, actions) ==
    /\ job[r].pc = "idle" /\ ApiValid(c, h, None)
    /\ Begin(r, [pc |-> "filter", id |-> None, doc |-> [chat |-> c, handler |-> h, actions |-> actions]])
    /\ UNCHANGED wizard

\* A handler, actions or both.
ApiUpdate(r, i, h, actions) ==
    /\ job[r].pc = "idle" /\ i \in Used
    /\ h = stored[i].handler \/ ApiValid(stored[i].chat, h, i)
    /\ Begin(r, [pc |-> "filter", id |-> i, doc |-> [stored[i] EXCEPT !.handler = h, !.actions = actions]])
    /\ UNCHANGED wizard

\* /del_filter, the button of /filters and the API.
Delete(i) ==
    /\ i \in Used
    /\ writes < MaxWrites /\ writes' = writes + 1
    /\ stored' = [stored EXCEPT ![i] = None]
    /\ gone' = gone \cup {i}
    /\ overlapped' = (overlapped \/ Busy # {})
    /\ UNCHANGED <<settings, locked, connected, wizard, sessions, job, asked>>

\* /lock refuses a type a filter has.
Lock(r, c, t) ==
    /\ job[r].pc = "idle"
    /\ t \in locked[c] \/ Same(c, t) = {}
    /\ Begin(r, [pc |-> "lock", chat |-> c, type |-> t])
    /\ UNCHANGED wizard

SaveLock(r) ==
    /\ job[r].pc = "lock"
    /\ locked' = [locked EXCEPT ![job[r].chat] = @ \cup {job[r].type}]
    /\ job' = [job EXCEPT ![r] = NoJob]
    /\ UNCHANGED <<stored, gone, settings, connected, wizard, sessions, asked, overlapped, writes>>

---------------------------------------------------------------------------

\* A session lives for 20 minutes.
Expire(u) ==
    /\ Active(u)
    /\ wizard' = [wizard EXCEPT ![u].fresh = FALSE]
    /\ UNCHANGED <<stored, gone, settings, locked, connected, sessions, job, asked, overlapped, writes>>

Connect(u, c) ==
    /\ Free(u) /\ connected[u] # c
    /\ connected' = [connected EXCEPT ![u] = c]
    /\ UNCHANGED <<stored, gone, settings, locked, wizard, sessions, job, asked, overlapped, writes>>

Next ==
    \/ \E u \in Admins :
        \/ \E h \in Handlers : New(u, h)
        \/ \E i \in Ids : Edit(u, i)
        \/ Open(u) \/ Answer(u) \/ Reject(u) \/ Find(u) \/ SaveSettings(u) \/ Expire(u)
        \/ \E c \in Chats : Connect(u, c)
        \/ \E s \in 1 .. sessions :
            \/ Show(u, s) \/ Cancel(u, s) \/ Done(u, s)
            \/ \E a \in Actions : Select(u, s, a) \/ Setting(u, s, a) \/ Remove(u, s, a)
    \/ \E k \in Admins \cup Requests : Save(k)
    \/ \E r \in Requests :
        \/ \E c \in Chats, h \in Handlers, actions \in Payloads : ApiCreate(r, c, h, actions)
        \/ \E i \in Ids, h \in Handlers, actions \in Payloads : ApiUpdate(r, i, h, actions)
        \/ \E c \in Chats, t \in LockTypes : Lock(r, c, t)
        \/ SaveLock(r)
    \/ \E i \in Ids : Delete(i)

Spec == Init /\ [][Next]_vars

---------------------------------------------------------------------------

\* What is stored has no more actions than its kind allows, and a filter has
\* one, though an answer is added to the draft without a count.  (_select,
\* handle_input, _save_filter)
WithinLimits ==
    /\ \A i \in Used : Cardinality(stored[i].actions) \in 1 .. FilterMax
    /\ \A c \in Chats : Cardinality(settings[c]) <= ModelMax

\* While requests do not overlap, a chat has one filter for a handler, its
\* share of prompts, and no lock type in both modules; what is deleted stays
\* so, though drafts outlive it.  (validate_filter_handler, get_lock_type_owner)
OneOwner == ~overlapped =>
    /\ \A c \in Chats :
        /\ \A h \in Handlers : Cardinality(Same(c, h)) + (IF h \in locked[c] THEN 1 ELSE 0) <= 1
        /\ Cardinality(AIFilters(c)) <= AiLimit
    /\ gone \cap Used = {}

\* An answer is awaited for the prompt that was shown last.  (start_input,
\* clear_input)
InputAsked == \A u \in Admins :
    wizard[u] # None /\ wizard[u].input # None => asked[u] = <<wizard[u].id, wizard[u].input.action>>

WizardHolds == WithinLimits /\ OneOwner /\ InputAsked
=============================================================================
