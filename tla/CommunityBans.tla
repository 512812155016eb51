--------------------------- MODULE CommunityBans ---------------------------
(***************************************************************************)
(* The bans of one user in Telegram communities (modules/communities), and *)
(* the community Sophie has stored for each chat: /cban, /cunban and the   *)
(* middleware run as concurrent jobs of the bot, service messages move     *)
(* chats between communities, and the scheduler carries each ban and unban *)
(* to the other chats as a task.                                           *)
(*                                                                         *)
(* FederationBans is its elder: here (community_tid, user_id) has a unique *)
(* index, so an insert, and a save() that would insert, may raise; nothing *)
(* is cached; and no cleanup ends the task of a scheduler that died.       *)
(* Replies, silent deletions and reasons written by a model are left out.  *)
(***************************************************************************)
EXTENDS Integers, Sequences

CONSTANTS
    Communities, Chats, None,
    Present,     \* the chats Sophie has a UserInGroup row of the user for
    Jobs,        \* updates the bot handles concurrently
    MaxBans,     \* bound on the ids of the records
    MaxMoves,    \* bound on the moves of a chat between communities; one moves
    Faults       \* what may go wrong, once: subset of {"ban", "unban", "crash"}

VARIABLES
    home,      \* the community of each chat, in Telegram
    edge,      \* ChatModel.community_tid
    cooling,   \* the chats with a cooldown key of getChat in Redis
    notes,     \* for each chat its service messages, oldest first
    records,   \* the CommunityBanModel documents of the user
    newest,    \* the last _id drawn
    banned,    \* the chats Telegram has the user banned in
    tasks,     \* the CommunityTask documents, oldest first
    job,       \* the updates being handled
    worker,    \* ProcessCommunityBans
    excuse     \* history: "race", "late", the fault that happened, or a chat
               \* whose moves and probes overlapped

vars == <<home, edge, cooling, notes, records, newest, banned, tasks, job, worker, excuse>>

Ids == 1 .. MaxBans
Bans == [id : Ids, community : Communities, chats : SUBSET Chats]
Places == {None} \cup Communities

Of(k) == {r \in records : r.community = k}

At(s) == [pc |-> s, command |-> "none", chat |-> None, community |-> None, doc |-> None,
          listed |-> {}]

Idle == [pc |-> "idle", task |-> 0, doc |-> None, left |-> {}, hit |-> {}]

TypeOK ==
    /\ home \in [Chats -> Places] /\ edge \in [Chats -> Places]
    /\ cooling \in SUBSET Chats
    /\ \A c \in Chats : \A i \in DOMAIN notes[c] :
         notes[c][i] \in [to : Places, copy : Places, pc : {"new", "read", "done"}]
    /\ records \in SUBSET Bans
    /\ \A r, s \in records : r.community = s.community => r = s
    /\ newest \in 0 .. MaxBans
    /\ banned \in SUBSET Chats
    /\ \A i \in DOMAIN tasks : tasks[i].status \in {"PENDING", "PROCESSING", "COMPLETED", "FAILED"}
    /\ \A j \in Jobs : job[j].doc \in {None} \cup Bans /\ job[j].listed \in SUBSET Chats
    /\ worker.pc \in {"idle", "get", "ban", "unban"} /\ worker.doc \in {None} \cup Bans
    /\ excuse \in SUBSET ({"race", "late", "ban", "unban", "crash"} \cup Chats)

\* Chats that joined before Sophie have a community she has not stored.
Init ==
    /\ home \in [Chats -> Communities]
    /\ edge \in {e \in [Chats -> Places] : \A c \in Chats : e[c] \in {None, home[c]}}
    /\ cooling = {}
    /\ notes = [c \in Chats |-> <<>>]
    /\ records = {}
    /\ newest = 0
    /\ banned = {}
    /\ tasks = <<>>
    /\ job = [j \in Jobs |-> At("new")]
    /\ worker = Idle
    /\ excuse = {}

---------------------------------------------------------------------------

To(j, s) == job' = [job EXCEPT ![j] = IF s = "done" THEN At(s) ELSE [@ EXCEPT !.pc = s]]
Keep(j, s, d) == job' = [job EXCEPT ![j].pc = s, ![j].doc = d]

Excused(b, why) == excuse' = IF b THEN excuse \cup {why} ELSE excuse

Fault(kind) ==
    /\ kind \in Faults /\ excuse \cap Faults = {}
    /\ excuse' = excuse \cup {kind}

\* execute_restriction reports applied, or not applied.
Ban(c) == banned' = banned \cup {c} /\ UNCHANGED excuse
BanRefused == Fault("ban") /\ UNCHANGED banned
Lift(c) ==
    \/ banned' = banned \ {c} /\ UNCHANGED excuse
    \/ Fault("unban") /\ UNCHANGED banned

\* beanie save() of a copy: an upsert by _id of the whole document, which the
\* unique index refuses when another record of the community is there.
Clash(d) == \E r \in Of(d.community) : r.id # d.id
Save(d) == records' = {r \in records : r.id # d.id} \cup {d}

\* A save forgets the chats another writer has added, or undoes an unban.
Overwrites(d) == \A r \in records : r.id = d.id => ~ (r.chats \subseteq d.chats)

Unbanning(k) == \E j \in Jobs : job[j].command = "cunban" /\ job[j].community = k /\ job[j].pc # "done"

---------------------------------------------------------------------------
(* The community of a chat *)

\* A chat joins or leaves a community: Telegram posts a service message.
\* Bounded to one chat and MaxMoves moves.
Move(c, k) ==
    /\ home[c] # k
    /\ Len(notes[c]) < MaxMoves /\ \A d \in Chats \ {c} : notes[d] = <<>>
    /\ home' = [home EXCEPT ![c] = k]
    /\ notes' = [notes EXCEPT ![c] = Append(@, [to |-> k, copy |-> None, pc |-> "new"])]
    /\ UNCHANGED <<edge, cooling, records, newest, banned, tasks, job, worker, excuse>>

\* The middleware saves the group and has a copy of its document.
ReadNote(c, i) ==
    /\ notes[c][i].pc = "new"
    /\ notes' = [notes EXCEPT ![c][i].pc = "read", ![c][i].copy = edge[c]]
    /\ Excused(\E h \in DOMAIN notes[c] \ {i} :
                  IF h < i THEN notes[c][h].pc # "done" ELSE notes[c][h].pc # "new", c)
    /\ UNCHANGED <<home, edge, cooling, records, newest, banned, tasks, job, worker>>

\* Mutant: a message that takes the chat out of its community is passed over.
SaveCommunityAdded(c, i) ==
    /\ notes[c][i].pc = "read"
    /\ notes' = [notes EXCEPT ![c][i].pc = "done"]
    /\ IF notes[c][i].to \in {None, notes[c][i].copy}
       THEN UNCHANGED <<edge, excuse>>
       ELSE edge' = [edge EXCEPT ![c] = notes[c][i].to] /\ excuse' = excuse \cup {"late"}
    /\ UNCHANGED <<home, cooling, records, newest, banned, tasks, job, worker>>

\* save_community: set_community or clear_community, unless the copy says so
\* already.
SaveCommunity(c, i) ==
    /\ notes[c][i].pc = "read"
    /\ notes' = [notes EXCEPT ![c][i].pc = "done"]
    /\ IF notes[c][i].to = notes[c][i].copy
       THEN UNCHANGED <<edge, excuse>>
       ELSE edge' = [edge EXCEPT ![c] = notes[c][i].to] /\ excuse' = excuse \cup {"late"}
    /\ UNCHANGED <<home, cooling, records, newest, banned, tasks, job, worker>>

Known(j, k) == job' = [job EXCEPT ![j].community = k,
                                 ![j].pc = IF job[j].command = "cban" THEN "look" ELSE "snapshot"]

\* getChat answers, or fails: then the chat is part of no community, for the
\* hour of the cooldown.
Probe(j) ==
    /\ job[j].pc = "probe"
    /\ \/ /\ home[job[j].chat] # None
          /\ job' = [job EXCEPT ![j].pc = "attach", ![j].community = home[job[j].chat]]
       \/ To(j, "done")
    /\ UNCHANGED <<home, edge, cooling, notes, records, newest, banned, tasks, worker, excuse>>

\* ensure_community and set_community: the copy of the command knew of none.
Attach(j) ==
    LET c == job[j].chat IN
    /\ job[j].pc = "attach"
    /\ edge' = [edge EXCEPT ![c] = job[j].community]
    /\ excuse' = excuse \cup {"late"} \cup
         (IF home[c] # job[j].community \/ \E i \in DOMAIN notes[c] : notes[c][i].pc # "done"
          THEN {c} ELSE {})
    /\ Known(j, job[j].community)
    /\ UNCHANGED <<home, cooling, notes, records, newest, banned, tasks, worker>>

---------------------------------------------------------------------------
(* The bot *)

\* /cban or /cunban in a chat whose community is stored, or is asked of
\* Telegram once an hour; or a message of the user in a community chat.
Receive(j, c) ==
    LET take(command, s) ==
            job' = [job EXCEPT ![j] = [At(s) EXCEPT !.command = command, !.chat = c, !.community = edge[c]]]
    IN
    /\ job[j].pc = "new"
    /\ \/ /\ edge[c] # None /\ UNCHANGED cooling
          /\ take("cban", "look") \/ take("cunban", "snapshot")
       \/ /\ edge[c] = None /\ c \notin cooling
          /\ cooling' = cooling \cup {c}
          /\ take("cban", "probe") \/ take("cunban", "probe")
       \/ /\ edge[c] # None /\ c \in Present \ banned /\ UNCHANGED cooling
          /\ take("message", "lookup")
    /\ UNCHANGED <<home, edge, notes, records, newest, banned, tasks, worker, excuse>>

\* ban_user: a record is there, or is to be inserted.
Look(j) ==
    /\ job[j].pc = "look"
    /\ \/ Of(job[j].community) = {} /\ To(j, "insert")
       \/ \E r \in Of(job[j].community) : Keep(j, "reason", r)
    /\ UNCHANGED <<home, edge, cooling, notes, records, newest, banned, tasks, worker, excuse>>

\* A reason that differs is saved, with the rest of the copy.
Reason(j) ==
    LET d == job[j].doc IN
    /\ job[j].pc = "reason"
    /\ \/ To(j, "act") /\ UNCHANGED <<records, excuse>>
       \/ Clash(d) /\ To(j, "done") /\ UNCHANGED <<records, excuse>>
       \/ ~ Clash(d) /\ To(j, "act") /\ Save(d) /\ Excused(Overwrites(d), "race")
    /\ UNCHANGED <<home, edge, cooling, notes, newest, banned, tasks, worker>>

\* insert(), or the DuplicateKeyError that ends the command: another /cban was
\* first.
Insert(j) ==
    LET k == job[j].community
        d == [id |-> newest + 1, community |-> k, chats |-> {}] IN
    /\ job[j].pc = "insert"
    /\ \/ Of(k) # {} /\ To(j, "done") /\ UNCHANGED <<records, newest, excuse>>
       \/ /\ Of(k) = {} /\ newest < MaxBans
          /\ records' = records \cup {d}
          /\ newest' = newest + 1
          /\ Excused(Unbanning(k), "race")
          /\ Keep(j, "act", d)
    /\ UNCHANGED <<home, edge, cooling, notes, banned, tasks, worker>>

After(j) == IF job[j].command = "cban" THEN "queue" ELSE "done"

\* The ban in the chat of the command or message; a chat the copy does not
\* list is added and the copy saved.
Act(j) ==
    /\ job[j].pc = "act"
    /\ \/ /\ Ban(job[j].chat)
          /\ IF job[j].chat \in job[j].doc.chats
             THEN To(j, After(j))
             ELSE Keep(j, "save", [job[j].doc EXCEPT !.chats = @ \cup {job[j].chat}])
       \/ BanRefused /\ To(j, After(j))
    /\ UNCHANGED <<home, edge, cooling, notes, records, newest, tasks, worker>>

SaveChat(j) ==
    LET d == job[j].doc IN
    /\ job[j].pc = "save"
    /\ \/ Clash(d) /\ To(j, "done") /\ Excused(TRUE, "race") /\ UNCHANGED records
       \/ ~ Clash(d) /\ Save(d) /\ Excused(Overwrites(d), "race") /\ To(j, After(j))
    /\ UNCHANGED <<home, edge, cooling, notes, newest, banned, tasks, worker>>

\* CommunityTask(...).insert(), at the end of /cban and /cunban.
Queue(j) ==
    /\ job[j].pc = "queue"
    /\ tasks' = Append(tasks, [status |-> "PENDING", kind |-> job[j].command, chat |-> job[j].chat,
                               ban |-> IF job[j].doc = None THEN 0 ELSE job[j].doc.id,
                               chats |-> job[j].listed])
    /\ To(j, "done")
    /\ UNCHANGED <<home, edge, cooling, notes, records, newest, banned, worker, excuse>>

\* The chats of the record, before it is removed ...
Snapshot(j) ==
    /\ job[j].pc = "snapshot"
    /\ \/ Of(job[j].community) = {} /\ To(j, "done")
       \/ \E r \in Of(job[j].community) :
            job' = [job EXCEPT ![j].pc = "find", ![j].listed = r.chats]
    /\ UNCHANGED <<home, edge, cooling, notes, records, newest, banned, tasks, worker, excuse>>

\* ... unban_user reads it again ...
Find(j) ==
    /\ job[j].pc = "find"
    /\ \/ Of(job[j].community) = {} /\ To(j, "lift") /\ UNCHANGED excuse
       \/ \E r \in Of(job[j].community) :
            Keep(j, "delete", r) /\ Excused(r.chats # job[j].listed, "race")
    /\ UNCHANGED <<home, edge, cooling, notes, records, newest, banned, tasks, worker>>

\* ... and deletes it by _id, whatever copies of it are about to be saved.
Delete(j) ==
    LET d == job[j].doc IN
    /\ job[j].pc = "delete"
    /\ records' = {r \in records : r.id # d.id}
    /\ Excused(\/ d \notin records
               \/ worker.doc # None /\ worker.doc.id = d.id
               \/ \E i \in Jobs \ {j} : job[i].doc # None /\ job[i].doc.id = d.id
                                        /\ job[i].pc \in {"reason", "act", "save"}, "race")
    /\ Keep(j, "lift", None)
    /\ UNCHANGED <<home, edge, cooling, notes, newest, banned, tasks, worker>>

Unban(j) ==
    /\ job[j].pc = "lift"
    /\ Lift(job[j].chat)
    /\ To(j, "queue")
    /\ UNCHANGED <<home, edge, cooling, notes, records, newest, tasks, worker>>

\* is_cbanned: the record of the community.
Lookup(j) ==
    /\ job[j].pc = "lookup"
    /\ \/ Of(job[j].community) = {} /\ To(j, "done")
       \/ \E r \in Of(job[j].community) : Keep(j, "act", r)
    /\ UNCHANGED <<home, edge, cooling, notes, records, newest, banned, tasks, worker, excuse>>

Die(j) ==
    /\ job[j].pc \notin {"new", "done"}
    /\ Fault("crash")
    /\ To(j, "done")
    /\ UNCHANGED <<home, edge, cooling, notes, records, newest, banned, tasks, worker>>

---------------------------------------------------------------------------
(* The scheduler *)

Status(s) == tasks' = [tasks EXCEPT ![worker.task].status = s]
Current == tasks[worker.task]

\* The oldest of the pending tasks is PROCESSING.
Start(i) ==
    /\ worker.pc = "idle"
    /\ tasks[i].status = "PENDING" /\ \A h \in 1 .. i - 1 : tasks[h].status # "PENDING"
    /\ tasks' = [tasks EXCEPT ![i].status = "PROCESSING"]
    /\ worker' = [Idle EXCEPT !.task = i, !.pc = IF tasks[i].kind = "cban" THEN "get" ELSE "unban",
                             !.left = tasks[i].chats]
    /\ UNCHANGED <<home, edge, cooling, notes, records, newest, banned, job, excuse>>

\* Mutant: the chat of the command is the only one.
GetBanHere ==
    /\ worker.pc = "get"
    /\ \/ /\ \A r \in records : r.id # Current.ban
          /\ Status("COMPLETED") /\ worker' = Idle
       \/ \E r \in records :
            /\ r.id = Current.ban
            /\ worker' = [worker EXCEPT !.pc = "ban", !.doc = r, !.left = {Current.chat}]
            /\ UNCHANGED tasks
    /\ UNCHANGED <<home, edge, cooling, notes, records, newest, banned, job, excuse>>

\* The record, unless it was superseded, and the chats: those stored for the
\* community the user was seen in, and the chat of the command.
GetBan ==
    /\ worker.pc = "get"
    /\ \/ /\ \A r \in records : r.id # Current.ban
          /\ Status("COMPLETED") /\ worker' = Idle
       \/ \E r \in records :
            /\ r.id = Current.ban
            /\ worker' = [worker EXCEPT !.pc = "ban", !.doc = r,
                 !.left = {c \in Present : edge[c] = r.community} \cup {Current.chat}]
            /\ UNCHANGED tasks
    /\ UNCHANGED <<home, edge, cooling, notes, records, newest, banned, job, excuse>>

BanChat(c) ==
    /\ worker.pc = "ban" /\ c \in worker.left
    /\ \/ Ban(c) /\ worker' = [worker EXCEPT !.left = @ \ {c}, !.hit = @ \cup {c}]
       \/ BanRefused /\ worker' = [worker EXCEPT !.left = @ \ {c}]
    /\ UNCHANGED <<home, edge, cooling, notes, records, newest, tasks, job>>

\* The copy with the chats added, saved if any was banned.
SaveBan ==
    LET d == [worker.doc EXCEPT !.chats = @ \cup worker.hit] IN
    /\ worker.pc = "ban" /\ worker.left = {}
    /\ \/ worker.hit = {} /\ Status("COMPLETED") /\ UNCHANGED <<records, excuse>>
       \/ /\ worker.hit # {} /\ Clash(d)
          /\ Status("FAILED") /\ Excused(TRUE, "race") /\ UNCHANGED records
       \/ /\ worker.hit # {} /\ ~ Clash(d)
          /\ Status("COMPLETED") /\ Save(d) /\ Excused(Overwrites(d), "race")
    /\ worker' = Idle
    /\ UNCHANGED <<home, edge, cooling, notes, newest, banned, job>>

UnbanChat(c) ==
    /\ worker.pc = "unban" /\ c \in worker.left
    /\ Lift(c)
    /\ worker' = [worker EXCEPT !.left = @ \ {c}]
    /\ UNCHANGED <<home, edge, cooling, notes, records, newest, tasks, job>>

Complete ==
    /\ worker.pc = "unban" /\ worker.left = {}
    /\ Status("COMPLETED") /\ worker' = Idle
    /\ UNCHANGED <<home, edge, cooling, notes, records, newest, banned, job, excuse>>

\* Anything raises: the task is FAILED.
Fail ==
    /\ worker.pc # "idle" /\ Fault("crash")
    /\ Status("FAILED") /\ worker' = Idle
    /\ UNCHANGED <<home, edge, cooling, notes, records, newest, banned, job>>

\* The scheduler dies: its task stays PROCESSING, and nothing takes it up.
Crash ==
    /\ worker.pc # "idle" /\ Fault("crash")
    /\ worker' = Idle
    /\ UNCHANGED <<home, edge, cooling, notes, records, newest, banned, tasks, job>>

Next ==
    \/ \E c \in Chats :
         \/ BanChat(c) \/ UnbanChat(c)
         \/ \E k \in Places : Move(c, k)
         \/ \E i \in DOMAIN notes[c] : ReadNote(c, i) \/ SaveCommunity(c, i)
         \/ \E j \in Jobs : Receive(j, c)
    \/ \E j \in Jobs :
         \/ Probe(j) \/ Attach(j) \/ Look(j) \/ Reason(j) \/ Insert(j) \/ Act(j) \/ SaveChat(j)
         \/ Queue(j) \/ Snapshot(j) \/ Find(j) \/ Delete(j) \/ Unban(j) \/ Lookup(j) \/ Die(j)
    \/ \E i \in DOMAIN tasks : Start(i)
    \/ GetBan \/ SaveBan \/ Complete \/ Fail \/ Crash

Spec == Init /\ [][Next]_vars

---------------------------------------------------------------------------

Settled(c) == \A i \in DOMAIN notes[c] : notes[c][i].pc = "done"

\* Nothing is under way and nothing is queued.
Quiet ==
    /\ \A j \in Jobs : job[j].pc \in {"new", "done"}
    /\ worker = Idle
    /\ \A i \in DOMAIN tasks : tasks[i].status # "PENDING"

\* A chat that has moved is stored in its community and in no other, once its
\* service messages are handled, unless they overlapped with each other or with
\* a probe of getChat.
CommunityStored ==
    \A c \in Chats \ excuse :
        Settled(c) /\ notes[c] # <<>> => edge[c] = home[c]

\* Once everything queued is done, a chat the user is banned in is listed by a
\* record: "Snapshot the chats the user was actually banned in before the
\* record is removed" (handlers/uncban.py), or no unban would lift the ban.
\* Excused: commands that overlap on one record, a crash, a refused unban.
BansListed ==
    Quiet /\ excuse \subseteq {"late", "ban"} \cup Chats =>
        \A c \in banned : \E r \in records : c \in r.chats

\* Once everything queued is done, a record is in force in the chats of its
\* community the user was seen in ("Ban a user from the whole community"), but
\* for those whose community was stored late.
BansInForce ==
    Quiet /\ excuse = {} =>
        \A r \in records : \A c \in Present : edge[c] = r.community => c \in banned

CommunitiesHold == CommunityStored /\ BansListed /\ BansInForce
============================================================================
