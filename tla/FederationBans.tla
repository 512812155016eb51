-------------------------- MODULE FederationBans --------------------------
(***************************************************************************)
(* The bans of one user in the federations (modules/federations): /fban,   *)
(* /funban and the FedBan middleware run as concurrent jobs of the bot,    *)
(* the scheduler carries each ban and unban to the other chats as a task,  *)
(* and a cleanup fails the tasks of a scheduler that died.                 *)
(*                                                                         *)
(* A job is cut at its awaits.  It keeps the copy of the FederationBan it  *)
(* read or inserted and saves it whole: beanie's save() is an upsert by    *)
(* _id.  Nothing locks a record, and (fed_id, user_id) has no unique       *)
(* index.  The counters, exports, replies and logs are left out.           *)
(***************************************************************************)
EXTENDS Integers, FiniteSets, Sequences

CONSTANTS
    Feds, Chats, None,
    FedOf,        \* [Chats -> Feds], the federation of each chat
    Subscribed,   \* [Feds -> SUBSET Feds], Federation.subscribed
    Present,      \* the chats Sophie has a UserInGroup row of the user for
    Jobs,         \* updates the bot handles concurrently
    MaxBans,      \* bound on the ids of the records
    Faults        \* what may go wrong, once: subset of {"ban", "unban", "crash"}

VARIABLES
    records,   \* the FederationBan documents of the user
    newest,    \* the last _id drawn
    cached,    \* fed:ban_status in Redis, for each federation
    banned,    \* the chats Telegram has the user banned in
    tasks,     \* the BAN and UNBAN FederationTask documents, oldest first
    job,       \* the updates being handled
    worker,    \* ProcessFederationBans
    lifted,    \* history: the ids of the records unban_user deleted
    excuse     \* history: "race", or the fault that happened

vars == <<records, newest, cached, banned, tasks, job, worker, lifted, excuse>>

Ids == 1 .. MaxBans
Bans == [id : Ids, fed : Feds, origin : {None} \cup Feds, chats : SUBSET Chats]

\* get_subscription_chain: what f subscribes to, transitively, less f itself.
Within[n \in 0 .. Cardinality(Feds)] ==
    IF n = 0 THEN Subscribed
    ELSE [f \in Feds |-> Within[n - 1][f] \cup UNION {Within[n - 1][g] : g \in Within[n - 1][f]}]

Chain(f) == Within[Cardinality(Feds)][f] \ {f}

\* get_subscribed_by_chain: who subscribes to f, transitively.
Followers(f) == {g \in Feds : f \in Chain(g)}

Of(F) == {r \in records : r.fed \in F}

MemberChats(f) == {c \in Chats : FedOf[c] = f}

---------------------------------------------------------------------------

Steps == {"new", "reason", "insert", "mark", "act", "save", "queue", "find",
          "inherited", "delete", "unmark", "lift", "lookup", "negative", "done"}

\* An update that is not being handled.
At(s) == [pc |-> s, command |-> "none", chat |-> None, doc |-> None, listed |-> {}]

Idle == [pc |-> "idle", task |-> 0, todo |-> {}, doc |-> None, left |-> {}, hit |-> {},
         feds |-> {}, fed |-> None, docs |-> {}]

TypeOK ==
    /\ records \in SUBSET Bans
    /\ \A r, s \in records : r.id = s.id => r = s
    /\ newest \in 0 .. MaxBans
    /\ cached \in [Feds -> {"none", "yes", "no"}]
    /\ banned \in SUBSET Chats
    /\ \A i \in DOMAIN tasks : tasks[i].status \in {"PENDING", "PROCESSING", "COMPLETED", "FAILED"}
    /\ job \in [Jobs -> [pc : Steps, command : {"none", "fban", "funban", "message"},
                         chat : {None} \cup Chats, doc : {None} \cup Bans, listed : SUBSET Chats]]
    /\ worker.pc \in {"idle", "get", "ban", "save", "lazy", "insert", "unban"}
    /\ worker.doc \in {None} \cup Bans
    /\ worker.docs \in SUBSET Bans
    /\ lifted \in SUBSET Ids
    /\ excuse \in SUBSET {"race", "ban", "unban", "crash"}

Init ==
    /\ records = {}
    /\ newest = 0
    /\ cached = [f \in Feds |-> "none"]
    /\ banned = {}
    /\ tasks = <<>>
    /\ job = [j \in Jobs |-> At("new")]
    /\ worker = Idle
    /\ lifted = {}
    /\ excuse = {}

---------------------------------------------------------------------------

Fed(j) == FedOf[job[j].chat]

To(j, s) == job' = [job EXCEPT ![j] = IF s = "done" THEN At(s) ELSE [@ EXCEPT !.pc = s]]

Keep(j, s, d) == job' = [job EXCEPT ![j].pc = s, ![j].doc = d]

\* The copies of records somebody may still save.
Copies ==
    {job[j].doc : j \in {i \in Jobs : job[i].pc \in {"reason", "mark", "act", "save"}}}
        \cup (IF worker.pc \in {"ban", "save"} THEN {worker.doc} ELSE {})
        \cup worker.docs

Unbanning(j) ==
    job[j].command = "funban" /\ job[j].pc \in {"inherited", "delete", "unmark", "lift", "queue"}

\* beanie save(): upsert by _id of the whole document.
Save(d) == records' = {r \in records : r.id # d.id} \cup {d}

\* Another writer's chats are not in the copy: the save forgets them.
Overwrites(d) == \E r \in records : r.id = d.id /\ ~ (r.chats \subseteq d.chats)

Raced(b) == excuse' = IF b THEN excuse \cup {"race"} ELSE excuse

Fault(kind) ==
    /\ kind \in Faults /\ excuse \cap Faults = {}
    /\ excuse' = excuse \cup {kind}

\* execute_restriction reports applied, or not applied.
Ban(c) == banned' = banned \cup {c} /\ UNCHANGED excuse
Lifted(c) == banned' = banned \ {c} /\ UNCHANGED excuse
BanRefused == Fault("ban") /\ UNCHANGED banned
UnbanRefused == Fault("unban") /\ UNCHANGED banned

Added(f) == [id |-> newest + 1, fed |-> f, origin |-> None, chats |-> {}]

\* Mutant: the record is given the _id of the last one.
InsertSameId(f, origin) ==
    /\ newest < MaxBans
    /\ newest' = IF newest = 0 THEN 1 ELSE newest
    /\ records' = records \cup {[Added(f) EXCEPT !.origin = origin, !.id = newest']}
    /\ Raced(Of({f}) # {} \/ \E j \in Jobs : Unbanning(j))

\* insert() of a record.  It races with another record of the federation, and
\* with an unban that is between its read and its task.
Insert(f, origin) ==
    /\ newest < MaxBans
    /\ newest' = newest + 1
    /\ records' = records \cup {[Added(f) EXCEPT !.origin = origin]}
    /\ Raced(Of({f}) # {} \/ \E j \in Jobs : Unbanning(j))

---------------------------------------------------------------------------
(* The bot *)

\* An update arrives from chat c: /fban, /funban, or a message of the user.
\* The first await of each is taken with it: ban_user's find_one, the
\* handler's snapshot of the ban, and the cached status of the middleware.
Receive(j, c) ==
    LET take(command, s, d, listed) ==
            job' = [job EXCEPT ![j] = [pc |-> s, command |-> command, chat |-> c,
                                       doc |-> d, listed |-> listed]]
    IN
    /\ job[j].pc = "new"
    /\ \/ Of({FedOf[c]}) = {} /\ take("fban", "insert", None, {})
       \/ \E r \in Of({FedOf[c]}) : take("fban", "reason", r, {})
       \/ \E r \in Of({FedOf[c]}) : take("funban", "find", None, r.chats)
       \/ /\ cached[FedOf[c]] # "no"
          /\ c \in Present \ banned
          /\ take("message", "lookup", None, {})
    /\ UNCHANGED <<records, newest, cached, banned, tasks, worker, lifted, excuse>>

\* ban_user finds a record: it saves a new reason, or returns it as it is.
Reason(j) ==
    /\ job[j].pc = "reason"
    /\ To(j, "act")
    /\ \/ UNCHANGED <<records, excuse>>
       \/ Save(job[j].doc) /\ Raced(Overwrites(job[j].doc))
    /\ UNCHANGED <<newest, cached, banned, tasks, worker, lifted>>

BanUser(j) ==
    /\ job[j].pc = "insert"
    /\ Insert(Fed(j), None)
    /\ Keep(j, "mark", Added(Fed(j)))
    /\ UNCHANGED <<cached, banned, tasks, worker, lifted>>

\* set_user_ban_status(..., True)
Mark(j) ==
    /\ job[j].pc = "mark"
    /\ cached' = [cached EXCEPT ![job[j].doc.fed] = "yes"]
    /\ To(j, "act")
    /\ UNCHANGED <<records, newest, banned, tasks, worker, lifted, excuse>>

\* Mutant: the chat is banned and not added to the record.
ActUnlisted(j) ==
    /\ job[j].pc = "act"
    /\ Ban(job[j].chat) \/ BanRefused
    /\ To(j, IF job[j].command = "fban" THEN "queue" ELSE "done")
    /\ UNCHANGED <<records, newest, cached, tasks, worker, lifted>>

\* The user is banned in the chat of the command, or of the message; a chat
\* the copy does not list yet is added and the copy saved.
Act(j) ==
    LET after == IF job[j].command = "fban" THEN "queue" ELSE "done" IN
    /\ job[j].pc = "act"
    /\ \/ /\ Ban(job[j].chat)
          /\ IF job[j].chat \in job[j].doc.chats
             THEN To(j, after)
             ELSE Keep(j, "save", [job[j].doc EXCEPT !.chats = @ \cup {job[j].chat}])
       \/ BanRefused /\ To(j, after)
    /\ UNCHANGED <<records, newest, cached, tasks, worker, lifted>>

SaveChat(j) ==
    /\ job[j].pc = "save"
    /\ Save(job[j].doc)
    /\ Raced(Overwrites(job[j].doc))
    /\ To(j, IF job[j].command = "fban" THEN "queue" ELSE "done")
    /\ UNCHANGED <<newest, cached, banned, tasks, worker, lifted>>

Task(j) ==
    [status |-> "PENDING", kind |-> job[j].command, fed |-> Fed(j),
     ban |-> IF job[j].doc = None THEN 0 ELSE job[j].doc.id,
     chats |-> IF job[j].command = "fban" THEN {job[j].chat} ELSE job[j].listed]

\* FederationTask(...).insert(), at the end of /fban and /funban.
Queue(j) ==
    /\ job[j].pc = "queue"
    /\ tasks' = Append(tasks, Task(j))
    /\ To(j, "done")
    /\ UNCHANGED <<records, newest, cached, banned, worker, lifted, excuse>>

\* unban_user reads the record again; the snapshot may be older.
Find(j) ==
    /\ job[j].pc = "find"
    /\ \/ /\ Of({Fed(j)}) = {}
          /\ To(j, "done") /\ UNCHANGED excuse
       \/ \E r \in Of({Fed(j)}) :
            /\ Keep(j, IF r.origin \in Chain(r.fed) THEN "inherited" ELSE "delete", r)
            /\ Raced(r.chats # job[j].listed)
    /\ UNCHANGED <<records, newest, cached, banned, tasks, worker, lifted>>

\* _is_inherited_ban_enforced: the origin's ban is still there.
Inherited(j) ==
    /\ job[j].pc = "inherited"
    /\ To(j, IF Of({job[j].doc.origin}) # {} THEN "done" ELSE "delete")
    /\ UNCHANGED <<records, newest, cached, banned, tasks, worker, lifted, excuse>>

\* result.delete(), by _id.
Delete(j) ==
    LET d == job[j].doc IN
    /\ job[j].pc = "delete"
    /\ records' = {r \in records : r.id # d.id}
    /\ lifted' = lifted \cup {d.id}
    /\ Raced(\/ d \notin records
             \/ \E e \in Copies : e # None /\ e.id = d.id
             \/ Of({d.fed}) # {d}
             \/ \E i \in Jobs : job[i].pc = "insert" /\ Fed(i) = d.fed)
    /\ To(j, "unmark")
    /\ UNCHANGED <<newest, cached, banned, tasks, worker>>

\* set_user_ban_status(..., False)
Unmark(j) ==
    /\ job[j].pc = "unmark"
    /\ cached' = [cached EXCEPT ![Fed(j)] = "no"]
    /\ To(j, "lift")
    /\ UNCHANGED <<records, newest, banned, tasks, worker, lifted, excuse>>

\* Unban in the current chat.  (SaveChatsMiddleware has saved the sender: the
\* banner is known.)
Lift(j) ==
    /\ job[j].pc = "lift"
    /\ Lifted(job[j].chat) \/ UnbanRefused
    /\ To(j, "queue")
    /\ UNCHANGED <<records, newest, cached, tasks, worker, lifted>>

\* is_user_banned_in_chain: the first record of the chain, in no set order.
Lookup(j) ==
    LET F == {Fed(j)} \cup Chain(Fed(j)) IN
    /\ job[j].pc = "lookup"
    /\ \/ \E r \in Of(F) : Keep(j, "act", r) /\ cached' = [cached EXCEPT ![Fed(j)] = "yes"]
       \/ Of(F) = {} /\ To(j, "negative") /\ UNCHANGED cached
    /\ UNCHANGED <<records, newest, banned, tasks, worker, lifted, excuse>>

\* set_user_ban_status(..., False) after the empty answer.
Negative(j) ==
    /\ job[j].pc = "negative"
    /\ cached' = [cached EXCEPT ![Fed(j)] = "no"]
    /\ To(j, "done")
    /\ UNCHANGED <<records, newest, banned, tasks, worker, lifted, excuse>>

\* The five minutes of CACHE_TTL.
Expire(f) ==
    /\ cached[f] # "none"
    /\ cached' = [cached EXCEPT ![f] = "none"]
    /\ UNCHANGED <<records, newest, banned, tasks, job, worker, lifted, excuse>>

\* The bot dies in the middle of an update.
Die(j) ==
    /\ job[j].pc \notin {"new", "done"}
    /\ Fault("crash")
    /\ To(j, "done")
    /\ UNCHANGED <<records, newest, cached, banned, tasks, worker, lifted>>

---------------------------------------------------------------------------
(* The scheduler *)

Status(s) == tasks' = [tasks EXCEPT ![worker.task].status = s]

Current == tasks[worker.task]

\* handle reads the pending tasks in one query and works on those copies.
Poll ==
    LET pending == {i \in DOMAIN tasks : tasks[i].status = "PENDING"} IN
    /\ worker.pc = "idle" /\ worker.todo = {}
    /\ pending # {}
    /\ worker' = [worker EXCEPT !.todo = pending]
    /\ UNCHANGED <<records, newest, cached, banned, tasks, job, lifted, excuse>>

\* The oldest of them is PROCESSING.
Start(i) ==
    /\ worker.pc = "idle"
    /\ i \in worker.todo /\ \A k \in worker.todo : i <= k
    /\ tasks' = [tasks EXCEPT ![i].status = "PROCESSING"]
    /\ worker' = [Idle EXCEPT !.task = i, !.todo = worker.todo \ {i},
                             !.pc = IF tasks[i].kind = "fban" THEN "get" ELSE "unban",
                             !.left = IF tasks[i].kind = "fban" THEN {} ELSE tasks[i].chats]
    /\ UNCHANGED <<records, newest, cached, banned, job, lifted, excuse>>

\* Mutant: the ban is carried to the chat of the command only.
GetBanHere ==
    /\ worker.pc = "get"
    /\ \/ /\ \A r \in records : r.id # Current.ban
          /\ Status("COMPLETED")
          /\ worker' = [Idle EXCEPT !.todo = worker.todo]
       \/ \E r \in records :
            /\ r.id = Current.ban
            /\ worker' = [worker EXCEPT
                 !.pc = "ban", !.doc = r, !.feds = Followers(r.fed), !.left = Current.chats]
            /\ UNCHANGED tasks
    /\ UNCHANGED <<records, newest, cached, banned, job, lifted, excuse>>

\* FederationBan.get(task.ban_id): a record that is gone was superseded.
GetBan ==
    /\ worker.pc = "get"
    /\ \/ /\ \A r \in records : r.id # Current.ban
          /\ Status("COMPLETED")
          /\ worker' = [Idle EXCEPT !.todo = worker.todo]
       \/ \E r \in records :
            /\ r.id = Current.ban
            /\ worker' = [worker EXCEPT
                 !.pc = "ban", !.doc = r, !.feds = Followers(r.fed),
                 !.left = (MemberChats(r.fed) \cap Present) \cup Current.chats]
            /\ UNCHANGED tasks
    /\ UNCHANGED <<records, newest, cached, banned, job, lifted, excuse>>

\* ban_user_in_federation_chats: the chats in no set order, 15 at a time.
BanChat(c) ==
    /\ worker.pc = "ban" /\ c \in worker.left
    /\ \/ Ban(c) /\ worker' = [worker EXCEPT !.left = @ \ {c}, !.hit = @ \cup {c}]
       \/ BanRefused /\ worker' = [worker EXCEPT !.left = @ \ {c}]
    /\ UNCHANGED <<records, newest, cached, tasks, job, lifted>>

\* ... and then the copy with the chats added, saved if any was banned.
SaveBan ==
    LET d == [worker.doc EXCEPT !.chats = @ \cup worker.hit] IN
    /\ worker.pc = "ban" /\ worker.left = {}
    /\ IF worker.hit = {} THEN UNCHANGED <<records, excuse>> ELSE Save(d) /\ Raced(Overwrites(d))
    /\ worker' = [worker EXCEPT !.pc = "lazy", !.doc = None, !.hit = {}]
    /\ UNCHANGED <<newest, cached, banned, tasks, job, lifted>>

\* lazy_ban_in_subscribing_federations: a federation where the user is banned
\* already, or in none of whose chats the user is, is passed over.
Lazy(g) ==
    /\ worker.pc = "lazy" /\ g \in worker.feds
    /\ worker' = IF Of({g}) # {} \/ MemberChats(g) \cap Present = {}
                 THEN [worker EXCEPT !.feds = @ \ {g}]
                 ELSE [worker EXCEPT !.feds = @ \ {g}, !.pc = "insert", !.fed = g]
    /\ UNCHANGED <<records, newest, cached, banned, tasks, job, lifted, excuse>>

\* The record of the subscribing federation and its cached status.
LazyInsert ==
    /\ worker.pc = "insert"
    /\ Insert(worker.fed, Current.fed)
    /\ cached' = [cached EXCEPT ![worker.fed] = "yes"]
    /\ worker' = [worker EXCEPT !.pc = "lazy", !.fed = None,
                 !.docs = @ \cup {[Added(worker.fed) EXCEPT !.origin = Current.fed]}]
    /\ UNCHANGED <<banned, tasks, job, lifted>>

\* The chats of the subscribing federations, one federation after the other.
LazyBan(d) ==
    /\ worker.pc = "lazy" /\ worker.feds = {} /\ d \in worker.docs
    /\ worker' = [worker EXCEPT !.pc = "ban", !.doc = d, !.docs = @ \ {d},
                               !.left = MemberChats(d.fed) \cap Present]
    /\ UNCHANGED <<records, newest, cached, banned, tasks, job, lifted, excuse>>

\* unban_user_in_chat_iids, over the chats of the snapshot.
UnbanChat(c) ==
    /\ worker.pc = "unban" /\ c \in worker.left
    /\ Lifted(c) \/ UnbanRefused
    /\ worker' = [worker EXCEPT !.left = @ \ {c}]
    /\ UNCHANGED <<records, newest, cached, tasks, job, lifted>>

Complete ==
    /\ \/ worker.pc = "lazy" /\ worker.feds = {} /\ worker.docs = {}
       \/ worker.pc = "unban" /\ worker.left = {}
    /\ Status("COMPLETED")
    /\ worker' = [Idle EXCEPT !.todo = worker.todo]
    /\ UNCHANGED <<records, newest, cached, banned, job, lifted, excuse>>

\* Anything raises: the task is FAILED and the next one is taken.
Fail ==
    /\ worker.pc # "idle"
    /\ Fault("crash")
    /\ Status("FAILED")
    /\ worker' = [Idle EXCEPT !.todo = worker.todo]
    /\ UNCHANGED <<records, newest, cached, banned, job, lifted>>

\* The scheduler dies and comes back with an empty list.
Crash ==
    /\ worker # Idle
    /\ Fault("crash")
    /\ worker' = Idle
    /\ UNCHANGED <<records, newest, cached, banned, tasks, job, lifted>>

\* Mutant: the tasks nobody has started are reaped, those that died are not.
ReapPending(i) ==
    /\ tasks[i].status = "PENDING" /\ worker.pc # "idle"
    /\ tasks' = [tasks EXCEPT ![i].status = "FAILED"]
    /\ UNCHANGED <<records, newest, cached, banned, job, worker, lifted, excuse>>

\* CleanupOldTasks: a task that has been PROCESSING for 15 minutes.  No live
\* worker takes that long.
Reap(i) ==
    /\ tasks[i].status = "PROCESSING" /\ worker.task # i
    /\ tasks' = [tasks EXCEPT ![i].status = "FAILED"]
    /\ UNCHANGED <<records, newest, cached, banned, job, worker, lifted, excuse>>

---------------------------------------------------------------------------

Handle(j) ==
    \/ Reason(j) \/ BanUser(j) \/ Mark(j) \/ Act(j) \/ SaveChat(j) \/ Queue(j)
    \/ Find(j) \/ Inherited(j) \/ Delete(j) \/ Unmark(j) \/ Lift(j)
    \/ Lookup(j) \/ Negative(j)

Work ==
    \/ Poll \/ GetBan \/ SaveBan \/ LazyInsert \/ Complete
    \/ \E c \in Chats : BanChat(c) \/ UnbanChat(c)
    \/ \E g \in Feds : Lazy(g)
    \/ \E d \in worker.docs : LazyBan(d)
    \/ \E i \in DOMAIN tasks : Start(i)

Next ==
    \/ \E j \in Jobs : Handle(j) \/ Die(j) \/ \E c \in Chats : Receive(j, c)
    \/ Work \/ Fail \/ Crash
    \/ \E i \in DOMAIN tasks : Reap(i)
    \/ \E f \in Feds : Expire(f)

Spec == Init /\ [][Next]_vars

---------------------------------------------------------------------------

Terminal(t) == t.status \in {"COMPLETED", "FAILED"}

\* Nothing is under way and nothing is queued.
Quiet ==
    /\ \A j \in Jobs : job[j].pc \in {"new", "done"}
    /\ worker = Idle
    /\ \A i \in DOMAIN tasks : Terminal(tasks[i])

\* Once everything queued is done, a chat the user is banned in is listed by a
\* record: otherwise no unban would ever lift that ban ("Snapshot the chats the
\* user was actually banned in before the record is gone; the scheduler clears
\* the user from each of them", handlers/unban.py).  Excused: commands that
\* overlapped on one record, a crash between a ban and its save, and an unban
\* Telegram refused.
BansListed ==
    Quiet /\ excuse \subseteq {"ban"} =>
        \A c \in banned : \E r \in records : c \in r.chats

\* Once everything queued is done, the record of a federation that inherits
\* from no other is in force in every chat of it the user was seen in,
\* whatever unbans were queued before it (_process_ban).
BansInForce ==
    Quiet /\ excuse = {} =>
        \A r \in records : Chain(r.fed) = {} => MemberChats(r.fed) \cap Present \subseteq banned

\* An unbanned user stays unbanned: "removes the DB record - the FedBan
\* middleware stops blocking immediately" (handlers/unban.py).
LiftedStaysLifted == \A r \in records : r.id \notin lifted

\* Every task reaches a terminal state, so that no reply stays on
\* "Propagating" (_process_task, CleanupOldTasks), in spite of a crash.
TasksEnd ==
    \A i \in 1 .. Cardinality(Jobs) :
        (i \in DOMAIN tasks) ~> (i \in DOMAIN tasks /\ Terminal(tasks[i]))
===========================================================================
