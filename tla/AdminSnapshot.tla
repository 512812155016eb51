--------------------------- MODULE AdminSnapshot ---------------------------
(***************************************************************************)
(* The administrators of a group as Sophie knows them (modules/utils_/     *)
(* admin, chat_member): documents of MongoDB, refreshed from Telegram by   *)
(* updates of the group when they are old, by /admin_cache, and by /promote *)
(* and /demote.  A marker in Redis lets updates try once in a lifetime.    *)
(* A refresh fetches the list, stores it one administrator at a time and   *)
(* deletes the others; nothing keeps two refreshes apart.                  *)
(***************************************************************************)
EXTENDS Integers, FiniteSets

CONSTANTS
    Jobs,        \* updates and commands at work
    Users,
    Known,       \* users who have a ChatModel
    Ttl,         \* CACHE_ADMIN_TTL_SECONDS, of documents and of the marker
    Ids,         \* bound on the documents
    MaxTime,     \* bound on the clock
    MaxChanges,  \* bound on promotions and demotions
    MaxFaults,   \* bound on calls of Telegram that fail, and crashes
    None

VARIABLES
    admins,    \* Telegram's administrators
    records,   \* the ChatAdminModel documents: by identifier
    marker,    \* when the refresh was claimed
    now,
    job,
    changes,
    faults,
    base,      \* history: the list that was fetched last
    crossed,   \* history: refreshes overlapped or broke off, and none went through alone since
    missed     \* history: when a refresh failed after its claim, or crossed another one

vars == <<admins, records, marker, now, job, changes, faults, base, crossed, missed>>

NoJob == [pc |-> "idle", command |-> FALSE, list |-> {}, todo |-> {}, user |-> None, found |-> None, alone |-> TRUE]

Stored == {i \in Ids : records[i] # None}

Of(u) == {i \in Stored : records[i].user = u}

\* find_one gives the oldest document of a user.
First(u) == CHOOSE i \in Of(u) : \A j \in Of(u) : i <= j

Recorded == {records[i].user : i \in Stored}

Old(t) == now - t > Ttl

Refreshing == {k \in Jobs : job[k].pc \in {"store", "save", "delete"}}

TypeOK ==
    /\ admins \subseteq Users
    /\ \A i \in Stored : records[i].user \in Known /\ records[i].at \in 0 .. now
    /\ now \in 0 .. MaxTime /\ changes \in 0 .. MaxChanges /\ faults \in 0 .. MaxFaults
    /\ \A k \in Jobs : job[k].pc \in {"idle", "claim", "fetch", "store", "save", "delete", "handled"}

Init ==
    /\ admins \in SUBSET Users
    /\ records = [i \in Ids |-> None] /\ marker = None
    /\ now = 0 /\ changes = 0 /\ faults = 0
    /\ job = [k \in Jobs |-> NoJob]
    /\ base = {} /\ crossed = FALSE /\ missed = None

---------------------------------------------------------------------------
(* AdmincacheMiddleware and the commands *)

\* ensure_admin_snapshot: the oldest document decides, and none is old, too.
Update(k) ==
    /\ job[k].pc = "idle"
    /\ job' = [job EXCEPT ![k].pc =
           IF Stored # {} /\ \A i \in Stored : ~Old(records[i].at) THEN "handled" ELSE "claim"]
    /\ UNCHANGED <<admins, records, marker, now, changes, faults, base, crossed, missed>>

\* Mutant: the marker never lapses.
ClaimOnce(k) ==
    /\ job[k].pc = "claim"
    /\ IF marker # None THEN job' = [job EXCEPT ![k].pc = "handled"] /\ UNCHANGED marker
       ELSE job' = [job EXCEPT ![k].pc = "fetch"] /\ marker' = now
    /\ UNCHANGED <<admins, records, now, changes, faults, base, crossed, missed>>

\* SET NX with a lifetime.
Claim(k) ==
    /\ job[k].pc = "claim"
    /\ IF marker # None /\ ~Old(marker) THEN job' = [job EXCEPT ![k].pc = "handled"] /\ UNCHANGED marker
       ELSE job' = [job EXCEPT ![k].pc = "fetch"] /\ marker' = now
    /\ UNCHANGED <<admins, records, now, changes, faults, base, crossed, missed>>

\* A command, in the group or in a chat connected to it.
Begin(k) ==
    /\ job[k].pc \in {"idle", "handled"}
    /\ job' = [job EXCEPT ![k].pc = "fetch", ![k].command = TRUE]

\* /admin_cache.
Reset(k) ==
    /\ Begin(k)
    /\ UNCHANGED <<admins, records, marker, now, changes, faults, base, crossed, missed>>

\* /promote and /demote by somebody Sophie takes for an administrator, when
\* Telegram agrees; a title it does not take changes nothing.
Promote(k, by, u, after) ==
    /\ Begin(k) /\ changes < MaxChanges /\ by \in Recorded /\ by # u
    /\ changes' = changes + 1
    /\ admins' = after
    /\ UNCHANGED <<records, marker, now, faults, base, crossed, missed>>

---------------------------------------------------------------------------
(* update_chat_members *)

Fetch(k) ==
    /\ job[k].pc = "fetch"
    /\ base' = admins \cap Known
    /\ crossed' = (crossed \/ Refreshing # {})
    /\ job' = [j \in Jobs |->
           IF j = k THEN [NoJob EXCEPT !.pc = "store", !.command = job[k].command, !.list = base', !.todo = base',
                                        !.alone = Refreshing = {}]
           ELSE [job[j] EXCEPT !.alone = @ /\ j \notin Refreshing]]
    /\ UNCHANGED <<admins, records, marker, now, changes, faults, missed>>

\* upsert_admin.
Find(k, u) ==
    /\ job[k].pc = "store" /\ u \in job[k].todo
    /\ job' = [job EXCEPT ![k].pc = "save", ![k].user = u,
                  ![k].found = IF Of(u) = {} THEN None ELSE First(u)]
    /\ UNCHANGED <<admins, records, marker, now, changes, faults, base, crossed, missed>>

\* A document that was deleted meanwhile is stored again.
Save(k) ==
    /\ job[k].pc = "save"
    /\ \E i \in Ids :
        /\ IF job[k].found = None THEN i \notin Stored ELSE i = job[k].found
        /\ records' = [records EXCEPT ![i] = [user |-> job[k].user, at |-> now]]
    /\ job' = [job EXCEPT ![k].pc = "store", ![k].todo = @ \ {job[k].user}]
    /\ UNCHANGED <<admins, marker, now, changes, faults, base, crossed, missed>>

\* The update goes on after its middleware; a command is over.
Leave(k) ==
    job' = [job EXCEPT ![k] = IF @.command THEN NoJob ELSE [NoJob EXCEPT !.pc = "handled"]]

\* Everybody else is no administrator.
Delete(k) ==
    /\ job[k].pc = "store" /\ job[k].todo = {}
    /\ records' = [i \in Ids |-> IF i \in Stored /\ records[i].user \in job[k].list THEN records[i] ELSE None]
    /\ crossed' = (crossed /\ ~job[k].alone)
    /\ missed' = IF job[k].alone THEN missed ELSE now
    /\ Leave(k)
    /\ UNCHANGED <<admins, marker, now, changes, faults, base>>

\* Telegram fails: a warning, or a command without an answer.
Fail(k) ==
    /\ job[k].pc = "fetch" /\ faults < MaxFaults /\ faults' = faults + 1
    /\ missed' = now
    /\ Leave(k)
    /\ UNCHANGED <<admins, records, marker, now, changes, base, crossed>>

Die(k) ==
    /\ job[k].pc \in {"fetch", "store", "save"} /\ faults < MaxFaults /\ faults' = faults + 1
    /\ missed' = now
    /\ crossed' = (crossed \/ job[k].pc # "fetch")
    /\ job' = [job EXCEPT ![k] = NoJob]
    /\ UNCHANGED <<admins, records, marker, now, changes, base>>

Done(k) ==
    /\ job[k].pc = "handled"
    /\ job' = [job EXCEPT ![k] = NoJob]
    /\ UNCHANGED <<admins, records, marker, now, changes, faults, base, crossed, missed>>

---------------------------------------------------------------------------

\* An administrator changes the list in Telegram.
Change(after) ==
    /\ changes < MaxChanges /\ changes' = changes + 1
    /\ after # admins /\ admins' = after
    /\ UNCHANGED <<records, marker, now, job, faults, base, crossed, missed>>

Tick ==
    /\ now < MaxTime /\ now' = now + 1
    /\ \A k \in Jobs : job[k].pc = "idle"
    /\ UNCHANGED <<admins, records, marker, job, changes, faults, base, crossed, missed>>

Next ==
    \/ \E k \in Jobs :
        \/ Update(k) \/ Claim(k) \/ Reset(k) \/ Fetch(k) \/ Save(k) \/ Delete(k) \/ Fail(k) \/ Die(k) \/ Done(k)
        \/ \E u \in Known : Find(k, u)
        \/ \E by \in Users, u \in Users : Promote(k, by, u, admins \cup {u}) \/ Promote(k, by, u, admins \ {u})
    \/ \E after \in SUBSET Users : Change(after)
    \/ Tick

Spec == Init /\ [][Next]_vars

---------------------------------------------------------------------------

\* A refresh that no other one overlaps leaves what it fetched, whatever
\* broken refreshes have left, and once nothing is left of them nobody is
\* recorded who was not on the list.  (update_chat_members)
SnapshotTrue == Refreshing = {} /\ ~crossed => Recorded = base

\* An update finds documents no older than their lifetime, unless a refresh is
\* at work or went wrong within a lifetime.  (ensure_admin_snapshot)
SnapshotFresh == \A k \in Jobs : job[k].pc = "handled" =>
    \A u \in Recorded : Old(records[First(u)].at) =>
        \/ \E j \in Jobs : job[j].pc = "fetch" \/ j \in Refreshing
        \/ marker # None /\ ~Old(marker) /\ missed # None /\ ~Old(missed)

SnapshotHolds == SnapshotTrue /\ SnapshotFresh
=============================================================================
