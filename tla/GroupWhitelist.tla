-------------------------- MODULE GroupWhitelist --------------------------
(***************************************************************************)
(* The whitelist entry of one user (utils/group_whitelist.py) in a group   *)
(* that becomes a supergroup, so that its chat id changes from Old to New. *)
(*                                                                         *)
(* Redis locks guard the entry: a migration lock per chat, then a          *)
(* membership lock per (chat, user), always in that order.  A lock lasts   *)
(* ten seconds and is never renewed: it may lapse under its holder.        *)
(* Lookups fill a cache, but only while the membership lock is still       *)
(* theirs.  Tasks run concurrently and are cut at their awaits.            *)
(***************************************************************************)
EXTENDS Integers, FiniteSets, Sequences

CONSTANTS
    Tasks,       \* updates the bot handles concurrently
    None,
    MaxLapses    \* bound on the locks that lapse or are given up

VARIABLES
    entry,      \* the chats with a GroupUserWhitelistModel document
    cached,     \* the Redis key of each chat: "none", "1" or "0"
    lock,       \* the owner of each lock
    chat,       \* ChatModel.tid of the group
    task,
    lapses,
    wanted,     \* history: what the last mutation that was written asked for
    excuse      \* history: "late", "timeout", "behind", "ahead"

vars == <<entry, cached, lock, chat, task, lapses, wanted, excuse>>

Chats == {"old", "new"}
Migration(c) == <<"migration", c>>
Membership(c) == <<"membership", c>>
Locks == {"migration", "membership"} \X Chats

At(s) == [pc |-> s, kind |-> "none", chat |-> "old", need |-> <<>>, held |-> <<>>, seen |-> FALSE]

TypeOK ==
    /\ entry \in SUBSET Chats
    /\ cached \in [Chats -> {"none", "1", "0"}]
    /\ lock \in [Locks -> {None} \cup Tasks]
    /\ chat \in Chats
    /\ \A t \in Tasks :
        /\ task[t].pc \in {"new", "lock", "write", "forget", "recheck", "read", "fill",
                           "entries", "find", "move", "drop", "release", "done"}
        /\ task[t].kind \in {"none", "add", "remove", "lookup", "migrate"}
        /\ \A k \in Locks : lock[k] = t => k \in {task[t].held[i] : i \in DOMAIN task[t].held}
    /\ lapses \in 0 .. MaxLapses

Init ==
    /\ entry \in {{}, {"old"}}
    /\ cached = [c \in Chats |-> "none"]
    /\ lock = [k \in Locks |-> None]
    /\ chat = "old"
    /\ task = [t \in Tasks |-> At("new")]
    /\ lapses = 0
    /\ wanted = (entry # {})
    /\ excuse = {}

---------------------------------------------------------------------------

Go(t, s) == task' = [task EXCEPT ![t].pc = s]

Take(t, kind, keys) ==
    task' = [task EXCEPT ![t] = [At("lock") EXCEPT !.kind = kind, !.chat = chat, !.need = keys]]

\* add_user_to_group_whitelist, remove_user_from_group_whitelist
Mutate(t, kind) == Take(t, kind, <<Migration(chat), Membership(chat)>>) /\ UNCHANGED chat

\* is_user_group_whitelisted, after a first look at the cache.
Look(t) == cached[chat] = "none" /\ Take(t, "lookup", <<Membership(chat)>>) /\ UNCHANGED chat

\* do_chat_migrate saves the new id first; a second delivery of the message
\* finds no chat with the old one.
Migrate(t) ==
    /\ chat = "old" /\ chat' = "new"
    /\ Take(t, "migrate", <<Migration("old"), Migration("new")>>)

Receive(t) ==
    /\ task[t].pc = "new"
    /\ Mutate(t, "add") \/ Mutate(t, "remove") \/ Look(t) \/ Migrate(t)
    /\ UNCHANGED <<entry, cached, lock, lapses, wanted, excuse>>

\* A mutation for the old id that finds the migration under way or over.
Behind(t) ==
    /\ task[t].kind \in {"add", "remove"} /\ task[t].held = <<>>
    /\ task[t].chat = "old" /\ chat = "new"
    /\ \A u \in Tasks : ~ (task[u].kind = "migrate" /\ task[u].pc = "lock" /\ task[u].held = <<>>)

\* SET NX; with the last lock the body starts.
Acquire(t) ==
    LET k == Head(task[t].need)
        body == CASE task[t].kind = "lookup" -> "recheck"
                  [] task[t].kind = "migrate" -> IF k[1] = "migration" THEN "entries" ELSE "find"
                  [] OTHER -> "write"
    IN
    /\ task[t].pc = "lock"
    /\ lock[k] = None
    /\ lock' = [lock EXCEPT ![k] = t]
    /\ task' = [task EXCEPT ![t].need = Tail(@), ![t].held = <<k>> \o @,
                            ![t].pc = IF Len(task[t].need) = 1 THEN body ELSE "lock"]
    /\ excuse' = IF Behind(t) THEN excuse \cup {"behind"} ELSE excuse
    /\ UNCHANGED <<entry, cached, chat, lapses, wanted>>

\* Ten seconds without the lock: TimeoutError.  A migration is not repeated.
GiveUp(t) ==
    /\ task[t].pc = "lock" /\ lock[Head(task[t].need)] # None
    /\ lapses < MaxLapses /\ lapses' = lapses + 1
    /\ Go(t, "release")
    /\ excuse' = IF task[t].kind = "migrate" THEN excuse \cup {"timeout"} ELSE excuse
    /\ UNCHANGED <<entry, cached, lock, chat, wanted>>

\* A lock's ten seconds are over.  Its holder does not notice.
Lapse(k) ==
    /\ lock[k] # None
    /\ lapses < MaxLapses /\ lapses' = lapses + 1
    /\ lock' = [lock EXCEPT ![k] = None]
    /\ excuse' = IF task[lock[k]].kind = "lookup" \/ task[lock[k]].pc = "release"
                 THEN excuse ELSE excuse \cup {"late"}
    /\ UNCHANGED <<entry, cached, chat, task, wanted>>

\* _release_group_user_whitelist_lock, the last lock taken first: WATCH, GET
\* and DEL delete it only if it is still the task's.
Release(t) ==
    /\ task[t].pc = "release"
    /\ IF task[t].held = <<>>
       THEN task' = [task EXCEPT ![t] = At("done")] /\ UNCHANGED lock
       ELSE /\ task' = [task EXCEPT ![t].held = Tail(@)]
            /\ lock' = [lock EXCEPT ![Head(task[t].held)] = IF @ = t THEN None ELSE @]
    /\ UNCHANGED <<entry, cached, chat, lapses, wanted, excuse>>

---------------------------------------------------------------------------
(* The bodies *)

\* A mutation for the new id whose entry is still on its way there.
Ahead(t) ==
    /\ task[t].chat = "new"
    /\ \E u \in Tasks : task[u].kind = "migrate" /\ task[u].pc # "release"

\* add_user (an upsert) or remove_user.
Write(t) ==
    /\ task[t].pc = "write"
    /\ entry' = IF task[t].kind = "add" THEN entry \cup {task[t].chat} ELSE entry \ {task[t].chat}
    /\ wanted' = (task[t].kind = "add")
    /\ excuse' = IF Ahead(t) THEN excuse \cup {"ahead"} ELSE excuse
    /\ Go(t, "forget")
    /\ UNCHANGED <<cached, lock, chat, lapses>>

\* invalidate_group_user_whitelist_cache
Forget(t) ==
    /\ task[t].pc = "forget"
    /\ cached' = [cached EXCEPT ![task[t].chat] = "none"]
    /\ Go(t, "release")
    /\ UNCHANGED <<entry, lock, chat, lapses, wanted, excuse>>

\* The second look at the cache, under the lock.
Recheck(t) ==
    /\ task[t].pc = "recheck"
    /\ Go(t, IF cached[task[t].chat] # "none" THEN "release" ELSE "read")
    /\ UNCHANGED <<entry, cached, lock, chat, lapses, wanted, excuse>>

Read(t) ==
    /\ task[t].pc = "read"
    /\ task' = [task EXCEPT ![t].pc = "fill", ![t].seen = task[t].chat \in entry]
    /\ UNCHANGED <<entry, cached, lock, chat, lapses, wanted, excuse>>

\* Mutant: the cache is filled whether the lock is still held or not.
FillUnfenced(t) ==
    /\ task[t].pc = "fill"
    /\ cached' = [cached EXCEPT ![task[t].chat] = IF task[t].seen THEN "1" ELSE "0"]
    /\ Go(t, "release")
    /\ UNCHANGED <<entry, lock, chat, lapses, wanted, excuse>>

\* _cache_membership_if_lock_owned
Fill(t) ==
    /\ task[t].pc = "fill"
    /\ cached' = IF lock[Membership(task[t].chat)] = t
                 THEN [cached EXCEPT ![task[t].chat] = IF task[t].seen THEN "1" ELSE "0"]
                 ELSE cached
    /\ Go(t, "release")
    /\ UNCHANGED <<entry, lock, chat, lapses, wanted, excuse>>

\* The entries of the old chat, and for each the two membership locks.
Entries(t) ==
    /\ task[t].pc = "entries"
    /\ task' = IF "old" \in entry
               THEN [task EXCEPT ![t].pc = "lock", ![t].need = <<Membership("old"), Membership("new")>>]
               ELSE [task EXCEPT ![t].pc = "release"]
    /\ UNCHANGED <<entry, cached, lock, chat, lapses, wanted, excuse>>

\* find_one of the old entry, then add_user to the new chat ...
Find(t) ==
    /\ task[t].pc = "find"
    /\ IF "old" \in entry
       THEN entry' = entry \cup {"new"} /\ Go(t, "move")
       ELSE UNCHANGED entry /\ Go(t, "drop")
    /\ UNCHANGED <<cached, lock, chat, lapses, wanted, excuse>>

\* ... and old_entry.delete().
Move(t) ==
    /\ task[t].pc = "move"
    /\ entry' = entry \ {"old"}
    /\ Go(t, "drop")
    /\ UNCHANGED <<cached, lock, chat, lapses, wanted, excuse>>

\* The transaction that deletes the keys of both chats.
Drop(t) ==
    /\ task[t].pc = "drop"
    /\ cached' = [c \in Chats |-> "none"]
    /\ Go(t, "release")
    /\ UNCHANGED <<entry, lock, chat, lapses, wanted, excuse>>

\* GROUP_USER_WHITELIST_CACHE_TTL_SECONDS
Expire(c) ==
    /\ cached[c] # "none"
    /\ cached' = [cached EXCEPT ![c] = "none"]
    /\ UNCHANGED <<entry, lock, chat, task, lapses, wanted, excuse>>

Step(t) ==
    \/ Acquire(t) \/ Release(t)
    \/ Write(t) \/ Forget(t)
    \/ Recheck(t) \/ Read(t) \/ Fill(t)
    \/ Entries(t) \/ Find(t) \/ Move(t) \/ Drop(t)

Next ==
    \/ \E t \in Tasks : Receive(t) \/ GiveUp(t) \/ Step(t)
    \/ \E k \in Locks : Lapse(k)
    \/ \E c \in Chats : Expire(c)

Spec == Init /\ [][Next]_vars

---------------------------------------------------------------------------

Pending(c) ==
    \E t \in Tasks : \/ task[t].pc = "forget" /\ task[t].chat = c
                     \/ task[t].pc \in {"move", "drop"}

\* The cache disagrees with the database only while a mutation is between its
\* write and its deletion of the key: a lookup that read before the mutation,
\* however long it stalls, cannot put the old answer back
\* (_cache_membership_if_lock_owned).  Excused: a mutation that outlived its
\* own lock.
CacheFollowsEntries ==
    "late" \notin excuse =>
        \A c \in Chats : cached[c] # "none" => Pending(c) \/ (cached[c] = "1" <=> c \in entry)

\* Once the migration is over, the group's new id has the entry exactly if the
\* last mutation asked for it: "Whitelisting is persistent until an
\* administrator removes the entry" (docs/modules/whitelist.md), also for one
\* that was under way when the migration began.  Excused: a lapsed or refused
\* lock, a command for the old id served after the migration, and one for the
\* new id served before it.
MigrationKeepsIntent ==
    /\ excuse = {} /\ chat = "new"
    /\ \A t \in Tasks : task[t].pc \in {"new", "done"}
    => "old" \notin entry /\ (wanted <=> "new" \in entry)

\* Whenever tasks are under way, one of them can go on without waiting for a
\* lock to lapse: migrations and mutations take their locks in one order
\* (_group_user_whitelist_migration_locks before _group_user_whitelist_locks).
SomebodyGoesOn ==
    LET busy == {t \in Tasks : task[t].pc \notin {"new", "done"}} IN
    busy # {} => \E t \in busy : task[t].pc = "lock" => lock[Head(task[t].need)] = None
===========================================================================
