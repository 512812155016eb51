---------------------------- MODULE MediaGroups ----------------------------
(***************************************************************************)
(* One Telegram album (middlewares/media_group.py).  Telegram delivers its *)
(* items as separate updates, which are handled concurrently, and never    *)
(* says that the album is complete.  Each update adds its item to a list   *)
(* in Redis; the one that gets the lock waits until no item has come for   *)
(* Delay, and hands the list to the handler.                               *)
(*                                                                         *)
(* A tick is a part of DELAY_SEC.  The handler takes any time, so the lock *)
(* may lapse under it.                                                     *)
(***************************************************************************)
EXTENDS Integers, Sequences, FiniteSets, SequencesExt

CONSTANTS
    Items,     \* message ids
    None,
    Delay,     \* DELAY_SEC
    LockTtl,   \* LOCK_TTL_SEC
    MaxTick    \* bound on the clock

VARIABLES
    list,      \* the items in Redis, in the order they were pushed
    last,      \* last_message_time, or None
    flusher,   \* the update that holds the lock, or None
    expiry,    \* when the lock lapses
    tick,
    update,    \* the update of each item
    albums,    \* history: the albums whose handler has returned
    troubles   \* history: "slow", "pause", "lapse", "crash"

vars == <<list, last, flusher, expiry, tick, update, albums, troubles>>

Waiting == {"new", "sleep", "handle", "done"}

TypeOK ==
    /\ list \in Seq(Items)
    /\ last \in {None} \cup 0 .. MaxTick
    /\ last = None <=> list = <<>>
    /\ flusher \in {None} \cup Items
    /\ tick \in 0 .. MaxTick
    /\ \A i \in Items :
        /\ update[i].pc \in Waiting \cup {"push", "lock", "last", "clock", "group", "delete", "release"}
        /\ update[i].pc \in {"sleep", "last", "clock", "group", "delete", "release", "handle"}
               /\ "lapse" \notin troubles => flusher = i
    /\ troubles \in SUBSET {"slow", "pause", "lapse", "crash"}

Init ==
    /\ list = <<>>
    /\ last = None
    /\ flusher = None
    /\ expiry = 0
    /\ tick = 0
    /\ update = [i \in Items |-> [pc |-> "new", time |-> 0, album |-> <<>>]]
    /\ albums = <<>>
    /\ troubles = {}

---------------------------------------------------------------------------

\* The time is kept as long as it is used.
Go(i, s) == update' = [update EXCEPT ![i].pc = s, ![i].time = 0]

\* An update comes: add_into_group reads the clock of Redis ...
Arrive(i) ==
    /\ update[i].pc = "new"
    /\ update' = [update EXCEPT ![i].pc = "push", ![i].time = tick]
    /\ UNCHANGED <<list, last, flusher, expiry, tick, albums, troubles>>

\* ... and stores it and pushes the item in one transaction.  The item is
\* late if the album was quiet for Delay.
Push(i) ==
    /\ update[i].pc = "push"
    /\ list' = Append(list, i)
    /\ last' = update[i].time
    /\ troubles' = IF albums # <<>> \/ (last # None /\ tick >= last + Delay)
                   THEN troubles \cup {"pause"} ELSE troubles
    /\ Go(i, "lock")
    /\ UNCHANGED <<flusher, expiry, tick, albums>>

\* acquire_lock, SET NX; another flusher will take the item.
Lock(i) ==
    /\ update[i].pc = "lock"
    /\ IF flusher = None
       THEN flusher' = i /\ expiry' = tick + LockTtl /\ Go(i, "last")
       ELSE Go(i, "done") /\ UNCHANGED <<flusher, expiry>>
    /\ UNCHANGED <<list, last, tick, albums, troubles>>

\* get_last_message_time
LastTime(i) ==
    /\ update[i].pc = "last"
    /\ update' = IF last = None THEN [update EXCEPT ![i].pc = "release"]
                 ELSE [update EXCEPT ![i].pc = "clock", ![i].time = last]
    /\ UNCHANGED <<list, last, flusher, expiry, tick, albums, troubles>>

\* get_current_time: flush after Delay of silence, sleep for the rest of it.
Clock(i) ==
    /\ update[i].pc = "clock"
    /\ update' = IF tick - update[i].time >= Delay THEN [update EXCEPT ![i].pc = "group", ![i].time = 0]
                 ELSE [update EXCEPT ![i].pc = "sleep", ![i].time = @ + Delay]
    /\ UNCHANGED <<list, last, flusher, expiry, tick, albums, troubles>>

\* Mutant: once slept, the flusher does not look again.
WakeFlush(i) ==
    /\ update[i].pc = "sleep" /\ tick >= update[i].time
    /\ Go(i, "group")
    /\ UNCHANGED <<list, last, flusher, expiry, tick, albums, troubles>>

Wake(i) ==
    /\ update[i].pc = "sleep" /\ tick >= update[i].time
    /\ Go(i, "last")
    /\ UNCHANGED <<list, last, flusher, expiry, tick, albums, troubles>>

\* Items sorted by their message ids.
InOrder(S) == CHOOSE s \in SetToSeqs(S) : \A m, n \in DOMAIN s : m < n => s[m] < s[n]

\* get_group without duplicates, sorted by message id, and the handler starts.
Group(i) ==
    /\ update[i].pc = "group"
    /\ update' = IF list = <<>> THEN [update EXCEPT ![i].pc = "release"]
                 ELSE [update EXCEPT ![i].pc = "handle", ![i].album = InOrder(ToSet(list))]
    /\ UNCHANGED <<list, last, flusher, expiry, tick, albums, troubles>>

\* The handler returns ...
Handle(i) ==
    /\ update[i].pc = "handle"
    /\ albums' = Append(albums, update[i].album)
    /\ update' = [update EXCEPT ![i].pc = "delete", ![i].album = <<>>]
    /\ UNCHANGED <<list, last, flusher, expiry, tick, troubles>>

\* ... and the album is deleted with whatever came meanwhile.
Delete(i) ==
    /\ update[i].pc = "delete"
    /\ list' = <<>> /\ last' = None
    /\ Go(i, "release")
    /\ UNCHANGED <<flusher, expiry, tick, albums, troubles>>

\* release_lock, if it is still this update's.
Release(i) ==
    /\ update[i].pc = "release"
    /\ flusher' = IF flusher = i THEN None ELSE flusher
    /\ Go(i, "done")
    /\ UNCHANGED <<list, last, expiry, tick, albums, troubles>>

\* The handler raises, and the lock is released; or the process dies.
Crash(i) ==
    /\ "crash" \notin troubles /\ troubles' = troubles \cup {"crash"}
    /\ \/ update[i].pc = "handle" /\ update' = [update EXCEPT ![i].pc = "release", ![i].album = <<>>]
       \/ update[i].pc \notin {"new", "done"} /\ update' = [update EXCEPT ![i].pc = "done", ![i].album = <<>>]
    /\ UNCHANGED <<list, last, flusher, expiry, tick, albums>>

\* Redis drops the lock.
Lapse ==
    /\ flusher # None /\ tick >= expiry
    /\ flusher' = None
    /\ troubles' = IF update[flusher].pc = "done" THEN troubles ELSE troubles \cup {"lapse"}
    /\ UNCHANGED <<list, last, expiry, tick, update, albums>>

\* Time passes.  A step other than a sleep or a handler that takes a tick is
\* slow, which happens once.
Tick ==
    LET prompt == \A i \in Items : /\ update[i].pc \in Waiting
                                   /\ update[i].pc = "sleep" => tick < update[i].time
    IN
    /\ tick < MaxTick /\ tick' = tick + 1
    /\ prompt \/ "slow" \notin troubles
    /\ troubles' = IF prompt THEN troubles ELSE troubles \cup {"slow"}
    /\ UNCHANGED <<list, last, flusher, expiry, update, albums>>

Next ==
    \/ \E i \in Items :
        \/ Arrive(i) \/ Push(i) \/ Lock(i) \/ LastTime(i) \/ Clock(i) \/ Wake(i)
        \/ Group(i) \/ Handle(i) \/ Delete(i) \/ Release(i) \/ Crash(i)
    \/ Lapse \/ Tick

Spec == Init /\ [][Next]_vars

---------------------------------------------------------------------------

Ended == \A i \in Items : update[i].pc = "done"

\* "This middleware buffers those updates and hands the handler a single
\* album list" (media_group.py): when no pause of the album reaches Delay,
\* and Redis is prompt, there is one album with every item, in order,
\* however the updates interleave.
WholeAlbum ==
    Ended /\ troubles = {} => albums = <<InOrder(Items)>>

\* An item is in two albums only if a handler failed, or outlasted the lock.
HandledOnce ==
    troubles \cap {"crash", "lapse"} = {} =>
        \A m, n \in DOMAIN albums : m # n => ToSet(albums[m]) \cap ToSet(albums[n]) = {}
===========================================================================
