--------------------------- MODULE ModernContext ---------------------------
(***************************************************************************)
(* The AI conversation of one topic of a chat                              *)
(* (modules/ai/utils/modern_context.py, cache_messages.py).                *)
(*                                                                         *)
(* A run holds a renewable Redis lease from build to finish_run, reads the *)
(* session and the cached messages, and commits the session with its own   *)
(* turn.  A reset increments the epoch of the chat and deletes everything  *)
(* stored; sessions and leases are keyed by epoch, so that a run of an     *)
(* older epoch never meets one of the new.  Message ids grow in the order  *)
(* of Telegram.  An event is kept as the ids it shows and, for the         *)
(* properties, which of them its request quotes and which come by a way    *)
(* that a reset does not fence; every event costs one unit of the token    *)
(* budget.                                                                 *)
(***************************************************************************)
EXTENDS Integers, FiniteSets, Sequences, SequencesExt

CONSTANTS
    Jobs,        \* updates and proactive answers being handled
    None,
    Room,        \* events that fit the token budget, the request included
    MaxId,       \* bound on the messages
    MaxUpsets    \* bound on the resets and the leases that lapse, together

VARIABLES
    epoch,      \* ai:modern_context:epoch of the chat
    lock,       \* the owner of the session's lease, for each epoch
    session,    \* the stored session, for each epoch
    cache,      \* the cached rows of the chat
    newest,     \* the newest message id
    lapses,
    job,
    fence       \* history: the newest message id at the last reset

vars == <<epoch, lock, session, cache, newest, lapses, job, fence>>

Epochs == 0 .. MaxUpsets
Ids == 1 .. MaxId
Rows == [id : Ids, kind : {"chatter", "dialogue", "reply", "command"}]
Events == [kind : {"background", "turn"}, ids : SUBSET Ids, quoted : SUBSET Ids, unfenced : SUBSET Ids]

\* _Session
Empty == [watermark |-> 0, deliveries |-> {}, events |-> <<>>]

\* "quoted" is the message that "id" replies to, if it does.
At(s) == [pc |-> s, kind |-> "none", id |-> 0, quoted |-> {}, seen |-> 0, epoch |-> 0,
          state |-> Empty, reply |-> 0]

\* A session fits the token budget, and remembers no delivery that its watermark
\* has passed.
TypeOK ==
    /\ epoch \in Epochs
    /\ lock \in [Epochs -> {None} \cup Jobs]
    /\ \A e \in Epochs : session[e] # None =>
        /\ session[e].watermark \in 0 .. newest
        /\ session[e].deliveries \in SUBSET (session[e].watermark + 1 .. newest)
        /\ session[e].events \in Seq(Events)
        /\ Len(session[e].events) <= Room
    /\ cache \in SUBSET Rows
    /\ newest \in 0 .. MaxId
    /\ lapses \in 0 .. MaxUpsets - epoch
    /\ fence \in 0 .. newest
    /\ \A j \in Jobs : job[j].pc \in {"new", "acquire", "lock", "verify", "retry", "load", "build",
                                      "run", "finish", "release", "command", "answered", "cache", "done"}

Init ==
    /\ epoch = 0
    /\ lock = [e \in Epochs |-> None]
    /\ session = [e \in Epochs |-> None]
    /\ cache = {}
    /\ newest = 0
    /\ lapses = 0
    /\ job = [j \in Jobs |-> At("new")]
    /\ fence = 0

---------------------------------------------------------------------------
(* The algorithms of the session *)

Event(kind, rows) ==
    [kind |-> kind, ids |-> {r.id : r \in rows}, quoted |-> {},
     unfenced |-> {r.id : r \in {q \in rows : q.kind = "command"}}]

Background(acc) == IF acc.pending = {} THEN acc.events
                   ELSE Append(acc.events, Event("background", acc.pending))

\* One row: a message of the bot closes the turn of the dialogue before it.
IngestRow(acc, row) ==
    CASE row.kind \in {"reply", "command"} ->
            [events |-> Append(acc.events, Event("turn", acc.pending \cup {row})), pending |-> {}]
      [] row.kind = "dialogue" -> [acc EXCEPT !.pending = @ \cup {row}]
      [] OTHER -> [events |-> Append(Background(acc), Event("background", {row})), pending |-> {}]

\* _ingest: the rows past the watermark and up to the request, in order of time;
\* what the prompt shows itself and what the session has delivered is skipped.
Ingest(state, rows, request, omitted) ==
    LET new == {r \in rows : /\ state.watermark < r.id /\ r.id <= request
                             /\ r.id \notin omitted \cup state.deliveries}
        acc == FoldLeft(IngestRow, [events |-> state.events, pending |-> {}],
                        SetToSortSeq(new, LAMBDA q, r : q.id < r.id))
    IN [state EXCEPT !.events = Background(acc)]

Oldest(S, n) == {i \in S : Cardinality({k \in S : k < i}) < n}

\* Mutant: turns stay.
PruneBackground(events, room) ==
    LET background == {i \in DOMAIN events : events[i].kind = "background"}
        excess == IF Len(events) <= room THEN 0 ELSE Len(events) - (room * 4) \div 5
        kept == SetToSortSeq(DOMAIN events \ Oldest(background, excess), <)
    IN [n \in DOMAIN kept |-> events[kept[n]]]

\* _prune: a session over its budget shrinks to four fifths of it; the oldest
\* background goes first, then the oldest turns, and the newest turn stays if
\* it fits.
Prune(events, room) ==
    LET Of(kind) == {i \in DOMAIN events : events[i].kind = kind}
        excess == IF Len(events) <= room THEN 0 ELSE Len(events) - (room * 4) \div 5
        background == Oldest(Of("background"), excess)
        more == excess - Cardinality(background)
        turns == IF more >= Cardinality(Of("turn")) /\ room > 0
                 THEN Oldest(Of("turn"), Cardinality(Of("turn")) - 1)
                 ELSE Oldest(Of("turn"), more)
        kept == SetToSortSeq(DOMAIN events \ (background \cup (IF more > 0 THEN turns ELSE {})), <)
    IN [n \in DOMAIN kept |-> events[kept[n]]]

\* build, after its reads: ingest, drop the background that the request or its
\* quotation shows, advance the watermark, prune with the request in the prompt.
Build(state, rows, request, quoted) ==
    LET omitted == {request} \cup quoted
        read == Ingest(state, rows, request, omitted)
        rest == SelectSeq(read.events, LAMBDA v : v.kind = "turn" \/ v.ids \cap omitted = {})
        mark == IF request > state.watermark THEN request ELSE state.watermark
    IN [watermark |-> mark, deliveries |-> {d \in state.deliveries : d > mark},
        events |-> Prune(rest, Room - 1)]

---------------------------------------------------------------------------
(* Messages *)

Go(j, s) == job' = [job EXCEPT ![j].pc = s]

Finished(j) == job' = [job EXCEPT ![j] = At("done")]

\* The run is over, but for its lease.
Ended(j) == job' = [job EXCEPT ![j].pc = "release", ![j].quoted = {}, ![j].state = Empty, ![j].reply = 0]

\* What a message may quote; bound: one run with a quotation at a time.
Quotations(id) ==
    {{}} \cup {{q} : q \in {k \in 1 .. id - 1 : \A i \in Jobs : job[i].quoted = {}}}

\* A message arrives; CacheUserMessagesMiddleware reads the epoch before the
\* handler.  "ask" starts a run, "command" is another handler whose answer is
\* cached, "chatter" is neither.
Arrive(j, kind) ==
    /\ job[j].pc = "new" /\ newest < MaxId
    /\ newest' = newest + 1
    /\ \E quoted \in (IF kind = "ask" THEN Quotations(newest + 1) ELSE {{}}) :
       job' = [job EXCEPT ![j] = [At(CASE kind = "ask" -> "acquire" [] kind = "command" -> "command"
                                         [] OTHER -> "cache")
                                  EXCEPT !.kind = kind, !.id = newest + 1, !.quoted = quoted, !.seen = epoch]]
    /\ UNCHANGED <<epoch, lock, session, cache, lapses, fence>>

\* A proactive run answers an older message, once, with what it quotes.
Answer(j) ==
    /\ job[j].pc = "new"
    /\ \E r \in cache : \E quoted \in Quotations(r.id) :
        /\ r.kind = "chatter" /\ \A i \in Jobs : job[i].kind = "answer" => job[i].id # r.id
        /\ job' = [job EXCEPT ![j] = [At("acquire") EXCEPT !.kind = "answer", !.id = r.id, !.quoted = quoted]]
    /\ UNCHANGED <<epoch, lock, session, cache, newest, lapses, fence>>

\* cache_message(expected_epoch=...) after the handler: WATCH, GET, EXEC.
Cache(j) ==
    /\ job[j].pc = "cache"
    /\ cache' = IF job[j].seen # epoch THEN cache ELSE
                cache \cup {[id |-> job[j].id, kind |-> IF job[j].kind = "ask" THEN "dialogue" ELSE "chatter"]}
    /\ Finished(j)
    /\ UNCHANGED <<epoch, lock, session, newest, lapses, fence>>

\* Another handler answers ...
Command(j) ==
    /\ job[j].pc = "command" /\ newest < MaxId
    /\ newest' = newest + 1
    /\ job' = [job EXCEPT ![j].pc = "answered", ![j].reply = newest + 1]
    /\ UNCHANGED <<epoch, lock, session, cache, lapses, fence>>

\* ... and CacheBotMessagesMiddleware caches it, with no expected epoch.
CacheAnswer(j) ==
    /\ job[j].pc = "answered"
    /\ cache' = cache \cup {[id |-> job[j].reply, kind |-> "command"]}
    /\ job' = [job EXCEPT ![j].pc = "cache", ![j].reply = 0]
    /\ UNCHANGED <<epoch, lock, session, newest, lapses, fence>>

\* reset_modern_context, one transaction.
Reset ==
    /\ epoch + lapses < MaxUpsets
    /\ epoch' = epoch + 1
    /\ session' = [e \in Epochs |-> None]
    /\ cache' = {}
    /\ fence' = newest
    /\ UNCHANGED <<lock, newest, lapses, job>>

---------------------------------------------------------------------------
(* Runs *)

\* _acquire: read the epoch ...
Acquire(j) ==
    /\ job[j].pc = "acquire"
    /\ job' = [job EXCEPT ![j].pc = "lock", ![j].epoch = epoch]
    /\ UNCHANGED <<epoch, lock, session, cache, newest, lapses, fence>>

\* ... SET NX on the lease of that epoch, or sleep and start again ...
Lock(j) ==
    LET e == job[j].epoch IN
    /\ job[j].pc = "lock"
    /\ IF lock[e] = None
       THEN lock' = [lock EXCEPT ![e] = j] /\ Go(j, "verify")
       ELSE Go(j, "acquire") /\ UNCHANGED lock
    /\ UNCHANGED <<epoch, session, cache, newest, lapses, fence>>

\* ... and read the epoch again: after a reset, release and start again.
Verify(j) ==
    /\ job[j].pc = "verify"
    /\ Go(j, IF job[j].epoch = epoch THEN "load" ELSE "retry")
    /\ UNCHANGED <<epoch, lock, session, cache, newest, lapses, fence>>

Load(j) ==
    /\ job[j].pc = "load"
    /\ job' = [job EXCEPT ![j].pc = "build",
                 ![j].state = IF session[job[j].epoch] = None THEN Empty
                              ELSE session[job[j].epoch]]
    /\ UNCHANGED <<epoch, lock, session, cache, newest, lapses, fence>>

ReadAndBuild(j) ==
    /\ job[j].pc = "build"
    /\ job' = [job EXCEPT ![j].pc = "run", ![j].state = Build(@, cache, job[j].id, job[j].quoted)]
    /\ UNCHANGED <<epoch, lock, session, cache, newest, lapses, fence>>

\* The model answers and the answer is sent ...
Send(j) ==
    /\ job[j].pc = "run" /\ newest < MaxId
    /\ newest' = newest + 1
    /\ job' = [job EXCEPT ![j].pc = "finish", ![j].reply = newest + 1]
    /\ UNCHANGED <<epoch, lock, session, cache, lapses, fence>>

\* ... or anything raises: abort commits nothing.
Abort(j) ==
    /\ job[j].pc \in {"load", "build", "run"}
    /\ Ended(j)
    /\ UNCHANGED <<epoch, lock, session, cache, newest, lapses, fence>>

\* No fence covers the request itself and what it quotes, when they were said
\* before the epoch of the run.
Turn(j) == [kind |-> "turn", ids |-> {job[j].id, job[j].reply} \cup job[j].quoted,
            quoted |-> job[j].quoted, unfenced |-> {job[j].id} \cup job[j].quoted]

Committed(j) ==
    [job[j].state EXCEPT !.deliveries = @ \cup {job[j].reply},
                         !.events = Prune(Append(@, Turn(j)), Room)]

Commit(j) ==
    /\ session' = [session EXCEPT ![job[j].epoch] = Committed(j)]
    /\ cache' = cache \cup {[id |-> job[j].reply, kind |-> "reply"]}

\* Mutant: the epoch is not checked.
FinishObsolete(j) ==
    /\ job[j].pc = "finish"
    /\ IF lock[job[j].epoch] = j THEN Commit(j) ELSE UNCHANGED <<session, cache>>
    /\ Ended(j)
    /\ UNCHANGED <<epoch, lock, newest, lapses, fence>>

\* Mutant: the owner of the lease is not checked.
FinishUnowned(j) ==
    /\ job[j].pc = "finish"
    /\ IF job[j].epoch = epoch THEN Commit(j) ELSE UNCHANGED <<session, cache>>
    /\ Ended(j)
    /\ UNCHANGED <<epoch, lock, newest, lapses, fence>>

\* finish_run: WATCH epoch and lease, and commit only in the run's epoch and
\* as the owner of the lease.  The session and the cached answer are one
\* transaction.
Finish(j) ==
    /\ job[j].pc = "finish"
    /\ IF job[j].epoch = epoch /\ lock[epoch] = j THEN Commit(j) ELSE UNCHANGED <<session, cache>>
    /\ Ended(j)
    /\ UNCHANGED <<epoch, lock, newest, lapses, fence>>

\* _release, owner-checked; the middleware then caches the request's row.
Release(j) ==
    /\ job[j].pc \in {"retry", "release"}
    /\ lock' = [e \in Epochs |-> IF e = job[j].epoch /\ lock[e] = j THEN None ELSE lock[e]]
    /\ CASE job[j].pc = "retry" -> Go(j, "acquire")
         [] job[j].pc = "release" /\ job[j].kind = "ask" -> Go(j, "cache")
         [] OTHER -> job' = [job EXCEPT ![j] = [At("done") EXCEPT !.kind = "answer", !.id = job[j].id]]
    /\ UNCHANGED <<epoch, session, cache, newest, lapses, fence>>

\* The renewal stalls for LEASE_SECONDS, or its task is dead.  Bound: a lease that
\* nothing is done under any more, or nothing yet, does not lapse.
Lapse(e) ==
    /\ lock[e] # None /\ job[lock[e]].pc \in {"load", "build", "run", "finish"}
    /\ epoch + lapses < MaxUpsets /\ lapses' = lapses + 1
    /\ lock' = [lock EXCEPT ![e] = None]
    /\ UNCHANGED <<epoch, session, cache, newest, job, fence>>

Next ==
    \/ \E j \in Jobs :
        \/ \E kind \in {"chatter", "ask", "command"} : Arrive(j, kind)
        \/ Answer(j) \/ Cache(j) \/ Command(j) \/ CacheAnswer(j)
        \/ Acquire(j) \/ Lock(j) \/ Verify(j) \/ Load(j) \/ ReadAndBuild(j)
        \/ Send(j) \/ Abort(j) \/ Finish(j) \/ Release(j)
    \/ Reset
    \/ \E e \in Epochs : Lapse(e)

Spec == Init /\ [][Next]_vars

---------------------------------------------------------------------------

\* "Reset changes the chat epoch, ... fencing every old owner from committing
\* its obsolete state" (ModernContext): what is stored is of the current epoch,
\* and was said after the last reset, but for what has no fence: a request that
\* was on its way, what a request quotes, and answers of other handlers
\* (CacheBotMessagesMiddleware).
ResetForgets ==
    /\ \A r \in cache : r.kind # "command" => r.id > fence
    /\ \A e \in Epochs : session[e] # None =>
        /\ e = epoch
        /\ \A v \in ToSet(session[e].events) : \A i \in v.ids \ v.unfenced : i > fence

\* The model sees a message once, unless a later request quotes it: a row that was
\* cached late, out of order, as background of an earlier run or as a delivery
\* of this session is not shown a second time, and none is background that a
\* request quotes (_ingest, build).
ShownOnce ==
    \A e \in Epochs : session[e] # None =>
        LET events == session[e].events IN
        \A m, n \in DOMAIN events : m # n =>
            /\ events[m].ids \cap events[n].ids \subseteq events[m].quoted \cup events[n].quoted
            /\ events[m].kind = "background" => events[m].ids \cap events[n].ids = {}

KeepsTurns ==
    \A e \in Epochs : session[e] # None /\ session'[e] # None =>
        LET old == ToSet(session[e].events)
            new == session'[e].events
        IN \A v \in old : v.kind = "turn" /\ v \notin ToSet(new) =>
            /\ \A n \in DOMAIN new : new[n].kind = "turn"
            /\ Len(new) > 1 /\ Len(new) > ((Room - 1) * 4) \div 5

\* A turn that was committed is only ever given up for the token budget: then
\* no background is left, the newest turn but the run's own stays, and the rest
\* fills four fifths of the room.  A run whose lease lapsed does not overwrite
\* the turns of its successor (finish_run).
TurnsKept == [][KeepsTurns]_vars
===========================================================================
