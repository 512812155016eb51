-------------------------- MODULE FilterEnforcement --------------------------
(***************************************************************************)
(* The filters of a group applied to its messages (modules/filters): which *)
(* match, which of their actions run, the answer and its statistics, and   *)
(* the limits on what is shown to the model.  A member's messages are      *)
(* handled one by one, those of different members at once.  What a handler *)
(* or an action does is its outcome; whether a filter matches, a choice.   *)
(* The clock has two parts of a day, of which the second is its last       *)
(* second: the lifetime of the counters is cut to whole seconds.           *)
(***************************************************************************)
EXTENDS Integers, Sequences, FiniteSets, SequencesExt

CONSTANTS
    Messages,
    Users,
    Filters,        \* the chat's filters: [ai, actions, silent]
    Exempt,         \* administrators, and members of the group's whitelist
    Exempting,      \* actions that spare them
    Deferring,      \* actions that are a text in Sophie's answer
    MaxTriggers,    \* FILTERS_MAX_TRIGGERS
    MessageLimit,   \* ai_filter_new_user_message_limit
    ChatLimit,      \* ai_filter_daily_chat_limit
    UserLimit,      \* ai_filter_daily_user_limit
    MaxTime,        \* bound on the clock
    None

VARIABLES
    row,         \* ai_filter_seen_messages of a member's row, or None
    present,     \* the members of the group
    time,
    chatCount,   \* the counters in Redis, by date: a number, and when it may expire
    userCount,
    counted,     \* filter_stats
    deletions,   \* messages whose answers DelayedDeletionService deletes
    job,
    asked,       \* history: when a message was shown to the model, on which date's counters
    performed,   \* history: what was done about every message
    ghosts       \* history: who left, and whose row was saved after that

vars == <<row, present, time, chatCount, userCount, counted, deletions, job, asked, performed, ghosts>>

history == <<asked, performed, ghosts>>

Times == 1 .. MaxTime

DateOf(t) == (t + 1) \div 2

Dates == {DateOf(t) : t \in Times}

\* "at" is when the quota was asked for; "stats", what is yet to be counted.
NoJob == [pc |-> "new", user |-> None, seen |-> None, at |-> None, hit |-> <<>>,
          todo |-> <<>>, pending |-> <<>>, stats |-> <<>>, missed |-> <<>>]

NoCount == [n |-> 0, until |-> 0]

TypeOK ==
    /\ row \in [Users -> 0 .. MessageLimit \cup {None}] /\ present \subseteq Users /\ ghosts \subseteq Users
    /\ time \in Times
    /\ \A d \in Dates : chatCount[d].n >= 0 /\ \A u \in Users : userCount[u][d].n >= 0
    /\ \A m \in Messages : ToSet(job[m].stats) \cup ToSet(job[m].missed) \subseteq DOMAIN Filters
    /\ deletions \subseteq Messages
    /\ \A m \in Messages : job[m].pc \in {"new", "match", "seen", "quota", "model", "act", "answer", "over", "failed"}

Init ==
    /\ row = [u \in Users |-> None] /\ present = {} /\ time = 1
    /\ chatCount = [d \in Dates |-> NoCount]
    /\ userCount = [u \in Users |-> [d \in Dates |-> NoCount]]
    /\ counted = [i \in DOMAIN Filters |-> 0]
    /\ deletions = {}
    /\ job = [m \in Messages |-> NoJob]
    /\ asked = [m \in Messages |-> None]
    /\ performed = [m \in Messages |-> <<>>]
    /\ ghosts = {}

Working == {m \in Messages : job[m].pc \notin {"new", "over", "failed"} \/ job[m].stats # <<>>}

Go(m, pc) == job' = [job EXCEPT ![m].pc = pc]

\* The handler is done with what it read for the prompt.
Past(m, pc) == job' = [job EXCEPT ![m].pc = pc, ![m].seen = None, ![m].at = None]

---------------------------------------------------------------------------
(* EnforceFiltersMiddleware *)

\* A member writes, who has a row by then.  Sophie's own messages, those of
\* no sender, commands of administrators and answers to a wizard are dropped.
Receive(m, u) ==
    /\ job[m].pc = "new"
    /\ \A k \in Working : job[k].user # u
    /\ present' = present \cup {u}
    /\ row' = [row EXCEPT ![u] = IF @ = None THEN 0 ELSE @]
    /\ ghosts' = ghosts \ {u}
    /\ job' = [job EXCEPT ![m] =
           [NoJob EXCEPT !.pc = "match", !.user = u, !.seen = row'[u]]]
    /\ UNCHANGED <<time, chatCount, userCount, counted, deletions, asked, performed>>

\* _is_to_drop, and the flag of filters.
Drop(m) ==
    /\ job[m].pc = "match"
    /\ Past(m, "over")
    /\ UNCHANGED <<row, present, time, chatCount, userCount, counted, deletions, history>>

\* Mutant: a name runs once for every filter.
PlanEach(hit) ==
    LET acting == SubSeq(hit, 1, IF Len(hit) < MaxTriggers THEN Len(hit) ELSE MaxTriggers)
        steps(i) == [n \in DOMAIN Filters[i].actions |-> [filter |-> i, action |-> Filters[i].actions[n]]]
    IN FoldLeft(LAMBDA plan, i : plan \o steps(i), <<>>, acting)

\* What the first filters do, a name at most once.
Plan(hit) ==
    LET acting == SubSeq(hit, 1, IF Len(hit) < MaxTriggers THEN Len(hit) ELSE MaxTriggers)
        steps(i) == [n \in DOMAIN Filters[i].actions |-> [filter |-> i, action |-> Filters[i].actions[n]]]
        add(plan, i) == plan \o SelectSeq(steps(i), LAMBDA s : \A p \in ToSet(plan) : p.action # s.action)
    IN FoldLeft(add, <<>>, acting)

Hit(m, hit) ==
    job' = [job EXCEPT ![m].pc = IF hit = <<>> THEN "over" ELSE "act", ![m].seen = None,
                       ![m].hit = hit, ![m].todo = Plan(hit)]

AIFilters == {i \in DOMAIN Filters : Filters[i].ai}

\* match_filter_handler of every filter that is no prompt; the first prompt,
\* when none of them matches.
Match(m, hits) ==
    /\ job[m].pc = "match"
    /\ hits \subseteq DOMAIN Filters \ AIFilters
    /\ IF hits = {} /\ AIFilters # {} THEN Go(m, "seen")
       ELSE Hit(m, SelectSeq([i \in DOMAIN Filters |-> i], LAMBDA i : i \in hits))
    /\ UNCHANGED <<row, present, time, chatCount, userCount, counted, deletions, history>>

\* A regular expression takes too long.
MatchFails(m) ==
    /\ job[m].pc = "match"
    /\ Past(m, "failed")
    /\ UNCHANGED <<row, present, time, chatCount, userCount, counted, deletions, history>>

\* match_ai_handler: a member for less than a day, whose row, read before, is
\* saved whole.
Seen(m) ==
    /\ job[m].pc = "seen"
    /\ LET u == job[m].user IN
       IF job[m].seen >= MessageLimit THEN Past(m, "over") /\ UNCHANGED <<row, ghosts>>
       ELSE /\ row' = [row EXCEPT ![u] = job[m].seen + 1]
            /\ ghosts' = IF u \in present THEN ghosts ELSE ghosts \cup {u}
            /\ job' = [job EXCEPT ![m].pc = "quota", ![m].seen = None, ![m].at = time]
    /\ UNCHANGED <<present, time, chatCount, userCount, counted, deletions, asked, performed>>

\* The flag is off, or the member is no new one.
NotNew(m) ==
    /\ job[m].pc = "seen"
    /\ Past(m, "over")
    /\ UNCHANGED <<row, present, time, chatCount, userCount, counted, deletions, history>>

Within(count, limit) == limit > 0 => count <= limit

\* INCR and EXPIRE: the lifetime is the whole seconds left of the day, or one.
Counts(count) == [n |-> count.n + 1, until |-> time + 1]

\* A counter is there before the part of the day in which it expires, and gone
\* after it.
Left(count) ==
    {c \in {count} : time <= count.until} \cup {c \in {NoCount} : count.until <= time}

\* consume_ai_filter_daily_quota: one transaction counts on the date it was
\* asked for, then compares.
Quota(m) ==
    /\ job[m].pc = "quota"
    /\ LET u == job[m].user
           d == DateOf(job[m].at)
       IN \E ofChat \in Left(chatCount[d]), ofUser \in Left(userCount[u][d]) :
          /\ chatCount' = [chatCount EXCEPT ![d] = Counts(ofChat)]
          /\ userCount' = [userCount EXCEPT ![u][d] = Counts(ofUser)]
          /\ IF Within(ofChat.n + 1, ChatLimit) /\ Within(ofUser.n + 1, UserLimit)
             THEN Past(m, "model") /\ asked' = [asked EXCEPT ![m] = [at |-> time, date |-> d]]
             ELSE Past(m, "over") /\ UNCHANGED asked
    /\ UNCHANGED <<row, present, time, counted, deletions, performed, ghosts>>

\* A failing model is no match.
Model(m, matches) ==
    /\ job[m].pc = "model"
    /\ Hit(m, IF matches THEN <<CHOOSE i \in AIFilters : \A j \in AIFilters : i <= j>> ELSE <<>>)
    /\ UNCHANGED <<row, present, time, chatCount, userCount, counted, deletions, history>>


\* The statistics of an action that completed, in a finally clause.
Finally(outcome) == outcome \in {"done", "late"}

\* handle_effective_filter_action: an action is done, refused, or raises, also
\* "late", in what follows what it did; what completed is to be counted, a text
\* once it is sent.
Act(m, outcome) ==
    /\ job[m].pc = "act" /\ job[m].todo # <<>> /\ job[m].stats = <<>>
    /\ LET step == Head(job[m].todo)
           spared == job[m].user \in Exempt /\ step.action \in Exempting
           text == step.action \in Deferring
           did == ~spared /\ ~text /\ outcome \in {"done", "late"}
       IN
       /\ spared => outcome = "done"
       /\ text => outcome # "late"
       /\ performed' = IF did THEN [performed EXCEPT ![m] = Append(@, step)] ELSE performed
       /\ job' = [job EXCEPT ![m] = [@ EXCEPT
              !.pc = IF outcome \in {"raises", "late"} THEN "failed" ELSE @,
              !.todo = IF outcome \in {"raises", "late"} THEN <<>> ELSE Tail(@),
              !.pending = IF outcome \in {"raises", "late"} THEN <<>>
                          ELSE IF text /\ ~spared /\ outcome = "done" THEN Append(@, step) ELSE @,
              !.stats = IF did /\ Finally(outcome) THEN <<step.filter>> ELSE <<>>]]
    /\ UNCHANGED <<row, present, time, chatCount, userCount, counted, deletions, asked, ghosts>>

\* record_filter_action, which takes an error of Redis for granted; also of a
\* handler that raised.
Record(m, kept) ==
    /\ job[m].stats # <<>>
    /\ LET i == Head(job[m].stats) IN
       /\ counted' = IF kept THEN [counted EXCEPT ![i] = @ + 1] ELSE counted
       /\ job' = [job EXCEPT ![m].stats = Tail(@), ![m].missed = IF kept THEN @ ELSE Append(@, i)]
    /\ UNCHANGED <<row, present, time, chatCount, userCount, deletions, history>>

\* _handle_action_messages: one answer for all texts, and with it their count.
\* The request may be refused, fail, or be carried out with its answer lost.
Answer(m, outcome) ==
    /\ job[m].pc = "act" /\ job[m].todo = <<>> /\ job[m].stats = <<>>
    /\ outcome # "refused" => job[m].pending # <<>>
    /\ LET texts == job[m].pending
           filters == [n \in DOMAIN texts |-> texts[n].filter]
       IN
       /\ performed' = IF outcome \in {"sent", "lost"} THEN [performed EXCEPT ![m] = @ \o texts] ELSE performed
       /\ job' = [job EXCEPT ![m] = [@ EXCEPT
              !.pc = IF outcome \in {"raises", "lost"} THEN "failed" ELSE "answer",
              !.pending = <<>>,
              !.stats = IF outcome = "sent" THEN filters ELSE @,
              !.missed = IF outcome = "lost" THEN @ \o filters ELSE @]]
    /\ UNCHANGED <<row, present, time, chatCount, userCount, counted, deletions, asked, ghosts>>

Silent(m) ==
    \E n \in DOMAIN job[m].hit : n <= MaxTriggers /\ Filters[job[m].hit[n]].silent

\* One silent filter makes the whole exchange silent; SkipHandler.
End(m) ==
    /\ job[m].pc = "answer" /\ job[m].stats = <<>>
    /\ deletions' = IF Silent(m) THEN deletions \cup {m} ELSE deletions
    /\ Go(m, "over")
    /\ UNCHANGED <<row, present, time, chatCount, userCount, counted, history>>

---------------------------------------------------------------------------

\* A member leaves or is removed, and the row is deleted.
Leave(u) ==
    /\ u \in present
    /\ present' = present \ {u}
    /\ row' = [row EXCEPT ![u] = None]
    /\ UNCHANGED <<time, chatCount, userCount, counted, deletions, job, history>>

\* Bound: the clock stands still when no message is to come to the quota.
Awaited == \E m \in Messages : job[m].pc \in {"new", "match", "seen", "quota"}

Tick ==
    /\ Awaited
    /\ time < MaxTime /\ time' = time + 1
    /\ UNCHANGED <<row, present, chatCount, userCount, counted, deletions, job, history>>

Next ==
    \/ \E m \in Messages :
        \/ \E u \in Users : Receive(m, u)
        \/ Drop(m) \/ MatchFails(m) \/ Seen(m) \/ NotNew(m) \/ Quota(m) \/ End(m)
        \/ \E hits \in SUBSET DOMAIN Filters : Match(m, hits)
        \/ \E b \in BOOLEAN : Model(m, b) \/ Record(m, b)
        \/ \E outcome \in {"done", "refused", "raises", "late"} : Act(m, outcome)
        \/ \E outcome \in {"sent", "refused", "raises", "lost"} : Answer(m, outcome)
    \/ \E u \in Users : Leave(u)
    \/ Tick

Spec == Init /\ [][Next]_vars

---------------------------------------------------------------------------

\* However updates meet, the model is shown no more messages than the chat and
\* the member may have: before the last second of a day, in it, and late on its
\* counters after midnight.  Between these parts a counter may start again.
\* (consume_ai_filter_daily_quota)
AiBounded == \A t \in Times, d \in Dates :
    LET shown == {m \in Messages : asked[m] = [at |-> t, date |-> d]} IN
    /\ Within(Cardinality(shown), ChatLimit)
    /\ \A u \in Users : Within(Cardinality({m \in shown : job[m].user = u}), UserLimit)

\* About a message an action is taken once, by a filter among the first,
\* never by a prompt when another filter matched, and none that spares who
\* sent it.  (_handle_filter_actions, _process_filters)
ActsOnce == \A m \in Messages :
    LET steps == performed[m] IN
    /\ \A i, j \in DOMAIN steps : steps[i].action = steps[j].action => i = j
    /\ Cardinality({s.filter : s \in ToSet(steps)}) <= MaxTriggers
    /\ \A s \in ToSet(steps) : s.filter \in AIFilters => asked[m] # None
    /\ job[m].user \in Exempt => \A s \in ToSet(steps) : s.action \notin Exempting

\* While nothing is left to count, the filters have counted exactly what was done
\* but for what Redis refused and answers that were lost: also what an action
\* did that raised later, and no text that was not sent.
\* (handle_effective_filter_action, record_filter_action)
Counted ==
    (\A m \in Messages : job[m].stats = <<>>) =>
        \A i \in DOMAIN Filters :
            LET did(m) == {m} \X {n \in DOMAIN performed[m] : performed[m][n].filter = i}
                lost(m) == {m} \X {n \in DOMAIN job[m].missed : job[m].missed[n] = i}
            IN counted[i] = Cardinality(UNION {did(m) : m \in Messages}) - Cardinality(UNION {lost(m) : m \in Messages})

\* After a silent filter nothing is left standing, unless an action raised.
\* (DelayedDeletionService)
SilentLeavesNothing == \A m \in Messages :
    job[m].pc = "over" /\ Silent(m) => m \in deletions

\* Who is not in the group has no row, unless it was saved after they left.
\* (_is_within_new_user_message_limit)
RowsFollow == \A u \in Users : row[u] # None => u \in present \cup ghosts

=============================================================================
