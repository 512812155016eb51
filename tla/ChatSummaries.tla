--------------------------- MODULE ChatSummaries ---------------------------
(***************************************************************************)
(* The daily summaries of chats (modules/ai/schedules/                     *)
(* generate_chat_summaries.py).  Every minute one job goes through the     *)
(* chats in turn and summarises the latest completed day of each, unless   *)
(* it has a document; /op_regenerate_chat_summary does it for the running  *)
(* day of one chat, without looking.  Anything that fails ends the whole   *)
(* job, the chats that were still to come included.                        *)
(***************************************************************************)
EXTENDS Integers, FiniteSets

CONSTANTS
    LastChat,       \* the chats are 1 .. LastChat, in ForChats' order
    Hours,          \* of a day
    HourOf,         \* ai_summary_time_utc of every chat
    MaxHour,        \* bound on the clock
    Commands,       \* calls of /op_regenerate_chat_summary
    Cron,           \* the scheduled job
    None

Chats == 1 .. LastChat

Dates == 0 .. MaxHour \div Hours

Jobs == Commands \cup {Cron}

VARIABLES
    docs,       \* the AIChatSummaryModel of every chat and date
    hour,
    job,
    posted,     \* history: the summaries posted for every chat and date
    byCron,     \* history: those that the scheduled job posted
    pins,       \* history: those that were pinned
    mixed       \* history: chats and dates of two jobs at once, or with a lost answer

vars == <<docs, hour, job, posted, byCron, pins, mixed>>

Days == Chats \X Dates

\* The numbers of the posted summaries stand for their message ids.
Doc == [sent : Nat \cup {None}, pinned : BOOLEAN]

NewDoc == [sent |-> None, pinned |-> FALSE]

\* at: the hour the job began; doc: its copy of the document.
Idle == [pc |-> "idle", chat |-> 0, at |-> 0, doc |-> None]

TypeOK ==
    /\ docs \in [Days -> Doc \cup {None}]
    /\ hour \in Hours .. MaxHour
    /\ \A j \in Jobs :
        /\ job[j].pc \in {"idle", "look", "find", "save", "send", "sent", "pin", "pinned", "done"}
        /\ job[j].chat \in Chats \cup {0} /\ job[j].at \in 0 .. MaxHour
        /\ job[j].doc \in Doc \cup {None}
    /\ posted \in [Days -> Nat] /\ byCron \in [Days -> Nat]
    /\ pins \in [Days -> SUBSET Nat]
    /\ mixed \subseteq Days

Init ==
    /\ docs = [d \in Days |-> None]
    /\ hour = Hours
    /\ job = [j \in Jobs |-> Idle]
    /\ posted = [d \in Days |-> 0] /\ byCron = posted
    /\ pins = [d \in Days |-> {}]
    /\ mixed = {}

\* _build_chat_summary_window: the day whose scheduled hour has passed.
CompletedDate(chat, at) ==
    IF at % Hours >= HourOf[chat] THEN at \div Hours ELSE at \div Hours - 1

\* The chat and the date that the job is at.
DayOf(j) == <<job[j].chat,
              IF j = Cron THEN CompletedDate(job[j].chat, job[j].at) ELSE job[j].at \div Hours>>

Busy(j) == job[j].pc \notin {"idle", "done"}

Stopped(j) == [Idle EXCEPT !.pc = IF j = Cron THEN "idle" ELSE "done"]

\* The job has done with a chat.
Leave(j) ==
    job' = [job EXCEPT ![j] =
        IF j = Cron /\ job[j].chat < LastChat
        THEN [job[j] EXCEPT !.pc = "look", !.chat = @ + 1, !.doc = None]
        ELSE Stopped(j)]

Go(j, pc, doc) == job' = [job EXCEPT ![j].pc = pc, ![j].doc = doc]

\* Everybody at the day of a job that shares it with another one.
Mixed == mixed' = mixed \cup {DayOf(j)' : j \in {k \in Jobs :
    /\ job'[k].pc \notin {"idle", "done"}
    /\ \E l \in Jobs \ {k} : job'[l].pc \notin {"idle", "done"} /\ DayOf(l)' = DayOf(k)'}}

---------------------------------------------------------------------------
(* The jobs *)

Tick ==
    /\ hour < MaxHour
    /\ hour' = hour + 1
    /\ UNCHANGED <<docs, job, posted, byCron, pins, mixed>>

\* One instance of the scheduled job runs at a time.
Run ==
    /\ job[Cron].pc = "idle"
    /\ job' = [job EXCEPT ![Cron] = [Idle EXCEPT !.pc = "look", !.chat = 1, !.at = hour]]
    /\ Mixed
    /\ UNCHANGED <<docs, hour, posted, byCron, pins>>

Command(j, chat) ==
    /\ job[j].pc = "idle"
    /\ job' = [job EXCEPT ![j] = [Idle EXCEPT !.pc = "find", !.chat = chat, !.at = hour]]
    /\ Mixed
    /\ UNCHANGED <<docs, hour, posted, byCron, pins>>

\* The feature is off in the chat, or the chat has no message cache.
Skip ==
    /\ job[Cron].pc = "look"
    /\ Leave(Cron)
    /\ Mixed
    /\ UNCHANGED <<docs, hour, posted, byCron, pins>>

\* Mutant: a document whose message is not known is summarised again.
LookUnsent ==
    /\ job[Cron].pc = "look"
    /\ LET doc == docs[DayOf(Cron)] IN
       CASE doc = None -> Go(Cron, "find", None)
         [] doc # None /\ doc.pinned -> Leave(Cron)
         [] OTHER -> Go(Cron, IF doc.sent = None THEN "find" ELSE "pin", doc)
    /\ Mixed
    /\ UNCHANGED <<docs, hour, posted, byCron, pins>>

\* get_for_date: a chat that has a document may want its message pinned.
Look ==
    /\ job[Cron].pc = "look"
    /\ LET doc == docs[DayOf(Cron)] IN
       CASE doc = None -> Go(Cron, "find", None)
         [] doc # None /\ (doc.pinned \/ doc.sent = None) -> Leave(Cron)
         [] OTHER -> Go(Cron, "pin", doc)
    /\ Mixed
    /\ UNCHANGED <<docs, hour, posted, byCron, pins>>

\* Fewer than three messages, or references that the retry invents again.
Discard(j) ==
    /\ job[j].pc = "find"
    /\ Leave(j)
    /\ Mixed
    /\ UNCHANGED <<docs, hour, posted, byCron, pins>>

\* upsert_for_date reads the document, once the model has answered.
Find(j) ==
    /\ job[j].pc = "find"
    /\ Go(j, "save", docs[DayOf(j)])
    /\ UNCHANGED <<docs, hour, posted, byCron, pins, mixed>>

\* ... and saves it whole or inserts it, which the index refuses for a second
\* one.  A summary without lines is not posted.
Upsert(j, lines) ==
    /\ job[j].pc = "save"
    /\ LET day == DayOf(j)
           doc == IF job[j].doc = None THEN NewDoc ELSE job[j].doc
       IN IF job[j].doc = None /\ docs[day] # None
          THEN /\ job' = [job EXCEPT ![j] = Stopped(j)]
               /\ UNCHANGED docs
          ELSE /\ docs' = [docs EXCEPT ![day] = doc]
               /\ IF lines THEN Go(j, "send", doc) ELSE Leave(j)
    /\ Mixed
    /\ UNCHANGED <<hour, posted, byCron, pins>>

Send(j) ==
    /\ job[j].pc = "send"
    /\ LET day == DayOf(j) IN
       /\ posted' = [posted EXCEPT ![day] = @ + 1]
       /\ byCron' = [byCron EXCEPT ![day] = @ + IF j = Cron THEN 1 ELSE 0]
       /\ Go(j, "sent", [job[j].doc EXCEPT !.sent = posted'[day]])
    /\ UNCHANGED <<docs, hour, pins, mixed>>

\* pin_summary begins with a look at the copy it was given.
SaveSent(j) ==
    /\ job[j].pc = "sent"
    /\ docs' = [docs EXCEPT ![DayOf(j)] = job[j].doc]
    /\ IF job[j].doc.pinned THEN Leave(j) ELSE Go(j, "pin", job[j].doc)
    /\ Mixed
    /\ UNCHANGED <<hour, posted, byCron, pins>>

\* The feature is off, or Telegram refuses: a later run tries again.
NoPin(j) ==
    /\ job[j].pc = "pin"
    /\ Leave(j)
    /\ Mixed
    /\ UNCHANGED <<docs, hour, posted, byCron, pins>>

Pin(j) ==
    /\ job[j].pc = "pin"
    /\ pins' = [pins EXCEPT ![DayOf(j)] = @ \cup {job[j].doc.sent}]
    /\ Go(j, "pinned", [job[j].doc EXCEPT !.pinned = TRUE])
    /\ UNCHANGED <<docs, hour, posted, byCron, mixed>>

SavePinned(j) ==
    /\ job[j].pc = "pinned"
    /\ docs' = [docs EXCEPT ![DayOf(j)] = job[j].doc]
    /\ Leave(j)
    /\ Mixed
    /\ UNCHANGED <<hour, posted, byCron, pins>>

\* An exception, which handle does not catch, or the end of the process.
Stop(j) ==
    /\ Busy(j)
    /\ job' = [job EXCEPT ![j] = Stopped(j)]
    /\ mixed' = IF job[j].pc = "sent" THEN mixed \cup {DayOf(j)} ELSE mixed
    /\ UNCHANGED <<docs, hour, posted, byCron, pins>>

Next ==
    \/ Tick \/ Run \/ Skip \/ Look
    \/ \E j \in Commands, chat \in Chats : Command(j, chat)
    \/ \E j \in Jobs :
        \/ Discard(j) \/ Find(j) \/ \E lines \in BOOLEAN : Upsert(j, lines)
        \/ Send(j) \/ SaveSent(j) \/ NoPin(j) \/ Pin(j) \/ SavePinned(j) \/ Stop(j)

Spec == Init /\ [][Next]_vars

---------------------------------------------------------------------------

\* The scheduled job posts a chat's day once, whatever fails in between and
\* whatever an operator regenerates: the document is there before the message.
\* (process_chat, upsert_for_date)
PostedOnce == \A d \in Days : byCron[d] <= 1

\* It never posts a day before the chat's hour of that day.
\* (_build_chat_summary_window)
PostedLate == \A d \in Days : byCron[d] > 0 => d[2] * Hours + HourOf[d[1]] <= hour

\* Between jobs the document knows the last message that was posted, and says
\* of the only one that it is pinned when it is: unless two jobs were at the
\* day together, or one ended before it saved the message id.
DocsTrue == \A d \in Days : d \notin mixed /\ (\A j \in Jobs : Busy(j) => DayOf(j) # d) =>
    LET doc == docs[d] IN
    /\ posted[d] > 0 => doc # None /\ doc.sent = posted[d]
    /\ doc # None /\ doc.pinned => pins[d] # {} /\ (posted[d] = 1 => doc.sent \in pins[d])

SummariesHold == PostedOnce /\ PostedLate /\ DocsTrue
=============================================================================
