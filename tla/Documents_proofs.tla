--------------------------- MODULE Documents_proofs ---------------------------
(***************************************************************************)
(* Components that read documents, change them and save them, for all      *)
(* their constants: ReplyStream, AIQuota, ProactiveReplies, ChatSummaries, *)
(* FeatureFlags, ChatLocks and ActionWizard.                               *)
(*                                                                         *)
(* ReplyShown rests on what is left to come once a reply makes its last    *)
(* edit: no flush of the streamer (EndsCalmly), and every text, wherever   *)
(* it waits, is of one response (StreamTyped).                             *)
(*                                                                         *)
(* QuotaHolds rests on the copies of the quota document that requests hold *)
(* while others save it: none says more than was charged                   *)
(* (NoCopyOvercharges); and on how far the only request has come while     *)
(* requests come one after the other (OneRequest).                         *)
(*                                                                         *)
(* BatchesHold rests on the tracked messages that may still count (Young): *)
(* they are the latest and fewer than a batch (InTurn), so that the batch  *)
(* that is loaded next has no message that one acted on (BatchIsNew).      *)
(*                                                                         *)
(* SummariesHold rests on what the copy that a job holds of its document   *)
(* says while it is the only one at its day (CopyTrue), and on the         *)
(* scheduled job finding a document once it has posted (CronPostsOnce).    *)
(*                                                                         *)
(* FlagsHold rests on what a call that runs alone knows (QuietKnows): no   *)
(* field is outdated, and the levels it has passed are empty.              *)
(*                                                                         *)
(* LocksHold rests on what a change that runs alone is about to leave      *)
(* (AskedFor), and on what a message that nothing disturbs has been judged *)
(* by (SeesLocks).                                                         *)
(*                                                                         *)
(* WizardHolds rests on a draft being within its limit together with the   *)
(* answer it waits for (DraftFits); and, while requests do not overlap, on *)
(* the only write under way standing on what it has checked (Stands), and  *)
(* on a draft editing a filter of its own chat (Edits).                    *)
(***************************************************************************)
EXTENDS Integers, Sequences, FiniteSets, FiniteSetTheorems, TLAPS

CONSTANTS
    Calls, None,
    FlagDefault, FlagValues, Bucket, Percentages, Durations, MaxDay, MaxDeaths,   \* of FeatureFlags
    MaxResponses, MaxParts, MaxFaults,    \* of ReplyStream
    Default, Limits, Boosts, MaxMonth,    \* of AIQuota
    LastMessage, Batch, MaxActs, MaxLive, MaxAged,       \* of ProactiveReplies
    LastChat, Hours, HourOf, MaxHour, OpCommands, Cron,  \* of ChatSummaries
    LockCallers, Posts, Lockable, Filtered, Everything, Lower, Kinds, LockPayloads,
    MaxEdits, MaxSlips,                   \* of ChatLocks
    Wizards, RuleRequests, RuleChats, Rules, LockRules, Prompts, Actions, ActionPayloads,
    Asking, FilterMax, ModelMax, AiLimit, FilterIds, MaxSessions, MaxWrites   \* of ActionWizard

VARIABLES v1, v2, v3, v4, v5, v6, v7, v8, v9, v10, v11

Flags == INSTANCE FeatureFlags WITH
    Default <- FlagDefault, Values <- FlagValues,
    stored <- v1, hot <- v2, day <- v3, call <- v4, deaths <- v5, stale <- v6

Stream == INSTANCE ReplyStream WITH
    channel <- v1, emitted <- v2, response <- v3, streamer <- v4, reply <- v5, task <- v6,
    shown <- v7, ghosts <- v8, late <- v9, faults <- v10

Quotas == INSTANCE AIQuota WITH
    Jobs <- Calls,
    quotas <- v1, usages <- v2, month <- v3, job <- v4, charged <- v5, spent <- v6,
    notices <- v7, undone <- v8, alone <- v9

Summaries == INSTANCE ChatSummaries WITH
    Commands <- OpCommands,
    docs <- v1, hour <- v2, job <- v3, posted <- v4, byCron <- v5, pins <- v6, mixed <- v7

Proactive == INSTANCE ProactiveReplies WITH
    cache <- v1, tracked <- v2, aged <- v3, lock <- v4, job <- v5, served <- v6,
    done <- v7, lapsed <- v8, alone <- v9, vanished <- v10

Locks == INSTANCE ChatLocks WITH
    Calls <- LockCallers, Messages <- Posts, Types <- Lockable, Payloads <- LockPayloads,
    MaxCalls <- MaxEdits, MaxFaults <- MaxSlips,
    docs <- v1, cache <- v2, call <- v3, message <- v4, calls <- v5, faults <- v6,
    wanted <- v7, overlapped <- v8, excused <- v9

Wizard == INSTANCE ActionWizard WITH
    Admins <- Wizards, Requests <- RuleRequests, Chats <- RuleChats, Handlers <- Rules,
    LockTypes <- LockRules, AIHandlers <- Prompts, Payloads <- ActionPayloads, Ids <- FilterIds,
    stored <- v1, gone <- v2, settings <- v3, locked <- v4, connected <- v5, wizard <- v6,
    sessions <- v7, writes <- v8, job <- v9, asked <- v10, overlapped <- v11

-----------------------------------------------------------------------------
(* ReplyStream, by its own names of the slots *)

channel == v1
emitted == v2
response == v3
streamer == v4
reply == v5
task == v6
shown == v7
ghosts == v8
late == v9
faults == v10

\* The texts whose parts are all of one response.
Texts == {t \in Seq(Nat) : \A i, j \in DOMAIN t : t[i] = t[j]}

Docs == [kind : {"draft", "final", "failure", "deleted"}, text : Texts, active : BOOLEAN]

Drafts == [kind : {"draft"}, text : Texts, active : BOOLEAN]

Streamers == [latest : Texts, sent : Texts, active : BOOLEAN, rich : Docs, done : BOOLEAN]

Replies ==
    [pc : {"run", "edit", "answered", "failed", "raised", "deleting", "stuck", "over"},
     doc : Docs, flush : BOOLEAN, then : {"run", "answered", "over"}]

Tasks == [pc : {"none", "sleep", "edit", "done", "error"}, doc : Drafts]

\* Every text, wherever it is kept, is of one response.
StreamTyped ==
    /\ channel \in Texts /\ emitted \in Texts
    /\ response \in [number : Nat, parts : Nat]
    /\ response.parts > 0 => \A i \in DOMAIN channel : channel[i] = response.number
    /\ streamer \in Streamers /\ reply \in Replies /\ task \in Tasks
    /\ shown \in Docs /\ ghosts \subseteq Drafts /\ late \in BOOLEAN

\* No edit is left that the streamer may make on its own.
Calm == task.pc \notin {"sleep", "edit"}

\* From the last edit on nothing is left to come after it.
EndsCalmly ==
    /\ reply.pc = "edit" =>
        \/ reply.then \in {"run", "answered"} /\ reply.doc \in Drafts
        \/ reply.then = "over" /\ reply.doc \in {Stream!End("final"), Stream!End("failure")} /\ Calm
    /\ reply.pc \in {"deleting", "stuck", "over"} => Calm
    /\ streamer.done => reply.pc = "over" /\ (shown = Stream!End("final") \/ late)
    /\ reply.pc = "over" => shown.kind # "draft" \/ late
    /\ shown = Stream!End("deleted") => reply.pc = "over"

StreamInv == StreamTyped /\ EndsCalmly

USE DEF channel, emitted, response, streamer, reply, task, shown, ghosts, late, faults

\* A draft of a text of one response, and the documents that end a reply.
LEMMA DocsDo ==
    /\ \A t \in Texts, active \in BOOLEAN : Stream!Draft(t, active) \in Drafts
    /\ \A kind \in {"final", "failure", "deleted"} :
          Stream!End(kind) \in Docs /\ Stream!End(kind).kind = kind
    /\ <<>> \in Texts /\ Drafts \subseteq Docs /\ Stream!Placeholder \in Drafts
    /\ \A n \in Nat : <<n>> \in Texts
    /\ Stream!Idle \in Tasks /\ Stream!Idle.pc = "none"
    /\ \A step \in {"none", "sleep", "edit", "done", "error"} :
          [Stream!Idle EXCEPT !.pc = step] \in Tasks /\ [Stream!Idle EXCEPT !.pc = step].pc = step
<1>1. <<>> \in Texts /\ \A n \in Nat : <<n>> \in Texts
  BY DEF Texts
<1>2. \A t \in Texts, active \in BOOLEAN : Stream!Draft(t, active) \in Drafts
  BY DEF Stream!Draft, Drafts
<1>3. Drafts \subseteq Docs
  BY DEF Drafts, Docs
<1>4. Stream!Placeholder \in Drafts
  BY <1>1, <1>2 DEF Stream!Placeholder
<1>5. ASSUME NEW kind \in {"final", "failure", "deleted"}
      PROVE  Stream!End(kind) \in Docs /\ Stream!End(kind).kind = kind
  <2>1. Stream!Draft(<<>>, FALSE) \in Drafts
    BY <1>1, <1>2
  <2> QED
    BY <2>1 DEF Stream!End, Drafts, Docs
<1>6. \A step \in {"none", "sleep", "edit", "done", "error"} :
          [Stream!Idle EXCEPT !.pc = step] = [pc |-> step, doc |-> Stream!Placeholder]
  BY DEF Stream!Idle
<1>7. Stream!Idle = [pc |-> "none", doc |-> Stream!Placeholder]
  BY DEF Stream!Idle
<1> QED
  BY <1>1, <1>2, <1>3, <1>4, <1>5, <1>6, <1>7 DEF Tasks

\* What the streamer does for the run: it goes on, raises or waits for an
\* edit with a draft.
Goes(done, then) ==
    /\ streamer' \in Streamers /\ streamer'.done = done
    /\ reply' \in Replies /\ task' \in Tasks /\ ghosts' \subseteq Drafts
    /\ \/ reply'.pc \in {then, "raised"}
       \/ reply'.pc = "edit" /\ reply'.then = then /\ reply'.doc \in Drafts

LEMMA KeepsTask ==
    ASSUME StreamTyped, Stream!Cancel \/ Stream!Keep
    PROVE  task' \in Tasks /\ ghosts' \subseteq Drafts
<1>1. CASE Stream!Cancel
  BY <1>1, DocsDo DEF Stream!Cancel, StreamTyped, Tasks
<1>2. CASE Stream!Keep
  BY <1>2 DEF Stream!Keep, StreamTyped
<1> QED
  BY <1>1, <1>2

\* The reply goes to that step.
LEMMA ReplyAt ==
    ASSUME StreamTyped,
           NEW step \in {"run", "edit", "answered", "failed", "raised", "deleting", "stuck", "over"},
           reply' = [reply EXCEPT !.pc = step]
    PROVE  reply' \in Replies /\ reply'.pc = step
BY DEF StreamTyped, Replies

LEMMA RaiseGoes ==
    ASSUME StreamTyped, NEW s \in Streamers, Stream!Raise, streamer' = s, NEW then
    PROVE  Goes(s.done, then)
<1>1. reply' \in Replies /\ reply'.pc = "raised"
  BY ReplyAt DEF Stream!Raise
<1> QED
  BY <1>1, DocsDo DEF Goes, Stream!Raise, StreamTyped

LEMMA EditGoes ==
    ASSUME StreamTyped, NEW s \in Streamers, NEW doc \in Drafts, NEW flush \in BOOLEAN,
           NEW then \in {"run", "answered"}, Stream!Edit(s, doc, flush, then),
           Stream!Cancel \/ Stream!Keep
    PROVE  Goes(s.done, then)
<1>1. CASE doc = s.rich
  <2> DEFINE sent == IF flush THEN s.latest ELSE doc.text
  <2>1. sent \in Texts
    BY DEF Streamers, Drafts
  <2>2. streamer' = [s EXCEPT !.sent = sent]
    BY <1>1 DEF Stream!Edit
  <2> HIDE DEF sent
  <2>3. streamer' \in Streamers /\ streamer'.done = s.done
    BY <2>1, <2>2 DEF Streamers
  <2>4. reply' \in Replies /\ reply'.pc = then
    BY <1>1, ReplyAt DEF Stream!Edit
  <2> QED
    BY <2>3, <2>4, KeepsTask DEF Goes
<1>2. CASE doc # s.rich
  <2>1. streamer' = s /\ reply' = [pc |-> "edit", doc |-> doc, flush |-> flush, then |-> then]
    BY <1>2 DEF Stream!Edit
  <2>2. reply' \in Replies /\ reply'.pc = "edit" /\ reply'.then = then /\ reply'.doc = doc
    BY <2>1, DocsDo DEF Replies
  <2> QED
    BY <2>1, <2>2, KeepsTask DEF Goes
<1> QED
  BY <1>1, <1>2

LEMMA RefreshGoes ==
    ASSUME StreamTyped, NEW s \in Streamers, NEW then \in {"run", "answered"},
           Stream!Refresh(s, then)
    PROVE  Goes(s.done, then)
<1>1. CASE task.pc = "error"
  BY <1>1, RaiseGoes DEF Stream!Refresh
<1>2. CASE task.pc # "error"
  <2> DEFINE draft == IF s.latest # <<>> THEN s.latest ELSE s.sent
  <2>1. draft \in Texts /\ s.active \in BOOLEAN
    BY DEF Streamers
  <2>2. Stream!Cancel /\ Stream!Edit(s, Stream!Draft(draft, s.active), FALSE, then)
    BY <1>2 DEF Stream!Refresh
  <2>3. Stream!Draft(draft, s.active) \in Drafts
    BY <2>1, DocsDo
  <2> HIDE DEF draft
  <2> QED
    BY <2>2, <2>3, EditGoes
<1> QED
  BY <1>1, <1>2

LEMMA ScheduleGoes ==
    ASSUME StreamTyped, NEW s \in Streamers, NEW then \in {"run", "answered"},
           Stream!Schedule(s, then)
    PROVE  Goes(s.done, then)
<1>1. CASE task.pc = "error"
  BY <1>1, RaiseGoes DEF Stream!Schedule
<1>2. CASE task.pc # "error"
  <2>1. reply' \in Replies /\ reply'.pc = then
    BY <1>2, ReplyAt DEF Stream!Schedule
  <2>2. task' \in Tasks
    BY <1>2, DocsDo DEF Stream!Schedule, StreamTyped
  <2> QED
    BY <1>2, <2>1, <2>2 DEF Stream!Schedule, Goes, StreamTyped
<1> QED
  BY <1>1, <1>2

LEMMA StreamTextGoes ==
    ASSUME StreamTyped, NEW t \in Texts, NEW throttled \in BOOLEAN,
           NEW then \in {"run", "answered"}, Stream!StreamText(t, throttled, then)
    PROVE  Goes(streamer.done, then)
<1> DEFINE s == [streamer EXCEPT !.latest = t, !.active = FALSE]
<1>1. s \in Streamers /\ s.done = streamer.done
  BY DEF StreamTyped, Streamers
<1>2. \/ Stream!Refresh(s, then)
      \/ Stream!Schedule(s, then)
      \/ Stream!Raise /\ streamer' = s
      \/ Stream!Cancel /\ streamer' = s /\ reply' = [reply EXCEPT !.pc = then]
      \/ Stream!Cancel /\ Stream!Edit(s, Stream!Draft(t, FALSE), TRUE, then)
  BY DEF Stream!StreamText
<1> HIDE DEF s
<1>3. CASE Stream!Refresh(s, then)
  BY <1>1, <1>3, RefreshGoes
<1>4. CASE Stream!Schedule(s, then)
  BY <1>1, <1>4, ScheduleGoes
<1>5. CASE Stream!Raise /\ streamer' = s
  BY <1>1, <1>5, RaiseGoes
<1>6. CASE Stream!Cancel /\ streamer' = s /\ reply' = [reply EXCEPT !.pc = then]
  <2>1. reply' \in Replies /\ reply'.pc = then
    BY <1>6, ReplyAt
  <2> QED
    BY <1>1, <1>6, <2>1, KeepsTask DEF Goes
<1>7. CASE Stream!Cancel /\ Stream!Edit(s, Stream!Draft(t, FALSE), TRUE, then)
  <2>1. Stream!Draft(t, FALSE) \in Drafts
    BY DocsDo
  <2> QED
    BY <1>1, <1>7, <2>1, EditGoes
<1> QED
  BY <1>2, <1>3, <1>4, <1>5, <1>6, <1>7

\* A step of the run keeps the invariant, once its texts are of one response.
LEMMA RunKeeps ==
    ASSUME StreamInv, reply.pc = "run", NEW then \in {"run", "answered"},
           Goes(streamer.done, then), UNCHANGED <<shown, late>>,
           channel' \in Texts /\ emitted' \in Texts,
           response' \in [number : Nat, parts : Nat],
           response'.parts > 0 => \A i \in DOMAIN channel' : channel'[i] = response'.number
    PROVE  StreamInv'
<1>1. ~ streamer.done /\ shown # Stream!End("deleted")
  BY DEF StreamInv, EndsCalmly, StreamTyped, Streamers
<1>2. StreamTyped'
  BY DEF Goes, StreamInv, StreamTyped
<1>3. EndsCalmly'
  BY <1>1, <1>2 DEF Goes, StreamTyped, EndsCalmly, Calm
<1> QED
  BY <1>2, <1>3 DEF StreamInv

\* A part that is added is of the response under way.
LEMMA PartDoes ==
    ASSUME StreamTyped
    PROVE  Stream!Part \in Texts /\ \A i \in DOMAIN Stream!Part : Stream!Part[i] = response.number
<1>1. CASE response.parts = 0
  BY <1>1 DEF Stream!Part, StreamTyped, Texts
<1>2. CASE response.parts # 0
  <2>1. /\ Stream!Part = Append(channel, response.number)
        /\ channel \in Seq(Nat) /\ response.number \in Nat
        /\ \A i \in DOMAIN channel : channel[i] = response.number
    BY <1>2 DEF Stream!Part, StreamTyped, Texts
  <2>2. /\ Stream!Part \in Seq(Nat)
        /\ \A i \in DOMAIN Stream!Part : Stream!Part[i] = response.number
    BY <2>1
  <2> QED
    BY <2>2 DEF Texts
<1> QED
  BY <1>1, <1>2

LEMMA StreamBegins ==
    ASSUME Stream!Init PROVE StreamInv
<1>1. StreamTyped
  <2>1. streamer \in Streamers
    BY DocsDo DEF Stream!Init, Streamers
  <2>2. reply \in Replies
    BY DocsDo DEF Stream!Init, Replies
  <2>3. /\ channel = <<>> /\ emitted = <<>> /\ response = [number |-> 1, parts |-> 0]
        /\ task = Stream!Idle /\ shown = Stream!Placeholder /\ ghosts = {} /\ late = FALSE
    BY DEF Stream!Init
  <2>4. response \in [number : Nat, parts : Nat] /\ response.parts = 0
    BY <2>3
  <2>5. task \in Tasks /\ shown \in Docs /\ ghosts \subseteq Drafts /\ late \in BOOLEAN
    BY <2>3, DocsDo
  <2> QED
    BY <2>1, <2>2, <2>3, <2>4, <2>5, DocsDo DEF StreamTyped
<1>2. EndsCalmly
  BY DocsDo DEF Stream!Init, EndsCalmly, Drafts
<1> QED
  BY <1>1, <1>2 DEF StreamInv

\* The steps of the run.
LEMMA RunSteps ==
    ASSUME StreamInv,
           \/ Stream!PartEvent \/ Stream!ForceText \/ Stream!ToolCall \/ Stream!Activity
           \/ Stream!Output
    PROVE  StreamInv'
<1>0. StreamTyped /\ response.number \in Nat /\ response.parts \in Nat
  BY DEF StreamInv, StreamTyped
<1>1. CASE Stream!PartEvent
  <2> DEFINE new == [response EXCEPT !.parts = @ + 1]
  <2>1. new \in [number : Nat, parts : Nat] /\ new.number = response.number
    BY <1>0 DEF StreamTyped
  <2>2. response' = new /\ channel' = Stream!Part /\ reply.pc = "run" /\ UNCHANGED <<shown, late>>
    BY <1>1 DEF Stream!PartEvent
  <2>3. channel' \in Texts /\ \A i \in DOMAIN channel' : channel'[i] = response'.number
    BY <1>0, <2>1, <2>2, PartDoes
  <2> HIDE DEF new
  <2>4. CASE emitted' = (IF response.parts = 0 THEN <<>> ELSE emitted) /\ UNCHANGED <<streamer, reply>> /\ Stream!Keep
    <3>1. emitted' \in Texts
      BY <1>0, <2>4, DocsDo DEF StreamTyped
    <3>2. Goes(streamer.done, "run")
      BY <1>0, <2>2, <2>4, KeepsTask DEF Goes, StreamTyped
    <3> QED
      BY <2>1, <2>2, <2>3, <3>1, <3>2, RunKeeps
  <2>5. CASE emitted' = channel' /\ \E throttled \in BOOLEAN : Stream!StreamText(channel', throttled, "run")
    <3>1. Goes(streamer.done, "run")
      BY <1>0, <2>3, <2>5, StreamTextGoes
    <3> QED
      BY <2>1, <2>2, <2>3, <2>5, <3>1, RunKeeps
  <2> QED
    BY <1>1, <2>4, <2>5 DEF Stream!PartEvent
<1>2. CASE Stream!ForceText
  <2>1. Goes(streamer.done, "run")
    BY <1>0, <1>2, StreamTextGoes DEF Stream!ForceText, StreamTyped
  <2> QED
    BY <1>0, <1>2, <2>1, RunKeeps DEF Stream!ForceText, StreamTyped
<1>3. CASE Stream!ToolCall
  <2> DEFINE s == [streamer EXCEPT !.active = TRUE]
  <2>1. s \in Streamers /\ s.done = streamer.done
    BY <1>0 DEF StreamTyped, Streamers
  <2>2. Stream!Refresh(s, "run")
    BY <1>3 DEF Stream!ToolCall
  <2> HIDE DEF s
  <2>3. Goes(streamer.done, "run")
    BY <1>0, <2>1, <2>2, RefreshGoes
  <2>4. response' \in [number : Nat, parts : Nat] /\ response'.parts = 0
    BY <1>0, <1>3 DEF Stream!ToolCall
  <2> QED
    BY <1>0, <1>3, <2>3, <2>4, RunKeeps DEF Stream!ToolCall, StreamTyped
<1>4. CASE Stream!Activity
  <2> DEFINE s == [streamer EXCEPT !.active = TRUE]
  <2>1. s \in Streamers /\ s.done = streamer.done
    BY <1>0 DEF StreamTyped, Streamers
  <2>2. Stream!Refresh(s, "run")
    BY <1>4 DEF Stream!Activity
  <2> HIDE DEF s
  <2>3. Goes(streamer.done, "run")
    BY <1>0, <2>1, <2>2, RefreshGoes
  <2> QED
    BY <1>0, <1>4, <2>3, RunKeeps DEF Stream!Activity, Stream!text, StreamTyped
<1>5. CASE Stream!Output
  <2>1. channel' \in Texts /\ (response.parts > 0 => \A i \in DOMAIN channel' : channel'[i] = response.number)
    BY <1>0, <1>5, DocsDo DEF Stream!Output, StreamTyped
  <2>2. emitted' = channel' /\ response' = response /\ reply.pc = "run" /\ UNCHANGED <<shown, late>>
    BY <1>5 DEF Stream!Output
  <2>3. Goes(streamer.done, "answered")
    <3>1. CASE channel' = emitted
      <4>1. reply' \in Replies /\ reply'.pc = "answered"
        BY <1>0, <1>5, <3>1, ReplyAt DEF Stream!Output
      <4> QED
        BY <1>0, <1>5, <3>1, <4>1, KeepsTask DEF Stream!Output, Goes, StreamTyped
    <3>2. CASE channel' # emitted
      BY <1>0, <1>5, <2>1, <3>2, StreamTextGoes DEF Stream!Output
    <3> QED
      BY <3>1, <3>2
  <2> QED
    BY <1>0, <2>1, <2>2, <2>3, RunKeeps DEF StreamTyped
<1> QED
  BY <1>1, <1>2, <1>3, <1>4, <1>5

\* What Telegram applies is shown, unless the message is gone.
LEMMA LandDoes ==
    ASSUME StreamTyped, NEW doc \in Docs, Stream!Land(doc)
    PROVE  /\ shown' \in Docs
           /\ shown # Stream!End("deleted") => shown' = doc
           /\ shown = Stream!End("deleted") => shown' = shown
BY DEF Stream!Land, StreamTyped

\* The streamer takes note of an edit that is done.
LEMMA SentDoes ==
    ASSUME StreamTyped, NEW doc \in Docs, NEW flush \in BOOLEAN, Stream!Sent(doc, flush)
    PROVE  streamer' \in Streamers /\ streamer'.done = (doc = Stream!End("final"))
<1> DEFINE sent == IF flush THEN streamer.latest ELSE doc.text
           done == doc = Stream!End("final")
<1>1. sent \in Texts /\ done \in BOOLEAN /\ streamer \in Streamers
  BY DEF StreamTyped, Streamers, Docs
<1>2. streamer' = [streamer EXCEPT !.rich = doc, !.sent = sent, !.done = done]
  BY DEF Stream!Sent
<1> HIDE DEF sent
<1>3. [streamer EXCEPT !.rich = doc, !.sent = sent, !.done = done] \in Streamers
  BY <1>1 DEF Streamers
<1>4. streamer'.done = done
  BY <1>1, <1>2 DEF Streamers
<1> QED
  BY <1>2, <1>3, <1>4

LEMMA ReturnDoes ==
    ASSUME StreamTyped, NEW step \in {"run", "answered", "raised", "over"}, Stream!Return(step)
    PROVE  reply' \in Replies /\ reply'.pc = step
BY DocsDo DEF Stream!Return, StreamTyped, Replies

\* Only the end is no draft.
LEMMA EndsDiffer ==
    /\ \A doc \in Drafts : doc # Stream!End("final") /\ doc # Stream!End("deleted")
    /\ Stream!End("final") # Stream!End("deleted") /\ Stream!End("failure") # Stream!End("deleted")
    /\ Stream!End("final").kind # "draft" /\ Stream!End("failure").kind # "draft"
    /\ Stream!End("deleted").kind # "draft"
BY DocsDo DEF Drafts

LEMMA FailKeeps ==
    ASSUME StreamInv, NEW how \in {"failed", "raised"}, Stream!Fail(how) PROVE StreamInv'
<1>1. /\ reply.pc = "run" /\ reply' \in Replies /\ reply'.pc = how
      /\ UNCHANGED <<channel, emitted, response, streamer, task, shown, ghosts, late>>
  BY ReplyAt DEF Stream!Fail, Stream!text, StreamInv
<1>2. StreamTyped'
  BY <1>1 DEF StreamInv, StreamTyped
<1>3. EndsCalmly'
  BY <1>1 DEF StreamInv, EndsCalmly, Calm
<1> QED
  BY <1>2, <1>3 DEF StreamInv

LEMMA EditDoneKeeps ==
    ASSUME StreamInv, Stream!EditDone PROVE StreamInv'
<1>1. /\ reply.pc = "edit" /\ reply.doc \in Docs /\ reply.flush \in BOOLEAN
      /\ reply.then \in {"run", "answered", "over"} /\ StreamTyped
      /\ UNCHANGED <<channel, emitted, response, task, ghosts, late>>
  BY DEF Stream!EditDone, Stream!text, StreamInv, StreamTyped, Replies
<1>2. reply' \in Replies /\ reply'.pc = reply.then
  BY <1>1, ReturnDoes DEF Stream!EditDone
<1>3. shown' \in Docs /\ shown' = reply.doc
  BY <1>1, LandDoes DEF Stream!EditDone, StreamInv, EndsCalmly
<1>4. streamer' \in Streamers /\ streamer'.done = (reply.doc = Stream!End("final"))
  BY <1>1, SentDoes DEF Stream!EditDone
<1>5. StreamTyped'
  BY <1>1, <1>2, <1>3, <1>4 DEF StreamTyped
<1>6. EndsCalmly'
  BY <1>1, <1>2, <1>3, <1>4, EndsDiffer DEF StreamInv, EndsCalmly, Calm
<1> QED
  BY <1>5, <1>6 DEF StreamInv

LEMMA EditFailsKeeps ==
    ASSUME StreamInv, Stream!EditFails PROVE StreamInv'
<1>1. /\ reply.pc = "edit" /\ reply' \in Replies /\ reply'.pc = "raised"
      /\ UNCHANGED <<channel, emitted, response, streamer, task, shown, ghosts, late>>
  BY ReturnDoes DEF Stream!EditFails, Stream!text, StreamInv
<1>2. StreamTyped'
  BY <1>1 DEF StreamInv, StreamTyped
<1>3. EndsCalmly'
  BY <1>1 DEF StreamInv, EndsCalmly, Calm
<1> QED
  BY <1>2, <1>3 DEF StreamInv

\* Before the last edit the pending one is cancelled.
LEMMA FinishKeeps ==
    ASSUME StreamInv, Stream!Finish PROVE StreamInv'
<1>1. /\ reply.pc \in {"answered", "failed"} /\ StreamTyped
      /\ UNCHANGED <<channel, emitted, response, streamer, shown, late>>
  BY DEF Stream!Finish, Stream!text, StreamInv
<1>2. ~ streamer.done /\ shown # Stream!End("deleted")
  BY <1>1 DEF StreamInv, EndsCalmly, StreamTyped, Streamers
<1>3. CASE task.pc = "error"
  <2>1. Stream!Raise
    BY <1>3 DEF Stream!Finish
  <2>2. reply' \in Replies /\ reply'.pc = "raised" /\ task' \in Tasks /\ ghosts' = ghosts
    BY <1>1, <2>1, ReplyAt, DocsDo DEF Stream!Raise
  <2>3. StreamTyped'
    BY <1>1, <2>2 DEF StreamTyped
  <2> QED
    BY <1>1, <1>2, <2>2, <2>3 DEF StreamInv, EndsCalmly
<1>4. CASE task.pc # "error"
  <2> DEFINE doc == Stream!End(IF reply.pc = "answered" THEN "final" ELSE "failure")
  <2>1. doc \in Docs /\ doc \in {Stream!End("final"), Stream!End("failure")}
    BY DocsDo
  <2>2. Stream!Cancel /\ reply' = [pc |-> "edit", flush |-> FALSE, then |-> "over", doc |-> doc]
    BY <1>4 DEF Stream!Finish
  <2>3. task'.pc = "none" /\ task' \in Tasks /\ ghosts' \subseteq Drafts
    BY <1>1, <2>2, KeepsTask, DocsDo DEF Stream!Cancel
  <2> HIDE DEF doc
  <2>4. reply' \in Replies /\ reply'.pc = "edit" /\ reply'.then = "over" /\ reply'.doc = doc
    BY <2>1, <2>2 DEF Replies
  <2>5. StreamTyped'
    BY <1>1, <2>3, <2>4 DEF StreamTyped
  <2> QED
    BY <1>1, <1>2, <2>1, <2>3, <2>4, <2>5 DEF StreamInv, EndsCalmly, Calm
<1> QED
  BY <1>3, <1>4

LEMMA CleanUpKeeps ==
    ASSUME StreamInv, Stream!CleanUp PROVE StreamInv'
<1>1. /\ reply.pc = "raised" /\ StreamTyped
      /\ UNCHANGED <<channel, emitted, response, streamer, shown, late>>
  BY DEF Stream!CleanUp, Stream!text, StreamInv
<1>2. ~ streamer.done /\ shown # Stream!End("deleted")
  BY <1>1 DEF StreamInv, EndsCalmly, StreamTyped, Streamers
<1>3. reply' \in Replies /\ reply'.pc = "deleting"
  BY <1>1, <1>2, ReplyAt DEF Stream!CleanUp
<1>4. task' = Stream!Idle /\ ghosts' \subseteq Drafts
  BY <1>1, KeepsTask DEF Stream!CleanUp, Stream!Cancel, StreamTyped
<1>5. StreamTyped'
  BY <1>1, <1>3, <1>4, DocsDo DEF StreamTyped
<1>6. EndsCalmly'
  BY <1>1, <1>2, <1>3, <1>4, DocsDo DEF EndsCalmly, Calm
<1> QED
  BY <1>5, <1>6 DEF StreamInv

LEMMA DeleteKeeps ==
    ASSUME StreamInv, Stream!Delete PROVE StreamInv'
<1>1. /\ reply.pc = "deleting" /\ StreamTyped
      /\ UNCHANGED <<channel, emitted, response, streamer, task, ghosts, late>>
  BY DEF Stream!Delete, Stream!text, StreamInv
<1>2. \/ shown' = Stream!End("deleted") /\ reply' = [reply EXCEPT !.pc = "over"]
      \/ shown' = shown /\ reply' = [reply EXCEPT !.pc = "stuck"]
  BY DEF Stream!Delete
<1>3. /\ reply' \in Replies /\ shown' \in Docs
      /\ \/ reply'.pc = "over" /\ shown' = Stream!End("deleted")
         \/ reply'.pc = "stuck" /\ shown' = shown
  BY <1>1, <1>2, ReplyAt, DocsDo DEF StreamTyped
<1>4. StreamTyped'
  BY <1>1, <1>3 DEF StreamTyped
<1>5. EndsCalmly'
  BY <1>1, <1>3, EndsDiffer DEF StreamInv, EndsCalmly, Calm
<1> QED
  BY <1>4, <1>5 DEF StreamInv

\* A task that wakes takes the latest text.
LEMMA WakeKeeps ==
    ASSUME StreamInv, Stream!Wake PROVE StreamInv'
<1> DEFINE doc == Stream!Draft(streamer.latest, streamer.active)
           kept == [streamer EXCEPT !.sent = streamer.latest]
<1>1. /\ task.pc = "sleep" /\ StreamTyped /\ streamer \in Streamers
      /\ UNCHANGED <<channel, emitted, response, reply, shown, ghosts, late>>
  BY DEF Stream!Wake, Stream!text, StreamInv, StreamTyped
<1>2. doc \in Drafts
  BY <1>1, DocsDo DEF Streamers
<1>3. kept \in Streamers /\ kept.done = streamer.done
  BY <1>1 DEF Streamers
<1>4. /\ task' = [Stream!Idle EXCEPT !.pc = "done"] \/ task' = [pc |-> "edit", doc |-> doc]
      /\ streamer' = streamer \/ streamer' = kept
  BY DEF Stream!Wake
<1> HIDE DEF doc, kept
<1>5. task' \in Tasks
  BY <1>2, <1>4, DocsDo DEF Tasks
<1>6. streamer' \in Streamers /\ streamer'.done = streamer.done
  BY <1>1, <1>3, <1>4
<1>7. StreamTyped'
  BY <1>1, <1>5, <1>6 DEF StreamTyped
<1>8. EndsCalmly'
  BY <1>1, <1>6 DEF StreamInv, EndsCalmly, Calm
<1> QED
  BY <1>7, <1>8 DEF StreamInv

LEMMA TaskDoneKeeps ==
    ASSUME StreamInv, Stream!TaskDone PROVE StreamInv'
<1>1. /\ task.pc = "edit" /\ StreamTyped /\ task.doc \in Drafts /\ task.doc \in Docs
      /\ task' = [Stream!Idle EXCEPT !.pc = "done"]
      /\ UNCHANGED <<channel, emitted, response, reply, ghosts, late>>
  BY DocsDo DEF Stream!TaskDone, Stream!text, StreamInv, StreamTyped, Tasks
<1>2. reply.pc \notin {"deleting", "stuck", "over"} /\ shown # Stream!End("deleted")
  BY <1>1 DEF StreamInv, EndsCalmly, Calm
<1>3. shown' \in Docs /\ shown' = task.doc
  BY <1>1, <1>2, LandDoes DEF Stream!TaskDone
<1>4. streamer' \in Streamers /\ streamer'.done = FALSE
  BY <1>1, SentDoes, EndsDiffer DEF Stream!TaskDone
<1>5. StreamTyped' /\ task'.pc = "done"
  BY <1>1, <1>3, <1>4, DocsDo DEF StreamTyped
<1>6. EndsCalmly'
  BY <1>1, <1>2, <1>3, <1>4, <1>5, EndsDiffer DEF StreamInv, EndsCalmly, Calm
<1> QED
  BY <1>5, <1>6 DEF StreamInv

LEMMA TaskFailsKeeps ==
    ASSUME StreamInv, Stream!TaskFails PROVE StreamInv'
<1>1. /\ task' \in Tasks /\ task'.pc = "error"
      /\ UNCHANGED <<channel, emitted, response, streamer, reply, shown, ghosts, late>>
  BY DocsDo DEF Stream!TaskFails, Stream!text
<1>2. StreamTyped'
  BY <1>1 DEF StreamInv, StreamTyped
<1>3. EndsCalmly'
  BY <1>1 DEF StreamInv, EndsCalmly, Calm
<1> QED
  BY <1>2, <1>3 DEF StreamInv

\* An edit that lands late is a draft.
LEMMA GhostKeeps ==
    ASSUME StreamInv, NEW doc \in ghosts, Stream!GhostLands(doc) PROVE StreamInv'
<1>1. /\ doc \in Drafts /\ doc \in Docs /\ StreamTyped /\ ghosts' \subseteq Drafts
      /\ UNCHANGED <<channel, emitted, response, streamer, reply, task>>
  BY DocsDo DEF Stream!GhostLands, Stream!text, StreamInv, StreamTyped
<1>2. CASE Stream!Land(doc) /\ late' = TRUE
  <2>1. /\ shown' \in Docs
        /\ shown' = Stream!End("deleted") => shown = Stream!End("deleted")
    BY <1>1, <1>2, LandDoes, EndsDiffer
  <2>2. StreamTyped'
    BY <1>1, <1>2, <2>1 DEF StreamTyped
  <2> QED
    BY <1>1, <1>2, <2>1, <2>2 DEF StreamInv, EndsCalmly, Calm
<1>3. CASE UNCHANGED <<shown, late>>
  BY <1>1, <1>3 DEF StreamInv, StreamTyped, EndsCalmly, Calm
<1> QED
  BY <1>2, <1>3 DEF Stream!GhostLands

\* Every step of a reply keeps its invariant.
LEMMA StreamNextPreserves ==
    ASSUME StreamInv, [Stream!Next]_(Stream!vars) PROVE StreamInv'
<1>1. CASE UNCHANGED Stream!vars
  BY <1>1 DEF Stream!vars, StreamInv, StreamTyped, EndsCalmly, Calm
<1>2. CASE Stream!Over
  BY <1>1, <1>2 DEF Stream!Over
<1>3. CASE Stream!Next /\ ~ Stream!Over
  BY <1>3, RunSteps, FailKeeps, EditDoneKeeps, EditFailsKeeps, FinishKeeps, CleanUpKeeps, DeleteKeeps,
     WakeKeeps, TaskDoneKeeps, TaskFailsKeeps, GhostKeeps DEF Stream!Next
<1> QED
  BY <1>1, <1>2, <1>3

LEMMA StreamInvImplies ==
    ASSUME StreamInv PROVE Stream!ReplyShown
<1>1. Stream!OneResponse(shown)
  BY DEF StreamInv, StreamTyped, Docs, Texts, Stream!OneResponse
<1>2. Stream!Settled
  BY DEF StreamInv, EndsCalmly, Calm, Stream!Settled
<1> QED
  BY <1>1, <1>2 DEF Stream!ReplyShown

-----------------------------------------------------------------------------
(* AIQuota, by its own names of the slots *)

quotas == v1
usages == v2
month == v3
request == v4
charged == v5
spent == v6
notices == v7
undone == v8
alone == v9

QuotaDocs == [month : Nat, used : Nat, limit : Limits \cup {None}, notified : Nat]

\* A copy of the usage document, about to be saved.
Uses == [use : [1 .. MaxMonth -> Nat]]

QuotaSteps == {"new", "find", "again", "insert", "roll", "use", "record", "count", "notify", "done"}

Requests ==
    [pc : QuotaSteps, kind : Quotas!Kinds \cup {"info", "warn", None}, at : Nat,
     doc : QuotaDocs \cup Uses \cup {None}]

\* The request holds a copy of a quota document.
Holds(j) == request[j].pc \in {"roll", "use", "notify"}

QuotaTyped ==
    /\ quotas \in Seq(QuotaDocs) /\ \A i \in DOMAIN quotas : quotas[i].month <= month
    /\ usages \in Seq([1 .. MaxMonth -> Nat])
    /\ month \in 1 .. MaxMonth
    /\ request \in [Calls -> Requests]
    /\ \A j \in Calls : Holds(j) =>
          /\ request[j].at \in DOMAIN quotas
          /\ request[j].doc \in QuotaDocs /\ request[j].doc.month <= month
    /\ \A j \in Calls : request[j].pc = "count" =>
          /\ request[j].doc \in Uses
          /\ request[j].at = 0 \/ (request[j].at = 1 /\ usages # <<>>)
    /\ charged \in Nat /\ spent \in Nat /\ notices \in Nat
    /\ undone \in BOOLEAN /\ alone \in BOOLEAN

\* Neither the first document nor a copy of it says more than was charged.
NoCopyOvercharges ==
    undone \/
        /\ Quotas!Used <= charged
        /\ \A j \in Calls : Holds(j) /\ request[j].at = 1 /\ request[j].doc.month = month =>
               request[j].doc.used <= charged

\* How far the only request has come.
InBetween(j) ==
    LET doc == request[j].doc IN
    /\ request[j].pc = "insert" => quotas = <<>>
    /\ request[j].pc = "roll" => doc = Quotas!Fresh(quotas[1]) /\ quotas[1].month < month
    /\ request[j].pc = "use" => doc = quotas[1] /\ doc.month = month
    /\ request[j].pc = "notify" =>
           doc = [quotas[1] EXCEPT !.notified = month] /\ doc.month = month /\ notices = 0
    /\ request[j].pc \in {"record", "count"} => Quotas!Recorded + 1 = spent
    /\ request[j].pc \notin {"record", "count"} => Quotas!Recorded = spent
    /\ request[j].pc = "count" =>
           /\ request[j].at = Len(usages)
           /\ doc.use[month] = spent
           /\ \A m \in month + 1 .. MaxMonth : doc.use[m] = 0

\* Requests one after the other: one at a time, of one document each.
OneRequest ==
    alone =>
        /\ \A j, k \in Calls :
              request[j].pc \notin {"new", "done"} /\ request[k].pc \notin {"new", "done"} => j = k
        /\ Len(quotas) <= 1 /\ Len(usages) <= 1
        /\ Quotas!Used = charged
        /\ notices \in {0, 1}
        /\ notices = 1 => quotas # <<>> /\ quotas[1].month = month /\ quotas[1].notified = month
        /\ usages # <<>> => \A m \in month + 1 .. MaxMonth : usages[1][m] = 0
        /\ \A j \in Calls : request[j].pc \notin {"new", "done"} => InBetween(j)
        /\ Quotas!Quiet => Quotas!Recorded = spent

QuotaInv == QuotaTyped /\ NoCopyOvercharges /\ OneRequest

USE DEF quotas, usages, month, request, charged, spent, notices, undone, alone

Active(j) == request[j].pc \notin {"new", "done"}

\* The request j is at that step now, and holds doc; the others stay.
Becomes(j, step, at, doc) ==
    /\ request' \in [Calls -> Requests]
    /\ request'[j].pc = step /\ request'[j].at = at /\ request'[j].doc = doc
    /\ \A k \in Calls \ {j} : request'[k] = request[k]

\* Whatever of a request changes, it becomes what it changes to.
LEMMA RequestBecomes ==
    ASSUME request \in [Calls -> Requests], NEW j \in Calls, NEW new \in Requests,
           request' = [request EXCEPT ![j] = new]
    PROVE  Becomes(j, new.pc, new.at, new.doc)
BY DEF Becomes

LEMMA AtDoes ==
    ASSUME request \in [Calls -> Requests], NEW j \in Calls, NEW step \in QuotaSteps,
           Quotas!At(j, step)
    PROVE  Becomes(j, step, request[j].at, request[j].doc)
<1> DEFINE new == [request[j] EXCEPT !.pc = step]
<1>1. new \in Requests /\ new.pc = step /\ new.at = request[j].at /\ new.doc = request[j].doc
  BY DEF Requests
<1>2. request' = [request EXCEPT ![j] = new]
  BY DEF Quotas!At
<1> HIDE DEF new
<1> QED
  BY <1>1, <1>2, RequestBecomes

LEMMA FinishDoes ==
    ASSUME request \in [Calls -> Requests], NEW j \in Calls, Quotas!Finish(j)
    PROVE  Becomes(j, "done", 0, None)
<1> DEFINE new == [Quotas!NoJob EXCEPT !.pc = "done"]
<1>1. new \in Requests /\ new.pc = "done" /\ new.at = 0 /\ new.doc = None
  BY DEF Quotas!NoJob, Requests, QuotaSteps
<1>2. request' = [request EXCEPT ![j] = new]
  BY DEF Quotas!Finish
<1> HIDE DEF new
<1> QED
  BY <1>1, <1>2, RequestBecomes

\* The document of a new period.
LEMMA FreshDoes ==
    ASSUME month \in Nat, NEW doc \in QuotaDocs
    PROVE  /\ Quotas!Fresh(doc) \in QuotaDocs
           /\ Quotas!Fresh(doc).month = month /\ Quotas!Fresh(doc).used = 0
           /\ Quotas!Fresh(doc).notified = 0
BY DEF Quotas!Fresh, QuotaDocs

LEMMA LoadDoes ==
    ASSUME request \in [Calls -> Requests], month \in Nat, NEW j \in Calls, NEW i \in Nat,
           NEW doc \in QuotaDocs, doc.month <= month, Quotas!Load(j, i, doc)
    PROVE  \/ doc.month < month /\ Becomes(j, "roll", i, Quotas!Fresh(doc))
           \/ doc.month = month /\ Becomes(j, "use", i, doc)
<1>1. CASE doc.month < month
  <2> DEFINE fresh == Quotas!Fresh(doc)
             new == [request[j] EXCEPT !.pc = "roll", !.at = i, !.doc = fresh]
  <2>1. fresh \in QuotaDocs
    BY FreshDoes
  <2>2. request' = [request EXCEPT ![j] = new]
    BY <1>1 DEF Quotas!Load
  <2> HIDE DEF fresh
  <2>3. new \in Requests /\ new.pc = "roll" /\ new.at = i /\ new.doc = fresh
    BY <2>1 DEF Requests, QuotaSteps
  <2> HIDE DEF new
  <2>4. Becomes(j, "roll", i, fresh)
    BY <2>2, <2>3, RequestBecomes
  <2> QED
    BY <1>1, <2>4 DEF fresh
<1>2. CASE ~ (doc.month < month)
  <2> DEFINE new == [request[j] EXCEPT !.pc = "use", !.at = i, !.doc = doc]
  <2>1. request' = [request EXCEPT ![j] = new]
    BY <1>2 DEF Quotas!Load
  <2>2. new \in Requests /\ new.pc = "use" /\ new.at = i /\ new.doc = doc
    BY DEF Requests, QuotaSteps
  <2> HIDE DEF new
  <2>3. doc.month = month
    BY <1>2 DEF QuotaDocs
  <2> QED
    BY <2>1, <2>2, <2>3, RequestBecomes
<1> QED
  BY <1>1, <1>2

\* A copy is saved over its document.
LEMMA SaveDoes ==
    ASSUME quotas \in Seq(QuotaDocs), \A i \in DOMAIN quotas : quotas[i].month <= month,
           NEW j, request[j].at \in DOMAIN quotas, NEW doc \in QuotaDocs, doc.month <= month,
           Quotas!Save(j, doc)
    PROVE  /\ quotas' \in Seq(QuotaDocs) /\ Len(quotas') = Len(quotas)
           /\ DOMAIN quotas' = DOMAIN quotas /\ quotas' # <<>> /\ quotas # <<>>
           /\ \A i \in DOMAIN quotas' : quotas'[i].month <= month
           /\ quotas'[1] = IF request[j].at = 1 THEN doc ELSE quotas[1]
BY DEF Quotas!Save

\* What keeps the types, the debt and the order in a step of one request.
LEMMA StaysTyped ==
    ASSUME QuotaTyped, NEW j \in Calls, NEW step, NEW at, NEW doc, Becomes(j, step, at, doc),
           quotas' \in Seq(QuotaDocs), Len(quotas) <= Len(quotas'),
           \A i \in DOMAIN quotas' : quotas'[i].month <= month',
           usages' \in Seq([1 .. MaxMonth -> Nat]), usages # <<>> => usages' # <<>>,
           month' = month,
           step \in {"roll", "use", "notify"} =>
               at \in DOMAIN quotas' /\ doc \in QuotaDocs /\ doc.month <= month,
           step = "count" => doc \in Uses /\ (at = 0 \/ (at = 1 /\ usages' # <<>>)),
           charged' \in Nat, spent' \in Nat, notices' \in Nat, undone' \in BOOLEAN,
           alone' \in BOOLEAN
    PROVE  QuotaTyped'
<1>1. DOMAIN quotas \subseteq DOMAIN quotas'
  BY DEF QuotaTyped
<1>2. \A k \in Calls \ {j} : request'[k] = request[k]
  BY DEF Becomes
<1>3. request'[j].pc = step /\ request'[j].at = at /\ request'[j].doc = doc
  BY DEF Becomes
<1>4. request' \in [Calls -> Requests]
  BY DEF Becomes
<1>5. ASSUME NEW k \in Calls, Holds(k)'
      PROVE  /\ request'[k].at \in DOMAIN quotas'
             /\ request'[k].doc \in QuotaDocs /\ request'[k].doc.month <= month'
  BY <1>1, <1>2, <1>3, <1>5 DEF QuotaTyped, Holds
<1>6. ASSUME NEW k \in Calls, request'[k].pc = "count"
      PROVE  request'[k].doc \in Uses /\ (request'[k].at = 0 \/ (request'[k].at = 1 /\ usages' # <<>>))
  BY <1>2, <1>3, <1>6 DEF QuotaTyped
<1> QED
  BY <1>4, <1>5, <1>6 DEF QuotaTyped

LEMMA StaysFair ==
    ASSUME QuotaTyped, NoCopyOvercharges, NEW j \in Calls, NEW step, NEW at, NEW doc,
           Becomes(j, step, at, doc), month' = month, undone' = undone,
           charged' \in Nat, charged <= charged',
           ~ undone => Quotas!Used' <= charged',
           ~ undone /\ step \in {"roll", "use", "notify"} /\ at = 1 /\ doc.month = month =>
               doc.used <= charged'
    PROVE  NoCopyOvercharges'
<1>1. ASSUME ~ undone, NEW k \in Calls, Holds(k)', request'[k].at = 1, request'[k].doc.month = month
      PROVE  request'[k].doc.used <= charged'
  <2>1. CASE k = j
    BY <1>1, <2>1 DEF Becomes, Holds
  <2>2. CASE k # j
    <3>1. request'[k] = request[k]
      BY <2>2 DEF Becomes
    <3>2. request[k].doc.used <= charged /\ request[k].doc.used \in Nat /\ charged \in Nat
      BY <1>1, <3>1 DEF NoCopyOvercharges, Holds, QuotaTyped, QuotaDocs
    <3> QED
      BY <3>1, <3>2
  <2> QED
    BY <2>1, <2>2
<1> QED
  BY <1>1 DEF NoCopyOvercharges

LEMMA StaysAlone ==
    ASSUME QuotaInv, NEW j \in Calls, Active(j), NEW step, NEW at, NEW doc,
           Becomes(j, step, at, doc), alone' = alone,
           alone => /\ Len(quotas') <= 1 /\ Len(usages') <= 1 /\ Quotas!Used' = charged'
                    /\ notices' \in {0, 1}
                    /\ notices' = 1 =>
                          quotas' # <<>> /\ quotas'[1].month = month' /\ quotas'[1].notified = month'
                    /\ usages' # <<>> => \A m \in month' + 1 .. MaxMonth : usages'[1][m] = 0
                    /\ step \notin {"new", "done"} => InBetween(j)'
                    /\ step \in {"new", "done"} => Quotas!Recorded' = spent'
    PROVE  OneRequest'
<1> SUFFICES ASSUME alone PROVE
        /\ \A g, k \in Calls : Active(g)' /\ Active(k)' => g = k
        /\ \A k \in Calls : Active(k)' => InBetween(k)'
        /\ Quotas!Quiet' => Quotas!Recorded' = spent'
  BY DEF OneRequest, Active
<1>1. \A k \in Calls \ {j} : ~ Active(k)'
  BY DEF QuotaInv, OneRequest, Active, Becomes
<1>2. Active(j)' => InBetween(j)'
  BY DEF Active, Becomes
<1>3. Quotas!Quiet' => Quotas!Recorded' = spent'
  BY DEF Quotas!Quiet, Becomes
<1> QED
  BY <1>1, <1>2, <1>3

\* The only request.
LEMMA OnlyRequest ==
    ASSUME QuotaInv, alone, NEW j \in Calls, Active(j)
    PROVE  /\ InBetween(j) /\ Len(quotas) <= 1 /\ Len(usages) <= 1 /\ Quotas!Used = charged
           /\ notices \in {0, 1}
           /\ notices = 1 => quotas # <<>> /\ quotas[1].month = month /\ quotas[1].notified = month
           /\ usages # <<>> => \A m \in month + 1 .. MaxMonth : usages[1][m] = 0
           /\ Holds(j) => request[j].at = 1 /\ Len(quotas) = 1
<1>1. /\ InBetween(j) /\ Len(quotas) <= 1 /\ Len(usages) <= 1 /\ Quotas!Used = charged
      /\ notices \in {0, 1}
      /\ notices = 1 => quotas # <<>> /\ quotas[1].month = month /\ quotas[1].notified = month
      /\ usages # <<>> => \A m \in month + 1 .. MaxMonth : usages[1][m] = 0
  BY DEF QuotaInv, OneRequest, Active
<1>2. ASSUME Holds(j) PROVE request[j].at = 1 /\ Len(quotas) = 1
  <2>1. quotas \in Seq(QuotaDocs) /\ request[j].at \in DOMAIN quotas
    BY <1>2 DEF QuotaInv, QuotaTyped
  <2>2. Len(quotas) \in Nat /\ DOMAIN quotas = 1 .. Len(quotas) /\ Len(quotas) <= 1
    BY <1>1, <2>1
  <2> QED
    BY <2>1, <2>2
<1> QED
  BY <1>1, <1>2

LEMMA ZeroOrOne ==
    ASSUME NEW n \in Nat, n <= 1 PROVE n = 0 \/ n = 1
OBVIOUS

\* The first element of a sequence, and one that is put at its end.
LEMMA FirstAndLast ==
    ASSUME NEW S, NEW s \in Seq(S)
    PROVE  /\ Len(s) \in Nat /\ (s = <<>> <=> Len(s) = 0)
           /\ s # <<>> => s[1] \in S
           /\ \A e \in S : /\ Append(s, e) \in Seq(S) /\ Append(s, e) # <<>>
                          /\ Len(Append(s, e)) = Len(s) + 1
                          /\ (s = <<>> => Append(s, e)[1] = e)
                          /\ s # <<>> => (/\ [s EXCEPT ![1] = e] \in Seq(S)
                                          /\ [s EXCEPT ![1] = e] # <<>>
                                          /\ Len([s EXCEPT ![1] = e]) = Len(s)
                                          /\ [s EXCEPT ![1] = e][1] = e)
OBVIOUS

\* The first document is the one that counts.
LEMMA FirstDoc ==
    ASSUME quotas \in Seq(QuotaDocs), quotas # <<>>
    PROVE  quotas[1] \in QuotaDocs /\ quotas[1].used \in Nat /\ quotas[1].month \in Nat
<1>1. quotas[1] \in QuotaDocs
  OBVIOUS
<1> QED
  BY <1>1 DEF QuotaDocs

LEMMA QuotaBegins ==
    ASSUME Quotas!Init, 1 \in 1 .. MaxMonth PROVE QuotaInv
<1>1. request \in [Calls -> Requests] /\ \A j \in Calls : request[j].pc = "new"
  BY DEF Quotas!Init, Quotas!NoJob, Requests, QuotaSteps
<1>2. /\ quotas = <<>> /\ usages = <<>> /\ month = 1 /\ charged = 0 /\ spent = 0 /\ notices = 0
      /\ undone = FALSE /\ alone = TRUE
  BY DEF Quotas!Init
<1>3. quotas \in Seq(QuotaDocs) /\ usages \in Seq([1 .. MaxMonth -> Nat]) /\ DOMAIN quotas = {}
  BY <1>2
<1>4. QuotaTyped
  BY <1>1, <1>2, <1>3 DEF QuotaTyped, Holds
<1>5. NoCopyOvercharges /\ OneRequest
  BY <1>1 DEF Quotas!Init, NoCopyOvercharges, OneRequest, Holds, Quotas!Used, Quotas!Recorded
<1> QED
  BY <1>4, <1>5 DEF QuotaInv

LEMMA BeginKeeps ==
    ASSUME QuotaInv, NEW j \in Calls, NEW kind \in Quotas!Kinds, Quotas!Begin(j, kind)
    PROVE  QuotaInv'
<1> DEFINE new == [request[j] EXCEPT !.pc = "find", !.kind = kind]
<1>1. /\ request \in [Calls -> Requests] /\ request[j] \in Requests /\ request[j].pc = "new"
      /\ alone' = (alone /\ Quotas!Quiet)
      /\ UNCHANGED <<quotas, usages, month, charged, spent, notices, undone>>
      /\ QuotaTyped /\ NoCopyOvercharges
  BY DEF QuotaInv, QuotaTyped, Quotas!Begin
<1>2. new \in Requests /\ new.pc = "find" /\ new.at = request[j].at /\ new.doc = request[j].doc
  BY <1>1 DEF Requests, QuotaSteps
<1>3. request' = [request EXCEPT ![j] = new]
  BY DEF Quotas!Begin
<1> HIDE DEF new
<1>4. Becomes(j, "find", request[j].at, request[j].doc)
  BY <1>1, <1>2, <1>3, RequestBecomes
<1>5. QuotaTyped'
  BY <1>1, <1>4, StaysTyped DEF QuotaTyped
<1>6. NoCopyOvercharges'
  BY <1>1, <1>4, StaysFair DEF QuotaTyped, NoCopyOvercharges, Quotas!Used
<1>7. OneRequest'
  <2> SUFFICES ASSUME alone, Quotas!Quiet PROVE OneRequest'
    BY <1>1 DEF OneRequest
  <2>1. \A k \in Calls \ {j} : ~ Active(k)'
    BY <1>4 DEF Becomes, Quotas!Quiet, Active
  <2>2. InBetween(j)'
    BY <1>1, <1>4 DEF Becomes, InBetween, QuotaInv, OneRequest, Quotas!Recorded
  <2>3. Active(j)'
    BY <1>4 DEF Becomes, Active
  <2>4. ~ Quotas!Quiet'
    BY <2>3 DEF Active, Quotas!Quiet
  <2> QED
    BY <1>1, <2>1, <2>2, <2>4 DEF QuotaInv, OneRequest, Active, Quotas!Used
<1> QED
  BY <1>5, <1>6, <1>7 DEF QuotaInv

\* A step that leaves the documents and what is counted as they are.
LEMMA LooksKeep ==
    ASSUME QuotaInv, NEW j \in Calls, Active(j), NEW step, NEW at, NEW doc,
           Becomes(j, step, at, doc), UNCHANGED <<quotas, usages, month, Quotas!history>>,
           step \in {"roll", "use", "notify"} =>
               /\ at \in DOMAIN quotas /\ doc \in QuotaDocs /\ doc.month <= month
               /\ ~ undone /\ at = 1 /\ doc.month = month => doc.used <= charged,
           step = "count" => doc \in Uses /\ (at = 0 \/ (at = 1 /\ usages # <<>>)),
           alone => /\ step # "done" => InBetween(j)'
                    /\ step = "done" => Quotas!Recorded = spent,
           step # "new"
    PROVE  QuotaInv'
<1>1. UNCHANGED <<quotas, usages, month, charged, spent, notices, undone, alone>>
  BY DEF Quotas!history
<1>2. QuotaTyped'
  BY <1>1, StaysTyped DEF QuotaTyped, QuotaInv
<1>3. Quotas!Used' = Quotas!Used /\ Quotas!Recorded' = Quotas!Recorded
  BY <1>1 DEF Quotas!Used, Quotas!Recorded
<1>4. NoCopyOvercharges'
  <2>1. charged \in Nat /\ charged <= charged' /\ (~ undone => Quotas!Used' <= charged')
    BY <1>1, <1>3 DEF QuotaInv, QuotaTyped, NoCopyOvercharges
  <2> QED
    BY <1>1, <2>1, StaysFair DEF QuotaInv
<1>5. OneRequest'
  BY <1>1, <1>3, OnlyRequest, StaysAlone
<1> QED
  BY <1>2, <1>4, <1>5 DEF QuotaInv

LEMMA FindKeeps ==
    ASSUME QuotaInv, NEW j \in Calls, Quotas!Find(j) PROVE QuotaInv'
<1>1. /\ request \in [Calls -> Requests] /\ month \in Nat /\ quotas \in Seq(QuotaDocs)
      /\ request[j].pc \in {"find", "again"} /\ Active(j)
      /\ UNCHANGED <<quotas, usages, month, Quotas!history>>
  BY DEF QuotaInv, QuotaTyped, Quotas!Find, Active
<1>2. UNCHANGED <<charged, spent, notices, undone, alone>>
  BY <1>1 DEF Quotas!history
<1>3. alone => Quotas!Recorded = spent
  BY <1>1, OnlyRequest DEF InBetween
<1>4. CASE quotas # <<>>
  <2>1. quotas[1] \in QuotaDocs /\ quotas[1].month <= month /\ 1 \in DOMAIN quotas
    BY <1>1, <1>4 DEF QuotaInv, QuotaTyped
  <2>2. Quotas!Load(j, 1, quotas[1])
    BY <1>4 DEF Quotas!Find
  <2>3. CASE quotas[1].month < month /\ Becomes(j, "roll", 1, Quotas!Fresh(quotas[1]))
    <3>1. /\ Quotas!Fresh(quotas[1]) \in QuotaDocs
          /\ Quotas!Fresh(quotas[1]).month = month /\ Quotas!Fresh(quotas[1]).used = 0
      BY <1>1, <2>1, FreshDoes
    <3>2. alone => InBetween(j)'
      BY <1>1, <1>2, <1>3, <2>3 DEF InBetween, Becomes, Quotas!Recorded, Quotas!Fresh
    <3>3. charged \in Nat
      BY DEF QuotaInv, QuotaTyped
    <3> QED
      BY <1>1, <2>1, <2>3, <3>1, <3>2, <3>3, LooksKeep
  <2>4. CASE quotas[1].month = month /\ Becomes(j, "use", 1, quotas[1])
    <3>1. alone => InBetween(j)'
      BY <1>1, <1>2, <1>3, <2>4 DEF InBetween, Becomes, Quotas!Recorded
    <3>2. ~ undone => quotas[1].used <= charged
      BY <1>4, <2>4 DEF QuotaInv, NoCopyOvercharges, Quotas!Used
    <3> QED
      BY <1>1, <2>1, <2>4, <3>1, <3>2, LooksKeep
  <2> QED
    BY <1>1, <2>1, <2>2, <2>3, <2>4, LoadDoes
<1>5. CASE quotas = <<>>
  <2> DEFINE step == IF request[j].pc = "find" THEN "again" ELSE "insert"
  <2>1. step \in {"again", "insert"}
    OBVIOUS
  <2>2. Becomes(j, step, request[j].at, request[j].doc)
    BY <1>1, <1>5, AtDoes DEF Quotas!Find, QuotaSteps
  <2> HIDE DEF step
  <2>3. alone => InBetween(j)'
    BY <1>1, <1>2, <1>3, <1>5, <2>1, <2>2 DEF InBetween, Becomes, Quotas!Recorded
  <2> QED
    BY <1>1, <2>1, <2>2, <2>3, LooksKeep
<1> QED
  BY <1>4, <1>5

LEMMA InsertKeeps ==
    ASSUME QuotaInv, NEW j \in Calls, Quotas!Insert(j) PROVE QuotaInv'
<1>1. /\ request \in [Calls -> Requests] /\ month \in Nat /\ quotas \in Seq(QuotaDocs)
      /\ request[j].pc = "insert" /\ Active(j) /\ QuotaTyped /\ NoCopyOvercharges
      /\ UNCHANGED <<usages, month, charged, spent, notices, undone, alone>>
      /\ charged \in Nat
  BY DEF QuotaInv, QuotaTyped, Quotas!Insert, Active, Quotas!history
<1>2. /\ Quotas!Quota \in QuotaDocs /\ Quotas!Quota.month = month /\ Quotas!Quota.used = 0
  BY <1>1 DEF Quotas!Quota, QuotaDocs
<1>3. quotas' = Append(quotas, Quotas!Quota) /\ Quotas!Load(j, Len(quotas'), Quotas!Quota)
  BY DEF Quotas!Insert
<1>4. /\ quotas' \in Seq(QuotaDocs) /\ Len(quotas') = Len(quotas) + 1 /\ quotas' # <<>>
      /\ Len(quotas) \in Nat
      /\ quotas'[1] = IF quotas = <<>> THEN Quotas!Quota ELSE quotas[1]
      /\ quotas'[Len(quotas')] = Quotas!Quota
      /\ \A i \in DOMAIN quotas' : quotas'[i].month <= month
  <2> DEFINE doc == Quotas!Quota
             Stored == QuotaDocs
  <2>1. /\ quotas \in Seq(Stored) /\ doc \in Stored /\ quotas' = Append(quotas, doc)
        /\ month \in Nat /\ doc.month = month
        /\ \A i \in DOMAIN quotas : quotas[i].month <= month
    BY <1>1, <1>2, <1>3 DEF QuotaTyped
  <2> HIDE DEF doc, Stored
  <2>2. Len(quotas) \in Nat /\ Len(quotas') = Len(quotas) + 1 /\ quotas' # <<>>
    BY <2>1
  <2>3. quotas' \in Seq(Stored)
    BY <2>1
  <2>4. \A i \in 1 .. Len(quotas') :
            quotas'[i] = IF i = Len(quotas') THEN doc ELSE quotas[i]
    BY <2>1
  <2>5. quotas'[Len(quotas')] = doc /\ quotas'[1] = IF quotas = <<>> THEN doc ELSE quotas[1]
    BY <2>1, <2>2, <2>4
  <2>6. DOMAIN quotas' = 1 .. Len(quotas') /\ DOMAIN quotas = 1 .. Len(quotas)
    BY <2>1, <2>3
  <2>7. \A i \in DOMAIN quotas' : quotas'[i].month <= month
    BY <2>1, <2>2, <2>4, <2>6
  <2> QED
    BY <2>2, <2>3, <2>5, <2>7 DEF doc, Stored
<1>5. Becomes(j, "use", Len(quotas'), Quotas!Quota)
  BY <1>1, <1>2, <1>3, <1>4, LoadDoes
<1>6. QuotaTyped'
  BY <1>1, <1>2, <1>4, <1>5, StaysTyped DEF QuotaTyped
<1>7. Quotas!Used' = Quotas!Used
  BY <1>1, <1>2, <1>4 DEF Quotas!Used
<1>8. NoCopyOvercharges'
  BY <1>1, <1>2, <1>5, <1>7, StaysFair DEF NoCopyOvercharges
<1>9. ASSUME alone PROVE quotas = <<>> /\ notices = 0 /\ InBetween(j)'
  <2>1. quotas = <<>> /\ notices = 0 /\ Quotas!Recorded = spent
    BY <1>1, <1>9, OnlyRequest DEF InBetween
  <2>2. quotas'[1] = Quotas!Quota
    BY <1>4, <2>1
  <2> QED
    BY <1>1, <1>2, <1>5, <2>1, <2>2 DEF InBetween, Becomes, Quotas!Recorded
<1>10. OneRequest'
  BY <1>1, <1>2, <1>4, <1>5, <1>7, <1>9, OnlyRequest, StaysAlone
<1> QED
  BY <1>6, <1>8, <1>10 DEF QuotaInv

\* What holds of a request that has a copy.
LEMMA HolderHas ==
    ASSUME QuotaInv, NEW j \in Calls, Holds(j)
    PROVE  /\ request \in [Calls -> Requests] /\ month \in Nat /\ Active(j)
           /\ request[j].at \in DOMAIN quotas /\ request[j].doc \in QuotaDocs
           /\ request[j].doc.month <= month /\ request[j].doc.used \in Nat
           /\ charged \in Nat /\ spent \in Nat /\ notices \in Nat
           /\ alone => request[j].at = 1
           /\ ~ undone => Quotas!Used <= charged
           /\ ~ undone /\ request[j].at = 1 /\ request[j].doc.month = month =>
                  request[j].doc.used <= charged
<1>1. QuotaTyped /\ NoCopyOvercharges /\ Active(j)
  BY DEF QuotaInv, Holds, Active
<1>2. month \in Nat
  BY <1>1 DEF QuotaTyped
<1>3. alone => request[j].at = 1
  BY <1>1, OnlyRequest
<1>4. request[j].doc \in QuotaDocs /\ request[j].doc.used \in Nat
  BY <1>1 DEF QuotaTyped, QuotaDocs
<1> QED
  BY <1>1, <1>2, <1>3, <1>4 DEF QuotaTyped, NoCopyOvercharges

\* A request that saves a document no dearer than what is charged.
LEMMA SavesKeep ==
    ASSUME QuotaInv, NEW j \in Calls, Holds(j), NEW doc \in QuotaDocs, doc.month <= month,
           Quotas!Save(j, doc), NEW step \in QuotaSteps, NEW at, NEW held,
           Becomes(j, step, at, held), UNCHANGED <<usages, month, undone, alone>>,
           charged' \in Nat, charged <= charged', spent' \in Nat, notices' \in Nat,
           step \notin {"new", "count", "roll", "notify"},
           step = "use" => at = request[j].at /\ held = doc,
           ~ undone /\ request[j].at = 1 /\ doc.month = month => doc.used <= charged',
           alone => /\ doc.month = month /\ doc.used = charged' /\ notices' \in {0, 1}
                    /\ notices' = 1 => doc.notified = month
                    /\ IF step = "record" THEN Quotas!Recorded + 1 = spent' ELSE Quotas!Recorded = spent'
                    /\ step # "insert"
    PROVE  QuotaInv'
<1>1. /\ request \in [Calls -> Requests] /\ month \in Nat /\ Active(j)
      /\ request[j].at \in DOMAIN quotas /\ quotas \in Seq(QuotaDocs) /\ QuotaTyped
      /\ alone => request[j].at = 1
      /\ ~ undone => Quotas!Used <= charged
  BY HolderHas DEF QuotaInv, QuotaTyped
<1>2. /\ quotas' \in Seq(QuotaDocs) /\ Len(quotas') = Len(quotas) /\ DOMAIN quotas' = DOMAIN quotas
      /\ quotas' # <<>> /\ quotas # <<>>
      /\ \A i \in DOMAIN quotas' : quotas'[i].month <= month
      /\ quotas'[1] = IF request[j].at = 1 THEN doc ELSE quotas[1]
  BY <1>1, SaveDoes DEF QuotaTyped
<1>3. Len(quotas) <= Len(quotas')
  BY <1>1, <1>2
<1>4. QuotaTyped'
  BY <1>1, <1>2, <1>3, StaysTyped DEF QuotaTyped
<1>5. ~ undone => Quotas!Used' <= charged'
  <2> SUFFICES ASSUME ~ undone PROVE Quotas!Used' <= charged'
    OBVIOUS
  <2>1. CASE request[j].at = 1
    BY <1>2, <2>1 DEF Quotas!Used
  <2>2. CASE request[j].at # 1
    <3>1. Quotas!Used' = Quotas!Used
      BY <1>2, <2>2 DEF Quotas!Used
    <3>2. Quotas!Used \in Nat /\ charged \in Nat
      <4>1. quotas[1].used \in Nat
        BY <1>1, <1>2, FirstDoc
      <4>2. charged \in Nat
        BY <1>1 DEF QuotaTyped
      <4> QED
        BY <4>1, <4>2 DEF Quotas!Used
    <3> QED
      BY <1>1, <3>1, <3>2
  <2> QED
    BY <2>1, <2>2
<1>6. NoCopyOvercharges'
  BY <1>1, <1>5, StaysFair DEF QuotaInv
<1>7. Quotas!Recorded' = IF usages # <<>> THEN usages[1][month] ELSE 0
  BY DEF Quotas!Recorded
<1>8. Quotas!Recorded' = Quotas!Recorded
  BY <1>7 DEF Quotas!Recorded
<1>9. ASSUME alone
      PROVE  /\ Len(quotas') <= 1 /\ Len(usages') <= 1 /\ Quotas!Used' = charged'
             /\ notices' \in {0, 1}
             /\ notices' = 1 => quotas' # <<>> /\ quotas'[1].month = month' /\ quotas'[1].notified = month'
             /\ usages' # <<>> => \A m \in month' + 1 .. MaxMonth : usages'[1][m] = 0
             /\ step \notin {"new", "done"} => InBetween(j)'
             /\ step \in {"new", "done"} => Quotas!Recorded' = spent'
  <2>1. quotas'[1] = doc
    BY <1>1, <1>2, <1>9
  <2>2. Len(quotas) <= 1 /\ Len(usages) <= 1 /\ (usages # <<>> => \A m \in month + 1 .. MaxMonth : usages[1][m] = 0)
    BY <1>1, <1>9, OnlyRequest
  <2>3. Quotas!Used' = charged'
    BY <1>2, <1>9, <2>1 DEF Quotas!Used
  <2>4. step \notin {"new", "done"} => InBetween(j)'
    BY <1>8, <1>9, <2>1 DEF InBetween, Becomes
  <2> QED
    BY <1>2, <1>8, <1>9, <2>1, <2>2, <2>3, <2>4
<1>10. OneRequest'
  BY <1>1, <1>9, StaysAlone
<1> QED
  BY <1>4, <1>6, <1>10 DEF QuotaInv

\* What the only request knows when it uses its copy.
LEMMA UserKnows ==
    ASSUME QuotaInv, alone, NEW j \in Calls, request[j].pc = "use"
    PROVE  /\ request[j].doc = quotas[1] /\ request[j].doc.month = month /\ quotas # <<>>
           /\ request[j].doc.used = charged /\ request[j].at = 1
           /\ Quotas!Recorded = spent /\ notices \in {0, 1}
           /\ notices = 1 => request[j].doc.notified = month
<1>1. Active(j) /\ Holds(j)
  BY DEF Active, Holds
<1>2. InBetween(j) /\ Len(quotas) = 1 /\ quotas # <<>> /\ Quotas!Used = charged /\ request[j].at = 1
  BY <1>1, OnlyRequest DEF QuotaInv, QuotaTyped
<1>3. notices \in {0, 1} /\ (notices = 1 => quotas[1].notified = month)
  BY <1>1, OnlyRequest
<1> QED
  BY <1>2, <1>3 DEF InBetween, Quotas!Used

LEMMA RollKeeps ==
    ASSUME QuotaInv, NEW j \in Calls, Quotas!Roll(j) PROVE QuotaInv'
<1>1. Holds(j) /\ request[j].pc = "roll" /\ UNCHANGED <<usages, month, charged, spent, notices, undone, alone>>
  BY DEF Quotas!Roll, Holds, Quotas!history
<1>2. Becomes(j, "use", request[j].at, request[j].doc)
  BY <1>1, HolderHas, AtDoes DEF Quotas!Roll, QuotaSteps
<1>3. ASSUME alone
      PROVE  /\ request[j].doc.month = month /\ request[j].doc.used = charged /\ notices = 0
             /\ Quotas!Recorded = spent
  <2>1. /\ InBetween(j) /\ Quotas!Used = charged /\ notices \in {0, 1}
        /\ notices = 1 => quotas[1].month = month
    BY <1>1, <1>3, HolderHas, OnlyRequest
  <2>2. request[j].doc = Quotas!Fresh(quotas[1]) /\ quotas[1].month < month /\ Quotas!Recorded = spent
    BY <1>1, <2>1 DEF InBetween
  <2>3. quotas[1] \in QuotaDocs /\ month \in Nat
    BY <1>1, <1>3, OnlyRequest, HolderHas DEF QuotaInv, QuotaTyped
  <2>4. request[j].doc.month = month /\ request[j].doc.used = 0
    BY <2>2, <2>3, FreshDoes
  <2>5. Quotas!Used = 0 /\ notices = 0
    BY <2>1, <2>2, <2>3 DEF Quotas!Used, QuotaDocs
  <2> QED
    BY <2>1, <2>2, <2>4, <2>5
<1>4. /\ request[j].doc \in QuotaDocs /\ request[j].doc.month <= month
      /\ charged \in Nat /\ spent \in Nat /\ notices \in Nat
      /\ ~ undone /\ request[j].at = 1 /\ request[j].doc.month = month => request[j].doc.used <= charged
  BY <1>1, HolderHas
<1>5. Quotas!Save(j, request[j].doc) /\ "use" \in QuotaSteps
  BY DEF Quotas!Roll, QuotaSteps
<1> QED
  BY <1>1, <1>2, <1>3, <1>4, <1>5, SavesKeep

LEMMA ChargeKeeps ==
    ASSUME QuotaInv, NEW j \in Calls, Quotas!Charge(j) PROVE QuotaInv'
<1> DEFINE doc == [request[j].doc EXCEPT !.used = @ + 1]
           cost == IF request[j].doc.month = month THEN 1 ELSE 0
<1>1. Holds(j) /\ request[j].pc = "use" /\ UNCHANGED <<usages, month, notices, undone, alone>>
  BY DEF Quotas!Charge, Holds, Quotas!Use
<1>2. Becomes(j, "record", request[j].at, request[j].doc)
  BY <1>1, HolderHas, AtDoes DEF Quotas!Charge, QuotaSteps
<1>3. /\ request[j].doc \in QuotaDocs /\ request[j].doc.month <= month
      /\ charged \in Nat /\ spent \in Nat /\ notices \in Nat
      /\ ~ undone /\ request[j].at = 1 /\ request[j].doc.month = month => request[j].doc.used <= charged
  BY <1>1, HolderHas
<1>4. /\ doc \in QuotaDocs /\ doc.month = request[j].doc.month /\ doc.used = request[j].doc.used + 1
      /\ doc.notified = request[j].doc.notified /\ request[j].doc.used \in Nat
  BY <1>3 DEF QuotaDocs
<1>5. Quotas!Save(j, doc) /\ charged' = charged + cost /\ spent' = spent + cost
  BY DEF Quotas!Charge
<1>6. cost \in {0, 1} /\ (request[j].doc.month = month => cost = 1)
  OBVIOUS
<1> HIDE DEF doc, cost
<1>7. /\ charged' \in Nat /\ charged <= charged' /\ spent' \in Nat
      /\ request[j].doc.month = month => charged' = charged + 1 /\ spent' = spent + 1
  BY <1>3, <1>5, <1>6
<1>8. ~ undone /\ request[j].at = 1 /\ doc.month = month => doc.used <= charged'
  BY <1>3, <1>4, <1>7
<1>9. ASSUME alone
      PROVE  /\ doc.month = month /\ doc.used = charged' /\ notices' \in {0, 1}
             /\ notices' = 1 => doc.notified = month
             /\ Quotas!Recorded + 1 = spent'
  BY <1>1, <1>4, <1>7, <1>9, UserKnows
<1>10. "record" \in QuotaSteps
  BY DEF QuotaSteps
<1> QED
  BY <1>1, <1>2, <1>3, <1>4, <1>5, <1>7, <1>8, <1>9, <1>10, SavesKeep

LEMMA SetLimitKeeps ==
    ASSUME QuotaInv, NEW j \in Calls, NEW limit \in Limits, Quotas!SetLimit(j, limit)
    PROVE  QuotaInv'
<1> DEFINE doc == [request[j].doc EXCEPT !.limit = limit]
<1>1. /\ Holds(j) /\ request[j].pc = "use"
      /\ UNCHANGED <<usages, month, charged, spent, notices, undone, alone>>
  BY DEF Quotas!SetLimit, Holds, Quotas!Use, Quotas!history
<1>2. Becomes(j, "done", 0, None)
  BY <1>1, HolderHas, FinishDoes DEF Quotas!SetLimit
<1>3. /\ request[j].doc \in QuotaDocs /\ request[j].doc.month <= month
      /\ charged \in Nat /\ spent \in Nat /\ notices \in Nat
      /\ ~ undone /\ request[j].at = 1 /\ request[j].doc.month = month => request[j].doc.used <= charged
  BY <1>1, HolderHas
<1>4. /\ doc \in QuotaDocs /\ doc.month = request[j].doc.month /\ doc.used = request[j].doc.used
      /\ doc.notified = request[j].doc.notified
  BY <1>3 DEF QuotaDocs
<1>5. Quotas!Save(j, doc) /\ "done" \in QuotaSteps
  BY DEF Quotas!SetLimit, QuotaSteps
<1> HIDE DEF doc
<1> QED
  BY <1>1, <1>2, <1>3, <1>4, <1>5, UserKnows, SavesKeep

LEMMA NotifyKeeps ==
    ASSUME QuotaInv, NEW j \in Calls, Quotas!Notify(j) PROVE QuotaInv'
<1> DEFINE cost == IF request[j].doc.month = month THEN 1 ELSE 0
<1>1. Holds(j) /\ request[j].pc = "notify" /\ UNCHANGED <<usages, month, charged, spent, undone, alone>>
  BY DEF Quotas!Notify, Holds
<1>2. Becomes(j, "done", 0, None)
  BY <1>1, HolderHas, FinishDoes DEF Quotas!Notify
<1>3. /\ request[j].doc \in QuotaDocs /\ request[j].doc.month <= month
      /\ charged \in Nat /\ spent \in Nat /\ notices \in Nat
      /\ ~ undone /\ request[j].at = 1 /\ request[j].doc.month = month => request[j].doc.used <= charged
  BY <1>1, HolderHas
<1>4. Quotas!Save(j, request[j].doc) /\ notices' = notices + cost /\ "done" \in QuotaSteps
  BY DEF Quotas!Notify, QuotaSteps
<1>5. cost \in {0, 1} /\ (request[j].doc.month = month => cost = 1)
  OBVIOUS
<1> HIDE DEF cost
<1>6. notices' \in Nat /\ (request[j].doc.month = month => notices' = notices + 1)
  BY <1>3, <1>4, <1>5
<1>7. ASSUME alone
      PROVE  /\ request[j].doc.month = month /\ request[j].doc.used = charged /\ notices' = 1
             /\ request[j].doc.notified = month /\ Quotas!Recorded = spent
  <2>1. InBetween(j) /\ Quotas!Used = charged /\ Len(quotas) = 1
    BY <1>1, <1>7, HolderHas, OnlyRequest
  <2>2. /\ request[j].doc = [quotas[1] EXCEPT !.notified = month] /\ request[j].doc.month = month
        /\ notices = 0 /\ Quotas!Recorded = spent
    BY <1>1, <2>1 DEF InBetween
  <2>3. quotas # <<>> /\ quotas[1] \in QuotaDocs
    <3>1. quotas \in Seq(QuotaDocs)
      BY DEF QuotaInv, QuotaTyped
    <3>2. quotas # <<>>
      BY <2>1, <3>1, FirstAndLast
    <3> QED
      BY <3>1, <3>2, FirstDoc
  <2>4. /\ request[j].doc.used = quotas[1].used /\ quotas[1].month = month
        /\ request[j].doc.notified = month
    BY <2>2, <2>3 DEF QuotaDocs
  <2> QED
    BY <1>6, <2>1, <2>2, <2>3, <2>4 DEF Quotas!Used
<1> QED
  BY <1>1, <1>2, <1>3, <1>4, <1>6, <1>7, SavesKeep

\* The usage document gets a copy of its own.
LEMMA RecordKeeps ==
    ASSUME QuotaInv, NEW j \in Calls, Quotas!Record(j) PROVE QuotaInv'
<1> DEFINE fresh == usages = <<>>
           usage == IF fresh THEN [m \in 1 .. MaxMonth |-> 0] ELSE usages[1]
           use == [usage EXCEPT ![month] = @ + 1]
           new == [request[j] EXCEPT !.pc = "count", !.at = IF fresh THEN 0 ELSE 1,
                                     !.doc = [use |-> use]]
<1>1. /\ request \in [Calls -> Requests] /\ month \in 1 .. MaxMonth /\ QuotaTyped
      /\ usages \in Seq([1 .. MaxMonth -> Nat])
      /\ request[j].pc = "record" /\ Active(j)
      /\ UNCHANGED <<quotas, usages, month, Quotas!history>>
  BY DEF QuotaInv, QuotaTyped, Quotas!Record, Active
<1>2. request' = [request EXCEPT ![j] = new]
  BY DEF Quotas!Record
<1>3. usage \in [1 .. MaxMonth -> Nat]
  <2>1. usages # <<>> => usages[1] \in [1 .. MaxMonth -> Nat]
    BY <1>1, FirstAndLast
  <2> QED
    BY <2>1
<1> HIDE DEF usage
<1>4. /\ usage[month] \in Nat
      /\ use \in [1 .. MaxMonth -> Nat] /\ use[month] = usage[month] + 1
      /\ \A m \in month + 1 .. MaxMonth : use[m] = usage[m]
  BY <1>1, <1>3
<1> HIDE DEF use
<1>5. [use |-> use] \in Uses /\ [use |-> use].use = use
  BY <1>4 DEF Uses
<1>6. /\ new \in Requests /\ new.pc = "count" /\ new.at = (IF fresh THEN 0 ELSE 1)
      /\ new.doc = [use |-> use]
  BY <1>1, <1>5 DEF Requests, QuotaSteps
<1> HIDE DEF new
<1>7. Becomes(j, "count", IF fresh THEN 0 ELSE 1, [use |-> use])
  BY <1>1, <1>2, <1>6, RequestBecomes
<1>8. ASSUME alone PROVE InBetween(j)'
  <2>1. /\ Quotas!Recorded + 1 = spent /\ Len(usages) <= 1
        /\ usages # <<>> => \A m \in month + 1 .. MaxMonth : usages[1][m] = 0
    BY <1>1, <1>8, OnlyRequest DEF InBetween
  <2>2. (IF fresh THEN 0 ELSE 1) = Len(usages)
    <3>1. Len(usages) \in Nat /\ (usages = <<>> <=> Len(usages) = 0)
      BY <1>1, FirstAndLast
    <3>2. Len(usages) <= 1
      BY <2>1
    <3>3. CASE fresh
      BY <3>1, <3>3
    <3>4. CASE ~ fresh
      <4>1. Len(usages) # 0
        BY <3>1, <3>4
      <4>2. Len(usages) \in Nat
        BY <3>1
      <4>3. Len(usages) = 1
        BY <3>2, <4>1, <4>2, ZeroOrOne
      <4> QED
        BY <3>4, <4>3
    <3> QED
      BY <3>3, <3>4
  <2>3. usage[month] = Quotas!Recorded
    BY <1>1 DEF Quotas!Recorded, usage
  <2>4. \A m \in month + 1 .. MaxMonth : usage[m] = 0
    BY <1>1, <2>1 DEF usage
  <2>5. use[month] = spent /\ \A m \in month + 1 .. MaxMonth : use[m] = 0
    BY <1>4, <2>1, <2>3, <2>4
  <2>6. UNCHANGED <<quotas, usages, month, spent>>
    BY <1>1 DEF Quotas!history
  <2>7. Quotas!Recorded' = Quotas!Recorded
    BY <2>6 DEF Quotas!Recorded
  <2>8. /\ request'[j].pc = "count" /\ request'[j].at = Len(usages)
        /\ request'[j].doc.use = use
    BY <1>5, <1>7, <2>2 DEF Becomes
  <2> QED
    BY <2>1, <2>5, <2>6, <2>7, <2>8 DEF InBetween
<1> QED
  BY <1>1, <1>5, <1>7, <1>8, LooksKeep

\* The copy of the usage document is saved, or inserted where there was none.
LEMMA CountKeeps ==
    ASSUME QuotaInv, NEW j \in Calls, Quotas!Count(j) PROVE QuotaInv'
<1>1. /\ request \in [Calls -> Requests] /\ month \in 1 .. MaxMonth /\ QuotaTyped
      /\ usages \in Seq([1 .. MaxMonth -> Nat]) /\ NoCopyOvercharges /\ charged \in Nat
      /\ request[j].pc = "count" /\ Active(j)
      /\ UNCHANGED <<quotas, month, charged, spent, notices, undone, alone>>
  BY DEF QuotaInv, QuotaTyped, Quotas!Count, Active, Quotas!history
<1>2. /\ request[j].doc.use \in [1 .. MaxMonth -> Nat]
      /\ request[j].at = 0 \/ (request[j].at = 1 /\ usages # <<>>)
  BY <1>1 DEF QuotaTyped, Uses
<1>3. usages' = IF request[j].at = 0 THEN Append(usages, request[j].doc.use)
                ELSE [usages EXCEPT ![1] = request[j].doc.use]
  BY DEF Quotas!Count
<1>4. usages' \in Seq([1 .. MaxMonth -> Nat]) /\ usages' # <<>>
  <2> DEFINE use == request[j].doc.use
             S == [1 .. MaxMonth -> Nat]
  <2>1. usages \in Seq(S) /\ use \in S
    BY <1>1, <1>2
  <2> HIDE DEF use, S
  <2>2. CASE request[j].at = 0
    <3>1. usages' = Append(usages, use)
      BY <1>3, <2>2 DEF use
    <3>2. usages' \in Seq(S) /\ usages' # <<>>
      BY <2>1, <3>1, FirstAndLast
    <3> QED
      BY <3>2 DEF S
  <2>3. CASE request[j].at # 0
    <3>1. usages' = [usages EXCEPT ![1] = use] /\ usages # <<>>
      BY <1>2, <1>3, <2>3 DEF use
    <3>2. usages' \in Seq(S) /\ usages' # <<>>
      BY <2>1, <3>1, FirstAndLast
    <3> QED
      BY <3>2 DEF S
  <2> QED
    BY <2>2, <2>3
<1>5. Becomes(j, "done", 0, None)
  BY <1>1, FinishDoes DEF Quotas!Count
<1>6. QuotaTyped'
  <2>1. /\ quotas' \in Seq(QuotaDocs) /\ Len(quotas) <= Len(quotas')
        /\ \A i \in DOMAIN quotas' : quotas'[i].month <= month'
    BY <1>1 DEF QuotaTyped
  <2>2. /\ charged' \in Nat /\ spent' \in Nat /\ notices' \in Nat
        /\ undone' \in BOOLEAN /\ alone' \in BOOLEAN
    BY <1>1 DEF QuotaTyped
  <2> QED
    BY <1>1, <1>4, <1>5, <2>1, <2>2, StaysTyped
<1>7. Quotas!Used' = Quotas!Used
  BY <1>1 DEF Quotas!Used
<1>8. NoCopyOvercharges'
  BY <1>1, <1>5, <1>7, StaysFair DEF NoCopyOvercharges
<1>9. ASSUME alone
      PROVE  /\ Len(usages') = 1 /\ usages'[1] = request[j].doc.use
             /\ request[j].doc.use[month] = spent
             /\ \A m \in month + 1 .. MaxMonth : request[j].doc.use[m] = 0
  <2>1. /\ request[j].at = Len(usages) /\ request[j].doc.use[month] = spent /\ Len(usages) <= 1
        /\ \A m \in month + 1 .. MaxMonth : request[j].doc.use[m] = 0
    BY <1>1, <1>9, OnlyRequest DEF InBetween
  <2>2. CASE request[j].at = 0
    <3>1. usages = <<>> /\ Len(usages) = 0 /\ usages' = Append(usages, request[j].doc.use)
      BY <1>1, <1>3, <2>1, <2>2, FirstAndLast
    <3> QED
      BY <1>1, <1>2, <2>1, <3>1, FirstAndLast
  <2>3. CASE request[j].at = 1
    <3>0. Len(usages) = 1
      BY <2>1, <2>3
    <3>1. usages # <<>> /\ usages' = [usages EXCEPT ![1] = request[j].doc.use]
      <4>1. Len(usages) = 0 <=> usages = <<>>
        BY <1>1, FirstAndLast
      <4> QED
        BY <1>3, <2>3, <3>0, <4>1
    <3>2. Len(usages') = 1 /\ usages'[1] = request[j].doc.use
      BY <1>1, <1>2, <3>0, <3>1, FirstAndLast
    <3> QED
      BY <2>1, <3>2
  <2> QED
    BY <1>2, <2>2, <2>3
<1>10. alone => Quotas!Recorded' = spent
  BY <1>1, <1>4, <1>9 DEF Quotas!Recorded
<1>11. OneRequest'
  <2>1. ASSUME alone
        PROVE  /\ Len(quotas') <= 1 /\ Quotas!Used' = charged' /\ notices' \in {0, 1}
               /\ notices' = 1 =>
                     quotas' # <<>> /\ quotas'[1].month = month' /\ quotas'[1].notified = month'
    BY <1>1, <1>7, <2>1, OnlyRequest
  <2>2. ASSUME alone
        PROVE  Len(usages') <= 1 /\ \A m \in month' + 1 .. MaxMonth : usages'[1][m] = 0
    <3>1. month' = month /\ Len(usages') = 1 /\ usages'[1] = request[j].doc.use
      BY <1>1, <1>9, <2>2
    <3>2. \A m \in month + 1 .. MaxMonth : request[j].doc.use[m] = 0
      BY <1>9, <2>2
    <3> QED
      BY <3>1, <3>2
  <2> QED
    BY <1>1, <1>5, <1>10, <2>1, <2>2, StaysAlone
<1> QED
  BY <1>6, <1>8, <1>11 DEF QuotaInv

LEMMA ResetKeeps ==
    ASSUME QuotaInv, NEW j \in Calls, Quotas!Reset(j) PROVE QuotaInv'
<1> DEFINE doc == Quotas!Fresh(request[j].doc)
<1>1. /\ Holds(j) /\ request[j].pc = "use" /\ UNCHANGED <<usages, month, spent, alone>>
      /\ QuotaTyped
  BY DEF Quotas!Reset, Holds, Quotas!Use, QuotaInv
<1>2. /\ request \in [Calls -> Requests] /\ month \in Nat /\ Active(j)
      /\ request[j].at \in DOMAIN quotas /\ request[j].doc \in QuotaDocs
      /\ charged \in Nat /\ spent \in Nat /\ notices \in Nat
      /\ alone => request[j].at = 1
      /\ ~ undone => Quotas!Used <= charged
  BY <1>1, HolderHas
<1>3. doc \in QuotaDocs /\ doc.month = month /\ doc.used = 0 /\ doc.notified = 0
  BY <1>2, FreshDoes
<1>4. Quotas!Save(j, doc) /\ Becomes(j, "done", 0, None)
  BY <1>2, FinishDoes DEF Quotas!Reset
<1> HIDE DEF doc
<1>5. /\ quotas' \in Seq(QuotaDocs) /\ Len(quotas') = Len(quotas) /\ DOMAIN quotas' = DOMAIN quotas
      /\ quotas' # <<>> /\ quotas # <<>>
      /\ \A i \in DOMAIN quotas' : quotas'[i].month <= month
      /\ quotas'[1] = IF request[j].at = 1 THEN doc ELSE quotas[1]
  BY <1>1, <1>2, <1>3, <1>4, SaveDoes DEF QuotaTyped
<1>6. /\ charged' = (IF request[j].at = 1 THEN 0 ELSE charged)
      /\ notices' = (IF request[j].at = 1 THEN 0 ELSE notices)
      /\ undone' = (undone \/ \E k \in Calls \ {j} : Holds(k))
  BY DEF Quotas!Reset, Holds
<1>7. QuotaTyped'
  <2>1. Len(quotas) <= Len(quotas')
    BY <1>1, <1>5 DEF QuotaTyped
  <2>2. charged' \in Nat /\ notices' \in Nat /\ undone' \in BOOLEAN /\ spent' \in Nat
    BY <1>1, <1>2, <1>6 DEF QuotaTyped
  <2> QED
    BY <1>1, <1>4, <1>5, <2>1, <2>2, StaysTyped DEF QuotaTyped
<1>8. NoCopyOvercharges'
  <2> SUFFICES ASSUME ~ undone' PROVE NoCopyOvercharges'
    BY DEF NoCopyOvercharges
  <2>1. ~ undone /\ \A k \in Calls \ {j} : ~ Holds(k)
    BY <1>6
  <2>2. \A k \in Calls : ~ Holds(k)'
    BY <1>4, <2>1 DEF Becomes, Holds
  <2>3. Quotas!Used' <= charged'
    <3>1. CASE request[j].at = 1
      BY <1>1, <1>3, <1>5, <1>6, <3>1 DEF Quotas!Used
    <3>2. CASE request[j].at # 1
      <4>1. Quotas!Used' = Quotas!Used /\ charged' = charged
        BY <1>1, <1>5, <1>6, <3>2 DEF Quotas!Used
      <4> QED
        BY <1>2, <2>1, <4>1
    <3> QED
      BY <3>1, <3>2
  <2> QED
    BY <2>2, <2>3 DEF NoCopyOvercharges
<1>9. OneRequest'
  <2>1. ASSUME alone
        PROVE  /\ Len(quotas') <= 1 /\ Quotas!Used' = charged' /\ notices' = 0
    <3>1. quotas'[1] = doc /\ charged' = 0 /\ notices' = 0
      BY <1>2, <1>5, <1>6, <2>1
    <3>2. Len(quotas) <= 1
      BY <1>2, <2>1, OnlyRequest
    <3> QED
      BY <1>1, <1>3, <1>5, <3>1, <3>2 DEF Quotas!Used
  <2>2. ASSUME alone PROVE Len(usages) <= 1 /\ (usages # <<>> => \A m \in month + 1 .. MaxMonth : usages[1][m] = 0)
    BY <1>2, <2>2, OnlyRequest
  <2>3. alone => Quotas!Recorded' = spent'
    <3>1. Quotas!Recorded' = Quotas!Recorded
      BY <1>1 DEF Quotas!Recorded
    <3> QED
      BY <1>1, <3>1, UserKnows
  <2> QED
    BY <1>1, <1>2, <1>4, <2>1, <2>2, <2>3, StaysAlone
<1> QED
  BY <1>7, <1>8, <1>9 DEF QuotaInv

\* An exhausted request looks at its document anew.
LEMMA FilterKeeps ==
    ASSUME QuotaInv, NEW j \in Calls, NEW boost, NEW kind \in {"info", "warn"},
           Quotas!Filter(j, boost, kind)
    PROVE  QuotaInv'
<1> DEFINE new == [Quotas!NoJob EXCEPT !.pc = "find", !.kind = kind]
<1>1. /\ request[j].pc = "use" /\ Active(j) /\ request \in [Calls -> Requests]
      /\ UNCHANGED <<quotas, usages, month, Quotas!history>>
  BY DEF Quotas!Filter, Quotas!Use, Active, QuotaInv, QuotaTyped
<1>2. new \in Requests /\ new.pc = "find" /\ new.at = 0 /\ new.doc = None
  BY DEF Quotas!NoJob, Requests, QuotaSteps
<1>3. request' = [request EXCEPT ![j] = new]
  BY DEF Quotas!Filter
<1> HIDE DEF new
<1>4. Becomes(j, "find", 0, None)
  BY <1>1, <1>2, <1>3, RequestBecomes
<1>5. UNCHANGED <<usages, month, spent>>
  BY <1>1 DEF Quotas!history
<1>6. alone => InBetween(j)'
  BY <1>1, <1>4, <1>5, UserKnows DEF Becomes, InBetween, Quotas!Recorded
<1> QED
  BY <1>1, <1>4, <1>6, LooksKeep

LEMMA InfoKeeps ==
    ASSUME QuotaInv, NEW j \in Calls, Quotas!Info(j) PROVE QuotaInv'
<1>1. /\ request[j].pc = "use" /\ Active(j) /\ request \in [Calls -> Requests]
      /\ UNCHANGED <<quotas, usages, month, Quotas!history>>
  BY DEF Quotas!Info, Quotas!Use, Active, QuotaInv, QuotaTyped
<1>2. Becomes(j, "done", 0, None)
  BY <1>1, FinishDoes DEF Quotas!Info
<1> QED
  BY <1>1, <1>2, UserKnows, LooksKeep

LEMMA LookKeeps ==
    ASSUME QuotaInv, NEW j \in Calls, Quotas!Look(j) PROVE QuotaInv'
<1> DEFINE period == request[j].doc.month
           doc == [quotas[1] EXCEPT !.notified = period]
           new == [request[j] EXCEPT !.pc = "notify", !.at = 1, !.doc = doc]
<1>1. /\ request[j].pc = "use" /\ Active(j) /\ Holds(j) /\ request \in [Calls -> Requests]
      /\ UNCHANGED <<quotas, usages, month, Quotas!history>>
      /\ quotas \in Seq(QuotaDocs) /\ quotas # <<>>
  BY DEF Quotas!Look, Quotas!Use, Active, Holds, QuotaInv, QuotaTyped
<1>2. quotas[1] \in QuotaDocs /\ period \in Nat /\ 1 \in DOMAIN quotas /\ quotas[1].month <= month
  <2>1. quotas[1] \in QuotaDocs
    BY <1>1, FirstDoc
  <2>2. request[j].doc \in QuotaDocs
    BY <1>1, HolderHas
  <2>3. period \in Nat
    BY <2>2 DEF QuotaDocs
  <2>4. 1 \in DOMAIN quotas
    BY <1>1
  <2>5. quotas[1].month <= month
    BY <2>4 DEF QuotaInv, QuotaTyped
  <2> QED
    BY <2>1, <2>3, <2>4, <2>5
<1>3. /\ doc \in QuotaDocs /\ doc.month = quotas[1].month /\ doc.used = quotas[1].used
      /\ doc.notified = period
  BY <1>2 DEF QuotaDocs
<1>4. CASE quotas[1].notified = period
  <2>1. Becomes(j, "done", 0, None)
    BY <1>1, <1>4, FinishDoes DEF Quotas!Look
  <2> QED
    BY <1>1, <2>1, UserKnows, LooksKeep
<1>5. CASE quotas[1].notified # period
  <2>1. request' = [request EXCEPT ![j] = new]
    BY <1>5 DEF Quotas!Look
  <2> HIDE DEF doc
  <2>2. new \in Requests /\ new.pc = "notify" /\ new.at = 1 /\ new.doc = doc
    BY <1>1, <1>3 DEF Requests, QuotaSteps
  <2> HIDE DEF new
  <2>3. Becomes(j, "notify", 1, doc)
    BY <1>1, <2>1, <2>2, RequestBecomes
  <2>4. UNCHANGED <<quotas, usages, month, charged, spent, notices>>
    BY <1>1 DEF Quotas!history
  <2>5. ASSUME alone PROVE InBetween(j)'
    <3>1. /\ period = month /\ request[j].doc = quotas[1] /\ Quotas!Recorded = spent /\ notices \in {0, 1}
          /\ notices = 1 => request[j].doc.notified = month
      BY <1>1, <2>5, UserKnows
    <3>2. notices = 0 /\ doc = [quotas[1] EXCEPT !.notified = month] /\ doc.month = month
      BY <1>3, <1>5, <3>1 DEF doc
    <3>3. Quotas!Recorded' = Quotas!Recorded
      BY <2>4 DEF Quotas!Recorded
    <3>4. request'[j].pc = "notify" /\ request'[j].doc = doc
      BY <2>3 DEF Becomes
    <3> QED
      BY <2>4, <3>1, <3>2, <3>3, <3>4 DEF InBetween
  <2>6. ~ undone /\ doc.month = month => doc.used <= charged
    BY <1>1, <1>3, HolderHas DEF Quotas!Used
  <2> QED
    BY <1>1, <1>2, <1>3, <2>3, <2>5, <2>6, LooksKeep
<1> QED
  BY <1>4, <1>5

\* No copy is of a month yet to come, and nothing is recorded of it.
LEMMA NextMonthKeeps ==
    ASSUME QuotaInv, MaxMonth \in Nat, Quotas!NextMonth PROVE QuotaInv'
<1>1. /\ month < MaxMonth /\ month' = month + 1 /\ charged' = 0 /\ spent' = 0 /\ notices' = 0
      /\ alone' = (alone /\ Quotas!Quiet) /\ UNCHANGED <<quotas, usages, request, undone>>
  BY DEF Quotas!NextMonth
<1>2. /\ QuotaTyped /\ month \in 1 .. MaxMonth /\ quotas \in Seq(QuotaDocs)
      /\ usages \in Seq([1 .. MaxMonth -> Nat])
  BY DEF QuotaInv, QuotaTyped
<1>3. month' \in 1 .. MaxMonth /\ month \in Nat /\ month' \in Nat
  BY <1>1, <1>2
<1>4. /\ \A i \in DOMAIN quotas : quotas[i].month < month'
      /\ \A k \in Calls : Holds(k) => request[k].doc.month < month' /\ request[k].doc \in QuotaDocs
  <2>1. ASSUME NEW i \in DOMAIN quotas PROVE quotas[i].month < month'
    <3>1. quotas[i] \in QuotaDocs
      BY <1>2
    <3>2. quotas[i].month \in Nat
      BY <3>1 DEF QuotaDocs
    <3>3. quotas[i].month <= month
      BY <1>2 DEF QuotaTyped
    <3> QED
      BY <1>1, <1>3, <3>2, <3>3
  <2>2. ASSUME NEW k \in Calls, Holds(k)
        PROVE  request[k].doc.month < month' /\ request[k].doc \in QuotaDocs
    <3>1. request[k].doc \in QuotaDocs /\ request[k].doc.month <= month
      BY <1>2, <2>2 DEF QuotaTyped
    <3>2. request[k].doc.month \in Nat
      BY <3>1 DEF QuotaDocs
    <3> QED
      BY <1>1, <1>3, <3>1, <3>2
  <2> QED
    BY <2>1, <2>2
<1>5. QuotaTyped'
  <2>1. \A i \in DOMAIN quotas' : quotas'[i].month <= month'
    <3> SUFFICES ASSUME NEW i \in DOMAIN quotas PROVE quotas[i].month <= month'
      BY <1>1
    <3>1. quotas[i] \in QuotaDocs
      BY <1>2
    <3>2. quotas[i].month \in Nat
      BY <3>1 DEF QuotaDocs
    <3> QED
      BY <1>3, <1>4, <3>2
  <2>2. \A k \in Calls : Holds(k)' =>
            /\ request'[k].at \in DOMAIN quotas'
            /\ request'[k].doc \in QuotaDocs /\ request'[k].doc.month <= month'
    <3> SUFFICES ASSUME NEW k \in Calls, Holds(k)
                 PROVE  /\ request[k].at \in DOMAIN quotas
                        /\ request[k].doc \in QuotaDocs /\ request[k].doc.month <= month'
      BY <1>1 DEF Holds
    <3>1. request[k].doc \in QuotaDocs /\ request[k].at \in DOMAIN quotas
      BY <1>2 DEF QuotaTyped
    <3>2. request[k].doc.month \in Nat
      BY <3>1 DEF QuotaDocs
    <3> QED
      BY <1>3, <1>4, <3>1, <3>2
  <2>3. alone' \in BOOLEAN /\ undone' \in BOOLEAN
    BY <1>1, <1>2 DEF QuotaTyped
  <2> QED
    BY <1>1, <1>2, <1>3, <2>1, <2>2, <2>3 DEF QuotaTyped
<1>6. Quotas!Used' = 0
  <2>1. quotas # <<>> => 1 \in DOMAIN quotas /\ quotas[1].month \in Nat
    BY <1>2, FirstDoc
  <2>2. quotas # <<>> => quotas[1].month # month'
    BY <1>3, <1>4, <2>1
  <2> QED
    BY <1>1, <2>2 DEF Quotas!Used
<1>7. NoCopyOvercharges'
  <2>1. ASSUME NEW k \in Calls, Holds(k)' PROVE request'[k].doc.month # month'
    <3>1. Holds(k) /\ request'[k] = request[k]
      BY <1>1, <2>1 DEF Holds
    <3>2. request[k].doc.month < month' /\ request[k].doc \in QuotaDocs
      BY <1>4, <3>1
    <3>3. request[k].doc.month \in Nat
      BY <3>2 DEF QuotaDocs
    <3> QED
      BY <1>3, <3>1, <3>2, <3>3
  <2> QED
    BY <1>1, <1>6, <2>1 DEF NoCopyOvercharges
<1>8. OneRequest'
  <2> SUFFICES ASSUME alone, Quotas!Quiet PROVE OneRequest'
    BY <1>1 DEF OneRequest
  <2>1. Len(quotas) <= 1 /\ Len(usages) <= 1
    BY DEF QuotaInv, OneRequest
  <2>2. usages # <<>> => \A m \in month + 1 .. MaxMonth : usages[1][m] = 0
    BY DEF QuotaInv, OneRequest
  <2>3. month' \in month + 1 .. MaxMonth /\ month' + 1 .. MaxMonth \subseteq month + 1 .. MaxMonth
    BY <1>1, <1>3
  <2>4. Quotas!Recorded' = 0
    BY <1>1, <2>2, <2>3 DEF Quotas!Recorded
  <2>5. \A k \in Calls : ~ Active(k)'
    BY <1>1 DEF Active, Quotas!Quiet
  <2>6. usages' # <<>> => \A m \in month' + 1 .. MaxMonth : usages'[1][m] = 0
    BY <1>1, <2>2, <2>3
  <2> QED
    BY <1>1, <1>6, <2>1, <2>4, <2>5, <2>6 DEF OneRequest, Active
<1> QED
  BY <1>5, <1>7, <1>8 DEF QuotaInv

\* A request that breaks off leaves no copy behind.
LEMMA DieKeeps ==
    ASSUME QuotaInv, NEW j \in Calls, Quotas!Die(j) PROVE QuotaInv'
<1>1. /\ request \in [Calls -> Requests] /\ QuotaTyped /\ NoCopyOvercharges /\ charged \in Nat
      /\ UNCHANGED <<quotas, usages, month, charged, spent, notices, undone>> /\ alone' = FALSE
  BY DEF QuotaInv, QuotaTyped, Quotas!Die
<1>2. Becomes(j, "done", 0, None)
  BY <1>1, FinishDoes DEF Quotas!Die
<1>3. QuotaTyped'
  <2>1. /\ quotas' \in Seq(QuotaDocs) /\ Len(quotas) <= Len(quotas')
        /\ \A i \in DOMAIN quotas' : quotas'[i].month <= month'
    BY <1>1 DEF QuotaTyped
  <2>2. usages' \in Seq([1 .. MaxMonth -> Nat]) /\ (usages # <<>> => usages' # <<>>)
    BY <1>1 DEF QuotaTyped
  <2>3. /\ charged' \in Nat /\ spent' \in Nat /\ notices' \in Nat
        /\ undone' \in BOOLEAN /\ alone' \in BOOLEAN
    BY <1>1 DEF QuotaTyped
  <2> QED
    BY <1>1, <1>2, <2>1, <2>2, <2>3, StaysTyped
<1>4. NoCopyOvercharges'
  <2>1. Quotas!Used' = Quotas!Used
    BY <1>1 DEF Quotas!Used
  <2> QED
    BY <1>1, <1>2, <2>1, StaysFair DEF NoCopyOvercharges
<1>5. OneRequest'
  BY <1>1 DEF OneRequest
<1> QED
  BY <1>3, <1>4, <1>5 DEF QuotaInv

LEMMA QuotaStutters ==
    ASSUME QuotaInv, UNCHANGED Quotas!vars PROVE QuotaInv'
<1>1. UNCHANGED <<quotas, usages, month, request, charged, spent, notices, undone, alone>>
  BY DEF Quotas!vars
<1>2. QuotaTyped'
  BY <1>1 DEF QuotaInv, QuotaTyped, Holds
<1>3. NoCopyOvercharges'
  BY <1>1 DEF QuotaInv, NoCopyOvercharges, Holds, Quotas!Used
<1>4. ASSUME NEW j \in Calls, InBetween(j) PROVE InBetween(j)'
  BY <1>1, <1>4 DEF InBetween, Quotas!Fresh, Quotas!Recorded
<1>5. OneRequest'
  BY <1>1, <1>4 DEF QuotaInv, OneRequest, Quotas!Used, Quotas!Recorded, Quotas!Quiet
<1> QED
  BY <1>2, <1>3, <1>5 DEF QuotaInv

LEMMA QuotaNextPreserves ==
    ASSUME QuotaInv, MaxMonth \in Nat, [Quotas!Next]_(Quotas!vars) PROVE QuotaInv'
<1>1. CASE Quotas!NextMonth
  BY <1>1, NextMonthKeeps
<1>2. ASSUME NEW j \in Calls,
             \/ \E kind \in Quotas!Kinds : Quotas!Begin(j, kind)
             \/ Quotas!Find(j) \/ Quotas!Insert(j) \/ Quotas!Roll(j) \/ Quotas!Charge(j)
             \/ Quotas!Record(j) \/ Quotas!Count(j) \/ Quotas!Reset(j)
             \/ \E limit \in Limits : Quotas!SetLimit(j, limit)
             \/ \E boost \in Boosts, kind \in {"info", "warn"} : Quotas!Filter(j, boost, kind)
             \/ Quotas!Info(j) \/ Quotas!Look(j) \/ Quotas!Notify(j) \/ Quotas!Die(j)
      PROVE  QuotaInv'
  BY <1>2, BeginKeeps, FindKeeps, InsertKeeps, RollKeeps, ChargeKeeps, RecordKeeps, CountKeeps,
     ResetKeeps, SetLimitKeeps, FilterKeeps, InfoKeeps, LookKeeps, NotifyKeeps, DieKeeps
<1>3. CASE UNCHANGED Quotas!vars
  BY <1>3, QuotaStutters
<1> QED
  BY <1>1, <1>2, <1>3 DEF Quotas!Next

LEMMA QuotaInvImplies ==
    ASSUME QuotaInv PROVE Quotas!QuotaHolds
<1>1. Quotas!NeverOvercharged
  BY DEF QuotaInv, NoCopyOvercharges, Quotas!NeverOvercharged
<1>2. Quotas!ChargedOnce
  BY DEF QuotaInv, OneRequest, Quotas!ChargedOnce
<1> QED
  BY <1>1, <1>2 DEF Quotas!QuotaHolds

-----------------------------------------------------------------------------
(* ProactiveReplies, by its own names of the slots *)

cached == v1
tracked == v2
aged == v3
holder == v4
update == v5
served == v6
finished == v7
lapsed == v8
vanished == v10

BatchesUsual == LastMessage \in Nat /\ Batch \in Nat \ {0} /\ None \notin Nat

Messages == Proactive!Messages

Updates ==
    [pc : {"new", "track", "lock", "load", "act", "unlock", "done"}, batch : SUBSET Messages,
     acts : Nat]

BatchesTyped ==
    /\ cached \subseteq Messages /\ tracked \subseteq cached
    /\ aged \in Nat
    /\ holder \in Messages \cup {None}
    /\ update \in [Messages -> Updates]
    /\ \A m \in Messages : m \in cached <=> update[m].pc # "new"
    /\ served \in [Messages -> SUBSET Messages]
    /\ lapsed \in BOOLEAN /\ alone \in BOOLEAN

\* Until a lock runs out, who works on a batch has the lock.
HolderHolds ==
    lapsed \/ \A m \in Messages : update[m].pc \in {"load", "act", "unlock"} => holder = m

\* The tracked messages that the next batch may still count.
Young == tracked \cap Proactive!Recent

Served(y) == served[y] # {}

\* Updates in order leave the latest messages tracked, fewer than a batch, and
\* the messages that were acted on before them.
InTurn ==
    alone /\ ~ lapsed =>
        /\ \A m, k \in Messages : k < m /\ update[m].pc # "new" => update[k].pc = "done"
        /\ holder # None => update[holder].pc \in {"load", "act", "unlock"}
        /\ \A t \in Young, k \in cached : k > t => k \in tracked \/ update[k].pc = "track"
        /\ \A y \in Messages : Served(y) => update[y].pc \notin {"new", "track"}
        /\ \A y \in Messages : \A a, b \in served[y] : a = b
        /\ (\A m \in Messages : update[m].pc \notin {"lock", "load", "act"}) =>
               Cardinality(Young) < Batch
        /\ (\A m \in Messages : update[m].pc # "act") =>
               \A y \in Messages, t \in Young : Served(y) => y < t

\* A batch has not begun before there are enough messages after those that
\* were acted on; then it takes only such, and all that are tracked.
BatchIsNew ==
    alone /\ ~ lapsed => \A m \in Messages :
        /\ update[m].pc \in {"lock", "load"} =>
              /\ Cardinality(Young) <= Batch
              /\ \A y \in Messages : Served(y) => Cardinality({k \in cached : k > y}) >= Batch
        /\ update[m].pc = "act" =>
              /\ update[m].batch \subseteq cached /\ Young \subseteq update[m].batch
              /\ \A y \in update[m].batch : served[y] \subseteq {m}

BatchesInv ==
    BatchesTyped /\ HolderHolds /\ Proactive!TrackedKept /\ InTurn /\ BatchIsNew

USE DEF cached, tracked, aged, holder, update, served, finished, lapsed, alone, vanished, Messages

\* The update of m is at that step now; the others stay.
Moves(m, step, batch) ==
    /\ update' \in [Messages -> Updates]
    /\ update'[m].pc = step /\ update'[m].batch = batch
    /\ \A k \in Messages \ {m} : update'[k] = update[k]

LEMMA MovesTo ==
    ASSUME update \in [Messages -> Updates], NEW m \in Messages, NEW new \in Updates,
           update' = [update EXCEPT ![m] = new]
    PROVE  Moves(m, new.pc, new.batch)
BY DEF Moves

LEMMA GoDoes ==
    ASSUME update \in [Messages -> Updates], NEW m \in Messages,
           NEW step \in {"track", "lock", "load", "unlock", "done"}, Proactive!Go(m, step)
    PROVE  Moves(m, step, {})
<1> DEFINE new == [Proactive!NewJob EXCEPT !.pc = step]
<1>1. new \in Updates /\ new.pc = step /\ new.batch = {}
  BY DEF Proactive!NewJob, Updates
<1>2. update' = [update EXCEPT ![m] = new]
  BY DEF Proactive!Go
<1> HIDE DEF new
<1> QED
  BY <1>1, <1>2, MovesTo

LEMMA SameCount ==
    ASSUME NEW S PROVE Proactive!Cardinality(S) = Cardinality(S)
BY DEF Proactive!Cardinality, Cardinality, Proactive!IsFiniteSet, IsFiniteSet

\* Sets of messages are finite.
LEMMA FewMessages ==
    ASSUME BatchesUsual, NEW S \in SUBSET Messages, NEW T \in SUBSET S
    PROVE  /\ IsFiniteSet(S) /\ Cardinality(S) \in Nat /\ Cardinality(T) \in Nat
           /\ Cardinality(T) <= Cardinality(S)
<1>1. IsFiniteSet(1 .. LastMessage)
  BY FS_Interval DEF BatchesUsual
<1>2. IsFiniteSet(S)
  BY <1>1, FS_Subset DEF Proactive!Messages
<1>3. IsFiniteSet(T) /\ Cardinality(T) <= Cardinality(S)
  BY <1>2, FS_Subset
<1> QED
  BY <1>2, <1>3, FS_CardinalityType

LEMMA MessagesAreNumbers ==
    ASSUME BatchesUsual PROVE Messages \subseteq Nat \ {0} /\ None \notin Messages
BY DEF BatchesUsual, Proactive!Messages

LEMMA TypedMoves ==
    ASSUME BatchesTyped, NEW m \in Messages, NEW step, NEW batch, step # "new",
           Moves(m, step, batch), cached' = cached \cup {m}, tracked' \subseteq cached', aged' = aged,
           holder' \in Messages \cup {None}, served' \in [Messages -> SUBSET Messages],
           lapsed' \in BOOLEAN, alone' \in BOOLEAN
    PROVE  BatchesTyped'
BY DEF BatchesTyped, Moves

LEMMA HolderMoves ==
    ASSUME HolderHolds, NEW m \in Messages, NEW step, NEW batch, Moves(m, step, batch),
           lapsed' = lapsed, ~ lapsed /\ step \in {"load", "act", "unlock"} => holder' = m,
           \/ holder' = holder
           \/ lapsed
           \/ \A k \in Messages \ {m} : update[k].pc \notin {"load", "act", "unlock"}
    PROVE  HolderHolds'
BY DEF HolderHolds, Moves

LEMMA KeptMoves ==
    ASSUME BatchesTyped, Proactive!TrackedKept, NEW m \in Messages, NEW step, NEW batch,
           Moves(m, step, batch), aged' = aged, finished \subseteq finished',
           vanished \subseteq vanished',
           \A k \in Messages : k \in tracked => k \in tracked' \cup finished' \cup vanished' \/ k <= aged,
           step \in {"lock", "load", "act", "unlock"} =>
               m \in tracked' \cup finished' \cup vanished' \/ m <= aged
    PROVE  Proactive!TrackedKept'
BY DEF Proactive!TrackedKept, Moves

\* Updates in order have one that is under way.
LEMMA OnlyOne ==
    ASSUME BatchesUsual, InTurn, alone, ~ lapsed, NEW m \in Messages,
           update[m].pc \notin {"new", "done"}
    PROVE  \A k \in Messages \ {m} : update[k].pc \in {"new", "done"}
<1> SUFFICES ASSUME NEW k \in Messages, k # m PROVE update[k].pc \in {"new", "done"}
  OBVIOUS
<1>1. k < m \/ m < k
  BY MessagesAreNumbers
<1> QED
  BY <1>1 DEF InTurn

LEMMA TurnMoves ==
    ASSUME BatchesUsual, BatchesTyped, InTurn, BatchIsNew, NEW m \in Messages,
           update[m].pc \notin {"new", "done"},
           NEW step, step \notin {"new", "track"}, NEW batch, Moves(m, step, batch),
           cached' = cached, alone' = alone, lapsed' = lapsed,
           alone /\ ~ lapsed =>
              /\ holder' # None => holder' = m /\ step \in {"load", "act", "unlock"}
              /\ \A t \in Young', k \in cached : k > t => k \in tracked'
              /\ \A y \in Messages : Served(y)' => y \in cached
              /\ \A y \in Messages : \A a, b \in served'[y] : a = b
              /\ step \notin {"lock", "load", "act"} => Cardinality(Young') < Batch
              /\ step # "act" => \A y \in Messages, t \in Young' : Served(y)' => y < t
              /\ step \in {"lock", "load"} =>
                    /\ Cardinality(Young') <= Batch
                    /\ \A y \in Messages :
                          Served(y)' => Cardinality({k \in cached : k > y}) >= Batch
              /\ step = "act" =>
                    /\ batch \subseteq cached /\ Young' \subseteq batch
                    /\ \A y \in batch : served'[y] \subseteq {m}
    PROVE  InTurn' /\ BatchIsNew'
<1> SUFFICES ASSUME alone, ~ lapsed PROVE InTurn' /\ BatchIsNew'
  BY DEF InTurn, BatchIsNew
<1>1. \A k \in Messages \ {m} : update[k].pc \in {"new", "done"} /\ update'[k].pc = update[k].pc
  BY OnlyOne DEF Moves
<1>2. update'[m].pc = step /\ update'[m].batch = batch
  BY DEF Moves
<1>3. \A j, k \in Messages : k < j /\ update'[j].pc # "new" => update'[k].pc = "done"
  <2> SUFFICES ASSUME NEW j \in Messages, NEW k \in Messages, k < j, update'[j].pc # "new"
               PROVE  update'[k].pc = "done"
    OBVIOUS
  <2>1. update[j].pc # "new"
    BY <1>1, <1>2
  <2>2. update[k].pc = "done"
    BY <2>1 DEF InTurn
  <2> QED
    BY <1>1, <2>2
<1>4. \A y \in Messages : Served(y)' => update'[y].pc \notin {"new", "track"}
  <2> SUFFICES ASSUME NEW y \in Messages, Served(y)' PROVE update'[y].pc \notin {"new", "track"}
    OBVIOUS
  <2>1. y \in cached
    OBVIOUS
  <2>2. update[y].pc # "new"
    BY <2>1 DEF BatchesTyped
  <2> QED
    BY <1>1, <1>2, <2>2
<1>5. InTurn'
  <2>1. holder' # None => update'[holder'].pc \in {"load", "act", "unlock"}
    BY <1>2
  <2>2. (\A k \in Messages : update'[k].pc \notin {"lock", "load", "act"}) => Cardinality(Young') < Batch
    BY <1>2
  <2>3. (\A k \in Messages : update'[k].pc # "act") =>
            \A y \in Messages, t \in Young' : Served(y)' => y < t
    BY <1>2
  <2> QED
    BY <1>3, <1>4, <2>1, <2>2, <2>3 DEF InTurn
<1>6. BatchIsNew'
  BY <1>1, <1>2 DEF BatchIsNew
<1> QED
  BY <1>5, <1>6

\* Time takes messages off, oldest first, or all at once.
LEMMA TurnShrinks ==
    ASSUME BatchesUsual, BatchesTyped, InTurn, BatchIsNew,
           UNCHANGED <<cached, holder, update, served, alone, lapsed>>,
           Young' \subseteq Young, \A t \in Young', k \in tracked : k > t => k \in tracked'
    PROVE  InTurn' /\ BatchIsNew'
<1> SUFFICES ASSUME alone, ~ lapsed PROVE InTurn' /\ BatchIsNew'
  BY DEF InTurn, BatchIsNew
<1>1. Cardinality(Young') <= Cardinality(Young) /\ Cardinality(Young') \in Nat /\ Cardinality(Young) \in Nat
  BY FewMessages DEF Young, BatchesTyped
<1>2. Batch \in Nat
  BY DEF BatchesUsual
<1>3. \A y : Served(y)' <=> Served(y)
  BY DEF Served
<1>4. (\A m \in Messages : update'[m].pc \notin {"lock", "load", "act"}) => Cardinality(Young') < Batch
  <2> SUFFICES ASSUME \A m \in Messages : update'[m].pc \notin {"lock", "load", "act"}
               PROVE  Cardinality(Young') < Batch
    OBVIOUS
  <2>1. Cardinality(Young) < Batch
    BY DEF InTurn
  <2> QED
    BY <1>1, <1>2, <2>1
<1>5. InTurn'
  <2>1. \A t \in Young', k \in cached' : k > t => k \in tracked' \/ update'[k].pc = "track"
    BY DEF InTurn
  <2>2. /\ \A m, k \in Messages : k < m /\ update'[m].pc # "new" => update'[k].pc = "done"
        /\ holder' # None => update'[holder'].pc \in {"load", "act", "unlock"}
        /\ \A y \in Messages : Served(y)' => update'[y].pc \notin {"new", "track"}
        /\ \A y \in Messages : \A a, b \in served'[y] : a = b
    BY <1>3 DEF InTurn
  <2>3. (\A m \in Messages : update'[m].pc # "act") =>
            \A y \in Messages, t \in Young' : Served(y)' => y < t
    BY <1>3 DEF InTurn
  <2> QED
    BY <1>4, <2>1, <2>2, <2>3 DEF InTurn
<1>6. BatchIsNew'
  <2> SUFFICES ASSUME NEW m \in Messages
               PROVE  /\ update[m].pc \in {"lock", "load"} =>
                            /\ Cardinality(Young') <= Batch
                            /\ \A y \in Messages :
                                  Served(y) => Cardinality({k \in cached : k > y}) >= Batch
                      /\ update[m].pc = "act" =>
                            /\ update[m].batch \subseteq cached /\ Young' \subseteq update[m].batch
                            /\ \A y \in update[m].batch : served[y] \subseteq {m}
    BY <1>3 DEF BatchIsNew
  <2>1. update[m].pc \in {"lock", "load"} => Cardinality(Young) <= Batch
    BY DEF BatchIsNew
  <2>2. update[m].pc \in {"lock", "load"} => Cardinality(Young') <= Batch
    BY <1>1, <1>2, <2>1
  <2> QED
    BY <2>2 DEF BatchIsNew
<1> QED
  BY <1>5, <1>6

LEMMA BatchesBegin ==
    ASSUME BatchesUsual, Proactive!Init PROVE BatchesInv
<1>1. update = [m \in Messages |-> Proactive!NewJob] /\ Proactive!NewJob \in Updates
  BY DEF Proactive!Init, Proactive!NewJob, Updates
<1>2. \A m \in Messages : update[m].pc = "new"
  BY <1>1 DEF Proactive!NewJob
<1>3. /\ cached = {} /\ tracked = {} /\ aged = 0 /\ holder = None /\ lapsed = FALSE /\ alone = TRUE
      /\ served = [m \in Messages |-> {}]
  BY DEF Proactive!Init
<1>4. BatchesTyped
  BY <1>1, <1>2, <1>3 DEF BatchesTyped
<1>5. Cardinality(Young) = 0 /\ Batch \in Nat \ {0}
  BY <1>3, FS_EmptySet DEF Young, BatchesUsual
<1>6. InTurn /\ BatchIsNew
  BY <1>2, <1>3, <1>5 DEF InTurn, BatchIsNew, Served, Young
<1>7. HolderHolds /\ Proactive!TrackedKept
  BY <1>2 DEF HolderHolds, Proactive!TrackedKept
<1> QED
  BY <1>4, <1>6, <1>7 DEF BatchesInv

LEMMA CacheKeeps ==
    ASSUME BatchesUsual, BatchesInv, NEW m \in Messages, Proactive!Cache(m) PROVE BatchesInv'
<1>1. /\ BatchesTyped /\ HolderHolds /\ Proactive!TrackedKept /\ InTurn /\ BatchIsNew
      /\ update[m].pc = "new" /\ cached' = cached \cup {m}
      /\ alone' = (alone /\ \A k \in Messages : update[k].pc = IF k < m THEN "done" ELSE "new")
      /\ UNCHANGED <<tracked, aged, holder, served, finished, lapsed, vanished>>
      /\ update \in [Messages -> Updates]
  BY DEF BatchesInv, BatchesTyped, Proactive!Cache
<1>2. Moves(m, "track", {})
  BY <1>1, GoDoes DEF Proactive!Cache
<1>3. BatchesTyped'
  BY <1>1, <1>2, TypedMoves DEF BatchesTyped
<1>4. HolderHolds' /\ Proactive!TrackedKept'
  BY <1>1, <1>2, HolderMoves, KeptMoves
<1>5. ASSUME alone', ~ lapsed' PROVE InTurn' /\ BatchIsNew'
  <2>1. /\ alone /\ ~ lapsed
        /\ \A k \in Messages : update[k].pc = IF k < m THEN "done" ELSE "new"
    BY <1>1, <1>5
  <2>2. update'[m].pc = "track" /\ \A k \in Messages \ {m} : update'[k].pc = update[k].pc
    BY <1>2 DEF Moves
  <2>3. \A k \in Messages : update'[k].pc = IF k < m THEN "done" ELSE IF k = m THEN "track" ELSE "new"
    BY <2>1, <2>2, MessagesAreNumbers
  <2>4. \A j, k \in Messages : k < j /\ update'[j].pc # "new" => update'[k].pc = "done"
    BY <2>3, MessagesAreNumbers
  <2>5. holder = None
    BY <1>1, <2>1 DEF InTurn, BatchesTyped
  <2>6. /\ \A y : Served(y)' <=> Served(y)
        /\ Young' = Young /\ \A y \in Messages : Served(y) => y # m
    BY <1>1, <2>1 DEF Served, Young, InTurn, Proactive!Recent
  <2>7. \A t \in Young', k \in cached' : k > t => k \in tracked' \/ update'[k].pc = "track"
    <3> SUFFICES ASSUME NEW t \in Young, NEW k \in cached, k > t, k # m PROVE k \in tracked
      BY <1>1, <2>2, <2>6
    <3>1. k \in Messages
      BY <1>1 DEF BatchesTyped
    <3> QED
      BY <1>1, <2>1, <3>1 DEF InTurn
  <2>8. \A y \in Messages : Served(y)' => update'[y].pc \notin {"new", "track"}
    BY <1>1, <2>1, <2>2, <2>6 DEF InTurn
  <2>9. /\ Cardinality(Young) < Batch
        /\ \A y \in Messages, t \in Young : Served(y) => y < t
        /\ \A y \in Messages : \A a, b \in served[y] : a = b
    BY <1>1, <2>1 DEF InTurn
  <2>10. InTurn'
    BY <1>1, <2>4, <2>5, <2>6, <2>7, <2>8, <2>9 DEF InTurn
  <2>11. BatchIsNew'
    BY <2>3 DEF BatchIsNew
  <2> QED
    BY <2>10, <2>11
<1>6. InTurn' /\ BatchIsNew'
  BY <1>5 DEF InTurn, BatchIsNew
<1> QED
  BY <1>3, <1>4, <1>6 DEF BatchesInv

\* A step after which the updates are not in order any more.
LEMMA BreaksOff ==
    ASSUME BatchesUsual, BatchesInv, NEW m \in Messages, update[m].pc # "new",
           NEW step \in {"unlock", "done"}, Proactive!Go(m, step),
           step = "unlock" => update[m].pc \in {"load", "act"},
           alone' = FALSE,
           UNCHANGED <<cached, tracked, aged, holder, served, finished, lapsed, vanished>>
    PROVE  BatchesInv'
<1>1. /\ BatchesTyped /\ HolderHolds /\ Proactive!TrackedKept
      /\ update \in [Messages -> Updates] /\ m \in cached
  BY DEF BatchesInv, BatchesTyped
<1>2. Moves(m, step, {})
  BY <1>1, GoDoes
<1>3. BatchesTyped'
  BY <1>1, <1>2, TypedMoves DEF BatchesTyped
<1>4. HolderHolds'
  BY <1>1, <1>2, HolderMoves DEF HolderHolds
<1>5. Proactive!TrackedKept'
  BY <1>1, <1>2, KeptMoves DEF Proactive!TrackedKept
<1>6. InTurn' /\ BatchIsNew'
  BY DEF InTurn, BatchIsNew
<1> QED
  BY <1>3, <1>4, <1>5, <1>6 DEF BatchesInv

LEMMA TrackKeeps ==
    ASSUME BatchesUsual, BatchesInv, NEW m \in Messages, Proactive!Track(m) PROVE BatchesInv'
<1> DEFINE step == IF Proactive!Cardinality(tracked') < Batch THEN "done" ELSE "lock"
<1>1. /\ BatchesTyped /\ HolderHolds /\ Proactive!TrackedKept /\ InTurn /\ BatchIsNew
      /\ update[m].pc = "track" /\ m \in cached
      /\ tracked' = (tracked \cup {m}) \cap Proactive!Recent
      /\ UNCHANGED <<cached, aged, holder, served, finished, lapsed, alone, vanished>>
      /\ update \in [Messages -> Updates]
  BY DEF BatchesInv, BatchesTyped, Proactive!Track, Proactive!history
<1>2. step \in {"done", "lock"} /\ (step = "done" <=> Cardinality(tracked') < Batch)
  BY SameCount
<1>3. Proactive!Go(m, step)
  BY DEF Proactive!Track
<1> HIDE DEF step
<1>4. Moves(m, step, {})
  BY <1>1, <1>2, <1>3, GoDoes
<1>5. BatchesTyped'
  BY <1>1, <1>2, <1>4, TypedMoves DEF BatchesTyped
<1>6. HolderHolds'
  BY <1>1, <1>2, <1>4, HolderMoves
<1>7. \A k \in Messages : k \in Proactive!Recent <=> ~ (k <= aged)
  BY <1>1, MessagesAreNumbers DEF Proactive!Recent, BatchesTyped
<1>8. Proactive!TrackedKept'
  BY <1>1, <1>2, <1>4, <1>7, KeptMoves
<1>9. Young' = tracked'
  BY <1>1 DEF Young, Proactive!Recent
<1>10. ASSUME alone, ~ lapsed
       PROVE  /\ holder = None
              /\ \A t \in Young', k \in cached : k > t => k \in tracked'
              /\ \A y \in Messages : Served(y) => y \in cached
              /\ \A y \in Messages, t \in Young' : Served(y) => y < t
              /\ Cardinality(Young') <= Batch /\ Cardinality(Young') \in Nat
              /\ \A y \in Messages : \A a, b \in served[y] : a = b
  <2>1. \A k \in Messages \ {m} : update[k].pc \in {"new", "done"}
    BY <1>1, <1>10, OnlyOne
  <2>2. holder = None
    BY <1>1, <1>10, <2>1 DEF InTurn, BatchesTyped
  <2>3. \A y \in Messages : Served(y) => y \in cached /\ y # m
    BY <1>1, <1>10 DEF InTurn, BatchesTyped
  <2>4. \A k \in cached : k = m \/ k < m
    <3> SUFFICES ASSUME NEW k \in cached, k # m PROVE k < m
      OBVIOUS
    <3>1. k \in Messages /\ update[k].pc # "new"
      BY <1>1 DEF BatchesTyped
    <3>2. ~ (m < k)
      BY <1>1, <1>10, <3>1 DEF InTurn
    <3> QED
      BY <3>1, <3>2, MessagesAreNumbers
  <2>5. Young' \subseteq Young \cup {m}
    BY <1>1 DEF Young, Proactive!Recent
  <2>6. \A t \in Young', k \in cached : k > t => k \in tracked'
    <3> SUFFICES ASSUME NEW t \in Young', NEW k \in cached, k > t PROVE k \in tracked'
      OBVIOUS
    <3>1. t \in Messages /\ k \in Messages /\ t \in Proactive!Recent
      BY <1>1, <1>9 DEF BatchesTyped, Proactive!Recent
    <3>2. k \in Proactive!Recent
      BY <1>1, <3>1, MessagesAreNumbers DEF Proactive!Recent, BatchesTyped
    <3>3. k # m => t \in Young
      <4>1. t = m => ~ (k > t) \/ k = m
        BY <2>4, <3>1, MessagesAreNumbers
      <4> QED
        BY <2>5, <4>1
    <3>4. k # m => k \in tracked
      BY <1>1, <1>10, <2>1, <3>1, <3>3 DEF InTurn
    <3> QED
      BY <1>1, <3>2, <3>4
  <2>7. /\ Cardinality(Young) < Batch
        /\ \A y \in Messages, t \in Young : Served(y) => y < t
        /\ \A y \in Messages : \A a, b \in served[y] : a = b
    BY <1>1, <1>10, <2>1 DEF InTurn
  <2>8. \A y \in Messages, t \in Young' : Served(y) => y < t
    BY <2>3, <2>4, <2>5, <2>7
  <2>9. IsFiniteSet(Young) /\ Cardinality(Young) \in Nat /\ Young \subseteq Messages
    BY <1>1, FewMessages DEF Young, BatchesTyped
  <2>10. /\ Cardinality(Young \cup {m}) <= Cardinality(Young) + 1
    BY <2>9, FS_AddElement
  <2>11. Cardinality(Young') <= Cardinality(Young \cup {m}) /\ Cardinality(Young') \in Nat
         /\ Cardinality(Young \cup {m}) \in Nat
    BY <2>5, <2>9, FewMessages
  <2>12. Cardinality(Young') <= Batch
    BY <2>7, <2>9, <2>10, <2>11 DEF BatchesUsual
  <2> QED
    BY <2>2, <2>3, <2>6, <2>7, <2>8, <2>11, <2>12
<1>11. ASSUME alone, ~ lapsed, step = "lock", NEW y \in Messages, Served(y)
       PROVE  Cardinality({k \in cached : k > y}) >= Batch
  <2>1. Young' \subseteq {k \in cached : k > y}
    <3> SUFFICES ASSUME NEW t \in Young' PROVE t \in cached /\ t > y
      OBVIOUS
    <3>1. t \in cached
      BY <1>1, <1>9 DEF BatchesTyped
    <3>2. t \in Messages /\ y < t
      BY <1>1, <1>10, <1>11, <3>1 DEF BatchesTyped
    <3> QED
      BY <3>1, <3>2, MessagesAreNumbers
  <2>2. {k \in cached : k > y} \subseteq Messages
    BY <1>1 DEF BatchesTyped
  <2> DEFINE later == {k \in cached : k > y}
  <2> HIDE DEF later
  <2>3. Cardinality(Young') <= Cardinality(later) /\ Cardinality(Young') \in Nat /\ Cardinality(later) \in Nat
    BY <2>1, <2>2, FewMessages DEF later
  <2>4. ~ (Cardinality(Young') < Batch)
    BY <1>2, <1>9, <1>11
  <2> QED
    BY <2>3, <2>4 DEF BatchesUsual, later
<1>12. \A y : Served(y)' <=> Served(y)
  BY <1>1 DEF Served
<1>13. InTurn' /\ BatchIsNew'
  <2>1. alone /\ ~ lapsed /\ step \notin {"lock", "load", "act"} => Cardinality(Young') < Batch
    BY <1>2, <1>9
  <2> QED
    BY <1>1, <1>2, <1>4, <1>10, <1>11, <1>12, <2>1, TurnMoves
<1> QED
  BY <1>5, <1>6, <1>8, <1>13 DEF BatchesInv

LEMMA LockKeeps ==
    ASSUME BatchesUsual, BatchesInv, NEW m \in Messages, Proactive!Lock(m) PROVE BatchesInv'
<1>1. /\ BatchesTyped /\ HolderHolds /\ Proactive!TrackedKept /\ InTurn /\ BatchIsNew
      /\ update[m].pc = "lock" /\ m \in cached
      /\ UNCHANGED <<cached, tracked, aged, served, finished, lapsed, alone, vanished>>
      /\ update \in [Messages -> Updates]
      /\ m \in tracked \cup finished \cup vanished \/ m <= aged
  BY DEF BatchesInv, BatchesTyped, Proactive!Lock, Proactive!history, Proactive!TrackedKept
<1>2. /\ \A y : Served(y)' <=> Served(y)
      /\ Young' = Young
  BY <1>1 DEF Served, Young, Proactive!Recent
<1>3. ASSUME alone, ~ lapsed
      PROVE  /\ holder = None
             /\ \A t \in Young, k \in cached : k > t => k \in tracked
             /\ \A y \in Messages : Served(y) => y \in cached
             /\ \A y \in Messages, t \in Young : Served(y) => y < t
             /\ \A y \in Messages : \A a, b \in served[y] : a = b
             /\ Cardinality(Young) <= Batch
             /\ \A y \in Messages : Served(y) => Cardinality({k \in cached : k > y}) >= Batch
  <2>1. \A k \in Messages \ {m} : update[k].pc \in {"new", "done"}
    BY <1>1, <1>3, OnlyOne
  <2>2. holder = None
    BY <1>1, <1>3, <2>1 DEF InTurn, BatchesTyped
  <2>3. \A y \in Messages : Served(y) => y \in cached
    BY <1>1, <1>3 DEF InTurn, BatchesTyped
  <2>4. \A t \in Young, k \in cached : k > t => k \in tracked
    BY <1>1, <1>3, <2>1 DEF InTurn, BatchesTyped
  <2>5. \A k \in Messages : update[k].pc # "act"
    BY <1>1, <2>1
  <2>6. /\ \A y \in Messages, t \in Young : Served(y) => y < t
        /\ \A y \in Messages : \A a, b \in served[y] : a = b
    BY <1>1, <1>3, <2>5 DEF InTurn
  <2>7. /\ Cardinality(Young) <= Batch
        /\ \A y \in Messages : Served(y) => Cardinality({k \in cached : k > y}) >= Batch
    BY <1>1, <1>3 DEF BatchIsNew
  <2> QED
    BY <2>2, <2>3, <2>4, <2>6, <2>7
<1>4. CASE holder = None
  <2>1. holder' = m /\ Moves(m, "load", {})
    BY <1>1, <1>4, GoDoes DEF Proactive!Lock
  <2>2. BatchesTyped'
    BY <1>1, <2>1, TypedMoves DEF BatchesTyped
  <2>3. HolderHolds'
    <3>1. lapsed \/ \A k \in Messages \ {m} : update[k].pc \notin {"load", "act", "unlock"}
      BY <1>1, <1>4, MessagesAreNumbers DEF HolderHolds
    <3> QED
      BY <1>1, <2>1, <3>1, HolderMoves
  <2>4. Proactive!TrackedKept'
    BY <1>1, <2>1, KeptMoves
  <2>5. InTurn' /\ BatchIsNew'
    BY <1>1, <1>2, <1>3, <2>1, TurnMoves
  <2> QED
    BY <2>2, <2>3, <2>4, <2>5 DEF BatchesInv
<1>5. CASE holder # None
  <2>1. holder' = holder /\ Moves(m, "done", {})
    BY <1>1, <1>5, GoDoes DEF Proactive!Lock
  <2>2. BatchesTyped'
    BY <1>1, <2>1, TypedMoves DEF BatchesTyped
  <2>3. HolderHolds'
    BY <1>1, <2>1, HolderMoves
  <2>4. Proactive!TrackedKept'
    BY <1>1, <2>1, KeptMoves
  <2>5. InTurn' /\ BatchIsNew'
    BY <1>1, <1>3, <1>5 DEF InTurn, BatchIsNew
  <2> QED
    BY <2>2, <2>3, <2>4, <2>5 DEF BatchesInv
<1> QED
  BY <1>4, <1>5

\* The latest messages are among those after the ones acted on, and hold all
\* that are tracked.
LEMMA LatestAreNew ==
    ASSUME BatchesUsual, BatchesInv, alone, ~ lapsed, NEW m \in Messages, update[m].pc = "load",
           NEW batch, batch = Proactive!Latest(cached \cap Proactive!Recent, Batch)
    PROVE  Young \subseteq batch /\ \A y \in batch : ~ Served(y)
<1> DEFINE S == cached \cap Proactive!Recent
<1>1. /\ BatchesTyped /\ InTurn /\ BatchIsNew /\ Batch \in Nat /\ S \subseteq Messages
      /\ tracked \subseteq cached /\ aged \in Nat
  BY DEF BatchesInv, BatchesTyped, BatchesUsual
<1>2. batch = {x \in S : Cardinality({k \in S : k > x}) < Batch}
  BY SameCount DEF Proactive!Latest
<1>3. \A k \in Messages \ {m} : update[k].pc \in {"new", "done"}
  BY <1>1, OnlyOne
<1>4. ASSUME NEW t \in Young PROVE t \in batch
  <2> DEFINE later == {k \in S : k > t}
  <2>1. t \in S /\ t \in Messages
    BY <1>1 DEF Young
  <2>2. later \subseteq Young \ {t}
    <3> SUFFICES ASSUME NEW k \in S, k > t PROVE k \in Young /\ k # t
      OBVIOUS
    <3>1. k \in tracked
      BY <1>1, <1>3 DEF InTurn
    <3>2. k # t
      BY <1>1, <2>1, MessagesAreNumbers
    <3> QED
      BY <3>1, <3>2 DEF Young
  <2>3. Young \subseteq Messages
    BY <1>1 DEF Young
  <2> HIDE DEF later
  <2>4. IsFiniteSet(Young) /\ Cardinality(Young) \in Nat
    BY <2>3, FewMessages
  <2>5. Cardinality(Young \ {t}) = Cardinality(Young) - 1
    BY <2>4, FS_RemoveElement
  <2>6. /\ Cardinality(later) \in Nat /\ Cardinality(Young \ {t}) \in Nat
        /\ Cardinality(later) <= Cardinality(Young \ {t})
    BY <2>2, <2>3, FewMessages
  <2>7. Cardinality(Young) <= Batch
    BY <1>1 DEF BatchIsNew
  <2>8. Cardinality(later) < Batch
    BY <1>1, <2>4, <2>5, <2>6, <2>7
  <2> QED
    BY <1>2, <2>1, <2>8 DEF later
<1>5. ASSUME NEW y \in batch PROVE ~ Served(y)
  <2>1. y \in S /\ y \in Messages /\ Cardinality({k \in S : k > y}) < Batch
    BY <1>1, <1>2
  <2>2. {k \in S : k > y} = {k \in cached : k > y}
    <3> SUFFICES ASSUME NEW k \in cached, k > y PROVE k \in Proactive!Recent
      OBVIOUS
    <3>1. k \in Messages /\ y > aged
      BY <1>1, <2>1 DEF BatchesTyped, Proactive!Recent
    <3> QED
      BY <1>1, <2>1, <3>1, MessagesAreNumbers DEF Proactive!Recent
  <2>3. {k \in cached : k > y} \in SUBSET Messages
    BY <1>1 DEF BatchesTyped
  <2>4. Cardinality({k \in cached : k > y}) \in Nat
    BY <2>3, FewMessages
  <2>5. ~ (Cardinality({k \in cached : k > y}) >= Batch)
    BY <1>1, <2>1, <2>2, <2>4
  <2>6. Served(y) => Cardinality({k \in cached : k > y}) >= Batch
    BY <1>1, <2>1 DEF BatchIsNew
  <2> QED
    BY <2>5, <2>6
<1> QED
  BY <1>4, <1>5

LEMMA LoadKeeps ==
    ASSUME BatchesUsual, BatchesInv, NEW m \in Messages, Proactive!Load(m) PROVE BatchesInv'
<1> DEFINE batch == Proactive!Latest(cached \cap Proactive!Recent, Batch)
<1>1. /\ BatchesTyped /\ HolderHolds /\ Proactive!TrackedKept /\ InTurn /\ BatchIsNew
      /\ update[m].pc = "load" /\ m \in cached
      /\ UNCHANGED <<cached, tracked, aged, holder, served, finished, lapsed, alone, vanished>>
      /\ update \in [Messages -> Updates]
      /\ m \in tracked \cup finished \cup vanished \/ m <= aged
      /\ lapsed \/ holder = m
  BY DEF BatchesInv, BatchesTyped, Proactive!Load, Proactive!history, Proactive!TrackedKept, HolderHolds
<1>2. /\ \A y : Served(y)' <=> Served(y)
      /\ Young' = Young
  BY <1>1 DEF Served, Young, Proactive!Recent
<1>3. batch \subseteq cached /\ batch \subseteq Messages
  BY <1>1 DEF Proactive!Latest, BatchesTyped
<1>4. alone /\ ~ lapsed => Young \subseteq batch /\ \A y \in batch : ~ Served(y)
  BY <1>1, LatestAreNew
<1>5. ASSUME alone, ~ lapsed
      PROVE  /\ \A t \in Young, k \in cached : k > t => k \in tracked
             /\ \A y \in Messages : Served(y) => y \in cached
             /\ \A y \in Messages, t \in Young : Served(y) => y < t
             /\ \A y \in Messages : \A a, b \in served[y] : a = b
  <2>1. \A k \in Messages \ {m} : update[k].pc \in {"new", "done"}
    BY <1>1, <1>5, OnlyOne
  <2>2. \A y \in Messages : Served(y) => y \in cached
    BY <1>1, <1>5 DEF InTurn, BatchesTyped
  <2>3. \A t \in Young, k \in cached : k > t => k \in tracked
    BY <1>1, <1>5, <2>1 DEF InTurn, BatchesTyped
  <2>4. \A k \in Messages : update[k].pc # "act"
    BY <1>1, <2>1
  <2> QED
    BY <1>1, <1>5, <2>2, <2>3, <2>4 DEF InTurn
<1>6. CASE Proactive!Cardinality(batch) < Batch
  <2>1. Moves(m, "unlock", {})
    BY <1>1, <1>6, GoDoes DEF Proactive!Load
  <2>2. alone /\ ~ lapsed => Cardinality(Young) < Batch
    <3> SUFFICES ASSUME alone, ~ lapsed PROVE Cardinality(Young) < Batch
      OBVIOUS
    <3> HIDE DEF batch
    <3>1. Cardinality(batch) < Batch /\ Batch \in Nat
      BY <1>6, SameCount DEF BatchesUsual
    <3>2. /\ Cardinality(Young) \in Nat /\ Cardinality(batch) \in Nat
          /\ Cardinality(Young) <= Cardinality(batch)
      BY <1>3, <1>4, FewMessages
    <3> QED
      BY <3>1, <3>2
  <2> HIDE DEF batch
  <2>3. BatchesTyped'
    BY <1>1, <2>1, TypedMoves DEF BatchesTyped
  <2>4. HolderHolds'
    BY <1>1, <2>1, HolderMoves
  <2>5. Proactive!TrackedKept'
    BY <1>1, <2>1, KeptMoves
  <2>6. InTurn' /\ BatchIsNew'
    BY <1>1, <1>2, <1>5, <2>1, <2>2, TurnMoves
  <2> QED
    BY <2>3, <2>4, <2>5, <2>6 DEF BatchesInv
<1>7. CASE ~ (Proactive!Cardinality(batch) < Batch)
  <2> DEFINE new == [pc |-> "act", batch |-> batch, acts |-> 0]
  <2>1. update' = [update EXCEPT ![m] = new]
    BY <1>7 DEF Proactive!Load
  <2>2. new \in Updates /\ new.pc = "act" /\ new.batch = batch
    BY <1>3 DEF Updates
  <2> HIDE DEF new, batch
  <2>3. Moves(m, "act", batch)
    BY <1>1, <2>1, <2>2, MovesTo
  <2>4. BatchesTyped'
    BY <1>1, <2>3, TypedMoves DEF BatchesTyped
  <2>5. HolderHolds'
    BY <1>1, <2>3, HolderMoves
  <2>6. Proactive!TrackedKept'
    BY <1>1, <2>3, KeptMoves
  <2>7. alone /\ ~ lapsed => \A y \in batch : served'[y] \subseteq {m}
    BY <1>1, <1>4 DEF Served
  <2>8. InTurn' /\ BatchIsNew'
    BY <1>1, <1>2, <1>3, <1>4, <1>5, <2>3, <2>7, TurnMoves
  <2> QED
    BY <2>4, <2>5, <2>6, <2>8 DEF BatchesInv
<1> QED
  BY <1>6, <1>7

LEMMA ActKeeps ==
    ASSUME BatchesUsual, BatchesInv, NEW m \in Messages, NEW target \in Messages,
           Proactive!Act(m, target)
    PROVE  BatchesInv'
<1> DEFINE batch == update[m].batch
           new == [update[m] EXCEPT !.acts = @ + 1]
<1>1. /\ BatchesTyped /\ HolderHolds /\ Proactive!TrackedKept /\ InTurn /\ BatchIsNew
      /\ update[m].pc = "act" /\ m \in cached /\ target \in batch
      /\ UNCHANGED <<cached, tracked, aged, holder, finished, lapsed, alone, vanished>>
      /\ update \in [Messages -> Updates] /\ served \in [Messages -> SUBSET Messages]
      /\ served' = [served EXCEPT ![target] = @ \cup {m}]
      /\ m \in tracked \cup finished \cup vanished \/ m <= aged
      /\ lapsed \/ holder = m
  BY DEF BatchesInv, BatchesTyped, Proactive!Act, Proactive!TrackedKept, HolderHolds
<1>2. update' = [update EXCEPT ![m] = new]
  BY DEF Proactive!Act
<1>3. new \in Updates /\ new.pc = "act" /\ new.batch = batch
  BY <1>1 DEF Updates
<1> HIDE DEF new, batch
<1>4. Moves(m, "act", batch)
  BY <1>1, <1>2, <1>3, MovesTo
<1>5. /\ served' \in [Messages -> SUBSET Messages]
      /\ served'[target] = served[target] \cup {m}
      /\ \A y \in Messages \ {target} : served'[y] = served[y]
  BY <1>1
<1>6. BatchesTyped'
  BY <1>1, <1>4, <1>5, TypedMoves DEF BatchesTyped
<1>7. HolderHolds'
  BY <1>1, <1>4, HolderMoves
<1>8. Proactive!TrackedKept'
  BY <1>1, <1>4, KeptMoves
<1>9. Young' = Young
  BY <1>1 DEF Young, Proactive!Recent
<1>10. ASSUME alone, ~ lapsed
       PROVE  /\ \A t \in Young, k \in cached : k > t => k \in tracked
              /\ \A y \in Messages : Served(y)' => y \in cached
              /\ \A y \in Messages : \A a, b \in served'[y] : a = b
              /\ batch \subseteq cached /\ Young \subseteq batch
              /\ \A y \in batch : served'[y] \subseteq {m}
  <2>1. \A k \in Messages \ {m} : update[k].pc \in {"new", "done"}
    BY <1>1, <1>10, OnlyOne
  <2>2. \A t \in Young, k \in cached : k > t => k \in tracked
    BY <1>1, <1>10, <2>1 DEF InTurn, BatchesTyped
  <2>3. /\ batch \subseteq cached /\ Young \subseteq batch
        /\ \A y \in batch : served[y] \subseteq {m}
    BY <1>1, <1>10 DEF BatchIsNew, batch
  <2>4. batch \subseteq Messages
    BY <1>1, <2>3 DEF BatchesTyped
  <2>5. \A y \in batch : served'[y] \subseteq {m}
    BY <1>5, <2>3, <2>4
  <2>6. \A y \in Messages : Served(y) => y \in cached
    BY <1>1, <1>10 DEF InTurn, BatchesTyped
  <2>7. \A y \in Messages : Served(y)' => y \in cached
    BY <1>1, <1>5, <2>3, <2>6 DEF Served
  <2>8. \A y \in Messages : \A a, b \in served[y] : a = b
    BY <1>1, <1>10 DEF InTurn
  <2>9. \A y \in Messages : \A a, b \in served'[y] : a = b
    BY <1>1, <1>5, <2>5, <2>8
  <2> QED
    BY <2>2, <2>3, <2>5, <2>7, <2>9
<1>11. InTurn' /\ BatchIsNew'
  BY <1>1, <1>4, <1>9, <1>10, TurnMoves
<1> QED
  BY <1>6, <1>7, <1>8, <1>11 DEF BatchesInv

LEMMA ClearKeeps ==
    ASSUME BatchesUsual, BatchesInv, NEW m \in Messages, Proactive!Clear(m) PROVE BatchesInv'
<1> DEFINE batch == update[m].batch
<1>1. /\ BatchesTyped /\ HolderHolds /\ Proactive!TrackedKept /\ InTurn /\ BatchIsNew
      /\ update[m].pc = "act" /\ m \in cached
      /\ tracked' = tracked \ batch /\ finished' = finished \cup batch
      /\ UNCHANGED <<cached, aged, holder, served, lapsed, alone, vanished>>
      /\ update \in [Messages -> Updates] /\ served \in [Messages -> SUBSET Messages]
      /\ m \in tracked \cup finished \cup vanished \/ m <= aged
      /\ lapsed \/ holder = m
  BY DEF BatchesInv, BatchesTyped, Proactive!Clear, Proactive!TrackedKept, HolderHolds
<1>2. Moves(m, "unlock", {})
  BY <1>1, GoDoes DEF Proactive!Clear
<1> HIDE DEF batch
<1>3. BatchesTyped'
  BY <1>1, <1>2, TypedMoves DEF BatchesTyped
<1>4. HolderHolds'
  BY <1>1, <1>2, HolderMoves
<1>5. Proactive!TrackedKept'
  BY <1>1, <1>2, KeptMoves
<1>6. ASSUME alone, ~ lapsed
      PROVE  /\ Young' = {} /\ Cardinality(Young') < Batch
             /\ \A y \in Messages : Served(y)' => y \in cached
             /\ \A y \in Messages : \A a, b \in served[y] : a = b
  <2>1. Young \subseteq batch
    BY <1>1, <1>6 DEF BatchIsNew, batch
  <2>2. Young' = {}
    BY <1>1, <2>1 DEF Young, Proactive!Recent
  <2>3. Cardinality(Young') < Batch
    BY <2>2, FS_EmptySet DEF BatchesUsual
  <2>4. \A y \in Messages : Served(y)' => y \in cached
    BY <1>1, <1>6 DEF InTurn, BatchesTyped, Served
  <2>5. \A y \in Messages : \A a, b \in served[y] : a = b
    BY <1>1, <1>6 DEF InTurn
  <2> QED
    BY <2>2, <2>3, <2>4, <2>5
<1>7. InTurn' /\ BatchIsNew'
  BY <1>1, <1>2, <1>6, TurnMoves
<1> QED
  BY <1>3, <1>4, <1>5, <1>7 DEF BatchesInv

LEMMA UnlockKeeps ==
    ASSUME BatchesUsual, BatchesInv, NEW m \in Messages, Proactive!Unlock(m) PROVE BatchesInv'
<1>1. /\ BatchesTyped /\ HolderHolds /\ Proactive!TrackedKept /\ InTurn /\ BatchIsNew
      /\ update[m].pc = "unlock" /\ m \in cached /\ holder' = None
      /\ UNCHANGED <<cached, tracked, aged, served, finished, lapsed, alone, vanished>>
      /\ update \in [Messages -> Updates] /\ served \in [Messages -> SUBSET Messages]
      /\ lapsed \/ holder = m
  BY DEF BatchesInv, BatchesTyped, Proactive!Unlock, Proactive!history, HolderHolds
<1>2. Moves(m, "done", {})
  BY <1>1, GoDoes DEF Proactive!Unlock
<1>3. BatchesTyped'
  BY <1>1, <1>2, TypedMoves DEF BatchesTyped
<1>4. HolderHolds'
  <2>1. lapsed \/ \A k \in Messages \ {m} : update[k].pc \notin {"load", "act", "unlock"}
    BY <1>1 DEF HolderHolds
  <2> QED
    BY <1>1, <1>2, <2>1, HolderMoves
<1>5. Proactive!TrackedKept'
  BY <1>1, <1>2, KeptMoves
<1>6. Young' = Young /\ \A y : Served(y)' <=> Served(y)
  BY <1>1 DEF Young, Proactive!Recent, Served
<1>7. ASSUME alone, ~ lapsed
      PROVE  /\ \A t \in Young, k \in cached : k > t => k \in tracked
             /\ \A y \in Messages : Served(y) => y \in cached
             /\ \A y \in Messages : \A a, b \in served[y] : a = b
             /\ \A y \in Messages, t \in Young : Served(y) => y < t
             /\ Cardinality(Young) < Batch
  <2>1. \A k \in Messages \ {m} : update[k].pc \in {"new", "done"}
    BY <1>1, <1>7, OnlyOne
  <2>2. \A k \in Messages : update[k].pc \notin {"lock", "load", "act"}
    BY <1>1, <2>1
  <2>3. \A t \in Young, k \in cached : k > t => k \in tracked
    BY <1>1, <1>7, <2>1 DEF InTurn, BatchesTyped
  <2>4. \A y \in Messages : Served(y) => y \in cached
    BY <1>1, <1>7 DEF InTurn, BatchesTyped
  <2> QED
    BY <1>1, <1>7, <2>2, <2>3, <2>4 DEF InTurn
<1>8. InTurn' /\ BatchIsNew'
  BY <1>1, <1>2, <1>6, <1>7, TurnMoves
<1> QED
  BY <1>3, <1>4, <1>5, <1>8 DEF BatchesInv

\* An update that gives up: no quota, a failure, or its process dies.
LEMMA GivesUp ==
    ASSUME BatchesUsual, BatchesInv, NEW m \in Messages,
           Proactive!Skip(m) \/ Proactive!Fail(m) \/ Proactive!Die(m)
    PROVE  BatchesInv'
<1>1. CASE Proactive!Skip(m)
  BY <1>1, BreaksOff DEF Proactive!Skip
<1>2. CASE Proactive!Fail(m)
  BY <1>2, BreaksOff DEF Proactive!Fail, Proactive!InBatch
<1>3. CASE Proactive!Die(m)
  BY <1>3, BreaksOff DEF Proactive!Die
<1> QED
  BY <1>1, <1>2, <1>3

LEMMA AgeKeeps ==
    ASSUME BatchesUsual, BatchesInv, Proactive!Age PROVE BatchesInv'
<1>1. /\ BatchesTyped /\ HolderHolds /\ Proactive!TrackedKept /\ InTurn /\ BatchIsNew
      /\ aged \in Nat /\ aged' = aged + 1
      /\ UNCHANGED <<cached, tracked, holder, update, served, finished, lapsed, alone, vanished>>
  BY DEF BatchesInv, BatchesTyped, Proactive!Age, Proactive!history
<1>2. \A m \in Messages : m <= aged => m <= aged'
  BY <1>1, MessagesAreNumbers
<1>3. BatchesTyped' /\ HolderHolds'
  BY <1>1 DEF BatchesTyped, HolderHolds
<1>4. Proactive!TrackedKept'
  BY <1>1, <1>2 DEF Proactive!TrackedKept
<1>5. Young' \subseteq Young
  BY <1>1, <1>2, MessagesAreNumbers DEF Young, Proactive!Recent
<1>6. InTurn' /\ BatchIsNew'
  BY <1>1, <1>5, TurnShrinks
<1> QED
  BY <1>3, <1>4, <1>6 DEF BatchesInv

LEMMA LapseKeeps ==
    ASSUME BatchesUsual, BatchesInv, Proactive!Lapse PROVE BatchesInv'
<1>1. /\ BatchesTyped /\ HolderHolds /\ Proactive!TrackedKept /\ InTurn /\ BatchIsNew
      /\ holder \in Messages /\ holder' = None
      /\ lapsed' = (lapsed \/ update[holder].pc # "done")
      /\ UNCHANGED <<cached, tracked, aged, update, served, finished, alone, vanished>>
  BY DEF BatchesInv, BatchesTyped, Proactive!Lapse
<1>2. BatchesTyped'
  BY <1>1 DEF BatchesTyped
<1>3. HolderHolds'
  BY <1>1 DEF HolderHolds
<1>4. Proactive!TrackedKept'
  BY <1>1 DEF Proactive!TrackedKept
<1>5. alone => lapsed'
  <2>1. alone /\ ~ lapsed => update[holder].pc \in {"load", "act", "unlock"}
    BY <1>1, MessagesAreNumbers DEF InTurn
  <2> QED
    BY <1>1, <2>1
<1>6. InTurn' /\ BatchIsNew'
  BY <1>1, <1>5 DEF InTurn, BatchIsNew
<1> QED
  BY <1>2, <1>3, <1>4, <1>6 DEF BatchesInv

LEMMA VanishKeeps ==
    ASSUME BatchesUsual, BatchesInv, Proactive!Vanish PROVE BatchesInv'
<1>1. /\ BatchesTyped /\ HolderHolds /\ Proactive!TrackedKept /\ InTurn /\ BatchIsNew
      /\ tracked' = {} /\ vanished' = vanished \cup tracked
      /\ UNCHANGED <<cached, aged, holder, update, served, finished, lapsed, alone>>
  BY DEF BatchesInv, Proactive!Vanish
<1>2. BatchesTyped' /\ HolderHolds'
  BY <1>1 DEF BatchesTyped, HolderHolds
<1>3. Proactive!TrackedKept'
  BY <1>1 DEF Proactive!TrackedKept
<1>4. Young' = {}
  BY <1>1 DEF Young
<1>5. InTurn' /\ BatchIsNew'
  BY <1>1, <1>4, TurnShrinks
<1> QED
  BY <1>2, <1>3, <1>5 DEF BatchesInv

LEMMA BatchesStutter ==
    ASSUME BatchesInv, UNCHANGED Proactive!vars PROVE BatchesInv'
<1>1. UNCHANGED <<cached, tracked, aged, holder, update, served, finished, lapsed, alone, vanished>>
  BY DEF Proactive!vars
<1>2. BatchesTyped' /\ HolderHolds' /\ Proactive!TrackedKept'
  BY <1>1 DEF BatchesInv, BatchesTyped, HolderHolds, Proactive!TrackedKept
<1>3. Young' = Young /\ \A y : Served(y)' <=> Served(y)
  BY <1>1 DEF Young, Proactive!Recent, Served
<1>4. InTurn'
  BY <1>1, <1>3 DEF BatchesInv, InTurn
<1>5. BatchIsNew'
  BY <1>1, <1>3 DEF BatchesInv, BatchIsNew
<1> QED
  BY <1>2, <1>4, <1>5 DEF BatchesInv

LEMMA BatchesNextPreserves ==
    ASSUME BatchesUsual, BatchesInv, [Proactive!Next]_(Proactive!vars) PROVE BatchesInv'
<1>1. CASE Proactive!Age \/ Proactive!Lapse \/ Proactive!Vanish
  BY <1>1, AgeKeeps, LapseKeeps, VanishKeeps
<1>2. ASSUME NEW m \in Messages,
             \/ Proactive!Cache(m) \/ Proactive!Skip(m) \/ Proactive!Track(m) \/ Proactive!Lock(m)
             \/ Proactive!Load(m) \/ \E target \in Messages : Proactive!Act(m, target)
             \/ Proactive!Clear(m) \/ Proactive!Fail(m) \/ Proactive!Unlock(m) \/ Proactive!Die(m)
      PROVE  BatchesInv'
  BY <1>2, CacheKeeps, GivesUp, TrackKeeps, LockKeeps, LoadKeeps, ActKeeps, ClearKeeps, UnlockKeeps
<1>3. CASE UNCHANGED Proactive!vars
  BY <1>3, BatchesStutter
<1> QED
  BY <1>1, <1>2, <1>3 DEF Proactive!Next

LEMMA BatchesInvImplies ==
    ASSUME BatchesUsual, BatchesInv PROVE Proactive!BatchesHold
<1>1. Proactive!BatchesApart
  BY DEF BatchesInv, HolderHolds, Proactive!BatchesApart, Proactive!InBatch
<1>2. ASSUME alone, ~ lapsed, NEW m \in Messages
      PROVE  Proactive!Cardinality(served[m]) <= 1
  <2>1. \A a, b \in served[m] : a = b
    BY <1>2 DEF BatchesInv, InTurn
  <2>2. CASE served[m] = {}
    BY <2>2, SameCount, FS_EmptySet
  <2>3. CASE served[m] # {}
    <3>1. PICK a : served[m] = {a}
      BY <2>1, <2>3
    <3> QED
      BY <3>1, SameCount, FS_Singleton
  <2> QED
    BY <2>2, <2>3
<1>3. Proactive!ServedOnce
  BY <1>2 DEF Proactive!ServedOnce
<1> QED
  BY <1>1, <1>3 DEF BatchesInv, Proactive!BatchesHold

-----------------------------------------------------------------------------
(* ChatSummaries, by its own names of the slots *)

papers == v1
hour == v2
work == v3
posted == v4
byCron == v5
pins == v6
mixed == v7

SummariesUsual ==
    /\ LastChat \in Nat \ {0} /\ Hours \in Nat \ {0} /\ MaxHour \in Nat /\ Hours <= MaxHour
    /\ HourOf \in [1 .. LastChat -> 0 .. Hours - 1]
    /\ Cron \notin OpCommands
    /\ None \notin Nat /\ None \notin [sent : Nat \cup {None}, pinned : BOOLEAN]

Chats == Summaries!Chats

Days == Summaries!Days

Jobs == Summaries!Jobs

Busy(j) == Summaries!Busy(j)

Day(j) == Summaries!DayOf(j)

Papers == [sent : Nat \cup {None}, pinned : BOOLEAN]

\* Copies that name the message, and that say it is pinned.
Sent(doc, id) == [doc EXCEPT !.sent = id]

Pinned(doc) == [doc EXCEPT !.pinned = TRUE]

Works ==
    [pc : {"idle", "look", "find", "save", "send", "sent", "pin", "pinned", "done"}, chat : Int,
     at : Int, doc : Papers \cup {None}]

SummariesTyped ==
    /\ papers \in [Days -> Papers \cup {None}]
    /\ hour \in Hours .. MaxHour
    /\ work \in [Jobs -> Works]
    /\ \A j \in Jobs : Busy(j) => work[j].chat \in Chats /\ work[j].at \in Hours .. hour
    /\ \A j \in Jobs : work[j].pc \in {"send", "sent", "pin", "pinned"} => work[j].doc # None
    /\ \A j \in Jobs : work[j].pc = "look" => j = Cron
    /\ posted \in [Days -> Nat] /\ byCron \in [Days -> Nat]
    /\ pins \in [Days -> SUBSET Nat]

\* Documents, copies and pins name messages that were posted.
IdsPosted ==
    /\ \A d \in Days :
        /\ papers[d] # None => papers[d].sent \in (1 .. posted[d]) \cup {None}
        /\ pins[d] \subseteq 1 .. posted[d]
    /\ \A j \in Jobs :
        /\ work[j].pc \in {"save", "send"} /\ work[j].doc # None =>
               work[j].doc.sent \in (1 .. posted[Day(j)]) \cup {None}
        /\ work[j].pc \in {"sent", "pin", "pinned"} => work[j].doc.sent \in 1 .. posted[Day(j)]

\* The scheduled job has not posted the day that it is about to post.
CronPostsOnce ==
    /\ \A d \in Days :
        /\ byCron[d] <= 1
        /\ byCron[d] > 0 => papers[d] # None /\ d[2] * Hours + HourOf[d[1]] <= hour
    /\ work[Cron].pc \in {"find", "save", "send"} => byCron[Day(Cron)] = 0
    /\ work[Cron].pc = "send" => papers[Day(Cron)] # None

\* Jobs at one day mark it.
SharedMixed ==
    \A j, k \in Jobs : Busy(j) /\ Busy(k) /\ j # k /\ Day(j) = Day(k) => Day(j) \in mixed

DayTrue(d) ==
    /\ posted[d] > 0 => papers[d] # None /\ papers[d].sent = posted[d]
    /\ papers[d] # None /\ papers[d].pinned =>
          pins[d] # {} /\ (posted[d] = 1 => papers[d].sent \in pins[d])

\* The only job at a day has the document, but for what it has just done.
CopyTrue(j) ==
    Busy(j) /\ Day(j) \notin mixed =>
        /\ work[j].pc \in {"save", "send", "pin"} => work[j].doc = papers[Day(j)]
        /\ work[j].pc = "sent" =>
               /\ papers[Day(j)] # None
               /\ work[j].doc = Sent(papers[Day(j)], posted[Day(j)])
               /\ papers[Day(j)].pinned => pins[Day(j)] # {} /\ posted[Day(j)] > 1
        /\ work[j].pc = "pinned" =>
               /\ papers[Day(j)] # None
               /\ work[j].doc = Pinned(papers[Day(j)])
               /\ work[j].doc.sent \in pins[Day(j)]

\* A document is true unless its message has just been posted.
PapersTrue ==
    \A d \in Days : d \notin mixed /\ ~ DayTrue(d) =>
        \E j \in Jobs : work[j].pc = "sent" /\ Day(j) = d

SummariesInv ==
    /\ SummariesTyped /\ IdsPosted /\ CronPostsOnce /\ SharedMixed
    /\ (\A j \in Jobs : CopyTrue(j)) /\ PapersTrue

USE DEF papers, hour, work, posted, byCron, pins, mixed, Chats, Days, Jobs, Busy, Day

\* The day of a job at that chat that began at that hour.
DayFor(j, chat, at) ==
    <<chat, IF j = Cron THEN Summaries!CompletedDate(chat, at) ELSE at \div Hours>>

LEMMA HoursDivide ==
    ASSUME SummariesUsual, NEW at \in Hours .. MaxHour
    PROVE  /\ at \div Hours \in 1 .. MaxHour \div Hours
           /\ (at \div Hours) * Hours + (at % Hours) = at /\ at % Hours \in 0 .. Hours - 1
<1>1. /\ Hours \in Nat \ {0} /\ MaxHour \in Nat /\ at \in Nat /\ at >= Hours /\ at <= MaxHour
  BY DEF SummariesUsual
<1>2. at \div Hours >= 1 /\ at \div Hours \in Nat
  BY <1>1
<1>3. MaxHour \div Hours \in Nat /\ at \div Hours <= MaxHour \div Hours
  BY <1>1
<1>4. (at \div Hours) * Hours + (at % Hours) = at /\ at % Hours \in 0 .. Hours - 1
  BY <1>1
<1> QED
  BY <1>2, <1>3, <1>4

LEMMA DayForIsDay ==
    ASSUME SummariesUsual, NEW j \in Jobs, NEW chat \in Chats, NEW at \in Hours .. MaxHour
    PROVE  /\ DayFor(j, chat, at) \in Days
           /\ j = Cron => DayFor(j, chat, at)[2] * Hours + HourOf[DayFor(j, chat, at)[1]] <= at
<1> DEFINE q == at \div Hours
           r == at % Hours
<1>1. q \in 1 .. MaxHour \div Hours /\ q * Hours + r = at /\ r \in 0 .. Hours - 1
  BY HoursDivide
<1>2. Hours \in Nat \ {0} /\ MaxHour \div Hours \in Nat /\ HourOf[chat] \in 0 .. Hours - 1
  BY DEF SummariesUsual, Summaries!Chats
<1> DEFINE date == Summaries!CompletedDate(chat, at)
<1>3. date = IF r >= HourOf[chat] THEN q ELSE q - 1
  BY DEF Summaries!CompletedDate
<1> HIDE DEF q, r
<1>4. /\ q \in 0 .. MaxHour \div Hours /\ q - 1 \in 0 .. MaxHour \div Hours
      /\ date \in 0 .. MaxHour \div Hours
  BY <1>1, <1>2, <1>3
<1>5. (q - 1) * Hours = q * Hours - Hours /\ q * Hours \in Int
  BY <1>1, <1>2
<1>6. date * Hours + HourOf[chat] <= at
  <2>1. CASE r >= HourOf[chat]
    BY <1>1, <1>2, <1>3, <1>5, <2>1
  <2>2. CASE ~ (r >= HourOf[chat])
    <3>1. date * Hours = q * Hours - Hours
      BY <1>3, <1>5, <2>2
    <3> QED
      BY <1>1, <1>2, <1>5, <3>1
  <2> QED
    BY <2>1, <2>2
<1> HIDE DEF date
<1>7. DayFor(j, chat, at) = <<chat, IF j = Cron THEN date ELSE q>>
  BY DEF DayFor, date, q
<1> QED
  BY <1>4, <1>6, <1>7 DEF Summaries!Days, Summaries!Dates

LEMMA DayIsFor ==
    ASSUME NEW j PROVE /\ Day(j) = DayFor(j, work[j].chat, work[j].at)
                       /\ Day(j)' = DayFor(j, work'[j].chat, work'[j].at)
BY DEF DayFor, Summaries!DayOf

LEMMA BusyDay ==
    ASSUME SummariesUsual, SummariesTyped, NEW j \in Jobs, Busy(j)
    PROVE  /\ Day(j) \in Days
           /\ j = Cron => Day(j)[2] * Hours + HourOf[Day(j)[1]] <= hour
<1>1. /\ work[j].chat \in Chats /\ work[j].at \in Hours .. MaxHour /\ work[j].at <= hour
      /\ Hours \in Nat /\ hour \in Nat /\ MaxHour \in Nat
  BY DEF SummariesTyped, SummariesUsual
<1>2. /\ Day(j) \in Days
      /\ j = Cron => Day(j)[2] * Hours + HourOf[Day(j)[1]] <= work[j].at
  BY <1>1, DayForIsDay, DayIsFor
<1>3. j = Cron => Day(j)[2] * Hours + HourOf[Day(j)[1]] \in Int
  BY <1>2 DEF Summaries!Days, Summaries!Dates, Summaries!Chats, SummariesUsual
<1> QED
  BY <1>1, <1>2, <1>3

-----------------------------------------------------------------------------

\* The other jobs stay where they are.
OthersStay(j) ==
    work' \in [Jobs -> Works] /\ \A k \in Jobs \ {j} : work'[k] = work[k]

\* The job takes a step at its day.
Proceeds(j, step, doc) ==
    /\ OthersStay(j)
    /\ work'[j].pc = step /\ work'[j].doc = doc
    /\ work'[j].chat = work[j].chat /\ work'[j].at = work[j].at

\* The job looks at the next chat, or ends.
Leaves(j) ==
    /\ OthersStay(j)
    /\ \/ /\ j = Cron /\ work'[j].pc = "look" /\ work'[j].chat \in Chats
          /\ work'[j].at = work[j].at
       \/ work'[j].pc \in {"idle", "done"}

\* The job is at its day after the step.
Stays(j) ==
    /\ work'[j].chat = work[j].chat /\ work'[j].at = work[j].at
    /\ work'[j].pc \notin {"idle", "done", "look"}

LEMMA LeavesTo ==
    ASSUME NEW j, Leaves(j) PROVE OthersStay(j) /\ work'[j].pc \in {"idle", "done", "look"}
BY DEF Leaves

LEMMA ProceedsSo ==
    ASSUME work \in [Jobs -> Works], NEW j \in Jobs, NEW doc \in Papers \cup {None},
           NEW step \in {"find", "save", "send", "sent", "pin", "pinned"},
           Summaries!Go(j, step, doc)
    PROVE  Proceeds(j, step, doc) /\ Stays(j)
<1> DEFINE new == [work[j] EXCEPT !.pc = step, !.doc = doc]
<1>1. work' = [work EXCEPT ![j] = new]
  BY DEF Summaries!Go
<1>2. /\ new \in Works /\ new.pc = step /\ new.doc = doc
      /\ new.chat = work[j].chat /\ new.at = work[j].at
  BY DEF Works
<1> HIDE DEF new
<1> QED
  BY <1>1, <1>2 DEF Proceeds, Stays, OthersStay

LEMMA StopLeaves ==
    ASSUME work \in [Jobs -> Works], NEW j \in Jobs,
           work' = [work EXCEPT ![j] = Summaries!Stopped(j)]
    PROVE  Leaves(j)
<1>1. Summaries!Stopped(j) \in Works /\ Summaries!Stopped(j).pc \in {"idle", "done"}
  BY DEF Summaries!Stopped, Summaries!Idle, Works
<1> QED
  BY <1>1 DEF Leaves, OthersStay

LEMMA LeaveLeaves ==
    ASSUME SummariesUsual, work \in [Jobs -> Works], NEW j \in Jobs, work[j].chat \in Chats,
           Summaries!Leave(j)
    PROVE  Leaves(j)
<1>1. CASE j = Cron /\ work[j].chat < LastChat
  <2> DEFINE new == [work[j] EXCEPT !.pc = "look", !.chat = @ + 1, !.doc = None]
  <2>1. work' = [work EXCEPT ![j] = new]
    BY <1>1, SMT DEF Summaries!Leave
  <2>2. work[j] \in Works /\ work[j].chat + 1 \in Int
    BY DEF Works
  <2>3. /\ new \in Works /\ new.pc = "look" /\ new.chat = work[j].chat + 1
        /\ new.at = work[j].at
    BY <2>2 DEF Works
  <2> HIDE DEF new
  <2>4. work[j].chat + 1 \in Chats
    BY <1>1 DEF Summaries!Chats, SummariesUsual
  <2> QED
    BY <1>1, <2>1, <2>3, <2>4 DEF Leaves, OthersStay
<1>2. CASE ~ (j = Cron /\ work[j].chat < LastChat)
  <2>1. work' = [work EXCEPT ![j] = Summaries!Stopped(j)]
    BY <1>2 DEF Summaries!Leave
  <2> QED
    BY <2>1, StopLeaves
<1> QED
  BY <1>1, <1>2

\* Jobs that come to share a day mark it.
LEMMA MixedMarks ==
    ASSUME Summaries!Mixed PROVE SharedMixed' /\ mixed \subseteq mixed'
<1>1. mixed' = mixed \cup {Day(j)' : j \in {k \in Jobs :
          /\ Busy(k)'
          /\ \E l \in Jobs \ {k} : Busy(l)' /\ Day(l)' = Day(k)'}}
  BY DEF Summaries!Mixed, Summaries!Busy
<1> QED
  BY <1>1 DEF SharedMixed

LEMMA SharedStays ==
    ASSUME SharedMixed, mixed \subseteq mixed',
           \A k \in Jobs : Busy(k)' => Busy(k) /\ Day(k)' = Day(k)
    PROVE  SharedMixed'
BY DEF SharedMixed

\* A step of a job changes its day only.
LEMMA StepKeeps ==
    ASSUME SummariesUsual, SummariesInv, NEW j \in Jobs, Busy(j), NEW d, d = Day(j),
           OthersStay(j), Leaves(j) \/ Stays(j),
           UNCHANGED hour, mixed \subseteq mixed', SharedMixed',
           papers' \in [Days -> Papers \cup {None}], posted' \in [Days -> Nat],
           byCron' \in [Days -> Nat], pins' \in [Days -> SUBSET Nat],
           \A c \in Days \ {d} : /\ papers'[c] = papers[c] /\ posted'[c] = posted[c]
                                 /\ byCron'[c] = byCron[c] /\ pins'[c] = pins[c],
           posted[d] <= posted'[d], papers[d] # None => papers'[d] # None,
           papers'[d] # None => papers'[d].sent \in (1 .. posted'[d]) \cup {None},
           pins'[d] \subseteq 1 .. posted'[d],
           \/ byCron'[d] = byCron[d]
           \/ /\ j = Cron /\ work[j].pc = "send" /\ byCron'[d] = byCron[d] + 1
              /\ work'[j].pc = "sent",
           j = Cron /\ work'[j].pc \in {"find", "save", "send"} => byCron[d] = 0,
           work'[j].pc = "send" => papers'[d] # None,
           work'[j].pc \in {"save", "send"} /\ work'[j].doc # None =>
               work'[j].doc.sent \in (1 .. posted'[d]) \cup {None},
           work'[j].pc \in {"send", "sent", "pin", "pinned"} => work'[j].doc # None,
           work'[j].pc \in {"sent", "pin", "pinned"} => work'[j].doc.sent \in 1 .. posted'[d],
           d \notin mixed' =>
               /\ work'[j].pc \in {"save", "send", "pin"} => work'[j].doc = papers'[d]
               /\ work'[j].pc = "sent" =>
                      /\ papers'[d] # None
                      /\ work'[j].doc = Sent(papers'[d], posted'[d])
                      /\ papers'[d].pinned => pins'[d] # {} /\ posted'[d] > 1
               /\ work'[j].pc = "pinned" =>
                      /\ papers'[d] # None
                      /\ work'[j].doc = Pinned(papers'[d])
                      /\ work'[j].doc.sent \in pins'[d],
           d \notin mixed' => DayTrue(d)' \/ work'[j].pc = "sent"
    PROVE  SummariesInv'
<1> DEFINE goes == work'[j].pc \notin {"idle", "done", "look"}
<1>1. /\ SummariesTyped /\ IdsPosted /\ CronPostsOnce /\ SharedMixed
      /\ \A k \in Jobs : CopyTrue(k)
      /\ PapersTrue /\ d \in Days /\ work \in [Jobs -> Works] /\ work' \in [Jobs -> Works]
      /\ hour' = hour
  BY BusyDay DEF SummariesInv, SummariesTyped, OthersStay
<1>2. \A k \in Jobs \ {j} : /\ work'[k] = work[k] /\ Day(k)' = Day(k) /\ (Busy(k)' <=> Busy(k))
  BY DayIsFor DEF OthersStay, Summaries!Busy
<1>3. goes => Day(j)' = d /\ Busy(j)'
  <2>1. goes => Day(j)' = d
    BY DayIsFor DEF Leaves, Stays
  <2> QED
    BY <2>1 DEF Summaries!Busy
<1>4. ~ goes => work'[j].pc \in {"idle", "done", "look"}
  OBVIOUS
<1>5. SummariesTyped'
  <2>1. Busy(j)' => work'[j].chat \in Chats /\ work'[j].at \in Hours .. hour
    <3>1. work[j].chat \in Chats /\ work[j].at \in Hours .. hour
      BY <1>1 DEF SummariesTyped
    <3> QED
      BY <3>1 DEF Leaves, Stays, Summaries!Busy
  <2>2. work'[j].pc = "look" => j = Cron
    BY DEF Leaves, Stays
  <2>3. work'[j].pc \in {"send", "sent", "pin", "pinned"} => work'[j].doc # None
    BY <1>4
  <2> QED
    BY <1>1, <1>2, <2>1, <2>2, <2>3 DEF SummariesTyped
<1>6. IdsPosted'
  <2>1. \A c \in Days : /\ posted[c] \in Nat /\ posted'[c] \in Nat /\ posted[c] <= posted'[c]
                        /\ 1 .. posted[c] \subseteq 1 .. posted'[c]
    <3>1. \A c \in Days : posted[c] \in Nat /\ posted'[c] \in Nat /\ posted[c] <= posted'[c]
      BY <1>1 DEF SummariesTyped
    <3> QED
      BY <3>1
  <2>2. \A c \in Days : /\ papers'[c] # None => papers'[c].sent \in (1 .. posted'[c]) \cup {None}
                        /\ pins'[c] \subseteq 1 .. posted'[c]
    BY <1>1 DEF IdsPosted
  <2>3. ASSUME NEW k \in Jobs
        PROVE  /\ work'[k].pc \in {"save", "send"} /\ work'[k].doc # None =>
                      work'[k].doc.sent \in (1 .. posted'[Day(k)']) \cup {None}
               /\ work'[k].pc \in {"sent", "pin", "pinned"} =>
                      work'[k].doc.sent \in 1 .. posted'[Day(k)']
    <3>1. CASE k = j
      BY <1>3, <1>4, <3>1
    <3>2. CASE k # j /\ Busy(k)
      <4>1. Day(k) \in Days
        BY <1>1, <3>2, BusyDay
      <4>2. /\ work[k].pc \in {"save", "send"} /\ work[k].doc # None =>
                   work[k].doc.sent \in (1 .. posted[Day(k)]) \cup {None}
            /\ work[k].pc \in {"sent", "pin", "pinned"} =>
                   work[k].doc.sent \in 1 .. posted[Day(k)]
        BY <1>1 DEF IdsPosted
      <4>3. 1 .. posted[Day(k)] \subseteq 1 .. posted'[Day(k)]
        BY <2>1, <4>1
      <4>4. work'[k] = work[k] /\ Day(k)' = Day(k)
        BY <1>2, <3>2
      <4> HIDE DEF Day
      <4> QED
        BY <4>2, <4>3, <4>4
    <3>3. CASE k # j /\ ~ Busy(k)
      BY <1>2, <3>3 DEF Summaries!Busy
    <3> QED
      BY <3>1, <3>2, <3>3
  <2> QED
    BY <2>2, <2>3 DEF IdsPosted
<1>7. CronPostsOnce'
  <2>1. /\ \A c \in Days : /\ byCron[c] <= 1
                           /\ byCron[c] > 0 => papers[c] # None /\ c[2] * Hours + HourOf[c[1]] <= hour
        /\ work[Cron].pc \in {"find", "save", "send"} => byCron[Day(Cron)] = 0
        /\ work[Cron].pc = "send" => papers[Day(Cron)] # None
        /\ byCron \in [Days -> Nat] /\ Cron \in Jobs
    BY <1>1 DEF CronPostsOnce, SummariesTyped, Summaries!Jobs
  <2>2. \A c \in Days : papers[c] # None => papers'[c] # None
    OBVIOUS
  <2>3. CASE byCron'[d] = byCron[d]
    <3>1. \A c \in Days : byCron'[c] = byCron[c]
      BY <2>3
    <3>2. work'[Cron].pc \in {"find", "save", "send"} => byCron'[Day(Cron)'] = 0
      <4>1. CASE j = Cron
        BY <1>1, <1>3, <1>4, <3>1, <4>1
      <4>2. CASE j # Cron
        <5>1. work'[Cron] = work[Cron] /\ Day(Cron)' = Day(Cron)
          BY <1>2, <2>1, <4>2
        <5>2. work[Cron].pc \in {"find", "save", "send"} => Day(Cron) \in Days
          BY <1>1, <2>1, BusyDay DEF Summaries!Busy
        <5> HIDE DEF Day
        <5> QED
          BY <2>1, <3>1, <5>1, <5>2
      <4> QED
        BY <4>1, <4>2
    <3>3. work'[Cron].pc = "send" => papers'[Day(Cron)'] # None
      <4>1. CASE j = Cron
        BY <1>3, <1>4, <4>1
      <4>2. CASE j # Cron
        <5>1. work'[Cron] = work[Cron] /\ Day(Cron)' = Day(Cron)
          BY <1>2, <2>1, <4>2
        <5>2. work[Cron].pc = "send" => Day(Cron) \in Days
          BY <1>1, <2>1, BusyDay DEF Summaries!Busy
        <5> HIDE DEF Day
        <5> QED
          BY <2>1, <2>2, <5>1, <5>2
      <4> QED
        BY <4>1, <4>2
    <3> QED
      BY <1>1, <2>1, <2>2, <3>1, <3>2, <3>3 DEF CronPostsOnce
  <2>4. CASE /\ j = Cron /\ work[j].pc = "send" /\ byCron'[d] = byCron[d] + 1
             /\ work'[j].pc = "sent"
    <3>1. byCron[d] = 0 /\ papers[d] # None /\ d[2] * Hours + HourOf[d[1]] <= hour
      BY <1>1, <2>1, <2>4, BusyDay
    <3>2. \A c \in Days : /\ byCron'[c] <= 1
                          /\ byCron'[c] > 0 => papers'[c] # None /\ c[2] * Hours + HourOf[c[1]] <= hour
      BY <2>1, <2>2, <2>4, <3>1
    <3> QED
      BY <1>1, <2>4, <3>2 DEF CronPostsOnce
  <2> QED
    BY <2>3, <2>4
<1>8. ASSUME NEW k \in Jobs, k # j, Busy(k), Day(k) = d PROVE d \in mixed
  BY <1>1, <1>8 DEF SharedMixed
<1>9. ASSUME NEW k \in Jobs PROVE CopyTrue(k)'
  <2>1. CASE k = j
    BY <1>3, <1>4, <2>1 DEF CopyTrue, Summaries!Busy
  <2>2. CASE k # j
    <3>1. work'[k] = work[k] /\ Day(k)' = Day(k) /\ (Busy(k)' <=> Busy(k))
      BY <1>2, <2>2
    <3>2. SUFFICES ASSUME Busy(k), Day(k) \notin mixed' PROVE CopyTrue(k)'
      BY <3>1 DEF CopyTrue
    <3>3. Day(k) \notin mixed /\ Day(k) \in Days /\ Day(k) # d
      BY <1>1, <1>8, <2>2, <3>2, BusyDay
    <3>4. /\ papers'[Day(k)] = papers[Day(k)] /\ posted'[Day(k)] = posted[Day(k)]
          /\ pins'[Day(k)] = pins[Day(k)]
      BY <3>3
    <3>5. CopyTrue(k)
      BY <1>1
    <3> HIDE DEF Day, Busy
    <3> QED
      BY <3>1, <3>2, <3>3, <3>4, <3>5 DEF CopyTrue
  <2> QED
    BY <2>1, <2>2
<1>10. PapersTrue'
  <2> SUFFICES ASSUME NEW c \in Days, c \notin mixed', ~ DayTrue(c)'
               PROVE  \E k \in Jobs : work'[k].pc = "sent" /\ Day(k)' = c
    BY DEF PapersTrue
  <2>1. CASE c = d
    BY <1>3, <2>1
  <2>2. CASE c # d
    <3>1. c \notin mixed /\ ~ DayTrue(c)
      BY <2>2 DEF DayTrue
    <3>2. PICK k \in Jobs : work[k].pc = "sent" /\ Day(k) = c
      BY <1>1, <3>1 DEF PapersTrue
    <3>3. k # j
      BY <2>2, <3>2
    <3> QED
      BY <1>2, <3>2, <3>3
  <2> QED
    BY <2>1, <2>2
<1> QED
  BY <1>5, <1>6, <1>7, <1>9, <1>10 DEF SummariesInv

\* Nobody else is at the day of a job that has not marked it.
LEMMA AloneTrue ==
    ASSUME SummariesInv, NEW j \in Jobs, Busy(j), Day(j) \notin mixed, Day(j) \in Days,
           work[j].pc # "sent"
    PROVE  DayTrue(Day(j))
<1> SUFFICES ASSUME ~ DayTrue(Day(j)) PROVE FALSE
  OBVIOUS
<1>1. PICK k \in Jobs : work[k].pc = "sent" /\ Day(k) = Day(j)
  BY DEF SummariesInv, PapersTrue
<1>2. Busy(k) /\ k # j
  BY <1>1 DEF Summaries!Busy
<1> HIDE DEF Day
<1> QED
  BY <1>1, <1>2 DEF SummariesInv, SharedMixed

\* A step that writes no document and posts and pins nothing.
LEMMA WorkKeeps ==
    ASSUME SummariesUsual, SummariesInv, NEW j \in Jobs, Busy(j), NEW d, d = Day(j),
           OthersStay(j),
           Leaves(j) \/ (Stays(j) /\ work'[j].pc \in {"find", "save", "pin"} /\ work[j].pc # "sent"),
           UNCHANGED <<papers, hour, posted, byCron, pins>>, mixed \subseteq mixed', SharedMixed',
           work[j].pc = "sent" => d \in mixed',
           j = Cron /\ work'[j].pc \in {"find", "save"} => byCron[d] = 0,
           work'[j].pc \in {"save", "pin"} => work'[j].doc = papers[d],
           work'[j].pc = "pin" => papers[d] # None /\ papers[d].sent # None
    PROVE  SummariesInv'
<1>1. d \in Days /\ SummariesTyped /\ IdsPosted
  BY BusyDay DEF SummariesInv
<1>2. /\ papers \in [Days -> Papers \cup {None}] /\ posted \in [Days -> Nat]
      /\ byCron \in [Days -> Nat] /\ pins \in [Days -> SUBSET Nat]
  BY <1>1 DEF SummariesTyped
<1>3. /\ papers[d] # None => papers[d].sent \in (1 .. posted[d]) \cup {None}
      /\ pins[d] \subseteq 1 .. posted[d] /\ posted[d] \in Nat
  BY <1>1, <1>2 DEF IdsPosted
<1>4. d \notin mixed' => DayTrue(d)'
  <2>1. d \notin mixed' => work[j].pc # "sent"
    OBVIOUS
  <2>2. d \notin mixed' => DayTrue(d)
    BY <1>1, <2>1, AloneTrue
  <2> QED
    BY <2>2 DEF DayTrue
<1>5. work'[j].pc = "pin" =>
          work'[j].doc # None /\ work'[j].doc.sent \in 1 .. posted'[d]
  BY <1>3
<1>6. work'[j].pc = "save" /\ work'[j].doc # None =>
          work'[j].doc.sent \in (1 .. posted'[d]) \cup {None}
  BY <1>3
<1>7. /\ papers' \in [Days -> Papers \cup {None}] /\ posted' \in [Days -> Nat]
      /\ byCron' \in [Days -> Nat] /\ pins' \in [Days -> SUBSET Nat]
      /\ papers'[d] # None => papers'[d].sent \in (1 .. posted'[d]) \cup {None}
      /\ pins'[d] \subseteq 1 .. posted'[d] /\ posted[d] <= posted'[d]
  BY <1>2, <1>3
<1> HIDE DEF Day, Busy
<1>8. Leaves(j) => work'[j].pc \in {"idle", "done", "look"}
  BY DEF Leaves
<1> QED
  BY <1>4, <1>5, <1>6, <1>7, <1>8, StepKeeps

LEMMA LeaveKeeps ==
    ASSUME SummariesUsual, SummariesInv, NEW j \in Jobs, work[j].pc \in {"look", "find", "pin"},
           Summaries!Leave(j), Summaries!Mixed, UNCHANGED <<papers, hour, posted, byCron, pins>>
    PROVE  SummariesInv'
<1>1. Busy(j) /\ work \in [Jobs -> Works] /\ work[j].chat \in Chats
  BY DEF SummariesInv, SummariesTyped, Summaries!Busy
<1>2. Leaves(j) /\ OthersStay(j)
  BY <1>1, LeaveLeaves DEF Leaves
<1>3. SharedMixed' /\ mixed \subseteq mixed'
  BY MixedMarks
<1> DEFINE d == Day(j)
<1> HIDE DEF d
<1>4. d = Day(j)
  BY DEF d
<1>5. work'[j].pc \in {"idle", "done", "look"}
  BY <1>2, LeavesTo
<1> HIDE DEF Busy, Day
<1> QED
  BY <1>1, <1>2, <1>3, <1>4, <1>5, WorkKeeps

LEMMA LookAtKeeps ==
    ASSUME SummariesUsual, SummariesInv, Summaries!Look PROVE SummariesInv'
<1> DEFINE d == Day(Cron)
           doc == papers[d]
<1>1. /\ work[Cron].pc = "look" /\ Cron \in Jobs /\ Summaries!Mixed
      /\ UNCHANGED <<papers, hour, posted, byCron, pins>>
      /\ work \in [Jobs -> Works] /\ Busy(Cron)
      /\ papers \in [Days -> Papers \cup {None}] /\ byCron \in [Days -> Nat]
      /\ SummariesTyped /\ CronPostsOnce
  BY DEF Summaries!Look, SummariesInv, SummariesTyped, Summaries!Jobs, Summaries!Busy
<1>2. SharedMixed' /\ mixed \subseteq mixed'
  BY <1>1, MixedMarks
<1>3. d \in Days
  BY <1>1, BusyDay
<1>4. CASE doc = None
  <2>1. Summaries!Go(Cron, "find", None)
    BY <1>4 DEF Summaries!Look
  <2>2. Proceeds(Cron, "find", None) /\ Stays(Cron)
    BY <1>1, <2>1, ProceedsSo
  <2>3. byCron[d] = 0
    BY <1>1, <1>3, <1>4 DEF CronPostsOnce
  <2> HIDE DEF d
  <2>4. d = Day(Cron)
    BY DEF d
  <2> HIDE DEF Day, Busy
  <2> QED
    BY <1>1, <1>2, <2>2, <2>3, <2>4, WorkKeeps DEF Proceeds
<1>5. CASE doc # None /\ (doc.pinned \/ doc.sent = None)
  <2>1. Summaries!Leave(Cron)
    BY <1>5 DEF Summaries!Look
  <2> QED
    BY <1>1, <2>1, LeaveKeeps
<1>6. CASE doc # None /\ ~ (doc.pinned \/ doc.sent = None)
  <2>1. Summaries!Go(Cron, "pin", doc)
    BY <1>6 DEF Summaries!Look
  <2>2. Proceeds(Cron, "pin", doc) /\ Stays(Cron)
    BY <1>1, <1>3, <2>1, ProceedsSo
  <2>3. d = Day(Cron) /\ papers[d] = doc
    OBVIOUS
  <2> HIDE DEF d, doc
  <2> HIDE DEF Day, Busy
  <2> QED
    BY <1>1, <1>2, <1>6, <2>2, <2>3, WorkKeeps DEF Proceeds
<1> QED
  BY <1>4, <1>5, <1>6

LEMMA LookupKeeps ==
    ASSUME SummariesUsual, SummariesInv, NEW j \in Jobs, Summaries!Find(j) PROVE SummariesInv'
<1> DEFINE d == Day(j)
           doc == papers[d]
<1>1. /\ work[j].pc = "find" /\ Summaries!Go(j, "save", doc)
      /\ UNCHANGED <<papers, hour, posted, byCron, pins, mixed>>
      /\ work \in [Jobs -> Works] /\ Busy(j) /\ SharedMixed
      /\ papers \in [Days -> Papers \cup {None}] /\ byCron \in [Days -> Nat]
      /\ SummariesTyped /\ (j = Cron => byCron[d] = 0)
  BY DEF Summaries!Find, SummariesInv, SummariesTyped, Summaries!Busy, CronPostsOnce
<1>2. d \in Days /\ doc \in Papers \cup {None}
  BY <1>1, BusyDay
<1>3. Proceeds(j, "save", doc) /\ Stays(j)
  BY <1>1, <1>2, ProceedsSo
<1>4. SharedMixed'
  <2>1. \A k \in Jobs : Busy(k)' => Busy(k) /\ Day(k)' = Day(k)
    BY <1>1, <1>3, DayIsFor DEF Proceeds, OthersStay, Summaries!Busy
  <2> QED
    BY <1>1, <2>1, SharedStays
<1>5. d = Day(j) /\ papers[d] = doc
  OBVIOUS
<1> HIDE DEF d, doc
<1> HIDE DEF Day, Busy
<1> QED
  BY <1>1, <1>3, <1>4, <1>5, WorkKeeps DEF Proceeds

LEMMA StopKeeps ==
    ASSUME SummariesUsual, SummariesInv, NEW j \in Jobs, Summaries!Stop(j) PROVE SummariesInv'
<1> DEFINE d == Day(j)
<1>1. /\ work' = [work EXCEPT ![j] = Summaries!Stopped(j)] /\ Busy(j)
      /\ mixed \subseteq mixed' /\ (work[j].pc = "sent" => d \in mixed')
      /\ UNCHANGED <<papers, hour, posted, byCron, pins>>
      /\ work \in [Jobs -> Works] /\ SharedMixed
  BY DEF Summaries!Stop, SummariesInv, SummariesTyped
<1>2. Leaves(j) /\ OthersStay(j)
  BY <1>1, StopLeaves DEF Leaves
<1>3. SharedMixed'
  <2>1. work'[j].pc \in {"idle", "done"}
    BY <1>1 DEF Summaries!Stopped, Summaries!Idle
  <2>2. \A k \in Jobs : Busy(k)' => Busy(k) /\ Day(k)' = Day(k)
    BY <1>2, <2>1, DayIsFor DEF OthersStay, Summaries!Busy
  <2> QED
    BY <1>1, <2>2, SharedStays
<1>4. d = Day(j) /\ work'[j].pc \in {"idle", "done", "look"}
  BY <1>2, LeavesTo
<1> HIDE DEF d, Day, Busy
<1> QED
  BY <1>1, <1>2, <1>3, <1>4, WorkKeeps

\* A summary that Telegram would refuse leaves a document that is refused too.
LEMMA UpsertKeeps ==
    ASSUME SummariesUsual, SummariesInv, NEW j \in Jobs, NEW lines \in BOOLEAN,
           Summaries!Upsert(j, lines)
    PROVE  SummariesInv'
<1> DEFINE doc == IF work[j].doc = None THEN Summaries!NewDoc ELSE work[j].doc
<1>0. PICK d : d = Day(j)
  OBVIOUS
<1>1. /\ work[j].pc = "save" /\ Summaries!Mixed
      /\ UNCHANGED <<hour, posted, byCron, pins>>
      /\ work \in [Jobs -> Works] /\ Busy(j) /\ work[j].chat \in Chats
      /\ papers \in [Days -> Papers \cup {None}] /\ posted \in [Days -> Nat]
      /\ byCron \in [Days -> Nat] /\ pins \in [Days -> SUBSET Nat]
      /\ SummariesTyped /\ IdsPosted /\ (j = Cron => byCron[d] = 0) /\ CopyTrue(j)
  BY <1>0 DEF Summaries!Upsert, SummariesInv, SummariesTyped, Summaries!Busy, CronPostsOnce
<1>2. SharedMixed' /\ mixed \subseteq mixed'
  BY <1>1, MixedMarks
<1>3. d \in Days
  BY <1>0, <1>1, BusyDay
<1>4. CASE work[j].doc = None /\ papers[d] # None
  <2>1. work' = [work EXCEPT ![j] = Summaries!Stopped(j)] /\ UNCHANGED papers
    BY <1>0, <1>4 DEF Summaries!Upsert
  <2>2. Leaves(j) /\ OthersStay(j)
    BY <1>1, <2>1, StopLeaves DEF Leaves
  <2>3. work'[j].pc \in {"idle", "done", "look"}
    BY <2>2, LeavesTo
  <2> HIDE DEF Day, Busy
  <2> QED
    BY <1>0, <1>1, <1>2, <2>1, <2>2, <2>3, WorkKeeps
<1>5. CASE ~ (work[j].doc = None /\ papers[d] # None)
  <2>1. /\ papers' = [papers EXCEPT ![d] = doc]
        /\ IF lines THEN Summaries!Go(j, "send", doc) ELSE Summaries!Leave(j)
    BY <1>0, <1>5 DEF Summaries!Upsert
  <2>2. /\ doc \in Papers /\ doc # None
        /\ doc.sent \in (1 .. posted[d]) \cup {None}
    <3>1. CASE work[j].doc = None
      <4>1. doc = [sent |-> None, pinned |-> FALSE]
        BY <3>1 DEF Summaries!NewDoc
      <4>2. [sent |-> None, pinned |-> FALSE] \in Papers
        BY DEF Papers
      <4>3. None \notin Papers
        BY DEF SummariesUsual, Papers
      <4> QED
        BY <4>1, <4>2, <4>3
    <3>2. CASE work[j].doc # None
      <4>1. work[j].doc \in Papers
        BY <1>1, <3>2 DEF Works
      <4> QED
        BY <1>0, <1>1, <3>2, <4>1 DEF IdsPosted
    <3> QED
      BY <3>1, <3>2
  <2>3. d \notin mixed =>
            /\ posted[d] > 0 => doc.sent = posted[d]
            /\ doc.pinned => pins[d] # {} /\ (posted[d] = 1 => doc.sent \in pins[d])
    <3> SUFFICES ASSUME d \notin mixed
                 PROVE  /\ posted[d] > 0 => doc.sent = posted[d]
                        /\ doc.pinned => pins[d] # {} /\ (posted[d] = 1 => doc.sent \in pins[d])
      OBVIOUS
    <3>1. work[j].doc = papers[d] /\ DayTrue(d)
      BY <1>0, <1>1, <1>3, AloneTrue DEF CopyTrue
    <3> QED
      BY <3>1 DEF DayTrue, Summaries!NewDoc
  <2>4. /\ papers' \in [Days -> Papers \cup {None}] /\ papers'[d] = doc
        /\ \A c \in Days \ {d} : papers'[c] = papers[c]
    BY <1>1, <1>3, <2>1, <2>2
  <2>5. lines => Proceeds(j, "send", doc) /\ Stays(j)
    BY <1>1, <2>1, <2>2, ProceedsSo
  <2>6. ~ lines => Leaves(j)
    BY <1>1, <2>1, LeaveLeaves
  <2>7. pins[d] \subseteq 1 .. posted[d] /\ posted[d] \in Nat
    BY <1>1, <1>3 DEF IdsPosted
  <2> HIDE DEF doc, Day, Busy
  <2>8. OthersStay(j)
    BY <2>5, <2>6 DEF Proceeds, Leaves
  <2>9. d \notin mixed' => DayTrue(d)'
    <3> SUFFICES ASSUME d \notin mixed' PROVE DayTrue(d)'
      OBVIOUS
    <3>1. d \notin mixed
      BY <1>2
    <3>2. posted'[d] = posted[d] /\ pins'[d] = pins[d]
      BY <1>1
    <3> QED
      BY <2>2, <2>3, <2>4, <3>1, <3>2 DEF DayTrue
  <2>10. /\ posted' \in [Days -> Nat] /\ byCron' \in [Days -> Nat]
         /\ pins' \in [Days -> SUBSET Nat]
         /\ \A c \in Days : posted'[c] = posted[c] /\ byCron'[c] = byCron[c] /\ pins'[c] = pins[c]
         /\ posted[d] <= posted'[d] /\ pins'[d] \subseteq 1 .. posted'[d]
         /\ papers'[d] # None /\ papers'[d].sent \in (1 .. posted'[d]) \cup {None}
    BY <1>1, <1>3, <2>2, <2>4, <2>7
  <2>11. UNCHANGED hour
    BY <1>1
  <2>12. CASE lines
    <3>1. Stays(j) /\ work'[j].pc = "send" /\ work'[j].doc = doc
      BY <2>5, <2>12 DEF Proceeds
    <3>2. doc.sent \in (1 .. posted'[d]) \cup {None}
      BY <2>2, <2>10, <2>4
    <3> QED
      BY <1>0, <1>1, <1>2, <1>3, <2>2, <2>4, <2>7, <2>8, <2>9, <2>10, <2>11, <3>1, <3>2, StepKeeps
  <2>13. CASE ~ lines
    <3>1. Leaves(j) /\ work'[j].pc \in {"idle", "done", "look"}
      BY <2>6, <2>13, LeavesTo
    <3> QED
      BY <1>0, <1>1, <1>2, <1>3, <2>4, <2>7, <2>8, <2>9, <2>10, <2>11, <3>1, StepKeeps
  <2> QED
    BY <2>12, <2>13
<1> QED
  BY <1>4, <1>5

\* What a job that has the document alone knows of its day.
LEMMA CopyIds ==
    ASSUME SummariesUsual, SummariesInv, NEW j \in Jobs, NEW d, d = Day(j),
           work[j].pc \in {"send", "sent", "pin", "pinned"}
    PROVE  /\ Busy(j) /\ work[j].chat \in Chats /\ d \in Days
           /\ work[j].doc \in Papers /\ work[j].doc # None
           /\ work[j].doc.sent \in (1 .. posted[d]) \cup {None}
           /\ work[j].pc # "send" => work[j].doc.sent \in 1 .. posted[d]
           /\ pins[d] \subseteq 1 .. posted[d]
           /\ papers[d] # None =>
                  papers[d] \in Papers /\ papers[d].sent \in (1 .. posted[d]) \cup {None}
           /\ work \in [Jobs -> Works] /\ papers \in [Days -> Papers \cup {None}]
           /\ posted \in [Days -> Nat] /\ byCron \in [Days -> Nat] /\ pins \in [Days -> SUBSET Nat]
           /\ posted[d] \in Nat /\ CopyTrue(j) /\ SharedMixed
<1>1. SummariesTyped /\ IdsPosted /\ CopyTrue(j) /\ SharedMixed /\ Busy(j)
  BY DEF SummariesInv, Summaries!Busy
<1>2. d \in Days
  BY <1>1, BusyDay
<1>3. /\ work \in [Jobs -> Works] /\ papers \in [Days -> Papers \cup {None}]
      /\ posted \in [Days -> Nat] /\ byCron \in [Days -> Nat] /\ pins \in [Days -> SUBSET Nat]
      /\ work[j].chat \in Chats /\ work[j].doc # None
  BY <1>1 DEF SummariesTyped
<1>4. work[j].doc \in Papers
  BY <1>3 DEF Works
<1>5. /\ work[j].doc.sent \in (1 .. posted[d]) \cup {None}
      /\ work[j].pc # "send" => work[j].doc.sent \in 1 .. posted[d]
  BY <1>1, <1>3 DEF IdsPosted
<1>6. /\ pins[d] \subseteq 1 .. posted[d]
      /\ papers[d] # None => papers[d].sent \in (1 .. posted[d]) \cup {None}
  BY <1>1, <1>2 DEF IdsPosted
<1> QED
  BY <1>1, <1>2, <1>3, <1>4, <1>5, <1>6

LEMMA PostKeeps ==
    ASSUME SummariesUsual, SummariesInv, NEW j \in Jobs, Summaries!Send(j) PROVE SummariesInv'
<1> DEFINE count == posted[Day(j)] + 1
           doc == [work[j].doc EXCEPT !.sent = count]
<1>1. PICK d : d = Day(j)
  OBVIOUS
<1>2. /\ work[j].pc = "send" /\ posted' = [posted EXCEPT ![d] = @ + 1]
      /\ byCron' = [byCron EXCEPT ![d] = @ + IF j = Cron THEN 1 ELSE 0]
      /\ Summaries!Go(j, "sent", [work[j].doc EXCEPT !.sent = posted'[d]])
      /\ UNCHANGED <<papers, hour, pins, mixed>>
  BY <1>1 DEF Summaries!Send
<1>3. /\ Busy(j) /\ d \in Days
      /\ work[j].doc \in Papers /\ work[j].doc # None
      /\ pins[d] \subseteq 1 .. posted[d]
      /\ papers[d] # None => papers[d] \in Papers /\ papers[d].sent \in (1 .. posted[d]) \cup {None}
      /\ work \in [Jobs -> Works] /\ papers \in [Days -> Papers \cup {None}]
      /\ posted \in [Days -> Nat] /\ byCron \in [Days -> Nat] /\ pins \in [Days -> SUBSET Nat]
      /\ posted[d] \in Nat /\ CopyTrue(j) /\ SharedMixed
  BY <1>1, <1>2, CopyIds
<1>4. /\ posted' \in [Days -> Nat] /\ posted'[d] = posted[d] + 1 /\ count = posted'[d]
      /\ \A c \in Days \ {d} : posted'[c] = posted[c] /\ byCron'[c] = byCron[c]
      /\ byCron' \in [Days -> Nat]
      /\ byCron'[d] = IF j = Cron THEN byCron[d] + 1 ELSE byCron[d]
  BY <1>1, <1>2, <1>3
<1>5. doc \in Papers /\ doc.sent = posted'[d] /\ doc.pinned = work[j].doc.pinned
  BY <1>3, <1>4 DEF Papers
<1>6. doc # None
  BY <1>5 DEF SummariesUsual, Papers
<1>7. Proceeds(j, "sent", doc) /\ Stays(j)
  BY <1>2, <1>3, <1>4, <1>5, ProceedsSo
<1>8. d \notin mixed =>
          /\ papers[d] # None
          /\ doc = Sent(papers[d], posted'[d])
          /\ papers[d].pinned => pins[d] # {} /\ posted'[d] > 1
  <2> SUFFICES ASSUME d \notin mixed
               PROVE  /\ papers[d] # None
                      /\ doc = Sent(papers[d], posted'[d])
                      /\ papers[d].pinned => pins[d] # {} /\ posted'[d] > 1
    OBVIOUS
  <2>1. work[j].doc = papers[d]
    BY <1>1, <1>2, <1>3 DEF CopyTrue
  <2>2. DayTrue(d)
    BY <1>1, <1>2, <1>3, AloneTrue
  <2>3. papers[d].pinned => pins[d] # {} /\ posted[d] >= 1
    BY <1>3, <2>1, <2>2 DEF DayTrue
  <2> QED
    BY <1>3, <1>4, <2>1, <2>3 DEF Sent
<1>9. SharedMixed'
  <2>1. \A k \in Jobs : Busy(k)' => Busy(k) /\ Day(k)' = Day(k)
    BY <1>2, <1>7, DayIsFor DEF Proceeds, OthersStay, Summaries!Busy
  <2> QED
    BY <1>2, <1>3, <2>1, SharedStays
<1> HIDE DEF doc, count, Day, Busy
<1>10. OthersStay(j) /\ Stays(j) /\ work'[j].pc = "sent" /\ work'[j].doc = doc
  BY <1>7 DEF Proceeds
<1>11. /\ UNCHANGED hour /\ mixed' = mixed /\ papers' = papers /\ pins' = pins
       /\ doc.sent \in 1 .. posted'[d] /\ pins'[d] \subseteq 1 .. posted'[d]
       /\ papers'[d] # None => papers'[d].sent \in (1 .. posted'[d]) \cup {None}
       /\ posted[d] <= posted'[d]
  BY <1>2, <1>3, <1>4, <1>5
<1>12. \/ byCron'[d] = byCron[d]
       \/ j = Cron /\ work[j].pc = "send" /\ byCron'[d] = byCron[d] + 1 /\ work'[j].pc = "sent"
  BY <1>2, <1>4, <1>10
<1>13. d \notin mixed' =>
           /\ papers'[d] # None
           /\ work'[j].doc = Sent(papers'[d], posted'[d])
           /\ papers'[d].pinned => pins'[d] # {} /\ posted'[d] > 1
  BY <1>8, <1>10, <1>11
<1>14. /\ papers' \in [Days -> Papers \cup {None}] /\ pins' \in [Days -> SUBSET Nat]
       /\ \A c \in Days \ {d} : papers'[c] = papers[c] /\ pins'[c] = pins[c]
       /\ papers[d] # None => papers'[d] # None
       /\ UNCHANGED hour /\ mixed \subseteq mixed'
  BY <1>3, <1>11
<1>15. /\ work'[j].doc # None /\ work'[j].doc.sent \in 1 .. posted'[d]
       /\ pins'[d] \subseteq 1 .. posted'[d]
       /\ papers'[d] # None => papers'[d].sent \in (1 .. posted'[d]) \cup {None}
       /\ posted[d] <= posted'[d]
  BY <1>6, <1>10, <1>11
<1>16. /\ posted' \in [Days -> Nat] /\ byCron' \in [Days -> Nat]
       /\ \A c \in Days \ {d} : /\ papers'[c] = papers[c] /\ posted'[c] = posted[c]
                             /\ byCron'[c] = byCron[c] /\ pins'[c] = pins[c]
  BY <1>4, <1>14
<1>17. Busy(j)
  BY <1>3
<1> QED
  BY <1>1, <1>9, <1>10, <1>12, <1>13, <1>14, <1>15, <1>16, <1>17, StepKeeps

LEMMA SaveSentKeeps ==
    ASSUME SummariesUsual, SummariesInv, NEW j \in Jobs, Summaries!SaveSent(j) PROVE SummariesInv'
<1> DEFINE doc == work[j].doc
<1>1. PICK d : d = Day(j)
  OBVIOUS
<1>2. /\ work[j].pc = "sent" /\ papers' = [papers EXCEPT ![d] = doc]
      /\ IF doc.pinned THEN Summaries!Leave(j) ELSE Summaries!Go(j, "pin", doc)
      /\ Summaries!Mixed /\ UNCHANGED <<hour, posted, byCron, pins>>
  BY <1>1 DEF Summaries!SaveSent
<1>3. /\ Busy(j) /\ work[j].chat \in Chats /\ d \in Days /\ doc \in Papers /\ doc # None
      /\ doc.sent \in 1 .. posted[d] /\ pins[d] \subseteq 1 .. posted[d]
      /\ papers[d] # None => papers[d] \in Papers
      /\ work \in [Jobs -> Works] /\ papers \in [Days -> Papers \cup {None}]
      /\ posted \in [Days -> Nat] /\ byCron \in [Days -> Nat] /\ pins \in [Days -> SUBSET Nat]
      /\ posted[d] \in Nat /\ CopyTrue(j)
  BY <1>1, <1>2, CopyIds
<1>4. /\ papers' \in [Days -> Papers \cup {None}] /\ papers'[d] = doc
      /\ \A c \in Days \ {d} : papers'[c] = papers[c]
      /\ posted' = posted /\ byCron' = byCron /\ pins' = pins
  BY <1>2, <1>3
<1>5. SharedMixed' /\ mixed \subseteq mixed'
  BY <1>2, MixedMarks
<1>6. ~ doc.pinned => Proceeds(j, "pin", doc) /\ Stays(j)
  BY <1>2, <1>3, ProceedsSo
<1>7. doc.pinned => Leaves(j)
  BY <1>2, <1>3, LeaveLeaves
<1>8. d \notin mixed' => DayTrue(d)'
  <2> SUFFICES ASSUME d \notin mixed' PROVE DayTrue(d)'
    OBVIOUS
  <2>1. /\ papers[d] # None /\ doc = Sent(papers[d], posted[d])
        /\ papers[d].pinned => pins[d] # {} /\ posted[d] > 1
    BY <1>1, <1>2, <1>3, <1>5 DEF CopyTrue
  <2>2. doc.sent = posted[d] /\ doc.pinned = papers[d].pinned
    BY <1>3, <2>1 DEF Papers, Sent
  <2> QED
    BY <1>3, <1>4, <2>1, <2>2 DEF DayTrue
<1>9. /\ doc.sent \in 1 .. posted'[d] /\ pins'[d] \subseteq 1 .. posted'[d]
      /\ posted[d] <= posted'[d] /\ UNCHANGED hour
  BY <1>2, <1>3, <1>4
<1> HIDE DEF doc, Day, Busy
<1>10. OthersStay(j)
  BY <1>6, <1>7 DEF Proceeds, Leaves
<1>11. CASE doc.pinned
  <2>1. Leaves(j) /\ work'[j].pc \in {"idle", "done", "look"}
    BY <1>7, <1>11, LeavesTo
  <2> QED
    BY <1>1, <1>3, <1>4, <1>5, <1>8, <1>9, <1>10, <2>1, StepKeeps
<1>12. CASE ~ doc.pinned
  <2>1. Stays(j) /\ work'[j].pc = "pin" /\ work'[j].doc = doc
    BY <1>6, <1>12 DEF Proceeds
  <2> QED
    BY <1>1, <1>3, <1>4, <1>5, <1>8, <1>9, <1>10, <2>1, StepKeeps
<1> QED
  BY <1>11, <1>12

LEMMA PinKeeps ==
    ASSUME SummariesUsual, SummariesInv, NEW j \in Jobs, Summaries!Pin(j) PROVE SummariesInv'
<1> DEFINE doc == [work[j].doc EXCEPT !.pinned = TRUE]
<1>1. PICK d : d = Day(j)
  OBVIOUS
<1>2. /\ work[j].pc = "pin" /\ pins' = [pins EXCEPT ![d] = @ \cup {work[j].doc.sent}]
      /\ Summaries!Go(j, "pinned", doc)
      /\ UNCHANGED <<papers, hour, posted, byCron, mixed>>
  BY <1>1 DEF Summaries!Pin
<1>3. /\ Busy(j) /\ d \in Days /\ work[j].doc \in Papers
      /\ work[j].doc.sent \in 1 .. posted[d] /\ pins[d] \subseteq 1 .. posted[d]
      /\ papers[d] # None => papers[d].sent \in (1 .. posted[d]) \cup {None}
      /\ work \in [Jobs -> Works] /\ papers \in [Days -> Papers \cup {None}]
      /\ posted \in [Days -> Nat] /\ byCron \in [Days -> Nat] /\ pins \in [Days -> SUBSET Nat]
      /\ posted[d] \in Nat /\ CopyTrue(j) /\ SharedMixed /\ work[j].doc # None
  BY <1>1, <1>2, CopyIds
<1>4. /\ pins' \in [Days -> SUBSET Nat] /\ pins'[d] = pins[d] \cup {work[j].doc.sent}
      /\ \A c \in Days \ {d} : pins'[c] = pins[c]
      /\ papers' = papers /\ posted' = posted /\ byCron' = byCron /\ mixed' = mixed
  BY <1>2, <1>3
<1>5. doc \in Papers /\ doc.sent = work[j].doc.sent
  BY <1>3 DEF Papers
<1>6. doc # None
  BY <1>5 DEF SummariesUsual, Papers
<1>7. Proceeds(j, "pinned", doc) /\ Stays(j)
  BY <1>2, <1>3, <1>5, ProceedsSo
<1>8. SharedMixed'
  <2>1. \A k \in Jobs : Busy(k)' => Busy(k) /\ Day(k)' = Day(k)
    BY <1>2, <1>7, DayIsFor DEF Proceeds, OthersStay, Summaries!Busy
  <2> QED
    BY <1>3, <1>4, <2>1, SharedStays
<1>9. d \notin mixed => /\ work[j].doc = papers[d]
                        /\ DayTrue(d)'
  <2> SUFFICES ASSUME d \notin mixed PROVE work[j].doc = papers[d] /\ DayTrue(d)'
    OBVIOUS
  <2>1. work[j].doc = papers[d]
    BY <1>1, <1>2, <1>3 DEF CopyTrue
  <2>2. DayTrue(d)
    BY <1>1, <1>2, <1>3, AloneTrue
  <2> QED
    BY <1>3, <1>4, <2>1, <2>2 DEF DayTrue
<1>10. d \notin mixed => papers[d] # None /\ doc = Pinned(papers[d])
  BY <1>3, <1>9 DEF Pinned
<1> HIDE DEF doc, Day, Busy
<1>11. OthersStay(j) /\ Stays(j) /\ work'[j].pc = "pinned" /\ work'[j].doc = doc
  BY <1>7 DEF Proceeds
<1>12. /\ UNCHANGED hour /\ doc.sent \in 1 .. posted'[d] /\ doc.sent \in pins'[d]
       /\ pins'[d] \subseteq 1 .. posted'[d] /\ posted[d] <= posted'[d]
       /\ papers'[d] # None => papers'[d].sent \in (1 .. posted'[d]) \cup {None}
  BY <1>2, <1>3, <1>4, <1>5
<1> QED
  BY <1>1, <1>3, <1>4, <1>6, <1>8, <1>9, <1>10, <1>11, <1>12, StepKeeps

LEMMA SavePinnedKeeps ==
    ASSUME SummariesUsual, SummariesInv, NEW j \in Jobs, Summaries!SavePinned(j)
    PROVE  SummariesInv'
<1> DEFINE doc == work[j].doc
<1>1. PICK d : d = Day(j)
  OBVIOUS
<1>2. /\ work[j].pc = "pinned" /\ papers' = [papers EXCEPT ![d] = doc]
      /\ Summaries!Leave(j) /\ Summaries!Mixed /\ UNCHANGED <<hour, posted, byCron, pins>>
  BY <1>1 DEF Summaries!SavePinned
<1>3. /\ Busy(j) /\ work[j].chat \in Chats /\ d \in Days /\ doc \in Papers /\ doc # None
      /\ doc.sent \in 1 .. posted[d] /\ pins[d] \subseteq 1 .. posted[d]
      /\ papers[d] # None => papers[d] \in Papers
      /\ work \in [Jobs -> Works] /\ papers \in [Days -> Papers \cup {None}]
      /\ posted \in [Days -> Nat] /\ byCron \in [Days -> Nat] /\ pins \in [Days -> SUBSET Nat]
      /\ posted[d] \in Nat /\ CopyTrue(j)
  BY <1>1, <1>2, CopyIds
<1>4. /\ papers' \in [Days -> Papers \cup {None}] /\ papers'[d] = doc
      /\ \A c \in Days \ {d} : papers'[c] = papers[c]
      /\ posted' = posted /\ byCron' = byCron /\ pins' = pins
  BY <1>2, <1>3
<1>5. SharedMixed' /\ mixed \subseteq mixed'
  BY <1>2, MixedMarks
<1>6. Leaves(j)
  BY <1>2, <1>3, LeaveLeaves
<1>7. d \notin mixed' => DayTrue(d)'
  <2> SUFFICES ASSUME d \notin mixed' PROVE DayTrue(d)'
    OBVIOUS
  <2>1. /\ papers[d] # None /\ doc = Pinned(papers[d]) /\ doc.sent \in pins[d]
    BY <1>1, <1>2, <1>3, <1>5 DEF CopyTrue
  <2>2. doc.sent = papers[d].sent
    BY <1>3, <2>1 DEF Papers, Pinned
  <2>3. DayTrue(d)
    BY <1>1, <1>2, <1>3, <1>5, AloneTrue
  <2> QED
    BY <1>3, <1>4, <2>1, <2>2, <2>3 DEF DayTrue
<1>8. /\ papers'[d].sent \in 1 .. posted'[d] /\ pins'[d] \subseteq 1 .. posted'[d]
      /\ posted[d] <= posted'[d] /\ UNCHANGED hour
  BY <1>2, <1>3, <1>4
<1> HIDE DEF doc, Day, Busy
<1>9. OthersStay(j) /\ work'[j].pc \in {"idle", "done", "look"}
  BY <1>6, LeavesTo
<1> QED
  BY <1>1, <1>3, <1>4, <1>5, <1>6, <1>7, <1>8, <1>9, StepKeeps

LEMMA StartKeeps ==
    ASSUME SummariesUsual, SummariesInv, NEW j \in Jobs, work[j].pc = "idle",
           NEW new \in Works, work' = [work EXCEPT ![j] = new], new.chat \in Chats, new.at = hour,
           new.pc = IF j = Cron THEN "look" ELSE "find",
           Summaries!Mixed, UNCHANGED <<papers, hour, posted, byCron, pins>>
    PROVE  SummariesInv'
<1>1. /\ SummariesTyped /\ IdsPosted /\ CronPostsOnce
      /\ \A k \in Jobs : CopyTrue(k)
      /\ PapersTrue /\ work \in [Jobs -> Works] /\ Cron \in Jobs
  BY DEF SummariesInv, SummariesTyped, Summaries!Jobs
<1>2. SharedMixed' /\ mixed \subseteq mixed'
  BY MixedMarks
<1>3. work' \in [Jobs -> Works] /\ work'[j] = new
  BY <1>1
<1>4. \A k \in Jobs \ {j} : /\ work'[k] = work[k] /\ Day(k)' = Day(k) /\ (Busy(k)' <=> Busy(k))
  BY <1>1, DayIsFor DEF Summaries!Busy
<1>5. SummariesTyped'
  <2>1. hour \in Hours .. hour
    BY <1>1 DEF SummariesTyped, SummariesUsual
  <2> QED
    BY <1>1, <1>3, <1>4, <2>1 DEF SummariesTyped
<1>6. IdsPosted'
  BY <1>1, <1>3, <1>4 DEF IdsPosted
<1>7. CronPostsOnce'
  <2>1. CASE j = Cron
    BY <1>1, <1>3, <2>1 DEF CronPostsOnce
  <2>2. CASE j # Cron
    BY <1>1, <1>4, <2>2 DEF CronPostsOnce
  <2> QED
    BY <2>1, <2>2
<1>8. ASSUME NEW k \in Jobs PROVE CopyTrue(k)'
  <2>1. CASE k = j
    BY <1>3, <2>1 DEF CopyTrue
  <2>2. CASE k # j
    <3>1. CopyTrue(k) /\ work'[k] = work[k] /\ Day(k)' = Day(k) /\ (Busy(k)' <=> Busy(k))
      BY <1>1, <1>4, <2>2
    <3> HIDE DEF Day, Busy
    <3> QED
      BY <1>2, <3>1 DEF CopyTrue
  <2> QED
    BY <2>1, <2>2
<1>9. PapersTrue'
  <2> SUFFICES ASSUME NEW c \in Days, c \notin mixed', ~ DayTrue(c)'
               PROVE  \E k \in Jobs : work'[k].pc = "sent" /\ Day(k)' = c
    BY DEF PapersTrue
  <2>1. c \notin mixed /\ ~ DayTrue(c)
    BY <1>2 DEF DayTrue
  <2>2. PICK k \in Jobs : work[k].pc = "sent" /\ Day(k) = c
    BY <1>1, <2>1 DEF PapersTrue
  <2> QED
    BY <1>4, <2>2
<1> QED
  BY <1>2, <1>5, <1>6, <1>7, <1>8, <1>9 DEF SummariesInv

LEMMA CronKeeps ==
    ASSUME SummariesUsual, SummariesInv, Summaries!Run PROVE SummariesInv'
<1>1. PICK first \in Int : first = 1
  OBVIOUS
<1> DEFINE new == [Summaries!Idle EXCEPT !.pc = "look", !.chat = first, !.at = hour]
<1>2. /\ work[Cron].pc = "idle" /\ work' = [work EXCEPT ![Cron] = new] /\ Summaries!Mixed
      /\ UNCHANGED <<papers, hour, posted, byCron, pins>> /\ Cron \in Jobs /\ hour \in Int
  BY <1>1 DEF Summaries!Run, Summaries!Jobs, SummariesInv, SummariesTyped, SummariesUsual
<1>3. Summaries!Idle \in Works
  BY DEF Summaries!Idle, Works
<1>4. new \in Works /\ new.chat = first /\ new.at = hour /\ new.pc = "look"
  BY <1>2, <1>3 DEF Works
<1>5. first \in Chats
  BY <1>1 DEF SummariesUsual, Summaries!Chats
<1> HIDE DEF new
<1> QED
  BY <1>2, <1>4, <1>5, StartKeeps

LEMMA CommandKeeps ==
    ASSUME SummariesUsual, SummariesInv, NEW j \in OpCommands, NEW chat \in Chats,
           Summaries!Command(j, chat)
    PROVE  SummariesInv'
<1> DEFINE new == [Summaries!Idle EXCEPT !.pc = "find", !.chat = chat, !.at = hour]
<1>1. /\ work[j].pc = "idle" /\ work' = [work EXCEPT ![j] = new] /\ Summaries!Mixed
      /\ UNCHANGED <<papers, hour, posted, byCron, pins>> /\ hour \in Int /\ j \in Jobs /\ j # Cron
  BY DEF Summaries!Command, Summaries!Jobs, SummariesInv, SummariesTyped, SummariesUsual
<1>2. chat \in Int
  BY DEF Summaries!Chats, SummariesUsual
<1>3. Summaries!Idle \in Works
  BY DEF Summaries!Idle, Works
<1>4. new \in Works /\ new.chat = chat /\ new.at = hour /\ new.pc = "find"
  BY <1>1, <1>2, <1>3 DEF Works
<1> HIDE DEF new
<1> QED
  BY <1>1, <1>4, StartKeeps

LEMMA TickKeeps ==
    ASSUME SummariesUsual, SummariesInv, Summaries!Tick PROVE SummariesInv'
<1>1. /\ SummariesTyped /\ IdsPosted /\ CronPostsOnce /\ SharedMixed
      /\ \A k \in Jobs : CopyTrue(k)
      /\ PapersTrue /\ hour < MaxHour /\ hour' = hour + 1
      /\ UNCHANGED <<papers, work, posted, byCron, pins, mixed>>
      /\ hour \in Hours .. MaxHour /\ Hours \in Nat \ {0} /\ MaxHour \in Nat
  BY DEF Summaries!Tick, SummariesInv, SummariesTyped, SummariesUsual
<1>2. \A k : Day(k)' = Day(k) /\ (Busy(k)' <=> Busy(k))
  BY <1>1, DayIsFor DEF Summaries!Busy
<1>3. hour' \in Hours .. MaxHour /\ Hours .. hour \subseteq Hours .. hour'
  BY <1>1
<1>4. SummariesTyped'
  BY <1>1, <1>3 DEF SummariesTyped, Summaries!Busy
<1>5. IdsPosted'
  <2> HIDE DEF Day
  <2> QED
    BY <1>1, <1>2 DEF IdsPosted
<1>6. CronPostsOnce'
  <2>1. \A c \in Days : c[2] * Hours + HourOf[c[1]] \in Int
    <3> SUFFICES ASSUME NEW c \in Days PROVE c[2] * Hours + HourOf[c[1]] \in Int
      OBVIOUS
    <3>1. c[2] \in Int /\ HourOf[c[1]] \in Int
      BY DEF Summaries!Days, Summaries!Dates, Summaries!Chats, SummariesUsual
    <3> QED
      BY <1>1, <3>1
  <2>2. \A c \in Days : byCron[c] > 0 => c[2] * Hours + HourOf[c[1]] <= hour'
    BY <1>1, <2>1 DEF CronPostsOnce
  <2> HIDE DEF Day
  <2> QED
    BY <1>1, <1>2, <2>2 DEF CronPostsOnce
<1> HIDE DEF Day, Busy
<1>7. SharedMixed' /\ \A k \in Jobs : CopyTrue(k)'
  BY <1>1, <1>2 DEF SharedMixed, CopyTrue
<1>8. PapersTrue'
  BY <1>1, <1>2 DEF PapersTrue, DayTrue
<1> QED
  BY <1>4, <1>5, <1>6, <1>7, <1>8 DEF SummariesInv

LEMMA SummariesStutter ==
    ASSUME SummariesInv, UNCHANGED Summaries!vars PROVE SummariesInv'
<1>1. UNCHANGED <<papers, hour, work, posted, byCron, pins, mixed>>
  BY DEF Summaries!vars
<1>2. \A k : Day(k)' = Day(k) /\ (Busy(k)' <=> Busy(k))
  BY <1>1, DayIsFor DEF Summaries!Busy
<1>3. SummariesTyped'
  BY <1>1 DEF SummariesInv, SummariesTyped, Summaries!Busy
<1> HIDE DEF Day, Busy
<1>4. IdsPosted' /\ CronPostsOnce' /\ SharedMixed'
  BY <1>1, <1>2 DEF SummariesInv, IdsPosted, CronPostsOnce, SharedMixed
<1>5. (\A k \in Jobs : CopyTrue(k)') /\ PapersTrue'
  BY <1>1, <1>2 DEF SummariesInv, CopyTrue, PapersTrue, DayTrue
<1> QED
  BY <1>3, <1>4, <1>5 DEF SummariesInv

LEMMA SummariesBegin ==
    ASSUME SummariesUsual, Summaries!Init PROVE SummariesInv
<1>1. /\ papers = [d \in Days |-> None] /\ hour = Hours
      /\ work = [j \in Jobs |-> Summaries!Idle]
      /\ posted = [d \in Days |-> 0] /\ byCron = [d \in Days |-> 0]
      /\ pins = [d \in Days |-> {}]
  BY DEF Summaries!Init
<1>2. Summaries!Idle \in Works /\ Summaries!Idle.pc = "idle"
  BY DEF Summaries!Idle, Works
<1>3. \A j \in Jobs : work[j].pc = "idle" /\ ~ Busy(j)
  BY <1>1, <1>2 DEF Summaries!Busy
<1>4. SummariesTyped
  <2>1. Hours \in Hours .. MaxHour
    BY DEF SummariesUsual
  <2> QED
    BY <1>1, <1>2, <1>3, <2>1 DEF SummariesTyped
<1> HIDE DEF Busy, Day
<1>5. IdsPosted /\ SharedMixed /\ \A j \in Jobs : CopyTrue(j)
  BY <1>1, <1>3 DEF IdsPosted, SharedMixed, CopyTrue
<1>6. CronPostsOnce
  BY <1>1, <1>3 DEF CronPostsOnce, Summaries!Jobs
<1>7. PapersTrue
  BY <1>1 DEF PapersTrue, DayTrue
<1> QED
  BY <1>4, <1>5, <1>6, <1>7 DEF SummariesInv

LEMMA SummariesNextPreserves ==
    ASSUME SummariesUsual, SummariesInv, [Summaries!Next]_(Summaries!vars) PROVE SummariesInv'
<1>1. CASE Summaries!Tick \/ Summaries!Run \/ Summaries!Look
  BY <1>1, TickKeeps, CronKeeps, LookAtKeeps
<1>2. CASE Summaries!Skip
  <2>1. Cron \in Jobs
    BY DEF Summaries!Jobs
  <2> QED
    BY <1>2, <2>1, LeaveKeeps DEF Summaries!Skip
<1>3. ASSUME NEW j \in OpCommands, NEW chat \in Chats, Summaries!Command(j, chat)
      PROVE  SummariesInv'
  BY <1>3, CommandKeeps
<1>4. ASSUME NEW j \in Jobs, Summaries!Discard(j) \/ Summaries!NoPin(j) PROVE SummariesInv'
  BY <1>4, LeaveKeeps DEF Summaries!Discard, Summaries!NoPin
<1>5. ASSUME NEW j \in Jobs,
             \/ Summaries!Find(j) \/ \E lines \in BOOLEAN : Summaries!Upsert(j, lines)
             \/ Summaries!Send(j) \/ Summaries!SaveSent(j) \/ Summaries!Pin(j)
             \/ Summaries!SavePinned(j) \/ Summaries!Stop(j)
      PROVE  SummariesInv'
  BY <1>5, LookupKeeps, UpsertKeeps, PostKeeps, SaveSentKeeps, PinKeeps, SavePinnedKeeps, StopKeeps
<1>6. CASE UNCHANGED Summaries!vars
  BY <1>6, SummariesStutter
<1> QED
  BY <1>1, <1>2, <1>3, <1>4, <1>5, <1>6 DEF Summaries!Next

LEMMA SummariesInvImplies ==
    ASSUME SummariesInv PROVE Summaries!SummariesHold
<1>1. Summaries!PostedOnce /\ Summaries!PostedLate
  BY DEF SummariesInv, CronPostsOnce, Summaries!PostedOnce, Summaries!PostedLate
<1>2. ASSUME NEW d \in Days, d \notin mixed, \A j \in Jobs : Busy(j) => Day(j) # d
      PROVE  DayTrue(d)
  BY <1>2 DEF SummariesInv, PapersTrue, Summaries!Busy
<1>3. Summaries!DocsTrue
  BY <1>2 DEF Summaries!DocsTrue, DayTrue
<1> QED
  BY <1>1, <1>3 DEF Summaries!SummariesHold

-----------------------------------------------------------------------------
(* FeatureFlags, by its own names of the slots *)

stored == v1
hot == v2
day == v3
call == v4
stale == v6

\* The values of a flag are of the type of its default.
FlagsUsual ==
    /\ FlagDefault[1] \in {"bool", "int"}
    /\ \A v \in FlagValues : /\ v = <<FlagDefault[1], v[2]>>
                             /\ FlagDefault[1] = "bool" => v[2] \in {0, 1}
    /\ Percentages \subseteq Nat /\ Durations \subseteq Nat \ {0}
    /\ None \notin [value : FlagValues \cup {v[2] : v \in FlagValues}, source : {"manual", "rollout"},
                    start : Int, target : Int, since : Int, days : Nat]

Overrides(values) ==
    [value : values, source : {"manual", "rollout"}, start : Int, target : Int, since : Int, days : Nat]

\* Documents of MongoDB, and fields of Redis.
FlagDocs == Overrides(FlagValues)

Fields == Overrides({v[2] : v \in FlagValues})

FlagCalls ==
    [pc : {"new", "hget", "find", "warm", "save", "publish", "done"},
     op : {"none", "get", "list", "set", "delete", "timed", "bump"}, key : Flags!Keys,
     doc : FlagDocs \cup {None}, arg : Nat, value : {FlagDefault} \cup FlagValues, quiet : BOOLEAN,
     expected : {FlagDefault} \cup FlagValues]

FlagsTyped ==
    /\ stored \in [Flags!Keys -> FlagDocs \cup {None}]
    /\ hot \in [Flags!Keys -> Fields \cup {None}]
    /\ day \in Int
    /\ call \in [Calls -> FlagCalls]
    /\ \A c \in Calls : call[c].pc = "warm" => call[c].doc # None
    /\ \A c \in Calls : call[c].op = "timed" => call[c].value \in FlagValues

Awake(c) == call[c].pc \notin {"new", "done"}

\* The levels of the hierarchy above a level are empty.
NoneAbove(k) ==
    /\ k # "chat" => stored["chat"] = None
    /\ k = "rollout" => stored["global"] = None

\* A call that is alone knows what MongoDB says, and a lookup has come to its
\* level of the hierarchy, or enters the chat in a cohort with its value.
Knows(r) ==
    /\ stale = {}
    /\ r.pc = "warm" => r.doc = stored[r.key]
    /\ r.op = "get" =>
           /\ r.pc \in {"hget", "find", "warm"} => r.expected = Flags!Effective /\ NoneAbove(r.key)
           /\ r.pc \in {"save", "publish"} => r.value = r.expected

QuietKnows ==
    \A c \in Calls : Awake(c) /\ call[c].quiet =>
        Knows(call[c]) /\ \A d \in Calls : Awake(d) => d = c

FlagsInv == FlagsTyped /\ Flags!CacheFollowsStore /\ Flags!HierarchyRespected /\ QuietKnows

USE DEF stored, hot, day, call, stale

LEMMA ParseRestores ==
    ASSUME FlagsUsual, NEW v \in FlagValues PROVE Flags!Parse(v[2]) = v
BY DEF FlagsUsual, Flags!Parse

LEMMA NoneIsNoDoc ==
    ASSUME FlagsUsual PROVE None \notin FlagDocs /\ None \notin Fields
BY DEF FlagsUsual, FlagDocs, Fields, Overrides

\* Redis has of a document all that a lookup uses.
LEMMA SerializeFits ==
    ASSUME FlagsUsual, NEW doc \in FlagDocs
    PROVE  /\ Flags!Serialize(doc) \in Fields
           /\ Flags!Serialize(doc).value = doc.value[2] /\ Flags!Serialize(doc).start = doc.start
           /\ Flags!Serialize(doc).target = doc.target /\ Flags!Serialize(doc).since = doc.since
           /\ Flags!Serialize(doc).days = doc.days
<1> DEFINE number == doc.value[2]
           field == [doc EXCEPT !.value = number, !.source = "manual"]
<1>1. Flags!Serialize(doc) = field
  BY NoneIsNoDoc DEF Flags!Serialize
<1>2. /\ doc \in [value : FlagValues, source : {"manual", "rollout"}, start : Int, target : Int,
                  since : Int, days : Nat]
      /\ number \in {v[2] : v \in FlagValues}
  BY DEF FlagDocs, Overrides
<1> HIDE DEF number
<1>3. /\ field \in [value : {v[2] : v \in FlagValues}, source : {"manual", "rollout"}, start : Int,
                    target : Int, since : Int, days : Nat]
      /\ field.value = number /\ field.start = doc.start /\ field.target = doc.target
      /\ field.since = doc.since /\ field.days = doc.days
  BY <1>2
<1> QED
  BY <1>1, <1>3 DEF Fields, Overrides, number

LEMMA SerializeNone == Flags!Serialize(None) = None
BY DEF Flags!Serialize

\* What a lookup makes of a field.
ReadBack(field) == [field EXCEPT !.value = Flags!Parse(@)]

LEMMA ReadBackFits ==
    ASSUME FlagsUsual, NEW field \in Fields
    PROVE  /\ ReadBack(field) \in FlagDocs
           /\ ReadBack(field).value = Flags!Parse(field.value)
           /\ Flags!Percentage(ReadBack(field)) = Flags!Percentage(field)
<1> DEFINE value == Flags!Parse(field.value)
           doc == [field EXCEPT !.value = value]
<1>1. ReadBack(field) = doc
  BY DEF ReadBack
<1>2. field \in [value : {v[2] : v \in FlagValues}, source : {"manual", "rollout"}, start : Int,
                 target : Int, since : Int, days : Nat]
  BY DEF Fields, Overrides
<1>3. value \in FlagValues
  <2>1. PICK v \in FlagValues : field.value = v[2]
    BY <1>2
  <2> QED
    BY <2>1, ParseRestores
<1> HIDE DEF value
<1>4. /\ doc \in [value : FlagValues, source : {"manual", "rollout"}, start : Int,
                  target : Int, since : Int, days : Nat]
      /\ doc.value = value /\ doc.start = field.start /\ doc.target = field.target
      /\ doc.since = field.since /\ doc.days = field.days
  BY <1>2, <1>3
<1> HIDE DEF doc
<1> QED
  BY <1>1, <1>4 DEF FlagDocs, Overrides, value, Flags!Percentage

\* A field that follows its document is read as that document.
LEMMA FollowerTells ==
    ASSUME FlagsUsual, NEW doc \in FlagDocs
    PROVE  /\ ReadBack(Flags!Serialize(doc)).value = doc.value
           /\ Flags!Percentage(ReadBack(Flags!Serialize(doc))) = Flags!Percentage(doc)
<1>1. PICK field \in Fields :
          /\ field = Flags!Serialize(doc) /\ field.value = doc.value[2] /\ field.start = doc.start
          /\ field.target = doc.target /\ field.since = doc.since /\ field.days = doc.days
  BY SerializeFits
<1>2. doc.value \in FlagValues
  BY DEF FlagDocs, Overrides
<1>3. Flags!Percentage(field) = Flags!Percentage(doc)
  BY <1>1 DEF Flags!Percentage
<1> QED
  BY <1>1, <1>2, <1>3, ParseRestores, ReadBackFits

LEMMA PercentageIsInt ==
    ASSUME NEW doc \in FlagDocs, day \in Int PROVE Flags!Percentage(doc) \in Int
<1> DEFINE elapsed == day - doc.since
           gained == (doc.target - doc.start) * elapsed
<1>1. /\ doc.start \in Int /\ doc.target \in Int /\ doc.since \in Int /\ doc.days \in Nat
  BY DEF FlagDocs, Overrides
<1>2. elapsed \in Int /\ gained \in Int
  BY <1>1
<1>3. Flags!Percentage(doc) =
          IF doc.days = 0 \/ elapsed >= doc.days THEN doc.target ELSE doc.start + gained \div doc.days
  BY DEF Flags!Percentage
<1> HIDE DEF elapsed, gained
<1>4. doc.days # 0 => gained \div doc.days \in Int
  BY <1>1, <1>2
<1> QED
  BY <1>1, <1>3, <1>4

-----------------------------------------------------------------------------

\* A step that leaves the call that record leaves no field behind its document.
CacheStays(c, record) ==
    \A k \in Flags!Keys \ stale' :
        \/ hot'[k] \in {None, Flags!Serialize(stored'[k])}
        \/ /\ hot'[k] = hot[k] /\ stored'[k] = stored[k]
           /\ ~ (call[c].pc = "publish" /\ call[c].key = k)
        \/ record.pc = "publish" /\ record.key = k

LEMMA CacheLeft ==
    ASSUME NEW c, call[c].pc # "publish", stored' = stored, hot' = hot
    PROVE  \A record : CacheStays(c, record)
BY DEF CacheStays

\* One call takes a step.
LEMMA CallMoves ==
    ASSUME FlagsInv, NEW c \in Calls, Awake(c), NEW new \in FlagCalls,
           call' = [call EXCEPT ![c] = new], day' = day,
           stored' \in [Flags!Keys -> FlagDocs \cup {None}],
           hot' \in [Flags!Keys -> Fields \cup {None}], stale \subseteq stale',
           new.pc = "warm" => new.doc # None,
           new.op = "timed" => new.value \in FlagValues,
           CacheStays(c, new),
           new.pc = "done" /\ new.quiet => new.value = new.expected,
           new.pc \notin {"new", "done"} /\ new.quiet => call[c].quiet /\ Knows(new)'
    PROVE  FlagsInv'
<1>1. /\ FlagsTyped /\ Flags!CacheFollowsStore /\ Flags!HierarchyRespected /\ QuietKnows
      /\ call \in [Calls -> FlagCalls]
  BY DEF FlagsInv, FlagsTyped
<1>2. /\ call' \in [Calls -> FlagCalls] /\ call'[c] = new
      /\ \A d \in Calls \ {c} : call'[d] = call[d]
  BY <1>1
<1>3. FlagsTyped'
  BY <1>1, <1>2 DEF FlagsTyped
<1>4. Flags!CacheFollowsStore'
  <2> SUFFICES ASSUME NEW k \in Flags!Keys \ stale',
                      \A d \in Calls : ~ (call'[d].pc = "publish" /\ call'[d].key = k)
               PROVE  hot'[k] \in {None, Flags!Serialize(stored'[k])}
    BY DEF Flags!CacheFollowsStore, Flags!Serialize
  <2>1. ASSUME hot'[k] = hot[k], stored'[k] = stored[k], ~ (call[c].pc = "publish" /\ call[c].key = k)
        PROVE  hot'[k] \in {None, Flags!Serialize(stored'[k])}
    <3>1. \A d \in Calls : ~ (call[d].pc = "publish" /\ call[d].key = k)
      BY <1>2, <2>1
    <3>2. hot[k] \in {None, Flags!Serialize(stored[k])}
      BY <1>1, <3>1 DEF Flags!CacheFollowsStore
    <3> QED
      BY <2>1, <3>2
  <2> QED
    BY <1>2, <2>1 DEF CacheStays
<1>5. Flags!HierarchyRespected'
  BY <1>1, <1>2 DEF Flags!HierarchyRespected
<1>6. QuietKnows'
  <2> SUFFICES ASSUME NEW d \in Calls, Awake(d)', call'[d].quiet
               PROVE  Knows(call[d])' /\ \A e \in Calls : Awake(e)' => e = d
    BY DEF QuietKnows
  <2>1. d = c
    BY <1>1, <1>2 DEF QuietKnows, Awake
  <2>2. call[c].quiet /\ Knows(new)'
    BY <1>2, <2>1 DEF Awake
  <2>3. \A e \in Calls : Awake(e) => e = c
    BY <1>1, <2>2 DEF QuietKnows
  <2>4. Knows(call[d])'
    BY <1>2, <2>1, <2>2 DEF Knows
  <2> QED
    BY <1>2, <2>1, <2>3, <2>4 DEF Awake
<1> QED
  BY <1>3, <1>4, <1>5, <1>6 DEF FlagsInv

LEMMA EffectiveStays ==
    ASSUME stored' = stored, day' = day PROVE Flags!Effective' = Flags!Effective
BY DEF Flags!Effective, Flags!Percentage, Flags!InRollout

\* A call that is over tells only what it looked up alone.
LEMMA ReturnsSo ==
    ASSUME call \in [Calls -> FlagCalls], NEW c \in Calls, NEW v \in {FlagDefault} \cup FlagValues,
           Flags!Return(c, v)
    PROVE  \E new \in FlagCalls :
               /\ call' = [call EXCEPT ![c] = new]
               /\ new.pc = "done" /\ new.op = "none"
               /\ new.quiet => /\ call[c].quiet /\ call[c].op = "get"
                               /\ new.value = v /\ new.expected = call[c].expected
<1>1. Flags!At("done") \in FlagCalls /\ call[c].expected \in {FlagDefault} \cup FlagValues
  BY DEF Flags!At, FlagCalls, Flags!Keys
<1>2. /\ Flags!At("done").pc = "done" /\ Flags!At("done").op = "none"
      /\ Flags!At("done").quiet = FALSE
  BY DEF Flags!At
<1>3. CASE call[c].op = "get" /\ call[c].quiet
  <2> DEFINE expected == call[c].expected
             done == Flags!At("done")
             new == [done EXCEPT !.quiet = TRUE, !.value = v, !.expected = expected]
  <2>1. call' = [call EXCEPT ![c] = new]
    BY <1>3 DEF Flags!Return
  <2>2. done \in FlagCalls /\ done.pc = "done" /\ done.op = "none"
        /\ expected \in {FlagDefault} \cup FlagValues
    BY <1>1, <1>2
  <2> HIDE DEF done, expected
  <2>3. /\ new \in FlagCalls /\ new.pc = "done" /\ new.op = "none" /\ new.value = v
        /\ new.expected = expected
    BY <2>2 DEF FlagCalls
  <2> HIDE DEF new
  <2> QED
    BY <1>3, <2>1, <2>3 DEF expected
<1>4. CASE ~ (call[c].op = "get" /\ call[c].quiet)
  <2>1. call' = [call EXCEPT ![c] = Flags!At("done")]
    BY <1>4 DEF Flags!Return
  <2> QED
    BY <1>1, <1>2, <2>1
<1> QED
  BY <1>3, <1>4

LEMMA WritesSo ==
    ASSUME call \in [Calls -> FlagCalls], NEW c \in Calls, NEW k \in Flags!Keys,
           NEW doc \in FlagDocs, Flags!Write(c, k, doc)
    PROVE  \E new \in FlagCalls :
               /\ call' = [call EXCEPT ![c] = new]
               /\ new.pc = "save" /\ new.op = call[c].op /\ new.quiet = call[c].quiet
               /\ new.value = doc.value /\ new.expected = call[c].expected
<1> DEFINE value == doc.value
           new == [call[c] EXCEPT !.pc = "save", !.key = k, !.doc = doc, !.value = value]
<1>1. call' = [call EXCEPT ![c] = new]
  BY DEF Flags!Write
<1>2. value \in FlagValues
  BY DEF FlagDocs, Overrides
<1> HIDE DEF value
<1>3. /\ new \in FlagCalls /\ new.pc = "save" /\ new.op = call[c].op /\ new.quiet = call[c].quiet
      /\ new.value = value /\ new.expected = call[c].expected
  BY <1>2 DEF FlagCalls
<1> HIDE DEF new
<1> QED
  BY <1>1, <1>3 DEF value

\* A step that goes elsewhere with nothing else of the call changed.
LEMMA GoesSo ==
    ASSUME call \in [Calls -> FlagCalls], NEW c \in Calls,
           NEW step \in {"hget", "find", "warm", "save", "publish"}, Flags!Go(c, step)
    PROVE  \E new \in FlagCalls :
               /\ call' = [call EXCEPT ![c] = new]
               /\ new.pc = step /\ new.op = call[c].op /\ new.quiet = call[c].quiet
               /\ new.key = call[c].key /\ new.doc = call[c].doc
               /\ new.value = call[c].value /\ new.expected = call[c].expected
<1> DEFINE new == [call[c] EXCEPT !.pc = step]
<1>1. call' = [call EXCEPT ![c] = new]
  BY DEF Flags!Go
<1>2. /\ new \in FlagCalls
      /\ new.pc = step /\ new.op = call[c].op /\ new.quiet = call[c].quiet
      /\ new.key = call[c].key /\ new.doc = call[c].doc
      /\ new.value = call[c].value /\ new.expected = call[c].expected
  BY DEF FlagCalls
<1> HIDE DEF new
<1> QED
  BY <1>1, <1>2

LEMMA AtFits ==
    ASSUME NEW step \in {"new", "hget", "find", "save", "done"}
    PROVE  \E at \in FlagCalls : /\ at = Flags!At(step)
                                 /\ at.pc = step /\ at.op = "none" /\ at.key = "chat" /\ ~ at.quiet
<1>1. PICK at : at = [pc |-> step, op |-> "none", key |-> "chat", doc |-> None, arg |-> 0,
                      value |-> FlagDefault, quiet |-> FALSE, expected |-> FlagDefault]
  OBVIOUS
<1>2. at = Flags!At(step)
  BY <1>1 DEF Flags!At
<1>3. at \in FlagCalls /\ at.pc = step /\ at.op = "none" /\ at.key = "chat" /\ ~ at.quiet
  BY <1>1 DEF FlagCalls, Flags!Keys
<1> QED
  BY <1>2, <1>3

\* A call that has found the document of its level, or read it back from Redis.
LEMMA FoundKeeps ==
    ASSUME FlagsUsual, FlagsInv, NEW c \in Calls, Awake(c), call[c].pc # "publish",
           NEW doc \in FlagDocs, Flags!Found(c, doc),
           day' = day, stored' = stored, hot' \in [Flags!Keys -> Fields \cup {None}],
           stale \subseteq stale',
           \A k \in Flags!Keys \ stale' :
               hot'[k] \in {None, Flags!Serialize(stored[k])} \/ hot'[k] = hot[k],
           call[c].quiet =>
               /\ stale' = {} /\ stored[call[c].key] # None
               /\ doc.value = stored[call[c].key].value
               /\ Flags!Percentage(doc) = Flags!Percentage(stored[call[c].key])
               /\ call[c].op = "get" => call[c].expected = Flags!Effective /\ NoneAbove(call[c].key)
    PROVE  FlagsInv'
<1>1. /\ FlagsTyped /\ call \in [Calls -> FlagCalls] /\ day \in Int
      /\ stored' \in [Flags!Keys -> FlagDocs \cup {None}]
      /\ call[c].key \in Flags!Keys /\ call[c].op \in {"none", "get", "list", "set", "delete", "timed", "bump"}
      /\ call[c].arg \in Nat
      /\ \A record : CacheStays(c, record)
  BY DEF FlagsInv, FlagsTyped, FlagCalls, CacheStays
<1>2. /\ doc.value \in FlagValues
      /\ Flags!Percentage(doc) \in Int
  BY <1>1, PercentageIsInt DEF FlagDocs, Overrides
<1>3. ASSUME NEW v \in {FlagDefault} \cup FlagValues, Flags!Return(c, v),
             call[c].quiet /\ call[c].op = "get" => v = call[c].expected
      PROVE  FlagsInv'
  <2>1. PICK new \in FlagCalls :
            /\ call' = [call EXCEPT ![c] = new]
            /\ new.pc = "done" /\ new.op = "none"
            /\ new.quiet => /\ call[c].quiet /\ call[c].op = "get"
                            /\ new.value = v /\ new.expected = call[c].expected
    BY <1>1, <1>3, ReturnsSo
  <2> QED
    BY <1>1, <1>3, <2>1, CallMoves
<1>4. ASSUME NEW k \in Flags!Keys, NEW written \in FlagDocs, Flags!Write(c, k, written),
             call[c].op = "timed" => written.value \in FlagValues,
             call[c].quiet /\ call[c].op = "get" => written.value = call[c].expected
      PROVE  FlagsInv'
  <2>1. PICK new \in FlagCalls :
            /\ call' = [call EXCEPT ![c] = new]
            /\ new.pc = "save" /\ new.op = call[c].op /\ new.quiet = call[c].quiet
            /\ new.value = written.value /\ new.expected = call[c].expected
    BY <1>1, <1>4, WritesSo
  <2>2. new.quiet => Knows(new)'
    BY <1>4, <2>1 DEF Knows
  <2> QED
    BY <1>1, <1>4, <2>1, <2>2, CallMoves
<1>5. CASE call[c].op = "get" /\ call[c].key # "rollout"
  <2>1. Flags!Return(c, doc.value)
    BY <1>5 DEF Flags!Found
  <2>2. call[c].quiet => doc.value = call[c].expected
    BY <1>1, <1>5 DEF Flags!Effective, NoneAbove, Flags!Keys
  <2> QED
    BY <1>2, <1>3, <2>1, <2>2
<1>6. CASE call[c].op = "get" /\ call[c].key = "rollout"
  <2>1. call[c].quiet =>
            call[c].expected = IF Flags!InRollout(Flags!Percentage(doc)) THEN doc.value ELSE FlagDefault
    BY <1>1, <1>6 DEF Flags!Effective, NoneAbove
  <2>2. CASE Flags!InRollout(Flags!Percentage(doc))
    <3>1. Flags!Write(c, "chat", Flags!Override(doc.value, "rollout"))
      BY <1>6, <2>2 DEF Flags!Found
    <3>2. /\ Flags!Override(doc.value, "rollout") \in FlagDocs
          /\ Flags!Override(doc.value, "rollout").value = doc.value
      BY <1>2 DEF Flags!Override, FlagDocs, Overrides
    <3> QED
      BY <1>2, <1>4, <2>1, <2>2, <3>1, <3>2 DEF Flags!Keys
  <2>3. CASE ~ Flags!InRollout(Flags!Percentage(doc))
    <3>1. Flags!Return(c, FlagDefault)
      BY <1>6, <2>3 DEF Flags!Found
    <3> QED
      BY <1>3, <2>1, <2>3, <3>1
  <2> QED
    BY <2>2, <2>3
<1>7. CASE call[c].op = "timed"
  <2> DEFINE written == Flags!Rollout(call[c].value, Flags!Percentage(doc), 100, call[c].arg)
  <2>1. Flags!Write(c, "rollout", written)
    BY <1>7 DEF Flags!Found
  <2>2. call[c].value \in FlagValues
    BY <1>1, <1>7 DEF FlagsTyped
  <2>3. written \in FlagDocs /\ written.value = call[c].value
    BY <1>1, <1>2, <2>2 DEF Flags!Rollout, FlagDocs, Overrides
  <2> HIDE DEF written
  <2> QED
    BY <1>4, <1>7, <2>1, <2>2, <2>3 DEF Flags!Keys
<1>8. CASE call[c].op = "bump"
  <2> DEFINE sum == Flags!Percentage(doc) + call[c].arg
             bumped == IF sum > 100 THEN 100 ELSE sum
             written == Flags!Rollout(doc.value, bumped, bumped, 0)
  <2>1. Flags!Write(c, "rollout", written)
    BY <1>8 DEF Flags!Found
  <2>2. bumped \in Int
    BY <1>1, <1>2
  <2> HIDE DEF bumped
  <2>3. written \in FlagDocs
    BY <1>1, <1>2, <2>2 DEF Flags!Rollout, FlagDocs, Overrides
  <2> HIDE DEF written
  <2> QED
    BY <1>4, <1>8, <2>1, <2>3 DEF Flags!Keys
<1>9. CASE call[c].op \notin {"get", "timed", "bump"}
  <2>1. Flags!Return(c, FlagDefault)
    BY <1>9 DEF Flags!Found
  <2> QED
    BY <1>3, <1>9, <2>1
<1> QED
  BY <1>5, <1>6, <1>7, <1>8, <1>9

\* A call at a level of which MongoDB has no document.
LEMMA MissingKeeps ==
    ASSUME FlagsUsual, FlagsInv, NEW c \in Calls, call[c].pc = "find",
           stored[call[c].key] = None, Flags!Missing(c), UNCHANGED <<stored, hot, day, stale>>
    PROVE  FlagsInv'
<1>1. /\ FlagsTyped /\ call \in [Calls -> FlagCalls] /\ day \in Int /\ Awake(c)
      /\ stored \in [Flags!Keys -> FlagDocs \cup {None}] /\ hot \in [Flags!Keys -> Fields \cup {None}]
      /\ call[c].key \in Flags!Keys /\ call[c].arg \in Nat
      /\ \A record : CacheStays(c, record)
      /\ call[c].quiet => Knows(call[c])
  BY CacheLeft DEF FlagsInv, FlagsTyped, FlagCalls, Awake, QuietKnows
<1>2. ASSUME Flags!Return(c, FlagDefault),
             call[c].quiet /\ call[c].op = "get" => FlagDefault = call[c].expected
      PROVE  FlagsInv'
  <2>1. PICK new \in FlagCalls :
            /\ call' = [call EXCEPT ![c] = new]
            /\ new.pc = "done" /\ new.op = "none"
            /\ new.quiet => /\ call[c].quiet /\ call[c].op = "get"
                            /\ new.value = FlagDefault /\ new.expected = call[c].expected
    BY <1>1, <1>2, ReturnsSo
  <2> QED
    BY <1>1, <1>2, <2>1, CallMoves
<1>3. ASSUME call[c].op = "get", NEW k \in {"global", "rollout"},
             call' = [call EXCEPT ![c].pc = "hget", ![c].key = k],
             call[c].quiet => NoneAbove(k)
      PROVE  FlagsInv'
  <2>1. PICK new : new = [call[c] EXCEPT !.pc = "hget", !.key = k]
    OBVIOUS
  <2>2. call' = [call EXCEPT ![c] = new]
    BY <1>3, <2>1
  <2>3. /\ new \in FlagCalls /\ new.pc = "hget" /\ new.op = "get" /\ new.key = k
        /\ new.quiet = call[c].quiet /\ new.expected = call[c].expected
    <3>1. call[c] \in FlagCalls /\ k \in Flags!Keys
      BY <1>1, <1>3 DEF Flags!Keys
    <3> QED
      BY <1>3, <2>1, <3>1 DEF FlagCalls
  <2>4. new.quiet => Knows(new)'
    BY <1>1, <1>3, <2>3, EffectiveStays DEF Knows, NoneAbove
  <2> QED
    BY <1>1, <2>2, <2>3, <2>4, CallMoves
<1>4. CASE call[c].op = "get" /\ call[c].key = "chat"
  <2>1. call' = [call EXCEPT ![c].pc = "hget", ![c].key = "global"]
    BY <1>4 DEF Flags!Missing
  <2>2. NoneAbove("global")
    BY <1>4 DEF NoneAbove
  <2> QED
    BY <1>3, <1>4, <2>1, <2>2
<1>5. CASE call[c].op = "get" /\ call[c].key = "global"
  <2>1. call' = [call EXCEPT ![c].pc = "hget", ![c].key = "rollout"]
    BY <1>5 DEF Flags!Missing
  <2>2. call[c].quiet => NoneAbove("rollout")
    BY <1>1, <1>5 DEF NoneAbove, Knows
  <2> QED
    BY <1>3, <1>5, <2>1, <2>2
<1>6. CASE call[c].op = "get" /\ call[c].key = "rollout"
  <2>1. call[c].quiet => FlagDefault = call[c].expected
    BY <1>1, <1>6 DEF Knows, NoneAbove, Flags!Effective
  <2> QED
    BY <1>2, <1>6, <2>1 DEF Flags!Missing
<1>7. CASE call[c].op = "timed"
  <2>1. PICK written : written = Flags!Rollout(call[c].value, 0, 100, call[c].arg)
    OBVIOUS
  <2>2. Flags!Write(c, "rollout", written)
    BY <1>7, <2>1 DEF Flags!Missing
  <2>3. call[c].value \in FlagValues
    BY <1>1, <1>7 DEF FlagsTyped
  <2>4. written \in FlagDocs /\ written.value = call[c].value
    BY <1>1, <2>1, <2>3 DEF Flags!Rollout, FlagDocs, Overrides
  <2>5. PICK new \in FlagCalls :
            /\ call' = [call EXCEPT ![c] = new]
            /\ new.pc = "save" /\ new.op = call[c].op /\ new.quiet = call[c].quiet
            /\ new.value = written.value /\ new.expected = call[c].expected
    BY <1>1, <2>2, <2>4, WritesSo DEF Flags!Keys
  <2>6. new.quiet => Knows(new)'
    BY <1>1, <1>7, <2>5 DEF Knows
  <2> QED
    BY <1>1, <2>3, <2>4, <2>5, <2>6, CallMoves
<1>8. CASE call[c].op \notin {"get", "timed"}
  BY <1>2, <1>8 DEF Flags!Missing
<1> QED
  BY <1>1, <1>4, <1>5, <1>6, <1>7, <1>8 DEF Flags!Keys

LEMMA HgetKeeps ==
    ASSUME FlagsUsual, FlagsInv, NEW c \in Calls, Flags!Hget(c) PROVE FlagsInv'
<1>1. /\ FlagsTyped /\ call \in [Calls -> FlagCalls] /\ Awake(c) /\ call[c].pc = "hget"
      /\ stored \in [Flags!Keys -> FlagDocs \cup {None}] /\ hot \in [Flags!Keys -> Fields \cup {None}]
      /\ UNCHANGED <<stored, hot, day, stale>> /\ call[c].key \in Flags!Keys
      /\ \A record : CacheStays(c, record)
      /\ call[c].quiet => Knows(call[c]) /\ \A d \in Calls : Awake(d) => d = c
  BY CacheLeft DEF FlagsInv, FlagsTyped, FlagCalls, Awake, QuietKnows, Flags!Hget
<1> DEFINE k == call[c].key
           field == hot[k]
<1>2. CASE field # None
  <2>1. Flags!Found(c, ReadBack(field))
    BY <1>2 DEF Flags!Hget, ReadBack
  <2>2. field \in Fields /\ ReadBack(field) \in FlagDocs
    BY <1>1, <1>2, ReadBackFits
  <2>3. call[c].quiet =>
            /\ stored[k] # None /\ ReadBack(field).value = stored[k].value
            /\ Flags!Percentage(ReadBack(field)) = Flags!Percentage(stored[k])
    <3> SUFFICES ASSUME call[c].quiet
                 PROVE  /\ stored[k] # None /\ ReadBack(field).value = stored[k].value
                        /\ Flags!Percentage(ReadBack(field)) = Flags!Percentage(stored[k])
      OBVIOUS
    <3>1. k \notin stale /\ \A d \in Calls : ~ (call[d].pc = "publish" /\ call[d].key = k)
      BY <1>1 DEF Knows, Awake
    <3>2. field = Flags!Serialize(stored[k])
      BY <1>1, <1>2, <3>1 DEF FlagsInv, Flags!CacheFollowsStore
    <3>3. stored[k] # None
      BY <1>2, <3>2, SerializeNone
    <3> QED
      BY <1>1, <3>2, <3>3, FollowerTells
  <2> HIDE DEF k, field
  <2> QED
    BY <1>1, <2>1, <2>2, <2>3, FoundKeeps DEF Knows, k
<1>3. CASE field = None
  <2>1. Flags!Go(c, "find")
    BY <1>3 DEF Flags!Hget
  <2>2. PICK new \in FlagCalls :
               /\ call' = [call EXCEPT ![c] = new]
               /\ new.pc = "find" /\ new.op = call[c].op /\ new.quiet = call[c].quiet
               /\ new.key = call[c].key /\ new.doc = call[c].doc
               /\ new.value = call[c].value /\ new.expected = call[c].expected
    BY <1>1, <2>1, GoesSo
  <2>3. new.quiet => Knows(new)'
    BY <1>1, <2>2, EffectiveStays DEF Knows, NoneAbove
  <2>4. new.op = "timed" => new.value \in FlagValues
    BY <1>1, <2>2 DEF FlagsTyped
  <2> QED
    BY <1>1, <2>2, <2>3, <2>4, CallMoves
<1> QED
  BY <1>2, <1>3

LEMMA FindsKeep ==
    ASSUME FlagsUsual, FlagsInv, NEW c \in Calls, Flags!Find(c) PROVE FlagsInv'
<1>1. /\ FlagsTyped /\ call \in [Calls -> FlagCalls] /\ Awake(c) /\ call[c].pc = "find"
      /\ stored \in [Flags!Keys -> FlagDocs \cup {None}] /\ hot \in [Flags!Keys -> Fields \cup {None}]
      /\ UNCHANGED <<stored, hot, day, stale>> /\ call[c].key \in Flags!Keys
      /\ \A record : CacheStays(c, record)
      /\ call[c].quiet => Knows(call[c])
  BY CacheLeft DEF FlagsInv, FlagsTyped, FlagCalls, Awake, QuietKnows, Flags!Find
<1>2. CASE stored[call[c].key] = None
  BY <1>1, <1>2, MissingKeeps DEF Flags!Find
<1>3. CASE stored[call[c].key] # None
  <2>1. PICK doc \in FlagDocs : doc = stored[call[c].key]
    BY <1>1, <1>3
  <2>2. PICK new : new = [call[c] EXCEPT !.pc = "warm", !.doc = doc]
    OBVIOUS
  <2>3. call' = [call EXCEPT ![c] = new]
    BY <1>3, <2>1, <2>2 DEF Flags!Find
  <2>4. /\ new \in FlagCalls /\ new.pc = "warm" /\ new.op = call[c].op /\ new.quiet = call[c].quiet
        /\ new.key = call[c].key /\ new.doc = doc
        /\ new.value = call[c].value /\ new.expected = call[c].expected
    BY <1>1, <2>2 DEF FlagCalls
  <2>5. new.quiet => Knows(new)'
    BY <1>1, <2>1, <2>4, EffectiveStays DEF Knows, NoneAbove
  <2>6. /\ new.op = "timed" => new.value \in FlagValues
        /\ new.doc # None
    BY <1>1, <2>4, NoneIsNoDoc DEF FlagsTyped
  <2> QED
    BY <1>1, <2>3, <2>4, <2>5, <2>6, CallMoves
<1> QED
  BY <1>2, <1>3

LEMMA WarmKeeps ==
    ASSUME FlagsUsual, FlagsInv, NEW c \in Calls, Flags!Warm(c) PROVE FlagsInv'
<1>1. /\ FlagsTyped /\ call \in [Calls -> FlagCalls] /\ Awake(c) /\ call[c].pc = "warm"
      /\ stored \in [Flags!Keys -> FlagDocs \cup {None}] /\ hot \in [Flags!Keys -> Fields \cup {None}]
      /\ UNCHANGED <<stored, day>> /\ call[c].key \in Flags!Keys /\ call[c].doc \in FlagDocs
      /\ call[c].quiet => Knows(call[c])
  BY DEF FlagsInv, FlagsTyped, FlagCalls, Awake, QuietKnows, Flags!Warm
<1>2. PICK k \in Flags!Keys, doc \in FlagDocs : k = call[c].key /\ doc = call[c].doc
  BY <1>1
<1>3. /\ hot' = [hot EXCEPT ![k] = Flags!Serialize(doc)] /\ Flags!Found(c, doc)
      /\ stale' = IF Flags!Serialize(stored[k]) # Flags!Serialize(doc) THEN stale \cup {k} ELSE stale
  BY <1>2 DEF Flags!Warm
<1>4. hot' \in [Flags!Keys -> Fields \cup {None}]
  BY <1>1, <1>3, SerializeFits
<1>5. \A l \in Flags!Keys \ stale' :
          hot'[l] \in {None, Flags!Serialize(stored[l])} \/ hot'[l] = hot[l]
  BY <1>1, <1>3
<1>6. call[c].quiet =>
          /\ stale' = {} /\ doc = stored[k] /\ stored[k] # None
          /\ call[c].op = "get" => call[c].expected = Flags!Effective /\ NoneAbove(k)
  BY <1>1, <1>2, <1>3, NoneIsNoDoc DEF Knows
<1> QED
  BY <1>1, <1>2, <1>3, <1>4, <1>5, <1>6, FoundKeeps

LEMMA SaveKeeps ==
    ASSUME FlagsUsual, FlagsInv, NEW c \in Calls, Flags!Save(c) PROVE FlagsInv'
<1>1. /\ FlagsTyped /\ call \in [Calls -> FlagCalls] /\ Awake(c) /\ call[c].pc = "save"
      /\ stored \in [Flags!Keys -> FlagDocs \cup {None}] /\ hot \in [Flags!Keys -> Fields \cup {None}]
      /\ UNCHANGED <<hot, day, stale>> /\ call[c].key \in Flags!Keys
      /\ call[c].doc \in FlagDocs \cup {None} /\ (call[c].quiet => Knows(call[c]))
      /\ stored' = [stored EXCEPT ![call[c].key] = call[c].doc] /\ Flags!Go(c, "publish")
  BY DEF FlagsInv, FlagsTyped, FlagCalls, Awake, QuietKnows, Flags!Save
<1>2. PICK k \in Flags!Keys, doc \in FlagDocs \cup {None} : k = call[c].key /\ doc = call[c].doc
  BY <1>1
<1>3. PICK new \in FlagCalls :
               /\ call' = [call EXCEPT ![c] = new]
               /\ new.pc = "publish" /\ new.op = call[c].op /\ new.quiet = call[c].quiet
               /\ new.key = k /\ new.doc = doc
               /\ new.value = call[c].value /\ new.expected = call[c].expected
  BY <1>1, <1>2, GoesSo
<1>4. new.quiet => Knows(new)'
  <2>1. new.quiet => /\ stale' = {}
                     /\ new.op = "get" => new.value = new.expected
    BY <1>1, <1>3 DEF Knows
  <2> QED
    BY <1>3, <2>1 DEF Knows
<1>5. new.op = "timed" => new.value \in FlagValues
  BY <1>1, <1>3 DEF FlagsTyped
<1>6. stored' = [stored EXCEPT ![k] = doc]
  BY <1>1, <1>2
<1>7. /\ stored' \in [Flags!Keys -> FlagDocs \cup {None}]
      /\ \A l \in Flags!Keys \ {k} : stored'[l] = stored[l]
  BY <1>1, <1>6
<1>8. CacheStays(c, new)
  BY <1>1, <1>3, <1>7 DEF CacheStays
<1>9. /\ hot' \in [Flags!Keys -> Fields \cup {None}] /\ stale \subseteq stale' /\ day' = day
      /\ new.quiet => call[c].quiet /\ Knows(new)'
      /\ new.pc = "publish"
  BY <1>1, <1>3, <1>4
<1> QED
  BY <1>1, <1>3, <1>5, <1>7, <1>8, <1>9, CallMoves

LEMMA PublishKeeps ==
    ASSUME FlagsUsual, FlagsInv, NEW c \in Calls, Flags!Publish(c) PROVE FlagsInv'
<1>1. /\ FlagsTyped /\ call \in [Calls -> FlagCalls] /\ Awake(c) /\ call[c].pc = "publish"
      /\ stored \in [Flags!Keys -> FlagDocs \cup {None}] /\ hot \in [Flags!Keys -> Fields \cup {None}]
      /\ UNCHANGED <<stored, day>> /\ call[c].key \in Flags!Keys
      /\ call[c].doc \in FlagDocs \cup {None} /\ call[c].value \in {FlagDefault} \cup FlagValues
      /\ call[c].quiet => Knows(call[c])
      /\ Flags!Return(c, call[c].value)
  BY DEF FlagsInv, FlagsTyped, FlagCalls, Awake, QuietKnows, Flags!Publish
<1>2. PICK k \in Flags!Keys, doc \in FlagDocs \cup {None} : k = call[c].key /\ doc = call[c].doc
  BY <1>1
<1>3. /\ hot' = [hot EXCEPT ![k] = Flags!Serialize(doc)]
      /\ stale' = IF Flags!Serialize(stored[k]) # Flags!Serialize(doc) THEN stale \cup {k} ELSE stale
  BY <1>2 DEF Flags!Publish
<1>4. hot' \in [Flags!Keys -> Fields \cup {None}]
  BY <1>1, <1>3, SerializeFits, SerializeNone
<1>5. \A record : CacheStays(c, record)
  BY <1>1, <1>2, <1>3 DEF CacheStays
<1>6. PICK new \in FlagCalls :
          /\ call' = [call EXCEPT ![c] = new]
          /\ new.pc = "done" /\ new.op = "none"
          /\ new.quiet => /\ call[c].quiet /\ call[c].op = "get"
                          /\ new.value = call[c].value /\ new.expected = call[c].expected
  BY <1>1, ReturnsSo
<1>7. new.quiet => new.value = new.expected
  BY <1>1, <1>6 DEF Knows
<1> QED
  BY <1>1, <1>2, <1>3, <1>4, <1>5, <1>6, <1>7, CallMoves

LEMMA DeathKeeps ==
    ASSUME FlagsUsual, FlagsInv, NEW c \in Calls, Flags!Die(c) PROVE FlagsInv'
<1>1. /\ FlagsTyped /\ Awake(c) /\ UNCHANGED <<stored, hot, day>>
      /\ stored \in [Flags!Keys -> FlagDocs \cup {None}] /\ hot \in [Flags!Keys -> Fields \cup {None}]
      /\ call' = [call EXCEPT ![c] = Flags!At("done")]
      /\ stale' = IF call[c].pc = "publish" THEN stale \cup {call[c].key} ELSE stale
  BY DEF FlagsInv, FlagsTyped, Awake, Flags!Die, Flags!Active
<1>2. PICK new \in FlagCalls :
          /\ call' = [call EXCEPT ![c] = new] /\ new.pc = "done" /\ new.op = "none" /\ ~ new.quiet
  BY <1>1, AtFits
<1>3. CacheStays(c, new)
  BY <1>1 DEF CacheStays
<1> QED
  BY <1>1, <1>2, <1>3, CallMoves

-----------------------------------------------------------------------------

\* Calls that are under way when another starts are not alone any more.
LEMMA BeginsKeep ==
    ASSUME FlagsUsual, FlagsInv, NEW c \in Calls, NEW start \in FlagCalls, Flags!Begin(c, start),
           start.pc \in {"hget", "find", "save"},
           start.op = "get" => start.pc = "hget" /\ start.key = "chat",
           start.op = "timed" => start.value \in FlagValues
    PROVE  FlagsInv'
<1>1. /\ FlagsTyped /\ Flags!CacheFollowsStore /\ Flags!HierarchyRespected /\ QuietKnows
      /\ call \in [Calls -> FlagCalls] /\ call[c].pc = "new"
      /\ stored \in [Flags!Keys -> FlagDocs \cup {None}] /\ UNCHANGED <<stored, hot, day, stale>>
  BY DEF FlagsInv, FlagsTyped, Flags!Begin
<1>2. Flags!Effective \in {FlagDefault} \cup FlagValues
  <2>1. \A k \in Flags!Keys : stored[k] # None => stored[k].value \in FlagValues
    BY <1>1 DEF FlagDocs, Overrides
  <2> QED
    BY <2>1 DEF Flags!Effective, Flags!Keys
<1>3. PICK quiet \in BOOLEAN, expected \in {FlagDefault} \cup FlagValues :
          quiet = (Flags!Active = {} /\ stale = {}) /\ expected = Flags!Effective
  BY <1>2
<1>4. PICK new : new = [start EXCEPT !.quiet = quiet, !.expected = expected]
  OBVIOUS
<1>5. /\ new \in FlagCalls /\ new.pc = start.pc /\ new.op = start.op /\ new.key = start.key
      /\ new.quiet = quiet /\ new.expected = expected /\ new.value = start.value
  BY <1>4 DEF FlagCalls
<1>6. call' = [d \in Calls |-> IF d = c THEN new
                               ELSE [call[d] EXCEPT !.quiet = @ /\ d \notin Flags!Active]]
  BY <1>3, <1>4 DEF Flags!Begin
<1>7. \A d \in Calls \ {c} :
          /\ call'[d] \in FlagCalls /\ call'[d].pc = call[d].pc /\ call'[d].key = call[d].key
          /\ call'[d].doc = call[d].doc /\ call'[d].op = call[d].op /\ call'[d].value = call[d].value
          /\ call'[d].expected = call[d].expected /\ (call'[d].quiet => call[d].quiet /\ ~ Awake(d))
  <2> SUFFICES ASSUME NEW d \in Calls \ {c}
               PROVE  /\ call'[d] \in FlagCalls /\ call'[d].pc = call[d].pc
                      /\ call'[d].key = call[d].key /\ call'[d].doc = call[d].doc
                      /\ call'[d].op = call[d].op /\ call'[d].value = call[d].value
                      /\ call'[d].expected = call[d].expected
                      /\ (call'[d].quiet => call[d].quiet /\ ~ Awake(d))
    OBVIOUS
  <2>1. PICK still \in BOOLEAN : still = (call[d].quiet /\ d \notin Flags!Active)
    OBVIOUS
  <2>2. call'[d] = [call[d] EXCEPT !.quiet = still]
    BY <1>6, <2>1
  <2>3. still => call[d].quiet /\ ~ Awake(d)
    BY <2>1 DEF Awake, Flags!Active
  <2> QED
    BY <1>1, <2>2, <2>3 DEF FlagCalls
<1>8. call' \in [Calls -> FlagCalls] /\ call'[c] = new
  BY <1>5, <1>6, <1>7
<1>9. FlagsTyped'
  BY <1>1, <1>5, <1>7, <1>8 DEF FlagsTyped
<1>10. Flags!CacheFollowsStore'
  <2>1. \A k \in Flags!Keys : (\A d \in Calls : ~ (call'[d].pc = "publish" /\ call'[d].key = k))
             => \A d \in Calls : ~ (call[d].pc = "publish" /\ call[d].key = k)
    BY <1>1, <1>7
  <2> QED
    BY <1>1, <2>1 DEF Flags!CacheFollowsStore, Flags!Serialize
<1>11. Flags!HierarchyRespected'
  BY <1>1, <1>5, <1>7, <1>8 DEF Flags!HierarchyRespected
<1>12. QuietKnows'
  <2> SUFFICES ASSUME NEW d \in Calls, Awake(d)', call'[d].quiet
               PROVE  Knows(call[d])' /\ \A e \in Calls : Awake(e)' => e = d
    BY DEF QuietKnows
  <2>1. d = c
    BY <1>7 DEF Awake
  <2>2. stale = {} /\ \A e \in Calls : ~ Awake(e)
    BY <1>3, <1>5, <1>8, <2>1 DEF Flags!Active, Awake
  <2>3. Knows(new)'
    BY <1>1, <1>3, <1>5, <2>2, EffectiveStays DEF Knows, NoneAbove
  <2>4. Knows(call[d])'
    BY <1>8, <2>1, <2>3 DEF Knows
  <2>5. \A e \in Calls \ {c} : ~ Awake(e)'
    BY <1>7, <2>2 DEF Awake
  <2> QED
    BY <2>1, <2>4, <2>5
<1> QED
  BY <1>9, <1>10, <1>11, <1>12 DEF FlagsInv

LEMMA TicksKeep ==
    ASSUME FlagsUsual, FlagsInv, Flags!Tick PROVE FlagsInv'
<1>1. /\ FlagsTyped /\ Flags!CacheFollowsStore /\ Flags!HierarchyRespected
      /\ call \in [Calls -> FlagCalls] /\ UNCHANGED <<stored, hot, stale>> /\ day \in Int /\ day' \in Int
      /\ call' = [c \in Calls |-> [call[c] EXCEPT !.quiet = @ /\ c \notin Flags!Active]]
  BY DEF FlagsInv, FlagsTyped, Flags!Tick
<1>2. ASSUME NEW d \in Calls
      PROVE  /\ call'[d] \in FlagCalls /\ call'[d].pc = call[d].pc
             /\ call'[d].key = call[d].key /\ call'[d].doc = call[d].doc
             /\ call'[d].op = call[d].op /\ call'[d].value = call[d].value
             /\ call'[d].expected = call[d].expected
             /\ (call'[d].quiet => call[d].quiet /\ ~ Awake(d))
  <2>1. PICK still \in BOOLEAN : still = (call[d].quiet /\ d \notin Flags!Active)
    OBVIOUS
  <2>2. call'[d] = [call[d] EXCEPT !.quiet = still]
    BY <1>1, <2>1
  <2>3. still => call[d].quiet /\ ~ Awake(d)
    BY <2>1 DEF Awake, Flags!Active
  <2> QED
    BY <1>1, <2>2, <2>3 DEF FlagCalls
<1>3. /\ call' \in [Calls -> FlagCalls]
      /\ \A d \in Calls : call'[d].op = "timed" => call'[d].value \in FlagValues
      /\ \A d \in Calls : call'[d].pc = "warm" => call'[d].doc # None
  <2>1. call' = [d \in Calls |-> call'[d]]
    BY <1>1
  <2>2. call' \in [Calls -> FlagCalls]
    BY <1>2, <2>1
  <2>3. \A d \in Calls : /\ call[d].op = "timed" => call[d].value \in FlagValues
                         /\ call[d].pc = "warm" => call[d].doc # None
    BY <1>1 DEF FlagsTyped
  <2>4. \A d \in Calls : /\ call'[d].op = call[d].op /\ call'[d].value = call[d].value
                         /\ call'[d].pc = call[d].pc /\ call'[d].doc = call[d].doc
    BY <1>2
  <2> QED
    BY <2>2, <2>3, <2>4
<1>4. FlagsTyped'
  BY <1>1, <1>3 DEF FlagsTyped
<1>5. Flags!CacheFollowsStore'
  <2>1. \A k \in Flags!Keys : (\A d \in Calls : ~ (call'[d].pc = "publish" /\ call'[d].key = k))
             => \A d \in Calls : ~ (call[d].pc = "publish" /\ call[d].key = k)
    BY <1>2
  <2> QED
    BY <1>1, <2>1 DEF Flags!CacheFollowsStore, Flags!Serialize
<1>6. Flags!HierarchyRespected'
  <2> SUFFICES ASSUME NEW d \in Calls, call'[d].pc = "done", call'[d].quiet
               PROVE  call'[d].value = call'[d].expected
    BY DEF Flags!HierarchyRespected
  <2>1. call[d].pc = "done" /\ call[d].quiet
    BY <1>2
  <2>2. call[d].value = call[d].expected
    BY <1>1, <2>1 DEF Flags!HierarchyRespected
  <2> QED
    BY <1>2, <2>2
<1>7. QuietKnows'
  BY <1>2 DEF QuietKnows, Awake
<1> QED
  BY <1>4, <1>5, <1>6, <1>7 DEF FlagsInv

\* Every call that starts does so with a record of its kind.
LEMMA StartsKeep ==
    ASSUME FlagsUsual, FlagsInv, NEW c \in Calls,
           \/ Flags!Get(c)
           \/ \E k \in Flags!Keys : Flags!List(c, k) \/ Flags!Delete(c, k)
           \/ \E k \in Flags!Keys, v \in FlagValues : Flags!SetOverride(c, k, v)
           \/ \E p \in Percentages, v \in FlagValues : Flags!SetRollout(c, p, v)
           \/ \E n \in Durations, v \in FlagValues : Flags!SetTimed(c, n, v)
           \/ \E p \in Percentages : Flags!Bump(c, p)
    PROVE  FlagsInv'
<1>1. Percentages \subseteq Nat /\ Durations \subseteq Nat /\ day \in Int
  BY DEF FlagsUsual, FlagsInv, FlagsTyped
<1>2. CASE Flags!Get(c)
  <2>1. PICK at \in FlagCalls : /\ at = Flags!At("hget") /\ at.pc = "hget" /\ at.op = "none" /\ at.key = "chat"
    BY AtFits
  <2>2. PICK start : start = [at EXCEPT !.op = "get"]
    OBVIOUS
  <2>3. start \in FlagCalls /\ start.pc = "hget" /\ start.op = "get" /\ start.key = "chat"
    BY <2>1, <2>2 DEF FlagCalls, Flags!Keys
  <2> QED
    BY <1>2, <2>1, <2>2, <2>3, BeginsKeep DEF Flags!Get
<1>3. ASSUME NEW k \in Flags!Keys, Flags!List(c, k) PROVE FlagsInv'
  <2>1. PICK at \in FlagCalls : /\ at = Flags!At("find") /\ at.pc = "find" /\ at.op = "none" /\ at.key = "chat"
    BY AtFits
  <2>2. PICK start : start = [at EXCEPT !.op = "list", !.key = k]
    OBVIOUS
  <2>3. start \in FlagCalls /\ start.pc = "find" /\ start.op = "list"
    BY <2>1, <2>2 DEF FlagCalls
  <2> QED
    BY <1>3, <2>1, <2>2, <2>3, BeginsKeep DEF Flags!List
<1>4. ASSUME NEW k \in Flags!Keys, Flags!Delete(c, k) PROVE FlagsInv'
  <2>1. PICK at \in FlagCalls : /\ at = Flags!At("save") /\ at.pc = "save" /\ at.op = "none" /\ at.key = "chat"
    BY AtFits
  <2>2. PICK start : start = [at EXCEPT !.op = "delete", !.key = k]
    OBVIOUS
  <2>3. start \in FlagCalls /\ start.pc = "save" /\ start.op = "delete"
    BY <2>1, <2>2 DEF FlagCalls
  <2> QED
    BY <1>4, <2>1, <2>2, <2>3, BeginsKeep DEF Flags!Delete
<1>5. ASSUME NEW k \in Flags!Keys, NEW v \in FlagValues, Flags!SetOverride(c, k, v) PROVE FlagsInv'
  <2>2. PICK doc : doc = Flags!Override(v, "manual")
    OBVIOUS
  <2>1. PICK at \in FlagCalls : /\ at = Flags!At("save") /\ at.pc = "save" /\ at.op = "none" /\ at.key = "chat"
    BY AtFits
  <2>3. PICK start : start = [at EXCEPT !.op = "set", !.key = k, !.doc = doc]
    OBVIOUS
  <2>4. doc \in FlagDocs
    BY <2>2 DEF Flags!Override, FlagDocs, Overrides
  <2>5. start \in FlagCalls /\ start.pc = "save" /\ start.op = "set"
    BY <2>1, <2>3, <2>4 DEF FlagCalls
  <2> QED
    BY <1>5, <2>1, <2>2, <2>3, <2>5, BeginsKeep DEF Flags!SetOverride
<1>6. ASSUME NEW p \in Percentages, NEW v \in FlagValues, Flags!SetRollout(c, p, v) PROVE FlagsInv'
  <2>2. PICK doc : doc = Flags!Rollout(v, p, p, 0)
    OBVIOUS
  <2>1. PICK at \in FlagCalls : /\ at = Flags!At("save") /\ at.pc = "save" /\ at.op = "none" /\ at.key = "chat"
    BY AtFits
  <2>3. PICK start : start = [at EXCEPT !.op = "set", !.key = "rollout", !.doc = doc]
    OBVIOUS
  <2>4. doc \in FlagDocs
    BY <1>1, <2>2 DEF Flags!Rollout, FlagDocs, Overrides
  <2>5. start \in FlagCalls /\ start.pc = "save" /\ start.op = "set"
    BY <2>1, <2>3, <2>4 DEF FlagCalls, Flags!Keys
  <2> QED
    BY <1>6, <2>1, <2>2, <2>3, <2>5, BeginsKeep DEF Flags!SetRollout
<1>7. ASSUME NEW n \in Durations, NEW v \in FlagValues, Flags!SetTimed(c, n, v) PROVE FlagsInv'
  <2>1. PICK at \in FlagCalls : /\ at = Flags!At("hget") /\ at.pc = "hget" /\ at.op = "none" /\ at.key = "chat"
    BY AtFits
  <2>2. PICK start : start = [at EXCEPT !.op = "timed", !.key = "rollout", !.arg = n,
                                                      !.value = v]
    OBVIOUS
  <2>3. start \in FlagCalls /\ start.pc = "hget" /\ start.op = "timed" /\ start.value = v
    BY <1>1, <2>1, <2>2 DEF FlagCalls, Flags!Keys
  <2> QED
    BY <1>7, <2>1, <2>2, <2>3, BeginsKeep DEF Flags!SetTimed
<1>8. ASSUME NEW p \in Percentages, Flags!Bump(c, p) PROVE FlagsInv'
  <2>1. PICK at \in FlagCalls : /\ at = Flags!At("hget") /\ at.pc = "hget" /\ at.op = "none" /\ at.key = "chat"
    BY AtFits
  <2>2. PICK start : start = [at EXCEPT !.op = "bump", !.key = "rollout", !.arg = p]
    OBVIOUS
  <2>3. start \in FlagCalls /\ start.pc = "hget" /\ start.op = "bump"
    BY <1>1, <2>1, <2>2 DEF FlagCalls, Flags!Keys
  <2> QED
    BY <1>8, <2>1, <2>2, <2>3, BeginsKeep DEF Flags!Bump
<1> QED
  BY <1>2, <1>3, <1>4, <1>5, <1>6, <1>7, <1>8

LEMMA FlagsBegin ==
    ASSUME FlagsUsual, Flags!Init PROVE FlagsInv
<1>1. /\ hot = [k \in Flags!Keys |-> None] /\ day = 0 /\ stale = {}
      /\ call = [c \in Calls |-> Flags!At("new")]
  BY DEF Flags!Init
<1>2. stored \in [Flags!Keys -> FlagDocs \cup {None}]
  <2>1. CASE stored \in [Flags!Keys -> {None}]
    BY <2>1
  <2>2. ASSUME NEW v \in FlagValues, NEW p \in Percentages,
               stored = [k \in Flags!Keys |-> IF k = "rollout"
                             THEN [Flags!Override(v, "manual") EXCEPT !.target = p] ELSE None]
        PROVE  stored \in [Flags!Keys -> FlagDocs \cup {None}]
    <3>1. p \in Int
      BY DEF FlagsUsual
    <3>2. [Flags!Override(v, "manual") EXCEPT !.target = p] \in FlagDocs
      BY <3>1 DEF Flags!Override, FlagDocs, Overrides
    <3> QED
      BY <2>2, <3>2
  <2> QED
    BY <2>1, <2>2 DEF Flags!Init
<1>3. Flags!At("new") \in FlagCalls /\ Flags!At("new").pc = "new" /\ Flags!At("new").op = "none"
  BY AtFits
<1>4. FlagsTyped
  BY <1>1, <1>2, <1>3 DEF FlagsTyped
<1>5. Flags!CacheFollowsStore
  BY <1>1 DEF Flags!CacheFollowsStore
<1>6. Flags!HierarchyRespected /\ QuietKnows
  BY <1>1, <1>3 DEF Flags!HierarchyRespected, QuietKnows, Awake
<1> QED
  BY <1>4, <1>5, <1>6 DEF FlagsInv

LEMMA FlagsStutter ==
    ASSUME FlagsInv, UNCHANGED Flags!vars PROVE FlagsInv'
<1>1. UNCHANGED <<stored, hot, day, call, stale>>
  BY DEF Flags!vars
<1>2. FlagsTyped' /\ QuietKnows'
  BY <1>1, EffectiveStays DEF FlagsInv, FlagsTyped, QuietKnows, Awake, Knows, NoneAbove
<1>3. Flags!CacheFollowsStore' /\ Flags!HierarchyRespected'
  BY <1>1 DEF FlagsInv, Flags!CacheFollowsStore, Flags!HierarchyRespected, Flags!Serialize
<1> QED
  BY <1>2, <1>3 DEF FlagsInv

LEMMA FlagsNextPreserves ==
    ASSUME FlagsUsual, FlagsInv, [Flags!Next]_(Flags!vars) PROVE FlagsInv'
<1>1. ASSUME NEW c \in Calls,
             \/ Flags!Get(c)
             \/ \E k \in Flags!Keys : Flags!List(c, k) \/ Flags!Delete(c, k)
             \/ \E k \in Flags!Keys, v \in FlagValues : Flags!SetOverride(c, k, v)
             \/ \E p \in Percentages, v \in FlagValues : Flags!SetRollout(c, p, v)
             \/ \E n \in Durations, v \in FlagValues : Flags!SetTimed(c, n, v)
             \/ \E p \in Percentages : Flags!Bump(c, p)
      PROVE  FlagsInv'
  BY <1>1, StartsKeep
<1>2. ASSUME NEW c \in Calls,
             \/ Flags!Hget(c) \/ Flags!Find(c) \/ Flags!Warm(c)
             \/ Flags!Save(c) \/ Flags!Publish(c) \/ Flags!Die(c)
      PROVE  FlagsInv'
  BY <1>2, HgetKeeps, FindsKeep, WarmKeeps, SaveKeeps, PublishKeeps, DeathKeeps
<1>3. CASE Flags!Tick
  BY <1>3, TicksKeep
<1>4. CASE UNCHANGED Flags!vars
  BY <1>4, FlagsStutter
<1> QED
  BY <1>1, <1>2, <1>3, <1>4 DEF Flags!Next

LEMMA FlagsInvImplies ==
    ASSUME FlagsInv PROVE Flags!CacheFollowsStore /\ Flags!HierarchyRespected
BY DEF FlagsInv

-----------------------------------------------------------------------------
(* ChatLocks, by its own names of the slots *)

lockDocs == v1
lockCopy == v2
change == v3
post == v4
edits == v5
slips == v6
lockWish == v7
clashed == v8
outdated == v9

USE DEF lockDocs, lockCopy, change, post, edits, slips, lockWish, clashed, outdated

\* What is locked are types, and what the commands and the API name is one.
LocksUsual ==
    /\ None \notin SUBSET Lockable
    /\ Lower \in [DOMAIN Lower -> Lockable]
    /\ LockPayloads \subseteq SUBSET Lockable
    /\ MaxEdits \in Nat /\ MaxSlips \in Nat

LockChanges ==
    [op : {"lock", "unlock"}, type : Lockable] \cup [op : {"unlock_all"}]
    \cup [op : {"put"}, types : SUBSET Lockable]

LockWork ==
    [pc : {"read", "save", "upsert", "insert", "drop"}, change : LockChanges, types : SUBSET Lockable, new : BOOLEAN]

LockCalls == {Locks!NoCall} \cup LockWork

LockPosts ==
    [pc : {"new", "get", "find", "fill", "passed", "exempt", "removed"}, kind : Kinds \cup {{}},
     locked : SUBSET Lockable, held : SUBSET Lockable, ever : SUBSET Lockable, blurred : BOOLEAN]

LocksTyped ==
    /\ lockDocs \in Seq(SUBSET Lockable)
    /\ lockCopy \in {None} \cup SUBSET Lockable
    /\ change \in [LockCallers -> LockCalls]
    /\ \A k \in LockCallers : change[k].pc = "upsert" => change[k].change.op = "put"
    /\ \A k \in LockCallers : change[k].pc = "save" /\ ~change[k].new => lockDocs # <<>>
    /\ post \in [Posts -> LockPosts]
    /\ edits \in 0 .. MaxEdits /\ slips \in 0 .. MaxSlips
    /\ lockWish \subseteq Lockable /\ clashed \in BOOLEAN /\ outdated \in BOOLEAN

\* A change that is alone is about to leave what was asked for.
AloneAsks(k) ==
    /\ change[k].pc = "read" => Locks!Stored = lockWish
    /\ change[k].pc = "save" => change[k].types = lockWish /\ (change[k].new <=> lockDocs = <<>>)
    /\ change[k].pc = "insert" => change[k].types = lockWish /\ lockDocs = <<>>
    /\ change[k].pc = "drop" => Locks!Stored = lockWish

AskedFor ==
    ~clashed =>
        /\ Len(lockDocs) <= 1
        /\ \A k, l \in Locks!Busy : k = l
        /\ Locks!Busy = {} => Locks!Stored = lockWish
        /\ \A k \in Locks!Busy : AloneAsks(k)

\* Until something blurs it a message sees the same locks throughout.
Unblurred(m) == m \in Locks!Handled /\ ~post[m].blurred

SeesLocks ==
    \A m \in Posts : Unblurred(m) =>
        /\ post[m].held = Locks!Stored /\ post[m].ever = Locks!Stored
        /\ lockCopy \in {None, Locks!Stored}
        /\ post[m].pc = "fill" => post[m].locked = Locks!Stored

LocksInv == LocksTyped /\ Locks!CacheFollows /\ AskedFor /\ SeesLocks /\ Locks!Enforced

-----------------------------------------------------------------------------

\* Sequences of one element and none.
LEMMA ShortSequences ==
    ASSUME NEW S, NEW e \in S
    PROVE  /\ <<>> \in Seq(S)
           /\ <<e>> \in Seq(S) /\ <<e>> # <<>> /\ Len(<<e>>) = 1 /\ Head(<<e>>) = e
  OBVIOUS

\* The types that are locked are those of the oldest document.
LEMMA StoredIs ==
    ASSUME LocksTyped
    PROVE  /\ Locks!Stored \in SUBSET Lockable
           /\ lockDocs # <<>> => Locks!Stored = lockDocs[1]
           /\ lockDocs = <<>> => Locks!Stored = {}
  BY DEF LocksTyped, Locks!Stored

\* What a change makes of types are types.
LEMMA AfterIs ==
    ASSUME NEW c \in LockChanges, NEW t \in SUBSET Lockable
    PROVE  Locks!After(c, t) \in SUBSET Lockable
<1>1. CASE c \in [op : {"lock", "unlock"}, type : Lockable]
  BY <1>1 DEF Locks!After
<1>2. CASE c \in [op : {"unlock_all"}]
  BY <1>2 DEF Locks!After
<1>3. CASE c \in [op : {"put"}, types : SUBSET Lockable]
  BY <1>3 DEF Locks!After
<1> QED
  BY <1>1, <1>2, <1>3 DEF LockChanges

\* What a call at its step looks like.
LEMMA LockCallIs ==
    ASSUME LocksTyped, NEW k \in LockCallers
    PROVE  /\ change[k].pc \in {"idle", "read", "save", "upsert", "insert", "drop"}
           /\ change[k].pc # "idle" =>
                  /\ change[k] \in LockWork
                  /\ change[k].change \in LockChanges /\ change[k].types \in SUBSET Lockable
                  /\ change[k].new \in BOOLEAN
  BY DEF LocksTyped, LockCalls, LockWork, Locks!NoCall

\* Nothing is locked, and nobody has asked for anything.
LEMMA LocksBegin ==
    ASSUME LocksUsual, Locks!Init PROVE LocksInv
<1> USE DEF Locks!Init
<1>1. LocksTyped
  <2>1. Locks!NoMessage \in LockPosts /\ Locks!NoCall \in LockCalls
    BY DEF LockPosts, Locks!NoMessage, LockCalls
  <2>2. \A k \in LockCallers : change[k].pc = "idle"
    BY DEF Locks!NoCall
  <2>3. post \in [Posts -> LockPosts] /\ change \in [LockCallers -> LockCalls]
    BY <2>1
  <2>4. lockDocs \in Seq(SUBSET Lockable) /\ lockWish \in SUBSET Lockable /\ lockCopy \in {None} \cup SUBSET Lockable
    BY ShortSequences
  <2>5. edits \in 0 .. MaxEdits /\ slips \in 0 .. MaxSlips
    BY DEF LocksUsual
  <2> QED
    BY <2>2, <2>3, <2>4, <2>5 DEF LocksTyped
<1>2. Locks!Stored = {} /\ lockWish = {} /\ Locks!Busy = {} /\ Locks!Handled = {} /\ Len(lockDocs) = 0
  BY DEF Locks!Stored, Locks!Busy, Locks!Handled, Locks!NoCall, Locks!NoMessage
<1> QED
  BY <1>1, <1>2 DEF LocksInv, Locks!CacheFollows, AskedFor, SeesLocks, Unblurred, Locks!Enforced, Locks!NoMessage

\* A change begins.
LEMMA LockBeginKeeps ==
    ASSUME LocksUsual, LocksInv, NEW k \in LockCallers, NEW c \in LockChanges, NEW pc \in {"read", "upsert"},
           pc = "upsert" => c.op = "put", Locks!Begin(k, c, pc)
    PROVE  LocksInv'
<1> DEFINE r == [pc |-> pc, change |-> c, types |-> {}, new |-> FALSE]
<1>1. /\ change[k].pc = "idle" /\ change' = [change EXCEPT ![k] = r] /\ edits' \in 0 .. MaxEdits
      /\ clashed' = (clashed \/ Locks!Busy # {})
      /\ UNCHANGED <<lockDocs, lockCopy, post, slips, lockWish, outdated>>
  BY DEF Locks!Begin, LocksInv, LocksTyped, LocksUsual
<1>2. r \in LockCalls /\ r.pc = pc /\ r.change = c
  BY DEF LockCalls, LockWork
<1>3. change \in [LockCallers -> LockCalls]
  BY DEF LocksInv, LocksTyped
<1> HIDE DEF r
<1>4. change'[k] = r /\ \A j \in LockCallers \ {k} : change'[j] = change[j]
  BY <1>1, <1>3
<1>5. LocksTyped'
  BY <1>1, <1>2, <1>3, <1>4 DEF LocksInv, LocksTyped
<1>6. Locks!CacheFollows'
  BY <1>1, <1>3, <1>4 DEF LocksInv, Locks!CacheFollows, Locks!Stored
<1>7. AskedFor'
  <2> SUFFICES ASSUME ~clashed' PROVE AskedFor'
    BY DEF AskedFor
  <2>1. ~clashed /\ Locks!Busy = {} /\ Locks!Busy' = {k}
    BY <1>1, <1>2, <1>4 DEF Locks!Busy
  <2> QED
    BY <1>1, <1>2, <1>4, <2>1 DEF LocksInv, AskedFor, AloneAsks, Locks!Stored
<1>8. SeesLocks' /\ Locks!Enforced'
  BY <1>1 DEF LocksInv, SeesLocks, Unblurred, Locks!Handled, Locks!Stored, Locks!Enforced, Locks!Matches
<1> QED
  BY <1>5, <1>6, <1>7, <1>8 DEF LocksInv

\* What a document that is written changes for the messages.
LEMMA LockWriteKeeps ==
    ASSUME LocksUsual, LocksInv, NEW k \in LockCallers, change[k].pc \in {"save", "upsert", "insert"},
           NEW new, NEW t \in SUBSET Lockable, NEW i \in BOOLEAN,
           lockDocs # <<>> => (i /\ new = Append(lockDocs, t)) \/ new = [lockDocs EXCEPT ![1] = t],
           lockDocs = <<>> => new = <<t>>,
           Locks!Write(k, new), UNCHANGED <<lockCopy, edits, slips, clashed, outdated>>,
           lockWish' \in SUBSET Lockable,
           ~clashed => lockWish' = t /\ new = (IF lockDocs = <<>> THEN <<t>> ELSE [lockDocs EXCEPT ![1] = t])
    PROVE  LocksInv'
<1>1. /\ lockDocs' = new /\ change' = [change EXCEPT ![k].pc = "drop"]
      /\ post' = [m \in Posts |-> IF m \notin Locks!Handled THEN post[m]
                                  ELSE [post[m] EXCEPT !.held = @ \cap Head(new), !.ever = @ \cup Head(new), !.blurred = TRUE]]
  BY DEF Locks!Write, Locks!Watch
<1>2. new \in Seq(SUBSET Lockable) /\ new # <<>>
  <2>1. lockDocs \in Seq(SUBSET Lockable)
    BY DEF LocksInv, LocksTyped
  <2>2. lockDocs = <<>> \/ new = Append(lockDocs, t) \/ (lockDocs # <<>> /\ new = [lockDocs EXCEPT ![1] = t])
    OBVIOUS
  <2>3. CASE lockDocs = <<>>
    <3>1. new = <<t>>
      BY <2>3
    <3> QED
      BY <3>1, ShortSequences
  <2>4. CASE new = Append(lockDocs, t)
    BY <2>1, <2>4
  <2>5. CASE lockDocs # <<>> /\ new = [lockDocs EXCEPT ![1] = t]
    <3>1. Len(new) = Len(lockDocs) /\ Len(lockDocs) > 0
      BY <2>1, <2>5
    <3> QED
      BY <2>1, <2>5, <3>1
  <2> QED
    BY <2>2, <2>3, <2>4, <2>5
<1>3. lockDocs \in Seq(SUBSET Lockable) /\ change \in [LockCallers -> LockCalls] /\ post \in [Posts -> LockPosts]
  BY DEF LocksInv, LocksTyped
<1>4. /\ change'[k] = [change[k] EXCEPT !.pc = "drop"] /\ change'[k].pc = "drop" /\ change'[k] \in LockCalls
      /\ \A j \in LockCallers \ {k} : change'[j] = change[j]
  <2>1. change[k] \in LockWork
    BY LockCallIs DEF LocksInv
  <2>2. [change[k] EXCEPT !.pc = "drop"] \in LockWork /\ [change[k] EXCEPT !.pc = "drop"].pc = "drop"
    BY <2>1 DEF LockWork
  <2> QED
    BY <1>1, <1>3, <2>2 DEF LockCalls
<1>5. ASSUME NEW m \in Posts
      PROVE  /\ post'[m] \in LockPosts /\ post'[m].pc = post[m].pc
             /\ m \in Locks!Handled => post'[m].blurred
             /\ m \notin Locks!Handled => post'[m] = post[m]
  <2>1. CASE m \in Locks!Handled
    <3>1. Head(new) \in SUBSET Lockable
      BY <1>2
    <3> QED
      BY <1>1, <1>3, <2>1, <3>1 DEF LockPosts
  <2>2. CASE m \notin Locks!Handled
    BY <1>1, <1>3, <2>2 DEF LockPosts
  <2> QED
    BY <2>1, <2>2
<1>6. LocksTyped'
  <2>1. post' \in [Posts -> LockPosts]
    BY <1>1, <1>5
  <2>2. change' \in [LockCallers -> LockCalls]
    BY <1>1, <1>3, <1>4
  <2>3. \A j \in LockCallers : change'[j].pc \in {"upsert", "save"} => j # k /\ change'[j] = change[j]
    BY <1>4
  <2> QED
    BY <1>1, <1>2, <2>1, <2>2, <2>3 DEF LocksInv, LocksTyped
<1>7. Locks!CacheFollows'
  BY <1>4 DEF Locks!CacheFollows
<1>8. AskedFor'
  <2> SUFFICES ASSUME ~clashed PROVE AskedFor'
    BY DEF AskedFor
  <2>1. Locks!Busy = {k} /\ Len(lockDocs) <= 1
    BY DEF LocksInv, AskedFor, Locks!Busy
  <2>2. Locks!Busy' = {k}
    BY <1>4, <2>1 DEF Locks!Busy
  <2>3. Len(new) <= 1 /\ Head(new) = t
    <3>1. CASE lockDocs = <<>>
      <4>1. new = <<t>>
        BY <3>1
      <4> QED
        BY <4>1, ShortSequences
    <3>2. CASE lockDocs # <<>>
      <4>1. Len(lockDocs) = 1
        <5>1. lockDocs \in Seq(SUBSET Lockable) /\ Len(lockDocs) <= 1
          BY <1>3, <2>1
        <5>2. Len(lockDocs) \in Nat /\ Len(lockDocs) > 0
          BY <3>2, <5>1
        <5> DEFINE n == Len(lockDocs)
        <5>3. n \in Nat /\ n <= 1 /\ n > 0
          BY <5>1, <5>2
        <5> HIDE DEF n
        <5>4. n = 1
          BY <5>3
        <5> QED
          BY <5>4 DEF n
      <4>2. new = [lockDocs EXCEPT ![1] = t]
        BY <3>2
      <4>3. Len(new) = 1 /\ new[1] = t
        BY <1>3, <4>1, <4>2
      <4> QED
        BY <1>2, <4>3
    <3> QED
      BY <3>1, <3>2
  <2> QED
    BY <1>1, <1>2, <1>4, <2>2, <2>3 DEF AskedFor, AloneAsks, Locks!Stored
<1>9. SeesLocks' /\ Locks!Enforced'
  <2>1. Locks!Handled' = Locks!Handled
    BY <1>5 DEF Locks!Handled
  <2> QED
    BY <1>5, <2>1 DEF LocksInv, SeesLocks, Unblurred, Locks!Enforced, Locks!Handled, Locks!Matches
<1> QED
  BY <1>6, <1>7, <1>8, <1>9 DEF LocksInv

\* A change is saved to the document it has read, or inserted.
LEMMA LockSavesKeep ==
    ASSUME LocksUsual, LocksInv, NEW k \in LockCallers, Locks!Save(k) \/ Locks!Insert(k) PROVE LocksInv'
<1>1. /\ lockDocs \in Seq(SUBSET Lockable) /\ lockWish \in SUBSET Lockable
      /\ change[k].pc = "save" /\ ~change[k].new => lockDocs # <<>>
  BY DEF LocksInv, LocksTyped
<1>2. change[k].pc \in {"save", "insert"} => change[k].types \in SUBSET Lockable /\ change[k].new \in BOOLEAN
  BY LockCallIs DEF LocksInv
<1>3. ~clashed /\ change[k].pc \in {"save", "insert"} => AloneAsks(k)
  BY DEF LocksInv, AskedFor, Locks!Busy
<1>4. CASE Locks!Save(k)
  <2> DEFINE new == IF change[k].new THEN Append(lockDocs, change[k].types) ELSE [lockDocs EXCEPT ![1] = change[k].types]
  <2>1. /\ change[k].pc = "save" /\ Locks!Write(k, new)
        /\ UNCHANGED <<lockCopy, edits, slips, lockWish, clashed, outdated>>
    BY <1>4 DEF Locks!Save
  <2>2. lockDocs # <<>> => (change[k].new /\ new = Append(lockDocs, change[k].types))
                           \/ new = [lockDocs EXCEPT ![1] = change[k].types]
    OBVIOUS
  <2>3. lockDocs = <<>> => new = <<change[k].types>>
    BY <1>1, <2>1
  <2>4. ~clashed => change[k].types = lockWish /\ (change[k].new <=> lockDocs = <<>>)
    BY <1>3, <2>1 DEF AloneAsks
  <2>5. ~clashed => lockWish' = change[k].types
                    /\ new = (IF lockDocs = <<>> THEN <<change[k].types>> ELSE [lockDocs EXCEPT ![1] = change[k].types])
    BY <2>1, <2>3, <2>4
  <2> HIDE DEF new
  <2> QED
    BY <1>1, <1>2, <2>1, <2>2, <2>3, <2>5, LockWriteKeeps
<1>5. CASE Locks!Insert(k)
  <2> DEFINE new == Append(lockDocs, change[k].types)
  <2>1. /\ change[k].pc = "insert" /\ Locks!Write(k, new)
        /\ UNCHANGED <<lockCopy, edits, slips, lockWish, clashed, outdated>>
    BY <1>5 DEF Locks!Insert
  <2>2. lockDocs = <<>> => new = <<change[k].types>>
    BY <1>1
  <2>3. ~clashed => lockWish' = change[k].types /\ lockDocs = <<>>
    BY <1>3, <2>1 DEF AloneAsks
  <2>4. TRUE \in BOOLEAN /\ (lockDocs # <<>> => (TRUE /\ new = Append(lockDocs, change[k].types))
                           \/ new = [lockDocs EXCEPT ![1] = change[k].types])
    OBVIOUS
  <2> HIDE DEF new
  <2> QED
    BY <1>1, <1>2, <2>1, <2>2, <2>3, <2>4, LockWriteKeeps
<1> QED
  BY <1>4, <1>5

\* The API writes its types into the oldest document, or inserts one.
LEMMA LockUpsertKeeps ==
    ASSUME LocksUsual, LocksInv, NEW k \in LockCallers, Locks!Upsert(k) PROVE LocksInv'
<1> DEFINE t == change[k].change.types
<1>1. /\ change[k].pc = "upsert" /\ lockWish' = t /\ UNCHANGED <<lockCopy, edits, slips, clashed, outdated>>
  BY DEF Locks!Upsert
<1>2. /\ lockDocs \in Seq(SUBSET Lockable) /\ change \in [LockCallers -> LockCalls] /\ change[k].change.op = "put"
  <2>1. LocksTyped
    BY DEF LocksInv
  <2>2. lockDocs \in Seq(SUBSET Lockable) /\ change \in [LockCallers -> LockCalls]
    BY <2>1 DEF LocksTyped
  <2>3. change[k].pc = "upsert" => change[k].change.op = "put"
    BY <2>1 DEF LocksTyped
  <2> QED
    BY <1>1, <2>2, <2>3
<1>3. change[k].change \in LockChanges
  BY <1>1, LockCallIs DEF LocksInv
<1>4. t \in SUBSET Lockable
  BY <1>2, <1>3 DEF LockChanges
<1>5. CASE lockDocs # <<>>
  <2>1. Locks!Write(k, [lockDocs EXCEPT ![1] = t])
    BY <1>5 DEF Locks!Upsert
  <2> DEFINE new == [lockDocs EXCEPT ![1] = t]
  <2>2. FALSE \in BOOLEAN /\ (lockDocs # <<>> => (FALSE /\ new = Append(lockDocs, t)) \/ new = [lockDocs EXCEPT ![1] = t])
    OBVIOUS
  <2>3. (lockDocs = <<>> => new = <<t>>)
        /\ (~clashed => lockWish' = t /\ new = (IF lockDocs = <<>> THEN <<t>> ELSE [lockDocs EXCEPT ![1] = t]))
    BY <1>1, <1>5
  <2>4. lockWish' \in SUBSET Lockable /\ Locks!Write(k, new) /\ change[k].pc \in {"save", "upsert", "insert"}
    BY <1>1, <1>4, <2>1
  <2> HIDE DEF new, t
  <2> QED
    BY <1>1, <1>4, <2>2, <2>3, <2>4, LockWriteKeeps
<1>6. CASE lockDocs = <<>>
  <2>1. /\ change' = [change EXCEPT ![k].pc = "insert", ![k].types = t]
        /\ UNCHANGED <<lockDocs, post>>
    BY <1>6 DEF Locks!Upsert
  <2>2. /\ change'[k].pc = "insert" /\ change'[k].types = t /\ change'[k] \in LockCalls
        /\ \A j \in LockCallers \ {k} : change'[j] = change[j]
    <3> DEFINE r == [change[k] EXCEPT !.pc = "insert", !.types = t]
    <3>1. change[k] \in LockWork /\ change' = [change EXCEPT ![k] = r]
      BY <1>1, <1>2, <2>1, LockCallIs DEF LocksInv
    <3> HIDE DEF t
    <3>2. r \in LockWork /\ r.pc = "insert" /\ r.types = t
      BY <1>4, <3>1 DEF LockWork
    <3> HIDE DEF r
    <3> QED
      BY <1>2, <3>1, <3>2 DEF LockCalls
  <2> HIDE DEF t
  <2>3. LocksTyped'
    <3>1. change' \in [LockCallers -> LockCalls]
      BY <1>2, <2>1, <2>2
    <3> QED
      BY <1>1, <1>4, <2>1, <2>2, <3>1 DEF LocksInv, LocksTyped
  <2>4. Locks!CacheFollows'
    BY <1>1, <2>1, <2>2 DEF LocksInv, Locks!CacheFollows, Locks!Stored
  <2>5. AskedFor'
    <3> SUFFICES ASSUME ~clashed PROVE AskedFor'
      BY <1>1 DEF AskedFor
    <3>1. Locks!Busy = {k}
      BY <1>1 DEF LocksInv, AskedFor, Locks!Busy
    <3>2. Locks!Busy' = {k}
      BY <2>2, <3>1 DEF Locks!Busy
    <3> QED
      BY <1>1, <1>6, <2>1, <2>2, <3>2 DEF LocksInv, AskedFor, AloneAsks
  <2>6. SeesLocks' /\ Locks!Enforced'
    BY <1>1, <2>1 DEF LocksInv, SeesLocks, Unblurred, Locks!Handled, Locks!Stored, Locks!Enforced, Locks!Matches
  <2> QED
    BY <2>3, <2>4, <2>5, <2>6 DEF LocksInv
<1> QED
  BY <1>5, <1>6

\* A change reads, and decides what is left to do.
LEMMA LockReadKeeps ==
    ASSUME LocksUsual, LocksInv, NEW k \in LockCallers, Locks!Read(k) PROVE LocksInv'
<1> DEFINE t == Locks!After(change[k].change, Locks!Stored)
           r == IF t # Locks!Stored THEN [change[k] EXCEPT !.pc = "save", !.types = t, !.new = lockDocs = <<>>]
                ELSE IF change[k].change.op = "unlock_all" THEN Locks!NoCall
                ELSE [change[k] EXCEPT !.pc = "drop"]
<1>1. /\ change[k].pc = "read" /\ change' = [change EXCEPT ![k] = r]
      /\ lockWish' = Locks!After(change[k].change, lockWish)
      /\ UNCHANGED <<lockDocs, lockCopy, post, edits, slips, clashed, outdated>>
  BY DEF Locks!Read
<1>2. /\ change \in [LockCallers -> LockCalls] /\ lockWish \in SUBSET Lockable
      /\ Locks!Stored \in SUBSET Lockable
  BY StoredIs DEF LocksInv, LocksTyped
<1>3. /\ change[k].change \in LockChanges /\ t \in SUBSET Lockable /\ lockWish' \in SUBSET Lockable
  BY <1>1, <1>2, LockCallIs, AfterIs DEF LocksInv
<1>4. /\ r.pc = (IF t # Locks!Stored THEN "save" ELSE IF change[k].change.op = "unlock_all" THEN "idle" ELSE "drop")
      /\ r \in LockCalls /\ (t # Locks!Stored => r.types = t /\ r.new = (lockDocs = <<>>))
  <2> HIDE DEF t
  <2> DEFINE b == lockDocs = <<>>
  <2>0. b \in BOOLEAN
    OBVIOUS
  <2> HIDE DEF b
  <2>1. change[k] \in LockWork
    BY <1>1, LockCallIs DEF LocksInv
  <2>2. CASE t # Locks!Stored
    <3> DEFINE q == [change[k] EXCEPT !.pc = "save", !.types = t, !.new = b]
    <3>1. r = q
      BY <2>2 DEF b
    <3>2. q \in LockWork /\ q.pc = "save" /\ q.types = t /\ q.new = b
      BY <1>3, <2>0, <2>1 DEF LockWork
    <3> HIDE DEF q, r
    <3> QED
      BY <2>2, <3>1, <3>2 DEF LockCalls, b
  <2>3. CASE t = Locks!Stored /\ change[k].change.op = "unlock_all"
    BY <2>3 DEF LockCalls, Locks!NoCall
  <2>4. CASE t = Locks!Stored /\ change[k].change.op # "unlock_all"
    <3> DEFINE q == [change[k] EXCEPT !.pc = "drop"]
    <3>1. r = q
      BY <2>4
    <3>2. q \in LockWork /\ q.pc = "drop"
      BY <2>1 DEF LockWork
    <3> HIDE DEF q, r
    <3> QED
      BY <2>4, <3>1, <3>2 DEF LockCalls
  <2> QED
    BY <2>2, <2>3, <2>4
<1> HIDE DEF r
<1>5. change'[k] = r /\ \A j \in LockCallers \ {k} : change'[j] = change[j]
  BY <1>1, <1>2
<1>6. LocksTyped'
  <2>1. change' \in [LockCallers -> LockCalls]
    BY <1>1, <1>2, <1>4
  <2>2. r.pc # "upsert" /\ (r.pc = "save" /\ ~r.new => lockDocs # <<>>)
    BY <1>4
  <2> QED
    BY <1>1, <1>3, <1>5, <2>1, <2>2 DEF LocksInv, LocksTyped
<1>7. Locks!CacheFollows'
  BY <1>1, <1>5 DEF LocksInv, Locks!CacheFollows, Locks!Stored
<1>8. AskedFor'
  <2> SUFFICES ASSUME ~clashed PROVE AskedFor'
    BY <1>1 DEF AskedFor
  <2>1. Locks!Busy = {k} /\ Locks!Stored = lockWish /\ Len(lockDocs) <= 1
    BY <1>1 DEF LocksInv, AskedFor, AloneAsks, Locks!Busy
  <2>2. lockWish' = t /\ Locks!Stored' = Locks!Stored
    BY <1>1, <2>1 DEF Locks!Stored
  <2> HIDE DEF t
  <2>3. CASE r.pc = "idle"
    <3>1. Locks!Busy' = {}
      BY <1>5, <2>1, <2>3 DEF Locks!Busy
    <3> QED
      BY <1>1, <1>4, <2>1, <2>2, <2>3, <3>1 DEF AskedFor
  <2>4. CASE r.pc # "idle"
    <3>1. Locks!Busy' = {k}
      BY <1>5, <2>1, <2>4 DEF Locks!Busy
    <3> QED
      BY <1>1, <1>4, <1>5, <2>1, <2>2, <2>4, <3>1 DEF AskedFor, AloneAsks
  <2> QED
    BY <2>3, <2>4
<1>9. SeesLocks' /\ Locks!Enforced'
  BY <1>1 DEF LocksInv, SeesLocks, Unblurred, Locks!Handled, Locks!Stored, Locks!Enforced, Locks!Matches
<1> QED
  BY <1>6, <1>7, <1>8, <1>9 DEF LocksInv

\* A change is over, because the copy is deleted or something went wrong.
LEMMA LockEndsKeep ==
    ASSUME LocksUsual, LocksInv, NEW k \in LockCallers, Locks!Drop(k) \/ Locks!DropFails(k) \/ Locks!Die(k) PROVE LocksInv'
<1>1. /\ change' = [change EXCEPT ![k] = Locks!NoCall] /\ change[k].pc # "idle"
      /\ slips' \in 0 .. MaxSlips /\ clashed' \in BOOLEAN /\ outdated' \in BOOLEAN
      /\ UNCHANGED <<lockDocs, edits, lockWish>>
      /\ lockCopy' \in {lockCopy, None}
      /\ ~clashed' => ~clashed /\ change[k].pc = "drop"
      /\ lockCopy' # None /\ (outdated \/ change[k].pc = "drop") => outdated'
  <2> USE DEF Locks!Fault, LocksInv, LocksTyped, LocksUsual
  <2>1. CASE Locks!Drop(k)
    BY <2>1 DEF Locks!Drop
  <2>2. CASE Locks!DropFails(k)
    <3>1. /\ slips' \in 0 .. MaxSlips /\ clashed' \in BOOLEAN
          /\ change[k].pc = "drop" /\ outdated' = (outdated \/ lockCopy # None)
          /\ UNCHANGED <<lockDocs, lockCopy, edits, lockWish, clashed>>
          /\ change' = [change EXCEPT ![k] = Locks!NoCall]
      BY <2>2 DEF Locks!DropFails
    <3> QED
      BY <3>1
  <2>3. CASE Locks!Die(k)
    <3>1. /\ slips' \in 0 .. MaxSlips /\ clashed' = TRUE
          /\ change[k].pc # "idle" /\ outdated' = (outdated \/ (change[k].pc = "drop" /\ lockCopy # None))
          /\ UNCHANGED <<lockDocs, lockCopy, edits, lockWish>>
          /\ change' = [change EXCEPT ![k] = Locks!NoCall]
      BY <2>3 DEF Locks!Die
    <3> QED
      BY <3>1
  <2> QED
    BY <2>1, <2>2, <2>3
<1>2. change \in [LockCallers -> LockCalls] /\ post \in [Posts -> LockPosts] /\ lockCopy \in {None} \cup SUBSET Lockable
  BY DEF LocksInv, LocksTyped
<1>3. /\ change'[k] = Locks!NoCall /\ change'[k].pc = "idle" /\ Locks!NoCall \in LockCalls
      /\ \A j \in LockCallers \ {k} : change'[j] = change[j]
  BY <1>1, <1>2 DEF LockCalls, Locks!NoCall
<1>4. Locks!Stored' = Locks!Stored /\ Locks!Stored \in SUBSET Lockable
  BY <1>1, StoredIs DEF Locks!Stored, LocksInv
<1>5. ASSUME NEW m \in Posts
      PROVE  /\ post'[m] \in LockPosts /\ post'[m].pc = post[m].pc
             /\ post'[m].kind = post[m].kind /\ post'[m].locked = post[m].locked
             /\ m \notin Locks!Handled => post'[m] = post[m]
             /\ m \in Locks!Handled /\ ~post'[m].blurred =>
                    /\ ~post[m].blurred
                    /\ post[m].held = Locks!Stored => post'[m].held = Locks!Stored
                    /\ post[m].ever = Locks!Stored => post'[m].ever = Locks!Stored
  <2>1. CASE post' = post
    BY <1>2, <2>1
  <2>2. CASE Locks!Watch(Locks!Stored, outdated')
    <3>1. post' = [n \in Posts |-> IF n \notin Locks!Handled THEN post[n]
                     ELSE [post[n] EXCEPT !.held = @ \cap Locks!Stored, !.ever = @ \cup Locks!Stored, !.blurred = @ \/ outdated']]
      BY <2>2 DEF Locks!Watch
    <3>2. CASE m \in Locks!Handled
      <4>1. post'[m] = [post[m] EXCEPT !.held = @ \cap Locks!Stored, !.ever = @ \cup Locks!Stored, !.blurred = @ \/ outdated']
        BY <3>1, <3>2
      <4>2. post[m] \in LockPosts /\ (post[m].blurred \/ outdated') \in BOOLEAN
            /\ post[m].held \cap Locks!Stored \in SUBSET Lockable /\ post[m].ever \cup Locks!Stored \in SUBSET Lockable
        BY <1>1, <1>2, <1>4 DEF LockPosts
      <4>3. post'[m] = [pc |-> post[m].pc, kind |-> post[m].kind, locked |-> post[m].locked,
                        held |-> post[m].held \cap Locks!Stored, ever |-> post[m].ever \cup Locks!Stored,
                        blurred |-> post[m].blurred \/ outdated']
        BY <4>1, <4>2 DEF LockPosts
      <4> QED
        BY <3>2, <4>2, <4>3 DEF LockPosts
    <3>3. CASE m \notin Locks!Handled
      BY <1>2, <3>1, <3>3
    <3> QED
      BY <3>2, <3>3
  <2> QED
    BY <2>1, <2>2 DEF Locks!Drop, Locks!DropFails, Locks!Die
<1>6. LocksTyped'
  <2>1. post' \in [Posts -> LockPosts] /\ change' \in [LockCallers -> LockCalls]
    <3>1. post' = [m \in Posts |-> post'[m]]
      BY <1>2 DEF Locks!Drop, Locks!DropFails, Locks!Die, Locks!Watch
    <3> QED
      BY <1>1, <1>2, <1>3, <1>5, <3>1
  <2> QED
    BY <1>1, <1>2, <1>3, <2>1 DEF LocksInv, LocksTyped
<1>7. Locks!CacheFollows'
  BY <1>1, <1>3, <1>4 DEF LocksInv, Locks!CacheFollows
<1>8. AskedFor'
  <2> SUFFICES ASSUME ~clashed' PROVE AskedFor'
    BY DEF AskedFor
  <2>1. ~clashed /\ change[k].pc = "drop"
    BY <1>1
  <2>2. Locks!Busy = {k} /\ Locks!Stored = lockWish /\ Len(lockDocs) <= 1
    BY <2>1 DEF LocksInv, AskedFor, AloneAsks, Locks!Busy
  <2>3. Locks!Busy' = {}
    BY <1>3, <2>2 DEF Locks!Busy
  <2> QED
    BY <1>1, <1>4, <2>2, <2>3 DEF AskedFor
<1>9. SeesLocks' /\ Locks!Enforced'
  <2>1. Locks!Handled' = Locks!Handled
    BY <1>5 DEF Locks!Handled
  <2>2. SeesLocks'
    <3> SUFFICES ASSUME NEW m \in Posts, Unblurred(m)'
                 PROVE  /\ post'[m].held = Locks!Stored /\ post'[m].ever = Locks!Stored
                        /\ lockCopy' \in {None, Locks!Stored}
                        /\ post'[m].pc = "fill" => post'[m].locked = Locks!Stored
      BY <1>4 DEF SeesLocks
    <3>1. m \in Locks!Handled /\ ~post'[m].blurred
      BY <2>1 DEF Unblurred
    <3>2. /\ post[m].held = Locks!Stored /\ post[m].ever = Locks!Stored
          /\ lockCopy \in {None, Locks!Stored} /\ (post[m].pc = "fill" => post[m].locked = Locks!Stored)
      BY <1>5, <3>1 DEF LocksInv, SeesLocks, Unblurred
    <3> QED
      BY <1>1, <1>5, <3>1, <3>2
  <2>3. \A m \in Posts : post'[m].pc \in {"passed", "removed"} => post'[m] = post[m]
    BY <1>5 DEF Locks!Handled
  <2> QED
    BY <2>2, <2>3 DEF LocksInv, Locks!Enforced, Locks!Matches
<1> QED
  BY <1>6, <1>7, <1>8, <1>9 DEF LocksInv

\* A message moves on; r is what becomes of it.
LEMMA PostMoves ==
    ASSUME LocksUsual, LocksInv, NEW m \in Posts, NEW r \in LockPosts, post' = [post EXCEPT ![m] = r],
           UNCHANGED <<lockDocs, lockCopy, change, edits, lockWish, clashed, outdated>>, slips' \in 0 .. MaxSlips,
           r.pc \in {"get", "find", "fill"} /\ ~r.blurred =>
               /\ r.held = Locks!Stored /\ r.ever = Locks!Stored
               /\ lockCopy \in {None, Locks!Stored}
               /\ r.pc = "fill" => r.locked = Locks!Stored,
           r.pc = "removed" /\ ~r.blurred => Locks!Matches(r.kind, r.ever),
           r.pc = "passed" /\ ~r.blurred => ~Locks!Matches(r.kind, r.held)
    PROVE  LocksInv'
<1>1. post \in [Posts -> LockPosts]
  BY DEF LocksInv, LocksTyped
<1>2. post'[m] = r /\ \A n \in Posts \ {m} : post'[n] = post[n]
  BY <1>1
<1>3. LocksTyped'
  BY <1>1 DEF LocksInv, LocksTyped
<1>4. Locks!CacheFollows' /\ AskedFor' /\ Locks!Stored' = Locks!Stored
  BY DEF LocksInv, Locks!CacheFollows, AskedFor, AloneAsks, Locks!Stored, Locks!Busy
<1>5. SeesLocks'
  BY <1>2, <1>4 DEF LocksInv, SeesLocks, Unblurred, Locks!Handled
<1>6. Locks!Enforced'
  BY <1>2 DEF LocksInv, Locks!Enforced, Locks!Matches
<1> QED
  BY <1>3, <1>4, <1>5, <1>6 DEF LocksInv

\* A message comes.
LEMMA PostReceiveKeeps ==
    ASSUME LocksUsual, LocksInv, NEW m \in Posts, NEW kind \in Kinds, Locks!Receive(m, kind) PROVE LocksInv'
<1> DEFINE b == outdated \/ \E k \in LockCallers : change[k].pc = "drop"
           r == [Locks!NoMessage EXCEPT !.pc = "get", !.kind = kind, !.held = Locks!Stored,
                                        !.ever = Locks!Stored, !.blurred = b]
<1>1. /\ post' = [post EXCEPT ![m] = r]
      /\ UNCHANGED <<lockDocs, lockCopy, change, edits, slips, lockWish, clashed, outdated>>
  BY DEF Locks!Receive
<1>2. b \in BOOLEAN /\ Locks!Stored \in SUBSET Lockable /\ slips \in 0 .. MaxSlips
  BY StoredIs DEF LocksInv, LocksTyped
<1>3. ~b => lockCopy \in {None, Locks!Stored}
  BY DEF LocksInv, Locks!CacheFollows
<1> HIDE DEF b
<1>4. Locks!NoMessage \in LockPosts
  BY DEF LockPosts, Locks!NoMessage
<1>5. /\ r \in LockPosts /\ r.pc = "get" /\ r.held = Locks!Stored /\ r.ever = Locks!Stored /\ r.blurred = b
  BY <1>2, <1>4 DEF LockPosts
<1> HIDE DEF r
<1> QED
  BY <1>1, <1>2, <1>3, <1>5, PostMoves

\* The fields of a message at a step of its handler.
LEMMA PostIs ==
    ASSUME LocksInv, NEW m \in Posts
    PROVE  /\ post[m] \in LockPosts
           /\ \A pc \in {"new", "get", "find", "fill", "passed", "exempt", "removed"} :
                  /\ [post[m] EXCEPT !.pc = pc] \in LockPosts
                  /\ [post[m] EXCEPT !.pc = pc].pc = pc
                  /\ [post[m] EXCEPT !.pc = pc].kind = post[m].kind
                  /\ [post[m] EXCEPT !.pc = pc].held = post[m].held
                  /\ [post[m] EXCEPT !.pc = pc].ever = post[m].ever
                  /\ [post[m] EXCEPT !.pc = pc].locked = post[m].locked
                  /\ [post[m] EXCEPT !.pc = pc].blurred = post[m].blurred
<1>1. post[m] \in LockPosts
  BY DEF LocksInv, LocksTyped
<1> QED
  BY <1>1 DEF LockPosts

\* A message that sees the same locks throughout is judged by them.
LEMMA JudgeKeeps ==
    ASSUME LocksUsual, LocksInv, NEW m \in Posts, NEW seen, Unblurred(m) => seen = Locks!Stored, Locks!Judge(m, seen),
           m \in Locks!Handled,
           UNCHANGED <<lockDocs, lockCopy, change, edits, slips, lockWish, clashed, outdated>>
    PROVE  LocksInv'
<1> DEFINE pc == IF Locks!Matches(post[m].kind, seen) THEN "removed" ELSE "passed"
           r == [post[m] EXCEPT !.pc = pc]
<1>1. post' = [post EXCEPT ![m] = r]
  BY DEF Locks!Judge
<1>2. pc \in {"new", "get", "find", "fill", "passed", "exempt", "removed"}
  OBVIOUS
<1>3. slips \in 0 .. MaxSlips
  BY DEF LocksInv, LocksTyped
<1>4. ~post[m].blurred => post[m].held = Locks!Stored /\ post[m].ever = Locks!Stored /\ seen = Locks!Stored
  BY DEF LocksInv, SeesLocks, Unblurred
<1>5. pc = "removed" <=> Locks!Matches(post[m].kind, seen)
  OBVIOUS
<1>6. pc \in {"removed", "passed"}
  OBVIOUS
<1> HIDE DEF pc
<1>7. /\ r \in LockPosts /\ r.pc = pc /\ r.kind = post[m].kind /\ r.held = post[m].held
      /\ r.ever = post[m].ever /\ r.blurred = post[m].blurred
  BY <1>2, PostIs
<1> HIDE DEF r
<1>8. r.pc = "removed" /\ ~r.blurred => Locks!Matches(r.kind, r.ever)
  BY <1>4, <1>5, <1>7
<1>9. r.pc = "passed" /\ ~r.blurred => ~Locks!Matches(r.kind, r.held)
  BY <1>4, <1>5, <1>6, <1>7
<1>10. r.pc \notin {"get", "find", "fill"} /\ slips' \in 0 .. MaxSlips
  BY <1>3, <1>6, <1>7
<1> QED
  BY <1>1, <1>7, <1>8, <1>9, <1>10, PostMoves

\* A handler looks into Redis and MongoDB.
LEMMA LookupsKeep ==
    ASSUME LocksUsual, LocksInv, NEW m \in Posts,
           Locks!Get(m) \/ Locks!GetFails(m) \/ Locks!Find(m) \/ Locks!FindFails(m) \/ Locks!Exempt(m)
    PROVE  LocksInv'
<1> DEFINE Step(pc) == [post[m] EXCEPT !.pc = pc]
<1>1. slips \in 0 .. MaxSlips /\ MaxSlips \in Nat /\ post \in [Posts -> LockPosts]
  BY DEF LocksInv, LocksTyped, LocksUsual
<1>2. Unblurred(m) => /\ post[m].held = Locks!Stored /\ post[m].ever = Locks!Stored
                  /\ lockCopy \in {None, Locks!Stored}
  BY DEF LocksInv, SeesLocks
<1>3. ASSUME post[m].pc = "get", post' = [post EXCEPT ![m].pc = "find"], slips' \in 0 .. MaxSlips,
             UNCHANGED <<lockDocs, lockCopy, change, edits, lockWish, clashed, outdated>>
      PROVE  LocksInv'
  <2>1. Unblurred(m) <=> ~post[m].blurred
    BY <1>3 DEF Unblurred, Locks!Handled
  <2>2. post' = [post EXCEPT ![m] = Step("find")]
    BY <1>1, <1>3
  <2>3. /\ Step("find") \in LockPosts /\ Step("find").pc = "find" /\ Step("find").held = post[m].held
        /\ Step("find").ever = post[m].ever /\ Step("find").blurred = post[m].blurred
    BY PostIs
  <2> HIDE DEF Step
  <2> QED
    BY <1>2, <1>3, <2>1, <2>2, <2>3, PostMoves
<1>4. CASE Locks!Get(m)
  <2>1. post[m].pc = "get" /\ UNCHANGED <<lockDocs, lockCopy, change, edits, slips, lockWish, clashed, outdated>>
    BY <1>4 DEF Locks!Get
  <2>2. CASE lockCopy # None
    <3>1. Locks!Judge(m, lockCopy) /\ m \in Locks!Handled
      BY <1>4, <2>1, <2>2 DEF Locks!Get, Locks!Handled
    <3> QED
      BY <1>2, <2>1, <2>2, <3>1, JudgeKeeps
  <2>3. CASE lockCopy = None
    BY <1>1, <1>3, <1>4, <2>1, <2>3 DEF Locks!Get
  <2> QED
    BY <2>2, <2>3
<1>5. CASE Locks!GetFails(m)
  BY <1>1, <1>3, <1>5 DEF Locks!GetFails, Locks!Fault
<1>6. CASE Locks!Find(m)
  <2>1. post[m].pc = "find" /\ UNCHANGED <<lockDocs, lockCopy, change, edits, slips, lockWish, clashed, outdated>>
    BY <1>6 DEF Locks!Find
  <2>2. CASE lockDocs = <<>>
    <3>1. Locks!Judge(m, {}) /\ m \in Locks!Handled /\ Locks!Stored = {}
      BY <1>6, <2>1, <2>2 DEF Locks!Find, Locks!Handled, Locks!Stored
    <3> QED
      BY <2>1, <3>1, JudgeKeeps
  <2>3. CASE lockDocs # <<>>
    <3> DEFINE r == [post[m] EXCEPT !.pc = "fill", !.locked = Locks!Stored]
    <3>1. post' = [post EXCEPT ![m] = r]
      BY <1>1, <1>6, <2>3 DEF Locks!Find
    <3>2. Locks!Stored \in SUBSET Lockable /\ post[m] \in LockPosts
      BY <1>1, StoredIs DEF LocksInv
    <3>3. /\ r \in LockPosts /\ r.pc = "fill" /\ r.locked = Locks!Stored /\ r.held = post[m].held
          /\ r.ever = post[m].ever /\ r.blurred = post[m].blurred
      BY <3>2 DEF LockPosts
    <3>4. Unblurred(m) <=> ~post[m].blurred
      BY <2>1 DEF Unblurred, Locks!Handled
    <3> HIDE DEF r
    <3> QED
      BY <1>1, <1>2, <2>1, <3>1, <3>3, <3>4, PostMoves
  <2> QED
    BY <2>2, <2>3
<1>7. CASE Locks!FindFails(m)
  <2> DEFINE r == [post[m] EXCEPT !.pc = "passed", !.blurred = TRUE]
  <2>1. /\ post' = [post EXCEPT ![m].pc = "passed", ![m].blurred = TRUE] /\ slips' \in 0 .. MaxSlips
        /\ UNCHANGED <<lockDocs, lockCopy, change, edits, lockWish, clashed, outdated>>
    BY <1>1, <1>7 DEF Locks!FindFails, Locks!Fault
  <2>4. post' = [post EXCEPT ![m] = r]
    <3>1. \A n \in Posts \ {m} : post'[n] = post[n]
      BY <1>1, <2>1
    <3>2. post'[m] = r
      BY <1>1, <2>1
    <3> HIDE DEF r
    <3> QED
      BY <1>1, <2>1, <3>1, <3>2
  <2>2. post[m] \in LockPosts
    BY <1>1
  <2>3. r \in LockPosts /\ r.pc = "passed" /\ r.blurred
    BY <2>2 DEF LockPosts
  <2> HIDE DEF r
  <2> QED
    BY <2>1, <2>3, <2>4, PostMoves
<1>8. CASE Locks!Exempt(m)
  <2>1. /\ post' = [post EXCEPT ![m] = Step("exempt")] /\ slips' \in 0 .. MaxSlips
        /\ UNCHANGED <<lockDocs, lockCopy, change, edits, lockWish, clashed, outdated>>
    BY <1>1, <1>8 DEF Locks!Exempt
  <2>2. Step("exempt") \in LockPosts /\ Step("exempt").pc = "exempt"
    BY PostIs
  <2> HIDE DEF Step
  <2> QED
    BY <2>1, <2>2, PostMoves
<1> QED
  BY <1>4, <1>5, <1>6, <1>7, <1>8

\* The handler that found no copy leaves one, of what it read.
LEMMA LockFillKeeps ==
    ASSUME LocksUsual, LocksInv, NEW m \in Posts, Locks!Fill(m) PROVE LocksInv'
<1> DEFINE r == [post[m] EXCEPT !.pc =
                    IF Locks!Matches(post[m].kind, post[m].locked) THEN "removed" ELSE "passed"]
           s(k) == [post[k] EXCEPT !.blurred = @ \/ (k \in Locks!Handled /\ outdated')]
<1>1. /\ post[m].pc = "fill" /\ lockCopy' = post[m].locked
      /\ outdated' = (outdated \/ post[m].locked # Locks!Stored)
      /\ post' = [k \in Posts |-> IF k = m THEN r ELSE s(k)]
      /\ UNCHANGED <<lockDocs, change, edits, slips, lockWish, clashed>>
  BY DEF Locks!Fill
<1>2. post \in [Posts -> LockPosts] /\ outdated \in BOOLEAN /\ outdated' \in BOOLEAN
  BY <1>1 DEF LocksInv, LocksTyped
<1>3. /\ r \in LockPosts /\ r.pc \in {"removed", "passed"} /\ r.kind = post[m].kind /\ r.held = post[m].held
      /\ r.ever = post[m].ever /\ r.blurred = post[m].blurred
      /\ r.pc = "removed" <=> Locks!Matches(post[m].kind, post[m].locked)
  <2>1. (IF Locks!Matches(post[m].kind, post[m].locked) THEN "removed" ELSE "passed") \in {"removed", "passed"}
    OBVIOUS
  <2>2. (IF Locks!Matches(post[m].kind, post[m].locked) THEN "removed" ELSE "passed") = "removed"
            <=> Locks!Matches(post[m].kind, post[m].locked)
    OBVIOUS
  <2> DEFINE pc == IF Locks!Matches(post[m].kind, post[m].locked) THEN "removed" ELSE "passed"
  <2>3. pc \in {"removed", "passed"} /\ (pc = "removed" <=> Locks!Matches(post[m].kind, post[m].locked))
        /\ r = [post[m] EXCEPT !.pc = pc]
    BY <2>1, <2>2
  <2> HIDE DEF pc, r
  <2>4. pc \in {"new", "get", "find", "fill", "passed", "exempt", "removed"}
    BY <2>3
  <2>5. /\ r \in LockPosts /\ r.pc = pc /\ r.kind = post[m].kind /\ r.held = post[m].held
        /\ r.ever = post[m].ever /\ r.blurred = post[m].blurred
    BY <2>3, <2>4, PostIs
  <2> QED
    BY <2>3, <2>5
<1>4. ASSUME NEW k \in Posts \ {m}
      PROVE  /\ s(k) \in LockPosts /\ s(k).pc = post[k].pc /\ s(k).kind = post[k].kind /\ s(k).held = post[k].held
             /\ s(k).ever = post[k].ever /\ s(k).locked = post[k].locked
             /\ s(k).blurred = (post[k].blurred \/ (k \in Locks!Handled /\ outdated'))
  <2>1. post[k] \in LockPosts /\ (post[k].blurred \/ (k \in Locks!Handled /\ outdated')) \in BOOLEAN
    BY <1>2 DEF LockPosts
  <2> QED
    BY <2>1 DEF LockPosts
<1>5. post'[m] = r /\ \A k \in Posts \ {m} : post'[k] = s(k)
  BY <1>1
<1>6. post' \in [Posts -> LockPosts]
  BY <1>1, <1>3, <1>4
<1> HIDE DEF r, s
<1>7. LocksTyped'
  BY <1>1, <1>2, <1>6 DEF LocksInv, LocksTyped, LockPosts
<1>8. Locks!CacheFollows'
  BY <1>1 DEF Locks!CacheFollows, Locks!Stored
<1>9. AskedFor' /\ Locks!Stored' = Locks!Stored
  BY <1>1 DEF LocksInv, AskedFor, AloneAsks, Locks!Stored, Locks!Busy
<1>10. SeesLocks'
  <2> SUFFICES ASSUME NEW k \in Posts, Unblurred(k)'
               PROVE  /\ post'[k].held = Locks!Stored /\ post'[k].ever = Locks!Stored
                      /\ lockCopy' \in {None, Locks!Stored}
                      /\ post'[k].pc = "fill" => post'[k].locked = Locks!Stored
    BY <1>9 DEF SeesLocks
  <2>1. k # m
    BY <1>3, <1>5 DEF Unblurred, Locks!Handled
  <2>2. k \in Locks!Handled /\ ~post[k].blurred /\ ~outdated'
    BY <1>4, <1>5, <2>1 DEF Unblurred, Locks!Handled
  <2> QED
    BY <1>1, <1>4, <1>5, <2>1, <2>2 DEF LocksInv, SeesLocks, Unblurred
<1>11. Locks!Enforced'
  <2>1. ~post[m].blurred => post[m].locked = Locks!Stored /\ post[m].held = Locks!Stored /\ post[m].ever = Locks!Stored
    BY <1>1 DEF LocksInv, SeesLocks, Unblurred, Locks!Handled
  <2> SUFFICES ASSUME NEW k \in Posts
               PROVE  /\ post'[k].pc = "removed" /\ ~post'[k].blurred => Locks!Matches(post'[k].kind, post'[k].ever)
                      /\ post'[k].pc = "passed" /\ ~post'[k].blurred => ~Locks!Matches(post'[k].kind, post'[k].held)
    BY DEF Locks!Enforced, Locks!Matches
  <2>2. CASE k = m
    BY <1>3, <1>5, <2>1, <2>2
  <2>3. CASE k # m
    BY <1>4, <1>5, <2>3 DEF LocksInv, Locks!Enforced
  <2> QED
    BY <2>2, <2>3
<1> QED
  BY <1>7, <1>8, <1>9, <1>10, <1>11 DEF LocksInv

\* The copy lapses.
LEMMA LockLapseKeeps ==
    ASSUME LocksInv, Locks!Lapse PROVE LocksInv'
  BY DEF Locks!Lapse, LocksInv, LocksTyped, Locks!CacheFollows, AskedFor, AloneAsks, SeesLocks, Unblurred, Locks!Enforced,
      Locks!Matches, Locks!Stored, Locks!Busy, Locks!Handled

\* The invariant of ChatLocks holds after every step.
LEMMA LocksNextPreserves ==
    ASSUME LocksUsual, LocksInv, [Locks!Next]_(Locks!vars) PROVE LocksInv'
<1>1. ASSUME NEW k \in LockCallers, NEW op \in {"lock", "unlock"}, NEW a \in DOMAIN Lower, Locks!Command(k, op, a) PROVE LocksInv'
  <2>1. Lower[a] \in Lockable
    BY DEF LocksUsual
  <2>2. [op |-> op, type |-> Lower[a]] \in LockChanges
    BY <2>1 DEF LockChanges
  <2> QED
    BY <1>1, <2>2, LockBeginKeeps DEF Locks!Command
<1>2. ASSUME NEW k \in LockCallers, NEW t \in Lockable \ {Everything}, Locks!LockSticker(k, t) PROVE LocksInv'
  <2>1. [op |-> "lock", type |-> t] \in LockChanges
    BY DEF LockChanges
  <2> QED
    BY <1>2, <2>1, LockBeginKeeps DEF Locks!LockSticker
<1>3. ASSUME NEW k \in LockCallers, NEW t \in LockPayloads, Locks!Put(k, t) PROVE LocksInv'
  <2>1. [op |-> "put", types |-> t] \in LockChanges
    BY DEF LockChanges, LocksUsual
  <2> QED
    BY <1>3, <2>1, LockBeginKeeps DEF Locks!Put
<1>4. ASSUME NEW k \in LockCallers, Locks!UnlockAll(k) PROVE LocksInv'
  <2>1. [op |-> "unlock_all"] \in LockChanges
    BY DEF LockChanges
  <2> QED
    BY <1>4, <2>1, LockBeginKeeps DEF Locks!UnlockAll
<1>5. CASE UNCHANGED Locks!vars
  BY <1>5 DEF Locks!vars, LocksInv, LocksTyped, Locks!CacheFollows, AskedFor, AloneAsks, SeesLocks, Unblurred,
      Locks!Enforced, Locks!Matches, Locks!Stored, Locks!Busy, Locks!Handled
<1> QED
  BY <1>1, <1>2, <1>3, <1>4, <1>5, LockReadKeeps, LockSavesKeep, LockUpsertKeeps, LockEndsKeep, PostReceiveKeeps,
     LookupsKeep, LockFillKeeps, LockLapseKeeps DEF Locks!Next

\* The invariant implies what is checked of ChatLocks.
LEMMA LocksInvImplies ==
    ASSUME LocksInv PROVE Locks!LocksHold /\ Locks!TypeOK
<1>1. Locks!ChangesKept
  BY DEF LocksInv, AskedFor, Locks!ChangesKept
<1>2. \A k \in LockCallers : change[k].pc \in {"idle", "read", "save", "upsert", "insert", "drop"}
  BY LockCallIs DEF LocksInv
<1>3. \A i \in DOMAIN lockDocs : lockDocs[i] \subseteq Lockable
  BY DEF LocksInv, LocksTyped
<1>4. \A m \in Posts : post[m].pc \in {"new", "get", "find", "fill", "passed", "exempt", "removed"}
  BY DEF LocksInv, LocksTyped, LockPosts
<1>5. Locks!TypeOK
  BY <1>2, <1>3, <1>4 DEF LocksInv, LocksTyped, Locks!TypeOK
<1> QED
  BY <1>1, <1>5 DEF LocksInv, Locks!LocksHold

\* The types, and what an undisturbed change and message have seen, are an
\* invariant.
THEOREM LocksInvariance ==
    ASSUME LocksUsual PROVE Locks!Spec => []LocksInv
<1>1. Locks!Init => LocksInv
  BY LocksBegin
<1>2. LocksInv /\ [Locks!Next]_(Locks!vars) => LocksInv'
  BY LocksNextPreserves
<1> QED
  BY <1>1, <1>2, PTL DEF Locks!Spec

\* What a group has locked is what was asked for last unless changes overlap;
\* the copy names it, but for a change about to drop it, an overtaken fill, a
\* failed deletion or a crash; and a message that no change or old copy blurs
\* goes exactly when it is of a locked type.
THEOREM LocksHoldAlways ==
    ASSUME LocksUsual PROVE Locks!Spec => []Locks!LocksHold
<1>1. LocksInv => Locks!LocksHold
  BY LocksInvImplies
<1> QED
  BY <1>1, LocksInvariance, PTL

-----------------------------------------------------------------------------
(* ActionWizard, by its own names of the slots *)

filters == v1
deleted == v2
presets == v3
ruled == v4
configured == v5
draft == v6
drafts == v7
stores == v8
pending == v9
prompted == v10
rivals == v11

USE DEF filters, deleted, presets, ruled, configured, draft, drafts, stores, pending, prompted, rivals

LimitOf(scope) == IF scope = "filter" THEN FilterMax ELSE ModelMax

AtMost(n) == {a \in SUBSET Actions : Cardinality(a) <= n}

FilterDocs == [chat : RuleChats, handler : Rules, actions : AtMost(FilterMax) \ {{}}]

\* The rest of what Sophie keeps of a session.
WizardDrafts ==
    [id : Nat, scope : {"filter", "model"}, chat : RuleChats, filter : {None} \cup FilterIds,
     handler : {None} \cup Rules, actions : SUBSET Actions,
     input : {None} \cup [action : Actions, setting : BOOLEAN], fresh : BOOLEAN]

\* A draft is within its limit, and so it is with the answer it waits for.
DraftFits(w) ==
    /\ Cardinality(w.actions) <= LimitOf(w.scope)
    /\ w.scope = "filter" => w.handler \in Rules
    /\ w.input # None =>
           IF w.input.setting THEN w.input.action \in w.actions
           ELSE LimitOf(w.scope) > 1 => /\ w.input.action \notin w.actions
                                        /\ Cardinality(w.actions) < LimitOf(w.scope)

Stores ==
    [pc : {"find", "filter"}, id : {None} \cup FilterIds, doc : FilterDocs]
    \cup [pc : {"settings"}, chat : RuleChats, actions : AtMost(ModelMax)]
    \cup [pc : {"lock"}, chat : RuleChats, type : LockRules]

\* The limits are positive, what the API is given is within them
\* (validate_filter_actions of the API), and None is neither an identifier nor
\* a document.
WizardUsual ==
    /\ FilterMax \in Nat \ {0} /\ ModelMax \in Nat \ {0} /\ AiLimit \in Nat
    /\ MaxSessions \in Nat /\ MaxWrites \in Nat
    /\ IsFiniteSet(Actions) /\ IsFiniteSet(FilterIds)
    /\ \A a \in ActionPayloads : a \subseteq Actions /\ Cardinality(a) \in 1 .. FilterMax
    /\ None \notin FilterIds \cup Rules \cup FilterDocs \cup WizardDrafts

RulesTyped ==
    /\ filters \in [FilterIds -> {None} \cup FilterDocs]
    /\ deleted \subseteq FilterIds
    /\ presets \in [RuleChats -> AtMost(ModelMax)]
    /\ ruled \in [RuleChats -> SUBSET LockRules]
    /\ configured \in [Wizards -> RuleChats]
    /\ drafts \in 0 .. MaxSessions /\ stores \in 0 .. MaxWrites
    /\ rivals \in BOOLEAN

\* What an administrator has before him, and what he was asked last.
DraftsHold ==
    /\ draft \in [Wizards -> {None} \cup WizardDrafts]
    /\ prompted \in [Wizards -> {None} \cup (Nat \X Actions)]
    /\ \A u \in Wizards : draft[u] # None =>
        /\ draft[u].id \in 1 .. drafts
        /\ DraftFits(draft[u])
        /\ draft[u].input # None => prompted[u] = <<draft[u].id, draft[u].input.action>>

JobsTyped == pending \in [Wizards \cup RuleRequests -> {Wizard!NoJob} \cup Stores]

\* What a write has checked is still so.
Stands(j) ==
    /\ j.pc \in {"find", "filter"} =>
        /\ j.doc.handler \in LockRules => j.doc.handler \notin ruled[j.doc.chat]
        /\ Wizard!Same(j.doc.chat, j.doc.handler) \subseteq {j.id}
        /\ j.doc.handler \in Prompts => Wizard!Room(j.doc.chat, j.id)
        /\ j.id \in Wizard!Used => filters[j.id].chat = j.doc.chat
        /\ j.pc = "filter" /\ j.id # None => j.id \in Wizard!Used
        /\ j.pc = "find" => j.id # None
    /\ j.pc = "lock" => j.type \in ruled[j.chat] \/ Wizard!Same(j.chat, j.type) = {}

\* The filter a draft edits is, or was, one of its chat.
Edits(w) ==
    w # None /\ w.filter # None =>
        /\ w.filter \in Wizard!Used \cup deleted
        /\ w.filter \in Wizard!Used => filters[w.filter].chat = w.chat

\* One filter for a handler, no more prompts than a chat may have, and no lock
\* type in both modules.
OneEach ==
    /\ \A c \in RuleChats :
        /\ \A h \in Rules : /\ \A i, l \in Wizard!Same(c, h) : i = l
                            /\ h \in ruled[c] => Wizard!Same(c, h) = {}
        /\ Cardinality(Wizard!AIFilters(c)) <= AiLimit
    /\ deleted \cap Wizard!Used = {}

RulesApart ==
    ~rivals =>
        /\ OneEach
        /\ \A k, l \in Wizard!Busy : k = l
        /\ \A k \in Wizard!Busy : Stands(pending[k])
        /\ \A u \in Wizards : Edits(draft[u])

WizardInv == RulesTyped /\ DraftsHold /\ JobsTyped /\ RulesApart

-----------------------------------------------------------------------------

\* The wizard's number of elements is the number of elements.
LEMMA WizardNumber ==
    ASSUME NEW S PROVE Wizard!Cardinality(S) = Cardinality(S)
BY DEF Wizard!Cardinality, Cardinality, Wizard!IsFiniteSet, IsFiniteSet

\* A set of actions is finite; one action more counts one more.
LEMMA ActionsCount ==
    ASSUME WizardUsual, NEW s \in SUBSET Actions, NEW a \in Actions
    PROVE  /\ IsFiniteSet(s) /\ Cardinality(s) \in Nat /\ (s # {} => Cardinality(s) >= 1)
           /\ Cardinality(s \cup {a}) <= Cardinality(s) + 1
           /\ a \in s => Cardinality(s \cup {a}) = Cardinality(s)
           /\ Cardinality(s \ {a}) <= Cardinality(s)
           /\ Cardinality({} \cup {a}) = 1 /\ Cardinality({}) = 0
<1>1. IsFiniteSet(s) /\ Cardinality(s) \in Nat
  BY FS_Subset, FS_CardinalityType DEF WizardUsual
<1>2. Cardinality(s \cup {a}) <= Cardinality(s) + 1 /\ Cardinality(s \ {a}) <= Cardinality(s)
  <2>1. /\ Cardinality(s \cup {a}) = IF a \in s THEN Cardinality(s) ELSE Cardinality(s) + 1
        /\ Cardinality(s \ {a}) = IF a \in s THEN Cardinality(s) - 1 ELSE Cardinality(s)
    BY <1>1, FS_AddElement, FS_RemoveElement
  <2> QED
    BY <1>1, <2>1
<1>3. s # {} => Cardinality(s) # 0
  BY <1>1, FS_EmptySet
<1>4. a \in s => s \cup {a} = s
  OBVIOUS
<1>5. Cardinality({a}) = 1 /\ {} \cup {a} = {a}
  BY FS_Singleton
<1>6. Cardinality({}) = 0
  BY FS_EmptySet
<1>7. s # {} => Cardinality(s) >= 1
  BY <1>1, <1>3
<1>8. a \in s => Cardinality(s \cup {a}) = Cardinality(s)
  BY <1>4
<1> QED
  BY <1>1, <1>2, <1>5, <1>6, <1>7, <1>8

\* What depends on the documents only.
LEMMA WizardSame ==
    ASSUME filters' = filters, deleted' = deleted, ruled' = ruled
    PROVE  /\ Wizard!Used' = Wizard!Used
           /\ OneEach' = OneEach
           /\ \A j : Stands(j)' = Stands(j)
           /\ \A w : Edits(w)' = Edits(w)
<1>1. Wizard!Used' = Wizard!Used
  BY DEF Wizard!Used
<1>2. ASSUME NEW c, NEW h PROVE Wizard!Same(c, h)' = Wizard!Same(c, h)
  BY <1>1 DEF Wizard!Same
<1>3. ASSUME NEW c PROVE Wizard!AIFilters(c)' = Wizard!AIFilters(c)
  BY <1>1 DEF Wizard!AIFilters
<1>4. ASSUME NEW c, NEW i PROVE Wizard!Room(c, i)' = Wizard!Room(c, i)
  BY <1>1, <1>3 DEF Wizard!Room
<1>5. OneEach' = OneEach
  BY <1>1, <1>2, <1>3 DEF OneEach
<1>6. \A j : Stands(j)' = Stands(j)
  BY <1>1, <1>2, <1>4 DEF Stands
<1>7. \A w : Edits(w)' = Edits(w)
  BY <1>1 DEF Edits
<1> QED
  BY <1>1, <1>5, <1>6, <1>7

\* The collections begin empty.
LEMMA WizardBegins ==
    ASSUME WizardUsual, Wizard!Init PROVE WizardInv
<1> USE DEF Wizard!Init
<1>1. Wizard!Used = {}
  BY DEF Wizard!Used
<1>2. Cardinality({}) = 0 /\ IsFiniteSet({})
  BY FS_EmptySet
<1>3. {} \in AtMost(ModelMax)
  BY <1>2 DEF AtMost, WizardUsual
<1>4. RulesTyped
  <2>1. filters \in [FilterIds -> {None} \cup FilterDocs]
    OBVIOUS
  <2>2. presets \in [RuleChats -> AtMost(ModelMax)] /\ ruled \in [RuleChats -> SUBSET LockRules]
    BY <1>3
  <2>3. drafts \in 0 .. MaxSessions /\ stores \in 0 .. MaxWrites
    BY DEF WizardUsual
  <2>4. deleted \subseteq FilterIds /\ configured \in [Wizards -> RuleChats] /\ rivals \in BOOLEAN
    OBVIOUS
  <2> QED
    BY ONLY <2>1, <2>2, <2>3, <2>4 DEF RulesTyped
<1>5. DraftsHold
  BY DEF DraftsHold
<1>6. JobsTyped
  BY DEF JobsTyped
<1>7. Wizard!Busy = {}
  BY DEF Wizard!Busy, Wizard!NoJob
<1>8. OneEach
  BY <1>1, <1>2 DEF OneEach, Wizard!Same, Wizard!AIFilters, WizardUsual
<1> QED
  BY <1>4, <1>5, <1>6, <1>7, <1>8 DEF WizardInv, RulesApart, Edits

\* A step of one administrator that stores nothing.
LEMMA DraftStep ==
    ASSUME WizardUsual, WizardInv, NEW u \in Wizards, NEW w \in {None} \cup WizardDrafts,
           NEW p \in {None} \cup (Nat \X Actions), NEW n \in drafts .. MaxSessions,
           draft' = [draft EXCEPT ![u] = w], prompted' = [prompted EXCEPT ![u] = p], drafts' = n,
           w # None => /\ w.id \in 1 .. n /\ DraftFits(w)
                       /\ w.input # None => p = <<w.id, w.input.action>>,
           ~rivals => Edits(w),
           UNCHANGED <<filters, deleted, presets, ruled, configured, stores, pending, rivals>>
    PROVE  WizardInv'
<1>1. RulesTyped'
  BY DEF WizardInv, RulesTyped, WizardUsual
<1>2. DraftsHold'
  <2>1. draft' \in [Wizards -> {None} \cup WizardDrafts] /\ prompted' \in [Wizards -> {None} \cup (Nat \X Actions)]
    BY DEF WizardInv, DraftsHold
  <2>2. ASSUME NEW l \in Wizards, draft'[l] # None
        PROVE  /\ draft'[l].id \in 1 .. drafts' /\ DraftFits(draft'[l])
               /\ draft'[l].input # None => prompted'[l] = <<draft'[l].id, draft'[l].input.action>>
    <3>1. CASE l = u
      BY <2>2, <3>1 DEF WizardInv, DraftsHold
    <3>2. CASE l # u
      BY <2>2, <3>2 DEF WizardInv, DraftsHold, RulesTyped
    <3> QED
      BY <3>1, <3>2
  <2> QED
    BY <2>1, <2>2 DEF DraftsHold
<1>3. JobsTyped'
  BY DEF WizardInv, JobsTyped
<1>4. ASSUME ~rivals' PROVE \A l \in Wizards : Edits(draft[l])'
  BY <1>4 DEF WizardInv, RulesApart, DraftsHold, Edits, Wizard!Used
<1>5. RulesApart'
  <2>1. Wizard!Busy' = Wizard!Busy
    BY DEF Wizard!Busy
  <2>2. ASSUME ~rivals' PROVE \A k \in Wizard!Busy : Stands(pending[k])'
    BY <2>2, WizardSame DEF WizardInv, RulesApart, Stands, Wizard!Used, Wizard!Same, Wizard!Room, Wizard!AIFilters
  <2> QED
    BY <1>4, <2>1, <2>2, WizardSame DEF WizardInv, RulesApart
<1> QED
  BY <1>1, <1>2, <1>3, <1>5 DEF WizardInv

\* An administrator's session and what there is of it.
LEMMA SessionIs ==
    ASSUME WizardUsual, WizardInv, NEW u \in Wizards, draft[u] # None
    PROVE  /\ draft[u] \in WizardDrafts /\ draft[u].id \in 1 .. drafts /\ DraftFits(draft[u])
           /\ draft[u].chat \in RuleChats /\ draft[u].actions \in SUBSET Actions
           /\ draft[u].filter \in {None} \cup FilterIds /\ draft[u].handler \in {None} \cup Rules
           /\ draft[u].input # None => draft[u].input.action \in Actions /\ draft[u].input.setting \in BOOLEAN
           /\ draft[u].id \in Nat
           /\ Wizard!Limit(u) = LimitOf(draft[u].scope) /\ LimitOf(draft[u].scope) \in Nat \ {0}
           /\ drafts \in drafts .. MaxSessions /\ prompted[u] \in {None} \cup (Nat \X Actions)
<1>1. draft[u] \in WizardDrafts /\ drafts \in 0 .. MaxSessions
  BY DEF WizardInv, DraftsHold, RulesTyped
<1>2. draft[u].input # None => draft[u].input \in [action : Actions, setting : BOOLEAN]
  BY <1>1 DEF WizardDrafts
<1> QED
  BY <1>1, <1>2 DEF WizardInv, DraftsHold, WizardDrafts, Wizard!Limit, LimitOf, WizardUsual

\* A session begins, with what its kind allows.
LEMMA SessionStartKeeps ==
    ASSUME WizardUsual, WizardInv, NEW u \in Wizards, NEW scope \in {"filter", "model"},
           NEW f \in {None} \cup FilterIds, NEW h \in {None} \cup Rules, NEW a \in SUBSET Actions,
           Cardinality(a) <= LimitOf(scope), scope = "filter" => h \in Rules,
           f # None => f \in Wizard!Used /\ filters[f].chat = configured[u],
           Wizard!Start(u, scope, f, h, a)
    PROVE  WizardInv'
<1> DEFINE w == [id |-> drafts + 1, scope |-> scope, chat |-> configured[u], filter |-> f,
                 handler |-> h, actions |-> a, input |-> None, fresh |-> TRUE]
<1>1. /\ drafts \in Nat /\ drafts + 1 \in drafts .. MaxSessions /\ configured[u] \in RuleChats
      /\ drafts + 1 \in 1 .. drafts + 1
  BY DEF WizardInv, RulesTyped, Wizard!Start, WizardUsual
<1>2. w \in WizardDrafts /\ w.id = drafts + 1 /\ w.input = None /\ w.chat = configured[u] /\ w.filter = f
  BY <1>1 DEF WizardDrafts
<1>3. DraftFits(w) /\ Edits(w)
  BY DEF DraftFits, Edits
<1>4. draft' = [draft EXCEPT ![u] = w] /\ prompted' = [prompted EXCEPT ![u] = None] /\ drafts' = drafts + 1
      /\ UNCHANGED <<filters, deleted, presets, ruled, configured, stores, pending, rivals>>
  BY DEF Wizard!Start
<1> HIDE DEF w
<1> QED
  BY <1>1, <1>2, <1>3, <1>4, DraftStep

\* A session goes on with other actions and another input.
LEMMA DraftChangeKeeps ==
    ASSUME WizardUsual, WizardInv, NEW u \in Wizards, draft[u] # None, NEW a \in SUBSET Actions,
           NEW i \in {None} \cup [action : Actions, setting : BOOLEAN],
           Cardinality(a) <= LimitOf(draft[u].scope),
           i # None => IF i.setting THEN i.action \in a
                       ELSE LimitOf(draft[u].scope) > 1 => /\ i.action \notin a
                                                           /\ Cardinality(a) < LimitOf(draft[u].scope),
           Wizard!Change(u, a, i)
    PROVE  WizardInv'
<1> DEFINE w == [draft[u] EXCEPT !.actions = a, !.input = i]
           p == IF i = None THEN None ELSE <<draft[u].id, i.action>>
<1>0. draft[u] \in WizardDrafts
  BY SessionIs
<1>1. /\ w \in WizardDrafts /\ w.id = draft[u].id /\ w.input = i /\ w.chat = draft[u].chat /\ w.filter = draft[u].filter
      /\ w.actions = a /\ w.scope = draft[u].scope /\ w.handler = draft[u].handler
  BY <1>0 DEF WizardDrafts
<1>2. draft' = [draft EXCEPT ![u] = w] /\ prompted' = [prompted EXCEPT ![u] = p] /\ drafts' = drafts
      /\ UNCHANGED <<filters, deleted, presets, ruled, configured, stores, pending, rivals>>
  BY SessionIs DEF Wizard!Change, WizardDrafts, WizardInv, DraftsHold
<1>3. p \in {None} \cup (Nat \X Actions)
  BY SessionIs
<1>4. DraftFits(w)
  BY <1>1, SessionIs DEF DraftFits
<1>5. Edits(draft[u]) => Edits(w)
  BY <1>1 DEF Edits
<1>6. ~rivals => Edits(w)
  BY <1>5 DEF WizardInv, RulesApart
<1>7. w.input # None => p = <<w.id, w.input.action>>
  BY <1>1
<1> HIDE DEF w, p
<1> QED
  BY <1>1, <1>2, <1>3, <1>4, <1>6, <1>7, SessionIs, DraftStep

\* A press is refused, and a session expires.
LEMMA AlertKeeps ==
    ASSUME WizardUsual, WizardInv, NEW u \in Wizards, draft[u] # None, Wizard!Alert(u) \/ Wizard!Expire(u)
    PROVE  WizardInv'
<1> DEFINE w == IF Wizard!Alert(u) THEN [draft[u] EXCEPT !.input = None] ELSE [draft[u] EXCEPT !.fresh = FALSE]
<1>1. /\ w \in WizardDrafts /\ w.id = draft[u].id /\ w.input \in {None, draft[u].input}
      /\ w.chat = draft[u].chat /\ w.filter = draft[u].filter
      /\ w.actions = draft[u].actions /\ w.scope = draft[u].scope /\ w.handler = draft[u].handler
  BY SessionIs DEF WizardDrafts
<1>2. draft' = [draft EXCEPT ![u] = w] /\ prompted' = [prompted EXCEPT ![u] = prompted[u]] /\ drafts' = drafts
      /\ UNCHANGED <<filters, deleted, presets, ruled, configured, stores, pending, rivals>>
  BY DEF Wizard!Alert, Wizard!Expire, WizardInv, DraftsHold
<1>4. DraftFits(w)
  BY <1>1, SessionIs DEF DraftFits
<1>5. Edits(draft[u]) => Edits(w)
  BY <1>1 DEF Edits
<1>6. ~rivals => Edits(w)
  BY <1>5 DEF WizardInv, RulesApart
<1>7. w.input # None => prompted[u] = <<w.id, w.input.action>>
  BY <1>1 DEF WizardInv, DraftsHold
<1> HIDE DEF w
<1> QED
  BY <1>1, <1>2, <1>4, <1>6, <1>7, SessionIs, DraftStep

\* A session ends.
LEMMA SessionEndKeeps ==
    ASSUME WizardUsual, WizardInv, NEW u \in Wizards, Wizard!Clear(u) PROVE WizardInv'
<1>1. drafts \in drafts .. MaxSessions /\ drafts' = drafts
  BY DEF WizardInv, RulesTyped, Wizard!Clear
<1>2. Edits(None)
  BY DEF Edits
<1>3. draft' = [draft EXCEPT ![u] = None] /\ prompted' = [prompted EXCEPT ![u] = None]
      /\ UNCHANGED <<filters, deleted, presets, ruled, configured, stores, pending, rivals>>
  BY DEF Wizard!Clear
<1> QED
  BY <1>1, <1>2, <1>3, DraftStep

\* Another chat is configured.
LEMMA ChatChangeKeeps ==
    ASSUME WizardInv, NEW u \in Wizards, NEW c \in RuleChats, Wizard!Connect(u, c) PROVE WizardInv'
<1>1. UNCHANGED <<filters, deleted, presets, ruled, draft, drafts, pending, prompted, rivals, stores>>
  BY DEF Wizard!Connect
<1>2. RulesTyped'
  BY <1>1 DEF Wizard!Connect, WizardInv, RulesTyped
<1>3. DraftsHold' /\ JobsTyped'
  BY <1>1 DEF WizardInv, DraftsHold, JobsTyped
<1>4. RulesApart'
  <2>1. Wizard!Busy' = Wizard!Busy
    BY <1>1 DEF Wizard!Busy
  <2> QED
    BY <1>1, <2>1, WizardSame DEF WizardInv, RulesApart
<1> QED
  BY <1>2, <1>3, <1>4 DEF WizardInv

\* A write begins: it stands on what it has checked.
LEMMA WizardBeginKeeps ==
    ASSUME WizardUsual, WizardInv, NEW k \in Wizards \cup RuleRequests, NEW j \in Stores,
           Wizard!Begin(k, j), DraftsHold', ~rivals => Stands(j),
           \A u \in Wizards : Edits(draft[u]) => Edits(draft'[u])
    PROVE  WizardInv'
<1>1. /\ stores' = stores + 1 /\ stores < MaxWrites /\ pending' = [pending EXCEPT ![k] = j]
      /\ rivals' = (rivals \/ Wizard!Busy # {})
      /\ UNCHANGED <<filters, deleted, presets, ruled, configured, drafts>>
  BY DEF Wizard!Begin
<1>2. RulesTyped'
  BY <1>1 DEF WizardInv, RulesTyped, WizardUsual
<1>3. JobsTyped'
  BY <1>1 DEF WizardInv, JobsTyped
<1>4. RulesApart'
  <2> SUFFICES ASSUME ~rivals' PROVE RulesApart'
    BY DEF RulesApart
  <2>1. ~rivals /\ Wizard!Busy = {}
    BY <1>1
  <2>2. Wizard!Busy' \subseteq {k} /\ pending'[k] = j
    BY <1>1, <2>1 DEF Wizard!Busy, WizardInv, JobsTyped
  <2>3. Stands(j)' /\ OneEach'
    BY <1>1, <2>1, WizardSame DEF WizardInv, RulesApart
  <2>4. \A u \in Wizards : Edits(draft'[u])
    BY <2>1 DEF WizardInv, RulesApart
  <2>5. \A u \in Wizards : Edits(draft[u])'
    BY <1>1, <2>4 DEF Edits, Wizard!Used
  <2>6. \A l \in Wizard!Busy' : Stands(pending[l])'
    BY <2>2, <2>3 DEF Stands
  <2> QED
    BY <2>2, <2>3, <2>5, <2>6 DEF RulesApart
<1> QED
  BY <1>2, <1>3, <1>4 DEF WizardInv

\* An administrator's input is cleared when he writes.
LEMMA DoneDrafts ==
    ASSUME WizardUsual, WizardInv, NEW u \in Wizards, draft[u] # None,
           draft' = [draft EXCEPT ![u].input = None], UNCHANGED <<drafts, prompted>>
    PROVE  DraftsHold' /\ \A l \in Wizards : Edits(draft[l]) => Edits(draft'[l])
<1> DEFINE w == [draft[u] EXCEPT !.input = None]
<1>0. draft[u] \in WizardDrafts
  BY SessionIs
<1>1. /\ w \in WizardDrafts /\ w.id = draft[u].id /\ w.input = None
      /\ w.chat = draft[u].chat /\ w.filter = draft[u].filter
      /\ w.actions = draft[u].actions /\ w.scope = draft[u].scope /\ w.handler = draft[u].handler
  BY <1>0 DEF WizardDrafts
<1>2. draft' = [draft EXCEPT ![u] = w] /\ draft' \in [Wizards -> {None} \cup WizardDrafts]
  BY <1>1 DEF WizardInv, DraftsHold
<1>3. DraftFits(w)
  BY <1>1, SessionIs DEF DraftFits
<1>4. Edits(draft[u]) => Edits(w)
  BY <1>1 DEF Edits
<1> HIDE DEF w
<1>5. DraftsHold'
  BY <1>1, <1>2, <1>3 DEF WizardInv, DraftsHold
<1>6. ASSUME NEW l \in Wizards, Edits(draft[l]) PROVE Edits(draft'[l])
  BY <1>2, <1>4, <1>6 DEF WizardInv, DraftsHold
<1> QED
  BY <1>5, <1>6

\* "Done".
LEMMA WizardDoneKeeps ==
    ASSUME WizardUsual, WizardInv, NEW u \in Wizards, NEW s \in 1 .. drafts, Wizard!Done(u, s)
    PROVE  WizardInv'
<1>1. draft[u] # None
  BY DEF Wizard!Done, Wizard!Live, Wizard!Active
<1> DEFINE d == [chat |-> draft[u].chat, handler |-> draft[u].handler, actions |-> draft[u].actions]
           j == [pc |-> IF draft[u].filter = None THEN "filter" ELSE "find", id |-> draft[u].filter, doc |-> d]
           m == [pc |-> "settings", chat |-> draft[u].chat, actions |-> draft[u].actions]
<1>2. CASE Wizard!Alert(u)
  BY <1>1, <1>2, AlertKeeps
<1>3. CASE /\ draft[u].scope = "filter" /\ draft[u].actions # {}
           /\ Wizard!Valid(draft[u].chat, draft[u].handler, draft[u].filter)
           /\ Wizard!Begin(u, j) /\ draft' = [draft EXCEPT ![u].input = None]
  <2>1. draft[u].handler \in Rules /\ draft[u].actions \in AtMost(FilterMax) \ {{}}
    BY <1>1, <1>3, SessionIs DEF DraftFits, LimitOf, AtMost
  <2>2. d \in FilterDocs /\ d.chat = draft[u].chat /\ d.handler = draft[u].handler
    BY <1>1, <2>1, SessionIs DEF FilterDocs
  <2> HIDE DEF d
  <2>3. j \in Stores /\ j.pc \in {"find", "filter"} /\ j.doc = d /\ j.id = draft[u].filter /\ (j.pc = "filter" <=> j.id = None)
    BY <1>1, <2>2, SessionIs DEF Stores
  <2> HIDE DEF j
  <2>4. drafts' = drafts /\ prompted' = prompted
    BY <1>3 DEF Wizard!Begin
  <2>5. ASSUME ~rivals PROVE Stands(j)
    <3>1. Edits(draft[u])
      BY <2>5 DEF WizardInv, RulesApart
    <3>2. None \notin Wizard!Used
      BY DEF WizardUsual, Wizard!Used
    <3>3. j.id \in Wizard!Used => filters[j.id].chat = draft[u].chat
      BY <1>1, <2>3, <3>1, <3>2 DEF Edits
    <3>4. j.pc \in {"find", "filter"} /\ j.pc # "lock"
      BY <2>3
    <3> QED
      BY <1>3, <2>2, <2>3, <3>3, <3>4 DEF Stands, Wizard!Valid
  <2> QED
    BY <1>1, <1>3, <2>3, <2>4, <2>5, DoneDrafts, WizardBeginKeeps
<1>4. CASE /\ draft[u].scope # "filter"
           /\ Wizard!Begin(u, m) /\ draft' = [draft EXCEPT ![u].input = None]
  <2>1. draft[u].actions \in AtMost(ModelMax)
    BY <1>1, <1>4, SessionIs DEF DraftFits, LimitOf, AtMost
  <2>2. m \in Stores /\ m.pc = "settings"
    BY <1>1, <2>1, SessionIs DEF Stores
  <2> HIDE DEF m
  <2>3. drafts' = drafts /\ prompted' = prompted /\ Stands(m)
    BY <1>4, <2>2 DEF Wizard!Begin, Stands
  <2> QED
    BY <1>1, <1>4, <2>2, <2>3, DoneDrafts, WizardBeginKeeps
<1> QED
  BY <1>2, <1>3, <1>4 DEF Wizard!Done

\* The actions of what is stored.
LEMMA StoredActions ==
    ASSUME WizardUsual, WizardInv
    PROVE  /\ \A i \in Wizard!Used :
                  /\ i \in FilterIds /\ filters[i] \in FilterDocs
                  /\ filters[i].chat \in RuleChats /\ filters[i].handler \in Rules
                  /\ filters[i].actions \in SUBSET Actions
                  /\ Cardinality(filters[i].actions) \in 1 .. FilterMax
           /\ \A c \in RuleChats : presets[c] \in SUBSET Actions /\ Cardinality(presets[c]) <= ModelMax
<1>1. ASSUME NEW i \in Wizard!Used
      PROVE  /\ i \in FilterIds /\ filters[i] \in FilterDocs
             /\ filters[i].chat \in RuleChats /\ filters[i].handler \in Rules
             /\ filters[i].actions \in SUBSET Actions
             /\ Cardinality(filters[i].actions) \in 1 .. FilterMax
  <2>1. i \in FilterIds /\ filters[i] \in FilterDocs
    BY <1>1 DEF Wizard!Used, WizardInv, RulesTyped
  <2>2. filters[i].actions \in AtMost(FilterMax) \ {{}} /\ filters[i].chat \in RuleChats /\ filters[i].handler \in Rules
    BY <2>1 DEF FilterDocs
  <2>3. filters[i].actions \in SUBSET Actions /\ Cardinality(filters[i].actions) <= FilterMax
    BY <2>2 DEF AtMost
  <2>4. IsFiniteSet(filters[i].actions)
    BY <2>3, FS_Subset DEF WizardUsual
  <2>5. Cardinality(filters[i].actions) \in Nat /\ Cardinality(filters[i].actions) # 0
    BY <2>2, <2>4, FS_EmptySet, FS_CardinalityType
  <2> QED
    BY <2>1, <2>2, <2>3, <2>5 DEF WizardUsual
<1>2. ASSUME NEW c \in RuleChats
      PROVE  presets[c] \in SUBSET Actions /\ Cardinality(presets[c]) <= ModelMax
  BY DEF WizardInv, RulesTyped, AtMost
<1> QED
  BY <1>1, <1>2

\* /add_filter and /edit_filter.
LEMMA NewEditKeep ==
    ASSUME WizardUsual, WizardInv, NEW u \in Wizards,
           (\E h \in Rules : Wizard!New(u, h)) \/ (\E i \in FilterIds : Wizard!Edit(u, i))
    PROVE  WizardInv'
<1>1. ASSUME NEW h \in Rules, Wizard!New(u, h) PROVE WizardInv'
  <2>1. Cardinality({}) = 0 /\ 0 <= LimitOf("filter")
    BY FS_EmptySet DEF LimitOf, WizardUsual
  <2> QED
    BY <1>1, <2>1, SessionStartKeeps DEF Wizard!New
<1>2. ASSUME NEW i \in FilterIds, Wizard!Edit(u, i) PROVE WizardInv'
  <2>1. i \in Wizard!Used /\ filters[i].chat = configured[u]
        /\ Wizard!Start(u, "filter", i, filters[i].handler, filters[i].actions)
    BY <1>2 DEF Wizard!Edit
  <2>2. filters[i].handler \in Rules /\ filters[i].actions \in SUBSET Actions
        /\ Cardinality(filters[i].actions) \in 1 .. FilterMax
    BY <2>1, StoredActions
  <2>3. Cardinality(filters[i].actions) <= LimitOf("filter")
    BY <2>2 DEF LimitOf, WizardUsual
  <2> QED
    BY <2>1, <2>2, <2>3, SessionStartKeeps
<1> QED
  BY <1>1, <1>2

\* The same actions again.
LEMMA SameActionsKeep ==
    ASSUME WizardUsual, WizardInv, NEW u \in Wizards, draft[u] # None, Wizard!Change(u, draft[u].actions, None)
    PROVE  WizardInv'
<1>1. draft[u].actions \in SUBSET Actions /\ Cardinality(draft[u].actions) <= LimitOf(draft[u].scope)
  BY SessionIs DEF DraftFits
<1> QED
  BY <1>1, DraftChangeKeeps

\* The command of warnings or floods.
LEMMA OpenKeeps ==
    ASSUME WizardUsual, WizardInv, NEW u \in Wizards, Wizard!Open(u) PROVE WizardInv'
<1>1. CASE draft[u] # None /\ Wizard!Change(u, draft[u].actions, None)
  BY <1>1, SameActionsKeep
<1>2. CASE Wizard!Start(u, "model", None, None, presets[configured[u]])
  <2>1. configured[u] \in RuleChats
    BY DEF WizardInv, RulesTyped
  <2>2. presets[configured[u]] \in SUBSET Actions /\ Cardinality(presets[configured[u]]) <= LimitOf("model")
    BY <2>1, StoredActions DEF LimitOf
  <2> QED
    BY <1>2, <2>2, SessionStartKeeps
<1> QED
  BY <1>1, <1>2 DEF Wizard!Open, Wizard!Active

\* An accepted action is within the limit once the draft has it.
LEMMA WithFits ==
    ASSUME WizardUsual, WizardInv, NEW u \in Wizards, draft[u] # None, NEW a \in Actions,
           LimitOf(draft[u].scope) > 1 => a \notin draft[u].actions /\ Cardinality(draft[u].actions) < LimitOf(draft[u].scope)
    PROVE  Wizard!With(u, a) \in SUBSET Actions /\ Cardinality(Wizard!With(u, a)) <= LimitOf(draft[u].scope)
<1>1. /\ draft[u].actions \in SUBSET Actions
      /\ Wizard!Limit(u) = LimitOf(draft[u].scope) /\ LimitOf(draft[u].scope) \in Nat \ {0}
  BY SessionIs
<1>2. CASE LimitOf(draft[u].scope) = 1
  <2>1. Wizard!With(u, a) = {a}
    BY <1>1, <1>2 DEF Wizard!With
  <2> QED
    BY <1>2, <2>1, FS_Singleton
<1>3. CASE LimitOf(draft[u].scope) > 1
  <2>1. Wizard!With(u, a) = draft[u].actions \cup {a}
    BY <1>1, <1>3 DEF Wizard!With
  <2>2. /\ Cardinality(draft[u].actions) \in Nat /\ Cardinality(draft[u].actions) < LimitOf(draft[u].scope)
        /\ Cardinality(draft[u].actions \cup {a}) <= Cardinality(draft[u].actions) + 1
        /\ IsFiniteSet(draft[u].actions \cup {a})
    BY <1>1, <1>3, ActionsCount, FS_AddElement
  <2>3. Cardinality(draft[u].actions \cup {a}) \in Nat
    BY <2>2, FS_CardinalityType
  <2> QED
    BY <1>1, <2>1, <2>2, <2>3
<1> QED
  BY <1>1, <1>2, <1>3

\* The buttons of a session.
LEMMA ButtonsKeep ==
    ASSUME WizardUsual, WizardInv, NEW u \in Wizards, NEW s \in 1 .. drafts, NEW a \in Actions,
           \/ Wizard!Show(u, s) \/ Wizard!Cancel(u, s)
           \/ Wizard!Select(u, s, a) \/ Wizard!Setting(u, s, a) \/ Wizard!Remove(u, s, a)
    PROVE  WizardInv'
<1>1. draft[u] # None
  BY DEF Wizard!Show, Wizard!Cancel, Wizard!Select, Wizard!Setting, Wizard!Remove, Wizard!Live, Wizard!Active
<1>2. /\ draft[u].actions \in SUBSET Actions /\ Cardinality(draft[u].actions) <= LimitOf(draft[u].scope)
      /\ Wizard!Limit(u) = LimitOf(draft[u].scope) /\ LimitOf(draft[u].scope) \in Nat \ {0}
  BY <1>1, SessionIs DEF DraftFits
<1>3. CASE Wizard!Show(u, s) \/ Wizard!Cancel(u, s)
  BY <1>1, <1>3, SameActionsKeep, SessionEndKeeps DEF Wizard!Show, Wizard!Cancel
<1>4. CASE Wizard!Alert(u)
  BY <1>1, <1>4, AlertKeeps
<1>5. CASE Wizard!Accepts(u, a) /\ Wizard!Change(u, draft[u].actions, [action |-> a, setting |-> FALSE])
  <2> DEFINE i == [action |-> a, setting |-> FALSE]
  <2>1. i \in [action : Actions, setting : BOOLEAN] /\ i.action = a /\ ~i.setting
    OBVIOUS
  <2>2. LimitOf(draft[u].scope) > 1 => a \notin draft[u].actions /\ Cardinality(draft[u].actions) < LimitOf(draft[u].scope)
    BY <1>2, <1>5, WizardNumber DEF Wizard!Accepts
  <2>3. Wizard!Change(u, draft[u].actions, i)
    BY <1>5
  <2> HIDE DEF i
  <2> QED
    BY <1>1, <1>2, <2>1, <2>2, <2>3, DraftChangeKeeps
<1>6. CASE Wizard!Accepts(u, a) /\ Wizard!Change(u, Wizard!With(u, a), None)
  <2>1. LimitOf(draft[u].scope) > 1 => a \notin draft[u].actions /\ Cardinality(draft[u].actions) < LimitOf(draft[u].scope)
    BY <1>2, <1>6, WizardNumber DEF Wizard!Accepts
  <2> QED
    BY <1>1, <1>6, <2>1, WithFits, DraftChangeKeeps
<1>7. CASE a \in draft[u].actions /\ Wizard!Change(u, draft[u].actions, [action |-> a, setting |-> TRUE])
  <2> DEFINE i == [action |-> a, setting |-> TRUE]
  <2>1. i \in [action : Actions, setting : BOOLEAN] /\ i.action = a /\ i.setting
    OBVIOUS
  <2>3. Wizard!Change(u, draft[u].actions, i)
    BY <1>7
  <2> HIDE DEF i
  <2> QED
    BY <1>1, <1>2, <1>7, <2>1, <2>3, DraftChangeKeeps
<1>8. CASE Wizard!Change(u, draft[u].actions \ {a}, None)
  <2>1. draft[u].actions \ {a} \in SUBSET Actions
    BY <1>2
  <2>2. Cardinality(draft[u].actions \ {a}) <= LimitOf(draft[u].scope)
    <3>1. /\ Cardinality(draft[u].actions) \in Nat /\ Cardinality(draft[u].actions \ {a}) <= Cardinality(draft[u].actions)
          /\ IsFiniteSet(draft[u].actions \ {a})
      BY <1>2, ActionsCount, FS_Subset
    <3>2. Cardinality(draft[u].actions \ {a}) \in Nat
      BY <3>1, FS_CardinalityType
    <3> QED
      BY <1>2, <3>1, <3>2
  <2> QED
    BY <1>1, <1>8, <2>1, <2>2, DraftChangeKeeps
<1> QED
  BY <1>3, <1>4, <1>5, <1>6, <1>7, <1>8 DEF Wizard!Select, Wizard!Setting, Wizard!Remove

\* An answer, and one of somebody who may no longer configure.
LEMMA AnswersKeep ==
    ASSUME WizardUsual, WizardInv, NEW u \in Wizards, Wizard!Answer(u) \/ Wizard!Reject(u) PROVE WizardInv'
<1>1. CASE Wizard!Clear(u)
  BY <1>1, SessionEndKeeps
<1>2. CASE /\ draft[u] # None /\ draft[u].input # None
           /\ Wizard!Change(u, IF draft[u].input.setting THEN draft[u].actions \cup {draft[u].input.action}
                               ELSE Wizard!With(u, draft[u].input.action), None)
  <2> DEFINE a == draft[u].input.action
  <2>1. /\ a \in Actions /\ draft[u].actions \in SUBSET Actions /\ DraftFits(draft[u])
    BY <1>2, SessionIs
  <2>2. CASE draft[u].input.setting
    <3>1. draft[u].actions \cup {a} = draft[u].actions /\ Cardinality(draft[u].actions) <= LimitOf(draft[u].scope)
      BY <1>2, <2>1, <2>2 DEF DraftFits
    <3> QED
      BY <1>2, <2>1, <2>2, <3>1, DraftChangeKeeps
  <2>3. CASE ~draft[u].input.setting
    <3>1. LimitOf(draft[u].scope) > 1 => a \notin draft[u].actions /\ Cardinality(draft[u].actions) < LimitOf(draft[u].scope)
      BY <1>2, <2>1, <2>3 DEF DraftFits
    <3>2. Wizard!Change(u, Wizard!With(u, a), None)
      BY <1>2, <2>3
    <3> HIDE DEF a
    <3> QED
      BY <1>2, <2>1, <3>1, <3>2, WithFits, DraftChangeKeeps
  <2> QED
    BY <2>2, <2>3
<1> QED
  BY <1>1, <1>2 DEF Wizard!Answer, Wizard!Reject

\* A write at one of its steps.
LEMMA WriteIs ==
    ASSUME WizardInv, NEW k \in Wizards \cup RuleRequests
    PROVE  /\ pending[k].pc \in {"idle", "find", "filter", "settings", "lock"}
           /\ pending[k].pc \in {"find", "filter"} =>
                  /\ pending[k] \in [pc : {"find", "filter"}, id : {None} \cup FilterIds, doc : FilterDocs]
                  /\ pending[k].id \in {None} \cup FilterIds /\ pending[k].doc \in FilterDocs
                  /\ pending[k].doc.chat \in RuleChats /\ pending[k].doc.handler \in Rules
           /\ pending[k].pc = "settings" => pending[k].chat \in RuleChats /\ pending[k].actions \in AtMost(ModelMax)
           /\ pending[k].pc = "lock" => pending[k].chat \in RuleChats /\ pending[k].type \in LockRules
           /\ pending[k].pc # "idle" <=> k \in Wizard!Busy
<1>1. pending[k] \in {Wizard!NoJob} \cup Stores
  BY DEF WizardInv, JobsTyped
<1>2. CASE pending[k] = Wizard!NoJob
  BY <1>2 DEF Wizard!NoJob, Wizard!Busy
<1>3. CASE pending[k] \in [pc : {"find", "filter"}, id : {None} \cup FilterIds, doc : FilterDocs]
  <2>1. pending[k].id \in {None} \cup FilterIds /\ pending[k].doc \in FilterDocs /\ pending[k].pc \in {"find", "filter"}
    BY <1>3
  <2>2. pending[k].doc.chat \in RuleChats /\ pending[k].doc.handler \in Rules
    BY <2>1 DEF FilterDocs
  <2> QED
    BY <1>3, <2>1, <2>2 DEF Wizard!Busy
<1>4. CASE pending[k] \in [pc : {"settings"}, chat : RuleChats, actions : AtMost(ModelMax)]
  BY <1>4 DEF Wizard!Busy
<1>5. CASE pending[k] \in [pc : {"lock"}, chat : RuleChats, type : LockRules]
  BY <1>5 DEF Wizard!Busy
<1> QED
  BY <1>1, <1>2, <1>3, <1>4, <1>5 DEF Stores

\* The filter a write is about is still there, or the write is given up.
LEMMA WizardFindsKeep ==
    ASSUME WizardUsual, WizardInv, NEW u \in Wizards, Wizard!Find(u) PROVE WizardInv'
<1> DEFINE j == IF pending[u].id \in Wizard!Used THEN [pending[u] EXCEPT !.pc = "filter"] ELSE Wizard!NoJob
<1>1. /\ pending[u].pc = "find" /\ pending' = [pending EXCEPT ![u] = j]
      /\ UNCHANGED <<filters, deleted, presets, ruled, configured, draft, drafts, stores, prompted, rivals>>
  BY DEF Wizard!Find, WizardInv, JobsTyped
<1>2. /\ pending[u] \in [pc : {"find", "filter"}, id : {None} \cup FilterIds, doc : FilterDocs]
      /\ u \in Wizard!Busy
  BY <1>1, WriteIs
<1>3. /\ j \in {Wizard!NoJob} \cup Stores
      /\ j.pc # "idle" => j.pc = "filter" /\ j.id = pending[u].id /\ j.doc = pending[u].doc /\ j.id \in Wizard!Used
  BY <1>2 DEF Stores, Wizard!NoJob
<1> HIDE DEF j
<1>6. PICK q \in {Wizard!NoJob} \cup Stores : q = j
  BY <1>3
<1>4. RulesTyped' /\ DraftsHold' /\ JobsTyped'
  BY <1>1, <1>3 DEF WizardInv, RulesTyped, DraftsHold, JobsTyped
<1>5. RulesApart'
  <2> SUFFICES ASSUME ~rivals' PROVE RulesApart'
    BY DEF RulesApart
  <2>1. ~rivals /\ Stands(pending[u]) /\ OneEach /\ (\A w \in Wizards : Edits(draft[w]))
        /\ \A k, l \in Wizard!Busy : k = l
    BY <1>1, <1>2 DEF WizardInv, RulesApart
  <2>2. pending'[u] = j /\ \A k \in Wizards \cup RuleRequests : k # u => pending'[k] = pending[k]
    BY <1>1 DEF WizardInv, JobsTyped
  <2>3. Wizard!Busy' \subseteq {u}
    BY <1>2, <2>1, <2>2 DEF Wizard!Busy
  <2>4. q.pc # "idle" => Stands(q)
    BY <1>1, <1>3, <1>6, <2>1 DEF Stands
  <2>5. \A k \in Wizard!Busy' : Stands(pending[k])'
    <3>1. \A k \in Wizard!Busy' : pending'[k] = q /\ q.pc # "idle"
      BY <1>6, <2>2, <2>3 DEF Wizard!Busy
    <3>2. q.pc # "idle" => Stands(q)'
      BY <1>1, <2>4, WizardSame
    <3> QED
      BY <3>1, <3>2 DEF Stands
  <2>6. \A w \in Wizards : Edits(draft[w])'
    BY <1>1, <2>1 DEF Edits, Wizard!Used
  <2> QED
    BY <1>1, <2>1, <2>3, <2>5, <2>6, WizardSame DEF RulesApart
<1> QED
  BY <1>4, <1>5 DEF WizardInv

\* The end of a write: whoever wrote has no session, and nobody else writes
\* unless requests overlapped.
LEMMA WizardEndKeeps ==
    ASSUME WizardUsual, WizardInv, NEW k \in Wizards \cup RuleRequests, pending[k].pc # "idle", Wizard!End(k),
           UNCHANGED <<drafts, rivals>>
    PROVE  /\ DraftsHold' /\ JobsTyped'
           /\ ~rivals => Wizard!Busy' = {}
           /\ \A u \in Wizards : draft'[u] \in {None, draft[u]}
<1>1. /\ draft' \in [Wizards -> {None} \cup WizardDrafts] /\ prompted' \in [Wizards -> {None} \cup (Nat \X Actions)]
      /\ \A u \in Wizards : draft'[u] # None => draft'[u] = draft[u] /\ prompted'[u] = prompted[u]
      /\ \A u \in Wizards : draft'[u] \in {None, draft[u]}
  BY DEF WizardInv, DraftsHold, Wizard!End
<1>2. DraftsHold'
  BY <1>1 DEF WizardInv, DraftsHold
<1>3. JobsTyped'
  BY DEF WizardInv, JobsTyped, Wizard!End
<1>4. ASSUME ~rivals PROVE Wizard!Busy' = {}
  <2>1. \A l \in Wizard!Busy : l = k
    BY <1>4, WriteIs DEF WizardInv, RulesApart
  <2> QED
    BY <2>1 DEF Wizard!Busy, Wizard!End, Wizard!NoJob, WizardInv, JobsTyped
<1> QED
  BY <1>1, <1>2, <1>3, <1>4

\* The settings of warnings or floods are stored.
LEMMA SaveSettingsKeeps ==
    ASSUME WizardUsual, WizardInv, NEW u \in Wizards, Wizard!SaveSettings(u) PROVE WizardInv'
<1>1. /\ pending[u].pc = "settings" /\ presets' = [presets EXCEPT ![pending[u].chat] = pending[u].actions]
      /\ UNCHANGED <<filters, deleted, ruled, configured, drafts, rivals, stores>> /\ Wizard!End(u)
  BY DEF Wizard!SaveSettings
<1>2. DraftsHold' /\ JobsTyped' /\ (~rivals => Wizard!Busy' = {}) /\ \A l \in Wizards : draft'[l] \in {None, draft[l]}
  BY <1>1, WizardEndKeeps
<1>3. pending[u].chat \in RuleChats /\ pending[u].actions \in AtMost(ModelMax)
  BY <1>1, WriteIs
<1>4. RulesTyped'
  BY <1>1, <1>3 DEF WizardInv, RulesTyped
<1>5. RulesApart'
  <2> SUFFICES ASSUME ~rivals' PROVE RulesApart'
    BY DEF RulesApart
  <2>1. OneEach' /\ \A w \in Wizards : Edits(draft[w])
    BY <1>1, WizardSame DEF WizardInv, RulesApart
  <2>2. \A w \in Wizards : Edits(draft[w])'
    BY <1>1, <1>2, <2>1 DEF Edits, Wizard!Used
  <2> QED
    BY <1>1, <1>2, <2>1, <2>2 DEF RulesApart
<1> QED
  BY <1>2, <1>4, <1>5 DEF WizardInv

\* Fewer filters, and one more.
LEMMA FiltersCount ==
    ASSUME WizardUsual, NEW s \in SUBSET FilterIds, NEW t \in SUBSET s, NEW i \in FilterIds
    PROVE  /\ Cardinality(s) \in Nat /\ Cardinality(t) <= Cardinality(s) /\ Cardinality(t) \in Nat
           /\ Cardinality(s \cup {i}) <= Cardinality(s) + 1 /\ Cardinality(s \cup {i}) \in Nat
<1>1. IsFiniteSet(s) /\ IsFiniteSet(t) /\ Cardinality(t) <= Cardinality(s)
  BY FS_Subset DEF WizardUsual
<1>2. IsFiniteSet(s \cup {i}) /\ Cardinality(s \cup {i}) = IF i \in s THEN Cardinality(s) ELSE Cardinality(s) + 1
  BY <1>1, FS_AddElement
<1>3. Cardinality(s) \in Nat /\ Cardinality(t) \in Nat /\ Cardinality(s \cup {i}) \in Nat
  BY <1>1, <1>2, FS_CardinalityType
<1> QED
  BY <1>1, <1>2, <1>3

\* Filters that are gone break no rule, whatever else is stored or locked.
LEMMA FewerFilters ==
    ASSUME WizardUsual, RulesTyped, OneEach, deleted' \cap Wizard!Used' = {},
           \A c \in RuleChats : \A h \in Rules :
               /\ Wizard!Same(c, h)' \subseteq Wizard!Same(c, h)
               /\ h \in ruled'[c] => h \in ruled[c] \/ Wizard!Same(c, h)' = {},
           \A c \in RuleChats : Wizard!AIFilters(c)' \subseteq Wizard!AIFilters(c)
    PROVE  OneEach'
<1>1. ASSUME NEW c \in RuleChats PROVE Cardinality(Wizard!AIFilters(c)') <= AiLimit
  <2>1. Wizard!AIFilters(c) \in SUBSET FilterIds
    BY DEF Wizard!AIFilters, Wizard!Used
  <2>2. /\ Cardinality(Wizard!AIFilters(c)) \in Nat /\ Cardinality(Wizard!AIFilters(c)') \in Nat
        /\ Cardinality(Wizard!AIFilters(c)') <= Cardinality(Wizard!AIFilters(c))
    <3>1. Wizard!AIFilters(c)' \in SUBSET Wizard!AIFilters(c)
      OBVIOUS
    <3>2. IsFiniteSet(Wizard!AIFilters(c)) /\ IsFiniteSet(Wizard!AIFilters(c)')
      BY <2>1, <3>1, FS_Subset DEF WizardUsual
    <3> QED
      BY <3>1, <3>2, FS_Subset, FS_CardinalityType
  <2> QED
    BY <2>2 DEF OneEach, WizardUsual
<1>2. \A c \in RuleChats : Cardinality(Wizard!AIFilters(c))' <= AiLimit
  BY <1>1
<1>3. ASSUME NEW c \in RuleChats, NEW h \in Rules
      PROVE  /\ \A i, l \in Wizard!Same(c, h)' : i = l
             /\ h \in ruled'[c] => Wizard!Same(c, h)' = {}
  BY DEF OneEach
<1> QED
  BY <1>2, <1>3 DEF OneEach

\* A filter is stored that stands on what was checked.
LEMMA SavedApart ==
    ASSUME WizardUsual, RulesTyped, OneEach, NEW j \in Stores, j.pc = "filter", Stands(j), NEW i \in FilterIds,
           IF j.id = None THEN i \notin Wizard!Used \cup deleted ELSE i = j.id,
           filters' = [filters EXCEPT ![i] = j.doc], UNCHANGED <<deleted, ruled>>
    PROVE  OneEach'
<1> DEFINE c == j.doc.chat
           h == j.doc.handler
<1>1. /\ j.doc \in FilterDocs /\ c \in RuleChats /\ h \in Rules /\ j.doc # None
      /\ filters \in [FilterIds -> {None} \cup FilterDocs]
  <2>1. j \in [pc : {"find", "filter"}, id : {None} \cup FilterIds, doc : FilterDocs]
    BY DEF Stores
  <2>2. j.doc \in FilterDocs
    BY <2>1
  <2> QED
    BY <2>2 DEF FilterDocs, WizardUsual, RulesTyped
<1>2. /\ Wizard!Used' = Wizard!Used \cup {i} /\ filters'[i] = j.doc
      /\ \A l \in FilterIds \ {i} : filters'[l] = filters[l]
  BY <1>1 DEF Wizard!Used
<1>3. /\ h \in LockRules => h \notin ruled[c]
      /\ Wizard!Same(c, h) \subseteq {i}
      /\ i \in Wizard!Used => i = j.id /\ filters[i].chat = c
      /\ i \notin Wizard!Used => j.id \notin Wizard!Used /\ i \notin deleted
      /\ h \in Prompts => Wizard!Room(c, j.id)
  <2>1. None \notin Wizard!Used /\ None \notin FilterIds
    BY DEF WizardUsual, Wizard!Used
  <2>2. Wizard!Same(c, h) \subseteq FilterIds
    BY DEF Wizard!Same, Wizard!Used
  <2> QED
    BY <2>1, <2>2 DEF Stands
<1> HIDE DEF c, h
<1>4. deleted' \cap Wizard!Used' = {}
  BY <1>2, <1>3 DEF OneEach
<1>5. ASSUME NEW d \in RuleChats, NEW g \in Rules
      PROVE  /\ \A k, l \in Wizard!Same(d, g)' : k = l
             /\ g \in ruled[d] => Wizard!Same(d, g)' = {}
  <2>1. CASE d = c /\ g = h
    <3>1. Wizard!Same(d, g)' \subseteq {i}
      BY <1>2, <1>3, <2>1 DEF Wizard!Same
    <3>2. g \notin ruled[d]
      BY <1>1, <1>3, <2>1 DEF RulesTyped
    <3> QED
      BY <3>1, <3>2
  <2>2. CASE ~(d = c /\ g = h)
    <3>1. Wizard!Same(d, g)' \subseteq Wizard!Same(d, g)
      BY <1>2, <2>2 DEF Wizard!Same, Wizard!Used, c, h
    <3> QED
      BY <3>1 DEF OneEach
  <2> QED
    BY <2>1, <2>2
<1>6. ASSUME NEW d \in RuleChats PROVE Cardinality(Wizard!AIFilters(d)') <= AiLimit
  <2>0. /\ Wizard!AIFilters(d) \in SUBSET FilterIds /\ Cardinality(Wizard!AIFilters(d)) <= AiLimit
        /\ Wizard!AIFilters(d)' \in SUBSET FilterIds
    BY <1>2 DEF OneEach, Wizard!AIFilters, Wizard!Used
  <2>1. CASE Wizard!AIFilters(d)' \subseteq Wizard!AIFilters(d)
    <3>1. Wizard!AIFilters(d)' \in SUBSET Wizard!AIFilters(d)
      BY <2>1
    <3>2. /\ Cardinality(Wizard!AIFilters(d)) \in Nat /\ Cardinality(Wizard!AIFilters(d)') \in Nat
          /\ Cardinality(Wizard!AIFilters(d)') <= Cardinality(Wizard!AIFilters(d))
      BY <2>0, <3>1, FiltersCount
    <3> QED
      BY <2>0, <3>2 DEF WizardUsual
  <2>2. CASE Wizard!AIFilters(d)' \subseteq Wizard!AIFilters(d) \cup {i} /\ Cardinality(Wizard!AIFilters(d)) < AiLimit
    <3>1. /\ Cardinality(Wizard!AIFilters(d)) \in Nat
          /\ Cardinality(Wizard!AIFilters(d) \cup {i}) <= Cardinality(Wizard!AIFilters(d)) + 1
          /\ Cardinality(Wizard!AIFilters(d) \cup {i}) \in Nat
      BY <2>0, FiltersCount
    <3>2. Wizard!AIFilters(d) \cup {i} \in SUBSET FilterIds /\ Wizard!AIFilters(d)' \in SUBSET (Wizard!AIFilters(d) \cup {i})
      BY <2>0, <2>2
    <3>3. /\ Cardinality(Wizard!AIFilters(d)') <= Cardinality(Wizard!AIFilters(d) \cup {i})
          /\ Cardinality(Wizard!AIFilters(d)') \in Nat
      BY <3>2, FiltersCount
    <3> QED
      BY <2>2, <3>1, <3>3 DEF WizardUsual
  <2>3. d # c => Wizard!AIFilters(d)' \subseteq Wizard!AIFilters(d)
    BY <1>2 DEF Wizard!AIFilters, c
  <2>4. h \notin Prompts => Wizard!AIFilters(d)' \subseteq Wizard!AIFilters(d)
    BY <1>2 DEF Wizard!AIFilters, h
  <2>5. i \in Wizard!AIFilters(c) => Wizard!AIFilters(c)' \subseteq Wizard!AIFilters(c)
    BY <1>2 DEF Wizard!AIFilters
  <2>6. Wizard!AIFilters(d)' \subseteq Wizard!AIFilters(d) \cup {i}
    BY <1>2 DEF Wizard!AIFilters
  <2>7. CASE d = c /\ h \in Prompts /\ i \notin Wizard!AIFilters(c)
    <3>1. ~(j.id \in Wizard!Used /\ filters[j.id].handler \in Prompts)
      BY <1>3, <2>7 DEF Wizard!AIFilters
    <3>2. Cardinality(Wizard!AIFilters(c)) < AiLimit
      BY <1>3, <2>7, <3>1, WizardNumber DEF Wizard!Room
    <3> QED
      BY <2>2, <2>6, <2>7, <3>2
  <2> QED
    BY <2>1, <2>3, <2>4, <2>5, <2>7
<1> QED
  BY <1>4, <1>5, <1>6 DEF OneEach

\* save() of a filter.
LEMMA WizardSavesKeep ==
    ASSUME WizardUsual, WizardInv, NEW k \in Wizards \cup RuleRequests, Wizard!Save(k) PROVE WizardInv'
<1>1. PICK i \in FilterIds : /\ IF pending[k].id = None THEN i \notin Wizard!Used \cup deleted ELSE i = pending[k].id
                             /\ filters' = [filters EXCEPT ![i] = pending[k].doc]
  BY DEF Wizard!Save
<1>2. /\ pending[k].pc = "filter" /\ Wizard!End(k)
      /\ UNCHANGED <<deleted, presets, ruled, configured, drafts, rivals, stores>>
  BY DEF Wizard!Save
<1>3. DraftsHold' /\ JobsTyped' /\ (~rivals => Wizard!Busy' = {}) /\ \A l \in Wizards : draft'[l] \in {None, draft[l]}
  BY <1>2, WizardEndKeeps
<1>4. pending[k].doc \in FilterDocs /\ k \in Wizard!Busy /\ pending[k] \in Stores
  BY <1>2, WriteIs DEF Stores
<1>5. RulesTyped'
  BY <1>1, <1>2, <1>4 DEF WizardInv, RulesTyped
<1>6. ASSUME ~rivals PROVE OneEach'
  <2>1. OneEach /\ Stands(pending[k]) /\ RulesTyped
    BY <1>4, <1>6 DEF WizardInv, RulesApart
  <2>2. PICK j \in Stores : j = pending[k]
    BY <1>4
  <2> QED
    BY <1>1, <1>2, <2>1, <2>2, SavedApart
<1>7. ASSUME ~rivals, NEW w \in Wizards PROVE Edits(draft[w])'
  <2>1. Edits(draft[w]) /\ Stands(pending[k]) /\ draft'[w] \in {None, draft[w]}
    BY <1>3, <1>4, <1>7 DEF WizardInv, RulesApart
  <2>2. /\ Wizard!Used' \subseteq Wizard!Used \cup {i} /\ Wizard!Used \subseteq Wizard!Used'
        /\ i \in Wizard!Used => filters[i].chat = pending[k].doc.chat
        /\ i \notin Wizard!Used => i \notin deleted
        /\ filters'[i] = pending[k].doc /\ \A l \in FilterIds \ {i} : filters'[l] = filters[l]
    BY <1>1, <1>2, <1>4, <2>1 DEF Stands, Wizard!Used, WizardInv, RulesTyped, WizardUsual
  <2>3. Wizard!Used \subseteq FilterIds
    BY DEF Wizard!Used
  <2> QED
    BY <1>2, <2>1, <2>2, <2>3 DEF Edits
<1>8. RulesApart'
  BY <1>2, <1>3, <1>6, <1>7 DEF RulesApart
<1> QED
  BY <1>3, <1>5, <1>8 DEF WizardInv

\* What has one owner is what was checked for it: the bot's and the API's way.
LEMMA ApiStands ==
    ASSUME WizardUsual, RulesTyped, OneEach, NEW c \in RuleChats, NEW h \in Rules, NEW i \in {None} \cup FilterIds,
           \/ Wizard!ApiValid(c, h, i)
           \/ i \in Wizard!Used /\ filters[i].chat = c /\ h = filters[i].handler
    PROVE  /\ h \in LockRules => h \notin ruled[c]
           /\ Wizard!Same(c, h) \subseteq {i}
           /\ h \in Prompts => Wizard!Room(c, i)
<1>1. CASE i \in Wizard!Used /\ filters[i].chat = c /\ h = filters[i].handler
  <2>1. i \in Wizard!Same(c, h)
    BY <1>1 DEF Wizard!Same
  <2> QED
    BY <1>1, <2>1 DEF OneEach, Wizard!Room
<1>2. CASE Wizard!ApiValid(c, h, i)
  BY <1>2 DEF Wizard!ApiValid, OneEach
<1> QED
  BY <1>1, <1>2

\* Requests of the API and of /lock begin.
LEMMA RequestsKeep ==
    ASSUME WizardUsual, WizardInv, NEW r \in RuleRequests,
           \/ \E c \in RuleChats, h \in Rules, a \in ActionPayloads : Wizard!ApiCreate(r, c, h, a)
           \/ \E i \in FilterIds, h \in Rules, a \in ActionPayloads : Wizard!ApiUpdate(r, i, h, a)
           \/ \E c \in RuleChats, t \in LockRules : Wizard!Lock(r, c, t)
    PROVE  WizardInv'
<1>0. /\ None \notin Wizard!Used
      /\ \A a \in ActionPayloads : a \in AtMost(FilterMax) \ {{}}
  <2>1. None \notin Wizard!Used
    BY DEF WizardUsual, Wizard!Used
  <2>2. ASSUME NEW a \in ActionPayloads PROVE a \in AtMost(FilterMax) /\ a # {}
    <3>1. a \subseteq Actions /\ Cardinality(a) \in 1 .. FilterMax
      BY DEF WizardUsual
    <3>2. a # {}
      BY <3>1, FS_EmptySet
    <3> QED
      BY <3>1, <3>2 DEF AtMost, WizardUsual
  <2> QED
    BY <2>1, <2>2
<1>1. ASSUME NEW j \in Stores, Wizard!Begin(r, j), UNCHANGED draft, ~rivals => Stands(j) PROVE WizardInv'
  <2>1. drafts' = drafts /\ prompted' = prompted
    BY <1>1 DEF Wizard!Begin
  <2>2. DraftsHold'
    BY <1>1, <2>1 DEF WizardInv, DraftsHold
  <2>3. \A u \in Wizards : Edits(draft[u]) => Edits(draft'[u])
    BY <1>1
  <2>4. r \in Wizards \cup RuleRequests
    OBVIOUS
  <2> QED
    BY <1>1, <2>2, <2>3, <2>4, WizardBeginKeeps
<1>2. ASSUME NEW c \in RuleChats, NEW h \in Rules, NEW a \in ActionPayloads, Wizard!ApiCreate(r, c, h, a) PROVE WizardInv'
  <2> DEFINE d == [chat |-> c, handler |-> h, actions |-> a]
             j == [pc |-> "filter", id |-> None, doc |-> d]
  <2>1. d \in FilterDocs /\ d.chat = c /\ d.handler = h
    BY <1>0 DEF FilterDocs
  <2> HIDE DEF d
  <2>2. j \in Stores /\ j.pc = "filter" /\ j.id = None /\ j.doc = d
    BY <2>1 DEF Stores
  <2>3. Wizard!Begin(r, j) /\ UNCHANGED draft /\ Wizard!ApiValid(c, h, None)
    BY <1>2 DEF Wizard!ApiCreate, d
  <2> HIDE DEF j
  <2>4. ASSUME ~rivals PROVE Stands(j)
    <3>1. OneEach /\ RulesTyped
      BY <2>4 DEF WizardInv, RulesApart
    <3>2. /\ h \in LockRules => h \notin ruled[c]
          /\ Wizard!Same(c, h) \subseteq {None}
          /\ h \in Prompts => Wizard!Room(c, None)
      BY <2>3, <3>1, ApiStands
    <3> QED
      BY <1>0, <2>1, <2>2, <3>2 DEF Stands
  <2>5. PICK q \in Stores : q = j
    BY <2>2
  <2> QED
    BY <1>1, <2>3, <2>4, <2>5
<1>3. ASSUME NEW i \in FilterIds, NEW h \in Rules, NEW a \in ActionPayloads, Wizard!ApiUpdate(r, i, h, a) PROVE WizardInv'
  <2> DEFINE d == [filters[i] EXCEPT !.handler = h, !.actions = a]
             j == [pc |-> "filter", id |-> i, doc |-> d]
  <2>0. i \in Wizard!Used /\ filters[i] \in FilterDocs /\ filters[i].chat \in RuleChats
    BY <1>3, StoredActions DEF Wizard!ApiUpdate
  <2>1. d \in FilterDocs /\ d.chat = filters[i].chat /\ d.handler = h
    BY <1>0, <2>0 DEF FilterDocs
  <2>3. Wizard!Begin(r, j) /\ UNCHANGED draft
        /\ (h = filters[i].handler \/ Wizard!ApiValid(filters[i].chat, h, i))
    BY <1>3 DEF Wizard!ApiUpdate
  <2> HIDE DEF d
  <2>2. j \in Stores /\ j.pc = "filter" /\ j.id = i /\ j.doc = d
    BY <2>1 DEF Stores
  <2> HIDE DEF j
  <2>4. ASSUME ~rivals PROVE Stands(j)
    <3>1. OneEach /\ RulesTyped
      BY <2>4 DEF WizardInv, RulesApart
    <3>2. /\ h \in LockRules => h \notin ruled[filters[i].chat]
          /\ Wizard!Same(filters[i].chat, h) \subseteq {i}
          /\ h \in Prompts => Wizard!Room(filters[i].chat, i)
      <4>1. PICK c \in RuleChats : c = filters[i].chat
        BY <2>0
      <4> QED
        BY <2>0, <2>3, <3>1, <4>1, ApiStands
    <3> QED
      BY <2>0, <2>1, <2>2, <3>2 DEF Stands
  <2>5. PICK q \in Stores : q = j
    BY <2>2
  <2> QED
    BY <1>1, <2>3, <2>4, <2>5
<1>4. ASSUME NEW c \in RuleChats, NEW t \in LockRules, Wizard!Lock(r, c, t) PROVE WizardInv'
  <2> DEFINE j == [pc |-> "lock", chat |-> c, type |-> t]
  <2>1. j \in Stores /\ Stands(j) /\ Wizard!Begin(r, j) /\ UNCHANGED draft
    BY <1>4 DEF Stores, Stands, Wizard!Lock
  <2> HIDE DEF j
  <2> QED
    BY <1>1, <2>1
<1> QED
  BY <1>2, <1>3, <1>4

\* A filter is deleted.
LEMMA DeletesKeep ==
    ASSUME WizardUsual, WizardInv, NEW i \in FilterIds, Wizard!Delete(i) PROVE WizardInv'
<1>1. /\ i \in Wizard!Used /\ filters' = [filters EXCEPT ![i] = None] /\ deleted' = {i} \cup deleted
      /\ stores' = stores + 1 /\ stores < MaxWrites /\ rivals' = (rivals \/ Wizard!Busy # {})
      /\ UNCHANGED <<presets, ruled, configured, draft, drafts, pending, prompted>>
  BY DEF Wizard!Delete
<1>2. RulesTyped'
  BY <1>1 DEF WizardInv, RulesTyped, WizardUsual
<1>3. DraftsHold' /\ JobsTyped'
  BY <1>1 DEF WizardInv, DraftsHold, JobsTyped
<1>4. RulesApart'
  <2> SUFFICES ASSUME ~rivals' PROVE RulesApart'
    BY DEF RulesApart
  <2>1. ~rivals /\ Wizard!Busy = {} /\ Wizard!Busy' = {} /\ OneEach /\ RulesTyped /\ \A u \in Wizards : Edits(draft[u])
    BY <1>1 DEF Wizard!Busy, WizardInv, RulesApart
  <2>2. Wizard!Used' = Wizard!Used \ {i} /\ \A l \in FilterIds \ {i} : filters'[l] = filters[l]
    BY <1>1, <2>1 DEF Wizard!Used, RulesTyped
  <2>3. /\ \A c \in RuleChats : \A h \in Rules : Wizard!Same(c, h)' \subseteq Wizard!Same(c, h)
        /\ \A c \in RuleChats : Wizard!AIFilters(c)' \subseteq Wizard!AIFilters(c)
    BY <2>2 DEF Wizard!Same, Wizard!AIFilters, Wizard!Used
  <2>4. OneEach'
    <3>1. deleted' \cap Wizard!Used' = {}
      BY <1>1, <2>1, <2>2 DEF OneEach
    <3> QED
      BY <1>1, <2>1, <2>3, <3>1, FewerFilters
  <2>5. \A u \in Wizards : Edits(draft[u])'
    BY <1>1, <2>1, <2>2 DEF Edits, Wizard!Used
  <2> QED
    BY <2>1, <2>4, <2>5 DEF RulesApart
<1> QED
  BY <1>2, <1>3, <1>4 DEF WizardInv

\* A lock type is locked.
LEMMA SaveLocksKeep ==
    ASSUME WizardUsual, WizardInv, NEW r \in RuleRequests, Wizard!SaveLock(r) PROVE WizardInv'
<1>1. /\ pending[r].pc = "lock"
      /\ ruled' = [ruled EXCEPT ![pending[r].chat] = @ \cup {pending[r].type}]
      /\ pending' = [pending EXCEPT ![r] = Wizard!NoJob]
      /\ UNCHANGED <<filters, deleted, presets, configured, draft, drafts, prompted, rivals, stores>>
  BY DEF Wizard!SaveLock
<1>2. pending[r].chat \in RuleChats /\ pending[r].type \in LockRules /\ r \in Wizard!Busy
  BY <1>1, WriteIs
<1>3. RulesTyped' /\ DraftsHold' /\ JobsTyped'
  BY <1>1, <1>2 DEF WizardInv, RulesTyped, DraftsHold, JobsTyped
<1>4. RulesApart'
  <2> SUFFICES ASSUME ~rivals' PROVE RulesApart'
    BY DEF RulesApart
  <2>1. ~rivals /\ OneEach /\ RulesTyped /\ Stands(pending[r]) /\ (\A u \in Wizards : Edits(draft[u]))
        /\ \A k, l \in Wizard!Busy : k = l
    BY <1>1, <1>2 DEF WizardInv, RulesApart
  <2>2. Wizard!Busy' = {}
    BY <1>1, <1>2, <2>1 DEF Wizard!Busy, Wizard!NoJob, WizardInv, JobsTyped
  <2>3. /\ Wizard!Used' = Wizard!Used
        /\ \A c \in RuleChats : \A h \in Rules : Wizard!Same(c, h)' = Wizard!Same(c, h)
        /\ \A c \in RuleChats : Wizard!AIFilters(c)' = Wizard!AIFilters(c)
    BY <1>1 DEF Wizard!Same, Wizard!AIFilters, Wizard!Used
  <2>4. \A c \in RuleChats : \A h \in Rules : h \in ruled'[c] => h \in ruled[c] \/ Wizard!Same(c, h)' = {}
    BY <1>1, <1>2, <2>1, <2>3 DEF Stands, RulesTyped, OneEach
  <2>5. OneEach'
    <3>1. deleted' \cap Wizard!Used' = {}
      BY <1>1, <2>1, <2>3 DEF OneEach
    <3> QED
      BY <2>1, <2>3, <2>4, <3>1, FewerFilters
  <2>6. \A u \in Wizards : Edits(draft[u])'
    BY <1>1, <2>1, <2>3 DEF Edits
  <2> QED
    BY <2>2, <2>5, <2>6 DEF RulesApart
<1> QED
  BY <1>3, <1>4 DEF WizardInv

\* The invariant of ActionWizard holds after every step.
LEMMA WizardNextPreserves ==
    ASSUME WizardUsual, WizardInv, [Wizard!Next]_(Wizard!vars) PROVE WizardInv'
<1>1. CASE UNCHANGED Wizard!vars
  <2>1. /\ UNCHANGED <<filters, deleted, presets, ruled, configured, draft, drafts, stores, pending, prompted, rivals>>
    BY <1>1 DEF Wizard!vars
  <2>2. RulesTyped' /\ DraftsHold' /\ JobsTyped'
    BY <2>1 DEF WizardInv, RulesTyped, DraftsHold, JobsTyped
  <2>3. Wizard!Busy' = Wizard!Busy
    BY <2>1 DEF Wizard!Busy
  <2>4. RulesApart'
    BY <2>1, <2>3, WizardSame DEF WizardInv, RulesApart
  <2> QED
    BY <2>2, <2>4 DEF WizardInv
<1>2. ASSUME NEW u \in Wizards, Wizard!Expire(u) PROVE WizardInv'
  BY <1>2, AlertKeeps DEF Wizard!Expire, Wizard!Active
<1>3. ASSUME NEW u \in Wizards, NEW s \in 1 .. drafts, Wizard!Show(u, s) \/ Wizard!Cancel(u, s) PROVE WizardInv'
  <2>1. draft[u] # None
    BY <1>3 DEF Wizard!Show, Wizard!Cancel, Wizard!Live, Wizard!Active
  <2> QED
    BY <1>3, <2>1, SameActionsKeep, SessionEndKeeps DEF Wizard!Show, Wizard!Cancel
<1>4. ASSUME NEW u \in Wizards, NEW s \in 1 .. drafts, NEW a \in Actions,
             Wizard!Select(u, s, a) \/ Wizard!Setting(u, s, a) \/ Wizard!Remove(u, s, a)
      PROVE  WizardInv'
  BY <1>4, ButtonsKeep
<1>5. ASSUME NEW u \in Wizards, \/ \E h \in Rules : Wizard!New(u, h)
                                \/ \E i \in FilterIds : Wizard!Edit(u, i)
                                \/ Wizard!Open(u) \/ Wizard!Answer(u) \/ Wizard!Reject(u) \/ Wizard!Find(u)
                                \/ Wizard!SaveSettings(u)
                                \/ \E c \in RuleChats : Wizard!Connect(u, c)
                                \/ \E s \in 1 .. drafts : Wizard!Done(u, s)
      PROVE  WizardInv'
  BY <1>5, NewEditKeep, OpenKeeps, AnswersKeep, WizardFindsKeep, SaveSettingsKeeps, ChatChangeKeeps, WizardDoneKeeps
<1>6. ASSUME NEW k \in Wizards \cup RuleRequests, Wizard!Save(k) PROVE WizardInv'
  BY <1>6, WizardSavesKeep
<1>7. ASSUME NEW r \in RuleRequests,
             \/ \E c \in RuleChats, h \in Rules, a \in ActionPayloads : Wizard!ApiCreate(r, c, h, a)
             \/ \E i \in FilterIds, h \in Rules, a \in ActionPayloads : Wizard!ApiUpdate(r, i, h, a)
             \/ \E c \in RuleChats, t \in LockRules : Wizard!Lock(r, c, t)
      PROVE  WizardInv'
  BY <1>7, RequestsKeep
<1>8. ASSUME NEW r \in RuleRequests, Wizard!SaveLock(r) PROVE WizardInv'
  BY <1>8, SaveLocksKeep
<1>9. ASSUME NEW i \in FilterIds, Wizard!Delete(i) PROVE WizardInv'
  BY <1>9, DeletesKeep
<1>10. CASE Wizard!Next
  BY <1>2, <1>3, <1>4, <1>5, <1>6, <1>7, <1>8, <1>9, <1>10 DEF Wizard!Next
<1> QED
  BY <1>1, <1>10

\* The invariant implies what is checked of ActionWizard.
LEMMA WizardInvImplies ==
    ASSUME WizardUsual, WizardInv PROVE Wizard!WizardHolds /\ Wizard!TypeOK
<1>1. Wizard!WithinLimits
  BY StoredActions, WizardNumber DEF Wizard!WithinLimits
<1>2. Wizard!OneOwner
  <2> SUFFICES ASSUME ~rivals
               PROVE  /\ \A c \in RuleChats :
                             /\ \A h \in Rules : Wizard!Cardinality(Wizard!Same(c, h)) + (IF h \in ruled[c] THEN 1 ELSE 0) <= 1
                             /\ Wizard!Cardinality(Wizard!AIFilters(c)) <= AiLimit
                      /\ deleted \cap Wizard!Used = {}
    BY DEF Wizard!OneOwner
  <2>1. OneEach
    BY DEF WizardInv, RulesApart
  <2>2. ASSUME NEW c \in RuleChats, NEW h \in Rules
        PROVE  Wizard!Cardinality(Wizard!Same(c, h)) + (IF h \in ruled[c] THEN 1 ELSE 0) <= 1
    <3>1. CASE Wizard!Same(c, h) = {}
      BY <3>1, WizardNumber, FS_EmptySet
    <3>2. CASE Wizard!Same(c, h) # {}
      <4>1. PICK i : i \in Wizard!Same(c, h)
        BY <3>2
      <4>2. Wizard!Same(c, h) = {i} /\ h \notin ruled[c]
        BY <2>1, <3>2, <4>1 DEF OneEach
      <4>3. Cardinality({i}) = 1
        BY FS_Singleton
      <4> QED
        BY <4>2, <4>3, WizardNumber
    <3> QED
      BY <3>1, <3>2
  <2> QED
    BY <2>1, <2>2, WizardNumber DEF OneEach
<1>3. Wizard!InputAsked
  BY DEF WizardInv, DraftsHold, Wizard!InputAsked
<1>4. Wizard!TypeOK
  <2>1. \A i \in Wizard!Used : filters[i].chat \in RuleChats /\ filters[i].handler \in Rules
    BY StoredActions
  <2>2. presets \in [RuleChats -> SUBSET Actions]
    BY DEF WizardInv, RulesTyped, AtMost
  <2>3. \A u \in Wizards : draft[u] # None => draft[u].id \in 1 .. drafts /\ draft[u].actions \subseteq Actions
    BY SessionIs
  <2>4. \A k \in Wizards \cup RuleRequests : pending[k].pc \in {"idle", "find", "filter", "settings", "lock"}
    BY WriteIs
  <2> QED
    BY <2>1, <2>2, <2>3, <2>4 DEF Wizard!TypeOK, WizardInv, RulesTyped
<1> QED
  BY <1>1, <1>2, <1>3, <1>4 DEF Wizard!WizardHolds

\* What drafts and writes rely on is an invariant.
THEOREM WizardInvariance ==
    ASSUME WizardUsual PROVE Wizard!Spec => []WizardInv
<1>1. Wizard!Init => WizardInv
  BY WizardBegins
<1>2. WizardInv /\ [Wizard!Next]_(Wizard!vars) => WizardInv'
  BY WizardNextPreserves
<1> QED
  BY <1>1, <1>2, PTL DEF Wizard!Spec

\* What is stored is within the limits, a handler has one owner while requests
\* do not overlap, and an answer goes to the prompt shown last: for any number
\* of administrators, requests and chats.
THEOREM WizardHoldsAlways ==
    ASSUME WizardUsual PROVE Wizard!Spec => []Wizard!WizardHolds
<1>1. WizardInv => Wizard!WizardHolds
  BY WizardInvImplies
<1> QED
  BY <1>1, WizardInvariance, PTL
=============================================================================
