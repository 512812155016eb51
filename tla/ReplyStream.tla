---------------------------- MODULE ReplyStream ----------------------------
(***************************************************************************)
(* The message of an AI reply while it is written (modules/ai): the run of *)
(* the agent fills a channel with the parts of its responses, the streamer *)
(* edits a placeholder with them, at most once in a while, and leaves what *)
(* comes too early to a task that edits later.  The answer, a failure or   *)
(* the deletion of the placeholder ends it.                                *)
(*                                                                         *)
(* The reply and the task run on one event loop: they interleave where one *)
(* awaits Telegram.  A task that is cancelled while its edit is under way  *)
(* does not know whether, or when, Telegram applies it.                    *)
(***************************************************************************)
EXTENDS Integers, Sequences, FiniteSets

CONSTANTS
    MaxResponses,   \* bound on the responses of the run
    MaxParts,       \* bound on the parts of a response
    MaxFaults       \* bound on the edits Telegram refuses

VARIABLES
    channel,    \* _StreamChannel: a text is the sequence of the responses its parts are of
    emitted,    \* last_emitted_text
    response,   \* the response under way, and whether it has had text
    streamer,   \* latest_text, last_sent_text, activity_history, _last_sent_rich, final_message_sent
    reply,      \* the coroutine of the reply
    task,       \* _pending_update_task
    shown,      \* the message in Telegram
    ghosts,     \* edits that were cancelled under way
    late,       \* history: Telegram applied one of them
    faults

vars == <<channel, emitted, response, streamer, reply, task, shown, ghosts, late, faults>>

text == <<channel, emitted, response>>

\* A draft: the text and whether activities stand above it.
Draft(t, active) == [kind |-> "draft", text |-> t, active |-> active]

\* The answer, the failure, and no message.
End(kind) == [Draft(<<>>, FALSE) EXCEPT !.kind = kind]

Placeholder == Draft(<<>>, FALSE)

Idle == [pc |-> "none", doc |-> Placeholder]

TypeOK ==
    /\ channel \in Seq(1 .. MaxResponses) /\ emitted \in Seq(1 .. MaxResponses)
    /\ response.number \in 1 .. MaxResponses /\ response.parts \in 0 .. MaxParts
    /\ streamer.active \in BOOLEAN /\ streamer.done \in BOOLEAN
    /\ reply.pc \in {"run", "edit", "answered", "failed", "raised", "deleting", "stuck", "over"}
    /\ task.pc \in {"none", "sleep", "edit", "done", "error"}
    /\ late \in BOOLEAN
    /\ faults \in 0 .. MaxFaults

\* build_message_streamer has sent the placeholder.
Init ==
    /\ channel = <<>> /\ emitted = <<>>
    /\ response = [number |-> 1, parts |-> 0]
    /\ streamer = [latest |-> <<>>, sent |-> <<>>, active |-> FALSE, rich |-> Placeholder, done |-> FALSE]
    /\ reply = [pc |-> "run", doc |-> Placeholder, flush |-> FALSE, then |-> "run"]
    /\ task = Idle
    /\ shown = Placeholder
    /\ ghosts = {}
    /\ late = FALSE
    /\ faults = 0

---------------------------------------------------------------------------
(* What the coroutine of the reply does between two awaits.  s is the      *)
(* streamer, and then the state the reply goes on in.                      *)

\* Mutant: the pending update goes on.
CancelNothing == UNCHANGED <<task, ghosts>>

\* _cancel_pending_update, of a task that has not failed.
Cancel ==
    /\ task' = Idle
    /\ ghosts' = IF task.pc = "edit" THEN ghosts \cup {task.doc} ELSE ghosts

Keep == UNCHANGED <<task, ghosts>>

\* The error of a failed task is raised where it is awaited.
Raise == reply' = [reply EXCEPT !.pc = "raised"] /\ task' = Idle /\ UNCHANGED ghosts

\* _update: what the message shows already is not sent.  A flush takes for
\* sent what is the latest text when its edit is done.
Edit(s, doc, flush, then) ==
    IF doc = s.rich
    THEN /\ streamer' = [s EXCEPT !.sent = IF flush THEN s.latest ELSE doc.text]
         /\ reply' = [reply EXCEPT !.pc = then]
    ELSE /\ streamer' = s
         /\ reply' = [pc |-> "edit", doc |-> doc, flush |-> flush, then |-> then]

\* _refresh_progress.
Refresh(s, then) ==
    IF task.pc = "error" THEN Raise /\ streamer' = s
    ELSE /\ Cancel
         /\ LET draft == IF s.latest # <<>> THEN s.latest ELSE s.sent
            IN  Edit(s, Draft(draft, s.active), FALSE, then)

\* _schedule_pending_update: a task that waits already does for this text too.
Schedule(s, then) ==
    IF task.pc = "error" THEN Raise /\ streamer' = s
    ELSE /\ task' = IF task.pc \in {"sleep", "edit"} THEN task ELSE [Idle EXCEPT !.pc = "sleep"]
         /\ streamer' = s
         /\ reply' = [reply EXCEPT !.pc = then]
         /\ UNCHANGED ghosts

\* ChatbotMessageStreamer.stream.
StreamText(t, throttled, then) ==
    LET s == [streamer EXCEPT !.latest = t, !.active = FALSE] IN
    CASE t = s.sent /\ streamer.active -> Refresh(s, then)
      [] t # s.sent /\ throttled -> Schedule(s, then)
      [] OTHER -> IF task.pc = "error" THEN Raise /\ streamer' = s
                  ELSE Cancel /\ IF t = s.sent THEN streamer' = s /\ reply' = [reply EXCEPT !.pc = then]
                                 ELSE Edit(s, Draft(t, FALSE), TRUE, then)

---------------------------------------------------------------------------
(* The run of the agent *)

\* A part of a response; the first one of a response empties the channel.
Part ==
    IF response.parts = 0 THEN <<response.number>> ELSE Append(channel, response.number)

PartEvent ==
    /\ reply.pc = "run"
    /\ response.parts < MaxParts
    /\ channel' = Part
    /\ response' = [response EXCEPT !.parts = @ + 1]
    /\ \/ /\ emitted' = (IF response.parts = 0 THEN <<>> ELSE emitted)    \* debounced
          /\ UNCHANGED <<streamer, reply>> /\ Keep
       \/ /\ emitted' = channel'
          /\ \E throttled \in BOOLEAN : StreamText(channel', throttled, "run")
    /\ UNCHANGED <<shown, late, faults>>

\* A tool is called: the text is forced out first, then the activity is shown.
\* The next part is of another response.
ForceText ==
    /\ reply.pc = "run" /\ channel # emitted
    /\ emitted' = channel
    /\ \E throttled \in BOOLEAN : StreamText(channel, throttled, "run")
    /\ UNCHANGED <<channel, response, shown, late, faults>>

ToolCall ==
    /\ reply.pc = "run" /\ channel = emitted
    /\ response.number < MaxResponses
    /\ response' = [number |-> response.number + 1, parts |-> 0]
    /\ Refresh([streamer EXCEPT !.active = TRUE], "run")
    /\ UNCHANGED <<channel, emitted, shown, late, faults>>

\* on_retry, reasoning or the progress of a research.
Activity ==
    /\ reply.pc = "run"
    /\ ~streamer.active
    /\ Refresh([streamer EXCEPT !.active = TRUE], "run")
    /\ UNCHANGED <<text, shown, late, faults>>

\* The output replaces the channel and is forced out.
Output ==
    /\ reply.pc = "run"
    /\ channel' = IF response.parts = 0 THEN <<response.number>> ELSE channel
    /\ emitted' = channel'
    /\ IF channel' = emitted THEN reply' = [reply EXCEPT !.pc = "answered"] /\ UNCHANGED streamer /\ Keep
       ELSE \E throttled \in BOOLEAN : StreamText(channel', throttled, "answered")
    /\ UNCHANGED <<response, shown, late, faults>>

\* AIRequestFailed, or an exception nobody handles.
Fail(how) ==
    /\ reply.pc = "run"
    /\ reply' = [reply EXCEPT !.pc = how]
    /\ UNCHANGED <<text, streamer, task, shown, ghosts, late, faults>>

---------------------------------------------------------------------------
(* Telegram answers the edit of the reply, and the end of the reply *)

Land(doc) == shown' = IF shown = End("deleted") THEN shown ELSE doc

Sent(doc, flush) ==
    streamer' = [streamer EXCEPT !.rich = doc,
                                 !.sent = IF flush THEN streamer.latest ELSE doc.text,
                                 !.done = doc = End("final")]

Return(pc) == reply' = [reply EXCEPT !.pc = pc, !.doc = Placeholder, !.flush = FALSE]

EditDone ==
    /\ reply.pc = "edit"
    /\ Land(reply.doc)
    /\ Sent(reply.doc, reply.flush)
    /\ Return(reply.then)
    /\ UNCHANGED <<text, task, ghosts, late, faults>>

EditFails ==
    /\ reply.pc = "edit" /\ faults < MaxFaults
    /\ faults' = faults + 1
    /\ Return("raised")
    /\ UNCHANGED <<text, streamer, task, shown, ghosts, late>>

\* send_final, and _send_chatbot_ai_failure_reply, which stops the streamer.
Finish ==
    /\ reply.pc \in {"answered", "failed"}
    /\ IF task.pc = "error" THEN Raise
       ELSE /\ Cancel
            /\ reply' = [pc |-> "edit", flush |-> FALSE, then |-> "over",
                         doc |-> End(IF reply.pc = "answered" THEN "final" ELSE "failure")]
    /\ UNCHANGED <<text, streamer, shown, late, faults>>

\* chatbot_streaming_session: stop(), whose error is swallowed, and delete_progress().
CleanUp ==
    /\ reply.pc = "raised"
    /\ IF task.pc = "error" THEN task' = Idle /\ UNCHANGED ghosts ELSE Cancel
    /\ reply' = [reply EXCEPT !.pc = IF streamer.done THEN "over" ELSE "deleting"]
    /\ UNCHANGED <<text, streamer, shown, late, faults>>

Delete ==
    /\ reply.pc = "deleting"
    /\ \/ shown' = End("deleted") /\ reply' = [reply EXCEPT !.pc = "over"] /\ UNCHANGED faults
       \/ /\ faults < MaxFaults /\ faults' = faults + 1
          /\ reply' = [reply EXCEPT !.pc = "stuck"] /\ UNCHANGED shown
    /\ UNCHANGED <<text, streamer, task, ghosts, late>>

---------------------------------------------------------------------------
(* _send_pending_after, and edits whose task is gone *)

Wake ==
    /\ task.pc = "sleep"
    /\ LET doc == Draft(streamer.latest, streamer.active) IN
       IF streamer.latest = streamer.sent \/ streamer.latest = <<>> THEN task' = [Idle EXCEPT !.pc = "done"] /\ UNCHANGED streamer
       ELSE IF doc = streamer.rich
       THEN task' = [Idle EXCEPT !.pc = "done"] /\ streamer' = [streamer EXCEPT !.sent = streamer.latest]
       ELSE task' = [pc |-> "edit", doc |-> doc] /\ UNCHANGED streamer
    /\ UNCHANGED <<text, reply, shown, ghosts, late, faults>>

TaskDone ==
    /\ task.pc = "edit"
    /\ Land(task.doc)
    /\ Sent(task.doc, TRUE)
    /\ task' = [Idle EXCEPT !.pc = "done"]
    /\ UNCHANGED <<text, reply, ghosts, late, faults>>

TaskFails ==
    /\ task.pc = "edit" /\ faults < MaxFaults
    /\ faults' = faults + 1
    /\ task' = [Idle EXCEPT !.pc = "error"]
    /\ UNCHANGED <<text, streamer, reply, shown, ghosts, late>>

\* Telegram applies an edit whose task was cancelled, or never will.
GhostLands(doc) ==
    /\ ghosts' = ghosts \ {doc}
    /\ \/ Land(doc) /\ late' = TRUE
       \/ UNCHANGED <<shown, late>>
    /\ UNCHANGED <<text, streamer, reply, task, faults>>

Over == reply.pc \in {"over", "stuck"} /\ UNCHANGED vars

Next ==
    \/ PartEvent \/ ForceText \/ ToolCall \/ Activity \/ Output
    \/ Fail("failed") \/ Fail("raised")
    \/ EditDone \/ EditFails \/ Finish \/ CleanUp \/ Delete
    \/ Wake \/ TaskDone \/ TaskFails
    \/ \E doc \in ghosts : GhostLands(doc)
    \/ Over

Spec == Init /\ [][Next]_vars

---------------------------------------------------------------------------

OneResponse(doc) == \A i, j \in DOMAIN doc.text : doc.text[i] = doc.text[j]

\* No edit of the streamer is left behind the end of a reply.
Settled ==
    reply.pc = "over" =>
        /\ task.pc \notin {"sleep", "edit"}
        /\ shown.kind # "draft" \/ late
        /\ streamer.done /\ ~late => shown = End("final")

\* The message never shows the text of two responses at once, and when the
\* reply is over it shows the answer, the failure or nothing: no deferred
\* edit comes after it, except one that was under way when it was cancelled.
\* (_stream_via_events, ChatbotMessageStreamer, chatbot_streaming_session)
ReplyShown == OneResponse(shown) /\ Settled
=============================================================================
