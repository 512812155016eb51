----------------------------- MODULE AIRequest -----------------------------
(***************************************************************************)
(* One run of an agent over the models that may serve it (modules/ai): how *)
(* the plan is built from a pinned model and the roles of the catalog, how *)
(* the candidates of the run are chosen from the plan, what modern context *)
(* is admitted for, and the requests of the run, each of which walks the   *)
(* candidates until one answers.                                           *)
(*                                                                         *)
(* External: pydantic-ai's ModelFallback, which asks the predicates of     *)
(* ai_run about every error and response and stays with the model that     *)
(* answered, and RetryModelRequest, which names the next one.              *)
(***************************************************************************)
EXTENDS Integers, Sequences, FiniteSets, SequencesExt

CONSTANTS
    Names,          \* models
    LastResort,     \* AI_FALLBACK_MODEL_NAME
    None,
    MaxRoles,       \* bound on the roles of the catalog
    MaxRequests     \* the limit on the requests of a run

\* The length of the longest chain.
AI_MAX_MODEL_ATTEMPTS == 4

VARIABLES
    roles,      \* resolve_roles: the models of the role, best first
    pin,        \* the model a flag names, or None
    readers,    \* the models that are declared to read images
    images,     \* request_has_images
    kind,       \* "stream", "notify" (run_ai_text with a tool callback) or "plain"
    run,
    sent        \* history: the models the current request was sent to, in order

vars == <<roles, pin, readers, images, kind, run, sent>>

config == <<roles, pin, readers, images, kind>>

---------------------------------------------------------------------------
(* The plan and its candidates *)

\* build_purpose_plan and build_model_plan: the pinned model leads, a model
\* counts where it appears first.
ModelPlan(pinned, chain) == IF pinned = None THEN chain ELSE <<pinned>> \o Remove(chain, pinned)

plan == ModelPlan(pin, roles)

Reads(m) == m \in readers

\* AIModelPlan.eligible.
Eligible(withImages) ==
    LET able == SelectSeq(plan, Reads) IN IF withImages /\ able # <<>> THEN able ELSE plan

\* _closed_chain and _last_resort_candidate.
ClosedChain(candidates) ==
    LET chain == SubSeq(candidates, 1, IF Len(candidates) < AI_MAX_MODEL_ATTEMPTS THEN Len(candidates)
                                       ELSE AI_MAX_MODEL_ATTEMPTS - 1)
    IN  IF Contains(chain, LastResort) THEN chain ELSE Append(chain, LastResort)

\* resolve_candidates: the model of the agent leads, unless the plan has it
\* and the images rule it out.
Candidates(agent, withImages) ==
    LET eligible == Eligible(withImages) IN
    IF Contains(plan, agent) /\ ~Contains(eligible, agent) THEN ClosedChain(eligible)
    ELSE ClosedChain(<<agent>> \o Remove(eligible, agent))

\* Every caller builds its agent with model_plan.primary.
chain == Candidates(plan[1], images)

\* Mutant: the candidates of a turn without images only.
AdmittedText == ToSet(Candidates(plan[1], FALSE))

\* modern_context_candidates: the models whose budgets ModernContext.build gets.
Admitted == UNION {ToSet(Candidates(plan[1], b)) : b \in BOOLEAN}

---------------------------------------------------------------------------

\* What roles there are, up to the names of the models: the last resort may
\* stand anywhere among the others.
RoleLists ==
    LET others == SetToSortSeq(Names \ {LastResort}, <) IN
    UNION {{SubSeq(others, 1, n)} \cup {InsertAt(SubSeq(others, 1, n), k, LastResort) : k \in 1 .. n + 1} :
           n \in 1 .. MaxRoles}

TypeOK ==
    /\ roles \in RoleLists
    /\ pin \in Names \cup {None}
    /\ readers \subseteq Names
    /\ run.pc \in {"prepare", "sent", "streaming", "tools", "done", "failed"}
    /\ run.at \in 1 .. Len(chain)
    /\ run.request \in 1 .. MaxRequests
    /\ run.billed \in {None} \cup ToSet(chain)
    /\ ToSet(sent) \subseteq ToSet(chain)

Init ==
    /\ roles \in RoleLists
    /\ pin \in Names \cup {None}
    /\ images \in BOOLEAN
    /\ readers \in IF images THEN SUBSET ToSet(plan) ELSE {{}}
    /\ kind \in {"stream", "notify", "plain"}
    /\ run = [pc |-> "prepare", at |-> 1, request |-> 1, billed |-> None, blank |-> FALSE]
    /\ sent = <<>>

To(pc) == run' = [run EXCEPT !.pc = pc]

More == run.at < Len(chain)

Try(at) == run' = [run EXCEPT !.pc = "prepare", !.at = at]

\* _ModelRequests.prepare: the projection of modern context may not fit the
\* candidate, RetryModelRequest then names the next one.
Prepare ==
    /\ run.pc = "prepare"
    /\ \/ To("sent") /\ sent' = Append(sent, chain[run.at])
       \/ IF More THEN Try(run.at + 1) /\ UNCHANGED sent ELSE To("failed") /\ UNCHANGED sent
    /\ UNCHANGED config

\* falls_back and _should_try_next_model: neither Sophie's own limit nor the
\* provider's refusal of her account is taken to another model.
Error(cause) ==
    /\ run.pc = "sent"
    /\ IF cause = "provider" /\ More THEN Try(run.at + 1) ELSE To("failed")
    /\ UNCHANGED <<config, sent>>

\* raise_failure: what has begun to stream is not taken back.
BreakOff ==
    /\ run.pc = "streaming"
    /\ To("failed")
    /\ UNCHANGED <<config, sent>>

Stream ==
    /\ run.pc = "sent" /\ kind = "stream"
    /\ To("streaming")
    /\ UNCHANGED <<config, sent>>

Answering == run.pc = (IF kind = "stream" THEN "streaming" ELSE "sent")

\* reject_response: a blank answer goes to the next candidate, if nothing of
\* it was shown.  charge_ai_usage names the model that served the answer.
Answer(blank) ==
    /\ Answering
    /\ IF blank /\ kind = "plain" /\ More THEN Try(run.at + 1)
       ELSE run' = [run EXCEPT !.pc = "done", !.billed = chain[run.at], !.blank = blank]
    /\ UNCHANGED <<config, sent>>

\* A response with tool calls: the run goes on with another request.
CallTools ==
    /\ Answering
    /\ To("tools")
    /\ UNCHANGED <<config, sent>>

\* Sticky: the next request starts where the last one was answered; at the
\* limit of requests the run fails with UsageLimitExceeded.
NextRequest ==
    /\ run.pc = "tools"
    /\ IF run.request = MaxRequests THEN To("failed") /\ UNCHANGED sent
       ELSE run' = [run EXCEPT !.pc = "prepare", !.request = @ + 1] /\ sent' = <<>>
    /\ UNCHANGED config

Finished == run.pc \in {"done", "failed"} /\ UNCHANGED vars

Next ==
    \/ Prepare \/ Stream \/ BreakOff \/ CallTools \/ NextRequest \/ Finished
    \/ \E cause \in {"provider", "configuration", "usage"} : Error(cause)
    \/ \E blank \in BOOLEAN : Answer(blank)

Spec == Init /\ [][Next]_vars

---------------------------------------------------------------------------

\* A request goes to no model twice and to four at most; modern context was
\* admitted for each of them, whatever images the run turns out to carry; and
\* a model that cannot read the images of the run gets them only if no model
\* of the plan can, or as the last resort.  (resolve_candidates,
\* modern_context_candidates, AIModelPlan.eligible)
RightModels ==
    /\ Len(sent) <= AI_MAX_MODEL_ATTEMPTS /\ IsInjective(sent)
    /\ ToSet(sent) \subseteq Admitted
    /\ images => \A m \in ToSet(sent) :
           Reads(m) \/ m = LastResort \/ \A n \in ToSet(plan) : ~Reads(n)
    /\ run.blank /\ kind = "plain" => run.at = Len(chain)
=============================================================================
