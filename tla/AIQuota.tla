------------------------------ MODULE AIQuota ------------------------------
(***************************************************************************)
(* The AI credits of a chat (modules/ai): the quota document of the chat,  *)
(* which starts anew every month, and the usage document that breaks the   *)
(* credits down.  Both are read, changed and saved whole by requests that  *)
(* interleave, and created by whoever misses them: neither has an index    *)
(* that makes the chat unique.                                             *)
(***************************************************************************)
EXTENDS Integers, Sequences

CONSTANTS
    Jobs,       \* requests, each of one of the Kinds
    None,
    Default,    \* AI_DEFAULT_MONTHLY_CREDITS
    Limits,     \* what operators set
    Boosts,     \* get_entertainment_boost_credits
    MaxMonth    \* bound on the months

VARIABLES
    quotas,     \* the AIQuotaModel documents of the chat, oldest first
    usages,     \* the AIUsageModel documents: credits of every month
    month,
    job,
    charged,    \* history: the credits charged this month, since the last reset of the first document
    spent,      \* history: the credits charged this month
    notices,    \* history: exhaustion notices this month, since the last reset
    undone,     \* history: a document read before a reset may be saved after it
    alone       \* history: requests one after the other, none across a month or broken off

vars == <<quotas, usages, month, job, charged, spent, notices, undone, alone>>

history == <<charged, spent, notices, undone, alone>>

\* consume_quota, reset_period_usage, set_monthly_quota and AIQuotaFilter.
Kinds == {"charge", "reset", "limit", "filter"}

\* used_credits, monthly_credits and exhausted_notified_period_start (0 if unset).
Quota == [month |-> month, used |-> 0, limit |-> None, notified |-> 0]

NoJob == [pc |-> "new", kind |-> None, at |-> 0, doc |-> None]

TypeOK ==
    /\ \A i \in DOMAIN quotas :
        /\ quotas[i].month \in 1 .. month /\ quotas[i].notified \in 0 .. month
        /\ quotas[i].used \in Nat /\ quotas[i].limit \in Limits \cup {None}
    /\ usages \in Seq([1 .. MaxMonth -> Nat])
    /\ month \in 1 .. MaxMonth
    /\ \A j \in Jobs :
        /\ job[j].kind \in Kinds \cup {"info", "warn", None}
        /\ job[j].pc \in {"new", "find", "again", "insert", "roll", "use", "record", "count", "notify", "done"}
    /\ charged \in Nat /\ spent \in Nat /\ notices \in Nat
    /\ undone \in BOOLEAN /\ alone \in BOOLEAN

Init ==
    /\ quotas = <<>> /\ usages = <<>>
    /\ month = 1
    /\ job = [j \in Jobs |-> NoJob]
    /\ charged = 0 /\ spent = 0 /\ notices = 0
    /\ undone = FALSE /\ alone = TRUE

Quiet == \A j \in Jobs : job[j].pc \in {"new", "done"}

At(j, pc) == job' = [job EXCEPT ![j].pc = pc]

Finish(j) == job' = [job EXCEPT ![j] = [NoJob EXCEPT !.pc = "done"]]

---------------------------------------------------------------------------
(* get_or_create_quota_model and _ensure_period *)

Begin(j, kind) ==
    /\ job[j].pc = "new"
    /\ job' = [job EXCEPT ![j].pc = "find", ![j].kind = kind]
    /\ alone' = (alone /\ Quiet)
    /\ UNCHANGED <<quotas, usages, month, charged, spent, notices, undone>>

\* Mutant: what was used last month counts in this one.
FreshUsed(doc) == [doc EXCEPT !.month = month, !.notified = 0]

\* The document of a new period.
Fresh(doc) == [doc EXCEPT !.month = month, !.used = 0, !.notified = 0]

Load(j, i, doc) ==
    job' = [job EXCEPT ![j] = IF doc.month < month
                              THEN [@ EXCEPT !.pc = "roll", !.at = i, !.doc = Fresh(doc)]
                              ELSE [@ EXCEPT !.pc = "use", !.at = i, !.doc = doc]]

Find(j) ==
    /\ job[j].pc \in {"find", "again"}
    /\ IF quotas # <<>> THEN Load(j, 1, quotas[1])
       ELSE At(j, IF job[j].pc = "find" THEN "again" ELSE "insert")
    /\ UNCHANGED <<quotas, usages, month, history>>

Insert(j) ==
    /\ job[j].pc = "insert"
    /\ quotas' = Append(quotas, Quota)
    /\ Load(j, Len(quotas'), Quota)
    /\ UNCHANGED <<usages, month, history>>

Save(j, doc) == quotas' = [quotas EXCEPT ![job[j].at] = doc]

Roll(j) ==
    /\ job[j].pc = "roll"
    /\ Save(j, job[j].doc)
    /\ At(j, "use")
    /\ UNCHANGED <<usages, month, history>>

---------------------------------------------------------------------------
(* What the requests do with it *)

Use(j, kind) == job[j].pc = "use" /\ job[j].kind = kind

\* Every request costs one credit, whatever estimate_model_credit_cost waits for.
Charge(j) ==
    /\ Use(j, "charge")
    /\ Save(j, [job[j].doc EXCEPT !.used = @ + 1])
    /\ LET now == IF job[j].doc.month = month THEN 1 ELSE 0 IN
       charged' = charged + now /\ spent' = spent + now
    /\ At(j, "record")
    /\ UNCHANGED <<usages, month, notices, undone, alone>>

\* record_feature_consumption.
Record(j) ==
    /\ job[j].pc = "record"
    /\ LET new == usages = <<>>
           usage == IF new THEN [m \in 1 .. MaxMonth |-> 0] ELSE usages[1]
       IN job' = [job EXCEPT ![j].pc = "count", ![j].at = IF new THEN 0 ELSE 1,
                             ![j].doc = [use |-> [usage EXCEPT ![month] = @ + 1]]]
    /\ UNCHANGED <<quotas, usages, month, history>>

Count(j) ==
    /\ job[j].pc = "count"
    /\ usages' = IF job[j].at = 0 THEN Append(usages, job[j].doc.use)
                 ELSE [usages EXCEPT ![1] = job[j].doc.use]
    /\ Finish(j)
    /\ UNCHANGED <<quotas, month, history>>

Reset(j) ==
    /\ Use(j, "reset")
    /\ Save(j, Fresh(job[j].doc))
    /\ IF job[j].at = 1 THEN charged' = 0 /\ notices' = 0 ELSE UNCHANGED <<charged, notices>>
    /\ undone' = (undone \/ \E k \in Jobs \ {j} : job[k].pc \in {"roll", "use", "notify"})
    /\ Finish(j)
    /\ UNCHANGED <<usages, month, spent, alone>>

SetLimit(j, limit) ==
    /\ Use(j, "limit")
    /\ Save(j, [job[j].doc EXCEPT !.limit = limit])
    /\ Finish(j)
    /\ UNCHANGED <<usages, month, history>>

\* total_credits: a limit of 0 is none.
Total(doc) == IF doc.limit \in {None, 0} THEN Default ELSE doc.limit

\* check_quota: an exhausted chat is told so, by the chatbot every time (it
\* stores nothing), by the other features once a period.  get_quota_info then
\* reads the document anew.
Filter(j, boost, kind) ==
    /\ Use(j, "filter")
    /\ (job[j].doc.used < Total(job[j].doc) + boost) => kind = "info"
    /\ job' = [job EXCEPT ![j] = [NoJob EXCEPT !.pc = "find", !.kind = kind]]
    /\ UNCHANGED <<quotas, usages, month, history>>

Info(j) ==
    /\ Use(j, "info")
    /\ Finish(j)
    /\ UNCHANGED <<quotas, usages, month, history>>

\* get_for_chat.
Look(j) ==
    /\ Use(j, "warn")
    /\ LET doc == quotas[1]
           period == job[j].doc.month
       IN IF doc.notified = period THEN Finish(j)
          ELSE job' = [job EXCEPT ![j].pc = "notify", ![j].at = 1, ![j].doc = [doc EXCEPT !.notified = period]]
    /\ UNCHANGED <<quotas, usages, month, history>>

Notify(j) ==
    /\ job[j].pc = "notify"
    /\ Save(j, job[j].doc)
    /\ notices' = notices + IF job[j].doc.month = month THEN 1 ELSE 0
    /\ Finish(j)
    /\ UNCHANGED <<usages, month, charged, spent, undone, alone>>

---------------------------------------------------------------------------

NextMonth ==
    /\ month < MaxMonth
    /\ month' = month + 1
    /\ charged' = 0 /\ spent' = 0 /\ notices' = 0
    /\ alone' = (alone /\ Quiet)
    /\ UNCHANGED <<quotas, usages, job, undone>>

\* The request fails, or its process dies.
Die(j) ==
    /\ job[j].pc \notin {"new", "done"}
    /\ Finish(j)
    /\ alone' = FALSE
    /\ UNCHANGED <<quotas, usages, month, charged, spent, notices, undone>>

Next ==
    \/ NextMonth
    \/ \E j \in Jobs :
        \/ \E kind \in Kinds : Begin(j, kind)
        \/ Find(j) \/ Insert(j) \/ Roll(j) \/ Charge(j) \/ Record(j) \/ Count(j) \/ Reset(j)
        \/ \E limit \in Limits : SetLimit(j, limit)
        \/ \E boost \in Boosts, kind \in {"info", "warn"} : Filter(j, boost, kind)
        \/ Info(j) \/ Look(j) \/ Notify(j) \/ Die(j)

Spec == Init /\ [][Next]_vars

---------------------------------------------------------------------------

Used == IF quotas # <<>> /\ quotas[1].month = month THEN quotas[1].used ELSE 0

Recorded == IF usages # <<>> THEN usages[1][month] ELSE 0

\* A chat never pays for more than this month's requests, whatever requests
\* interleave or months pass, unless one of them saves what it read before an
\* operator's reset.  (consume_quota, _ensure_period)
NeverOvercharged == undone \/ Used <= charged

\* Of requests that come one after the other every one is charged and
\* recorded once, and an exhausted chat is told so once a month.
\* (consume_quota, record_feature_consumption, AIQuotaFilter)
ChargedOnce == alone /\ Quiet => Used = charged /\ Recorded = spent /\ notices <= 1

QuotaHolds == NeverOvercharged /\ ChargedOnce
=============================================================================
