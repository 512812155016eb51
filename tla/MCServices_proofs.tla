-------------------------- MODULE MCServices_proofs -------------------------
(***************************************************************************)
(* The lease of MuteLock excludes, for every set of workers and every      *)
(* choice of times with AcquireTimeout + BodyTimeout < Lease.              *)
(*                                                                         *)
(* MutualExclusion is not inductive: it rests on the lease of a worker in  *)
(* the body outliving that body (LeaseOutlivesBody), which rests on what   *)
(* is already true while the worker waits for MongoDB's answer: the lease  *)
(* it was granted runs from a clock reading made after it entered, and its *)
(* acquisition timeout has not fired (AnswerInTime).                       *)
(*                                                                         *)
(* The invariants of the other services are proved in Documents_proofs;    *)
(* what is left to show is that a behaviour of MCServices with one of them *)
(* for its component is a behaviour of it.                                 *)
(***************************************************************************)
EXTENDS MCServices, TLAPS

\* The constants of its components of MCModeration are of no concern here.
DP == INSTANCE Documents_proofs WITH
    v11 <- v10,
    LockCallers <- {}, Posts <- {}, Lockable <- {}, Filtered <- {}, Everything <- None, Lower <- <<>>, Kinds <- {},
    LockPayloads <- {}, MaxEdits <- 0, MaxSlips <- 0,
    Wizards <- {}, RuleRequests <- {}, RuleChats <- {}, Rules <- {}, LockRules <- {}, Prompts <- {}, Actions <- {},
    ActionPayloads <- {}, Asking <- {}, FilterMax <- 0, ModelMax <- 0, AiLimit <- 0, FilterIds <- {},
    MaxSessions <- 0, MaxWrites <- 0

Acquiring(w) == pc[w] \in {"trying", "sent"}

\* Workers that are not idle hold tokens of their own.
TokensDiffer ==
    /\ \A w \in Workers : token[w] <= issued
    /\ \A w \in Workers : pc[w] # "idle" => token[w] >= 1
    /\ \A v, w \in Workers :
          pc[v] # "idle" /\ pc[w] # "idle" /\ token[v] = token[w] => v = w
    /\ \A t \in granted : t <= issued

\* No timeout is overdue, and none is further away than its length.
TimeoutsPrompt ==
    /\ \A w \in Workers : Waiting(w) => now <= timeout[w]
    /\ \A w \in Workers : Acquiring(w) => timeout[w] <= now + AcquireTimeout

\* A command carries a clock reading made after its worker entered.
CommandsFresh ==
    \A c \in wire :
        /\ c.at <= now
        /\ c.token <= issued
        /\ \A w \in Workers :
              Acquiring(w) /\ c.token = token[w] => timeout[w] <= c.at + AcquireTimeout

\* A granted lease that its worker has not started to use yet.
AnswerInTime ==
    \A w \in Workers : Acquiring(w) /\ token[w] \in granted =>
        /\ lock # Nobody
        /\ lock.token = token[w]
        /\ timeout[w] + Lease <= lock.until + AcquireTimeout

IInv ==
    /\ TypeOK
    /\ TokensDiffer
    /\ TimeoutsPrompt
    /\ CommandsFresh
    /\ AnswerInTime
    /\ LeaseOutlivesBody

\* A new acquisition draws a token no worker or command has, and its timeout
\* is AcquireTimeout away.
LEMMA EnterPreserves ==
    ASSUME IInv, NEW w \in Workers, Enter(w)
    PROVE  IInv'
<1> USE NobodyAssumption, TimesAssumption, LeaseAssumption DEF IInv, TypeOK, Enter
<1>1. TypeOK'
  OBVIOUS
<1>2. TokensDiffer'
  BY DEF TokensDiffer, Tokens
<1>3. TimeoutsPrompt'
  BY DEF TimeoutsPrompt, Waiting, Acquiring
<1>4. CommandsFresh'
  <2> SUFFICES ASSUME NEW c \in wire, NEW v \in Workers
               PROVE  /\ c.at <= now
                      /\ c.token <= issued'
                      /\ Acquiring(v)' /\ c.token = token'[v]
                            => timeout'[v] <= c.at + AcquireTimeout
    BY DEF CommandsFresh
  <2>1. c \in Commands /\ c.at <= now /\ c.token <= issued
    BY DEF CommandsFresh
  <2>2. CASE v = w
    BY <2>1, <2>2 DEF Commands, Tokens
  <2>3. CASE v # w
    BY DEF CommandsFresh, Acquiring, Commands, Tokens
  <2>4. QED
    BY <2>2, <2>3
<1>5. AnswerInTime'
  BY DEF AnswerInTime, TokensDiffer, Acquiring
<1>6. LeaseOutlivesBody'
  BY DEF LeaseOutlivesBody
<1>7. QED
  BY <1>2, <1>3, <1>4, <1>5, <1>6

\* The clock reading of a command is at most AcquireTimeout before the timeout.
LEMMA SendPreserves ==
    ASSUME IInv, NEW w \in Workers, Send(w)
    PROVE  IInv'
<1> USE NobodyAssumption, TimesAssumption, LeaseAssumption DEF IInv, TypeOK, Send
<1>1. TypeOK'
  <2>1. [token |-> token[w], at |-> now] \in Commands
    BY DEF TokensDiffer, Tokens, Commands
  <2>2. QED
    BY <2>1
<1>2. TokensDiffer'
  BY DEF TokensDiffer
<1>3. TimeoutsPrompt'
  BY DEF TimeoutsPrompt, Waiting, Acquiring
<1>4. CommandsFresh'
  BY DEF CommandsFresh, TokensDiffer, TimeoutsPrompt, Acquiring
<1>5. AnswerInTime'
  BY DEF AnswerInTime, Acquiring
<1>6. LeaseOutlivesBody'
  BY DEF LeaseOutlivesBody
<1>7. QED
  BY <1>1, <1>2, <1>3, <1>4, <1>5, <1>6

\* The body starts while the acquisition timeout has not fired, so its own
\* timeout falls before the lease's end.
LEMMA StartPreserves ==
    ASSUME IInv, NEW w \in Workers, Start(w)
    PROVE  IInv'
<1> USE NobodyAssumption, TimesAssumption, LeaseAssumption DEF IInv, TypeOK, Start
<1>1. TypeOK'
  <2>1. granted' \in SUBSET Tokens
    OBVIOUS
  <2>2. timeout' \in [Workers -> Nat]
    OBVIOUS
  <2>3. pc' \in [Workers -> {"idle", "trying", "sent", "body", "leaving"}]
    OBVIOUS
  <2>4. QED
    OBVIOUS
<1>2. TokensDiffer'
  BY DEF TokensDiffer
<1>3. TimeoutsPrompt'
  BY DEF TimeoutsPrompt, Waiting, Acquiring
<1>4. CommandsFresh'
  BY DEF CommandsFresh, Acquiring
<1>5. AnswerInTime'
  BY DEF AnswerInTime, Acquiring
<1>6. LeaseOutlivesBody'
  BY DEF LeaseOutlivesBody, AnswerInTime, TimeoutsPrompt, Acquiring, Waiting, Documents
<1>7. QED
  BY <1>2, <1>3, <1>4, <1>5, <1>6

\* A refused attempt changes nothing but its own step.
LEMMA RetryPreserves ==
    ASSUME IInv, NEW w \in Workers, Retry(w)
    PROVE  IInv'
<1> USE NobodyAssumption, TimesAssumption, LeaseAssumption DEF IInv, TypeOK, Retry
<1>1. TypeOK'
  OBVIOUS
<1>2. TokensDiffer'
  BY DEF TokensDiffer
<1>3. TimeoutsPrompt'
  BY DEF TimeoutsPrompt, Waiting, Acquiring
<1>4. CommandsFresh'
  BY DEF CommandsFresh, Acquiring
<1>5. AnswerInTime'
  BY DEF AnswerInTime, Acquiring
<1>6. LeaseOutlivesBody'
  BY DEF LeaseOutlivesBody
<1>7. QED
  BY <1>2, <1>3, <1>4, <1>5, <1>6

\* A cancelled acquisition leaves only what cannot harm: its command, and a
\* lease nobody uses.
LEMMA GiveUpPreserves ==
    ASSUME IInv, NEW w \in Workers, GiveUp(w)
    PROVE  IInv'
<1> USE NobodyAssumption, TimesAssumption, LeaseAssumption DEF IInv, TypeOK, GiveUp, Forget
<1>1. TypeOK'
  OBVIOUS
<1>2. TokensDiffer'
  BY DEF TokensDiffer
<1>3. TimeoutsPrompt'
  BY DEF TimeoutsPrompt, Waiting, Acquiring
<1>4. CommandsFresh'
  BY DEF CommandsFresh, Acquiring
<1>5. AnswerInTime'
  BY DEF AnswerInTime, Acquiring
<1>6. LeaseOutlivesBody'
  BY DEF LeaseOutlivesBody
<1>7. QED
  BY <1>2, <1>3, <1>4, <1>5, <1>6

\* Leaving the body keeps the lease.
LEMMA FinishPreserves ==
    ASSUME IInv, NEW w \in Workers, Finish(w)
    PROVE  IInv'
<1> USE NobodyAssumption, TimesAssumption, LeaseAssumption DEF IInv, TypeOK, Finish
<1>1. TypeOK'
  OBVIOUS
<1>2. TokensDiffer'
  BY DEF TokensDiffer
<1>3. TimeoutsPrompt'
  BY DEF TimeoutsPrompt, Waiting, Acquiring
<1>4. CommandsFresh'
  BY DEF CommandsFresh, Acquiring
<1>5. AnswerInTime'
  BY DEF AnswerInTime, Acquiring
<1>6. LeaseOutlivesBody'
  BY DEF LeaseOutlivesBody
<1>7. QED
  BY <1>2, <1>3, <1>4, <1>5, <1>6

\* The finally clause removes the worker's own lease and no other.
LEMMA ReleasePreserves ==
    ASSUME IInv, NEW w \in Workers, Release(w)
    PROVE  IInv'
<1> USE NobodyAssumption, TimesAssumption, LeaseAssumption DEF IInv, TypeOK, Release
<1>1. TypeOK'
  OBVIOUS
<1>2. TokensDiffer'
  BY DEF TokensDiffer
<1>3. TimeoutsPrompt'
  BY DEF TimeoutsPrompt, Waiting, Acquiring
<1>4. CommandsFresh'
  BY DEF CommandsFresh, Acquiring
<1>5. AnswerInTime'
  BY DEF AnswerInTime, TokensDiffer, Acquiring
<1>6. LeaseOutlivesBody'
  BY DEF LeaseOutlivesBody, TokensDiffer
<1>7. QED
  BY <1>2, <1>3, <1>4, <1>5, <1>6

\* A crash gives up the step, never the lease.
LEMMA CrashPreserves ==
    ASSUME IInv, NEW w \in Workers, Crash(w)
    PROVE  IInv'
<1> USE NobodyAssumption, TimesAssumption, LeaseAssumption DEF IInv, TypeOK, Crash, Forget
<1>1. TypeOK'
  OBVIOUS
<1>2. TokensDiffer'
  BY DEF TokensDiffer
<1>3. TimeoutsPrompt'
  BY DEF TimeoutsPrompt, Waiting, Acquiring
<1>4. CommandsFresh'
  BY DEF CommandsFresh, Acquiring
<1>5. AnswerInTime'
  BY DEF AnswerInTime, Acquiring
<1>6. LeaseOutlivesBody'
  BY DEF LeaseOutlivesBody
<1>7. QED
  BY <1>2, <1>3, <1>4, <1>5, <1>6

\* A lease in use outlives every clock reading a command can carry, so it is
\* not taken over; a lease taken for a waiting worker is long enough for it.
LEMMA ServePreserves ==
    ASSUME IInv, NEW c \in wire, Serve(c)
    PROVE  IInv'
<1> USE NobodyAssumption, TimesAssumption, LeaseAssumption DEF IInv, TypeOK, Serve, Takes, Awaited
<1>1. TypeOK'
  <2>1. c.token \in Tokens /\ c.at \in Nat
    BY DEF Commands
  <2>2. lock' \in {Nobody} \cup Documents
    BY <2>1 DEF Documents
  <2>3. granted' \in SUBSET Tokens /\ refused' \in SUBSET Tokens
    BY <2>1
  <2>4. wire' \in SUBSET Commands
    OBVIOUS
  <2>5. QED
    BY <2>2, <2>3
<1>2. TokensDiffer'
  BY DEF TokensDiffer
<1>3. TimeoutsPrompt'
  BY DEF TimeoutsPrompt, Waiting, Acquiring
<1>4. CommandsFresh'
  BY DEF CommandsFresh, Acquiring
<1>5. AnswerInTime'
  <2> SUFFICES ASSUME NEW w \in Workers, Acquiring(w), token[w] \in granted'
               PROVE  /\ lock' # Nobody
                      /\ lock'.token = token[w]
                      /\ timeout[w] + Lease <= lock'.until + AcquireTimeout
    BY DEF AnswerInTime, Acquiring
  <2>1. c \in Commands /\ c.at <= now /\ now <= timeout[w]
    BY DEF CommandsFresh, TimeoutsPrompt, Waiting, Acquiring
  <2>2. CASE Takes(c) /\ token[w] = c.token
    <3>1. timeout[w] <= c.at + AcquireTimeout
      BY <2>2 DEF CommandsFresh
    <3>2. lock' = [token |-> c.token, until |-> c.at + Lease]
      BY <2>2
    <3>3. lock' \in Documents
      BY DEF Commands, Documents
    <3>4. QED
      BY <2>2, <3>1, <3>3 DEF Commands
  <2>3. CASE Takes(c) /\ token[w] # c.token
    <3>1. token[w] \in granted
      BY <2>3
    <3>2. c.at < lock.until /\ lock # Nobody
      BY <2>1, <3>1 DEF AnswerInTime, Commands, Documents
    <3>3. QED
      BY <2>3, <3>2 DEF Commands, Documents
  <2>4. CASE ~ Takes(c)
    BY <2>4 DEF AnswerInTime
  <2>5. QED
    BY <2>2, <2>3, <2>4
<1>6. LeaseOutlivesBody'
  BY DEF LeaseOutlivesBody, CommandsFresh, Commands, Documents
<1>7. QED
  BY <1>1, <1>2, <1>3, <1>4, <1>5, <1>6

\* The TTL monitor deletes no lease that is in use or was granted in time.
LEMMA ExpirePreserves ==
    ASSUME IInv, Expire
    PROVE  IInv'
<1> USE NobodyAssumption, TimesAssumption, LeaseAssumption DEF IInv, TypeOK, Expire
<1>1. TypeOK'
  OBVIOUS
<1>2. TokensDiffer'
  BY DEF TokensDiffer
<1>3. TimeoutsPrompt'
  BY DEF TimeoutsPrompt, Waiting, Acquiring
<1>4. CommandsFresh'
  BY DEF CommandsFresh, Acquiring
<1>5. AnswerInTime'
  BY DEF AnswerInTime, TimeoutsPrompt, Acquiring, Waiting, Documents
<1>6. LeaseOutlivesBody'
  BY DEF LeaseOutlivesBody, Documents
<1>7. QED
  BY <1>2, <1>3, <1>4, <1>5, <1>6

\* Time stops for timeouts that have to fire.
LEMMA TickPreserves ==
    ASSUME IInv, Tick
    PROVE  IInv'
<1> USE NobodyAssumption, TimesAssumption, LeaseAssumption DEF IInv, TypeOK, Tick
<1>1. TypeOK'
  OBVIOUS
<1>2. TokensDiffer'
  BY DEF TokensDiffer
<1>3. TimeoutsPrompt'
  BY DEF TimeoutsPrompt, Waiting, Acquiring
<1>4. CommandsFresh'
  BY DEF CommandsFresh, Acquiring, Commands
<1>5. AnswerInTime'
  BY DEF AnswerInTime, Acquiring
<1>6. LeaseOutlivesBody'
  BY DEF LeaseOutlivesBody, Waiting
<1>7. QED
  BY <1>2, <1>3, <1>4, <1>5, <1>6

\* A step of another component changes nothing.
LEMMA StutterPreserves ==
    ASSUME IInv, UNCHANGED vars
    PROVE  IInv'
<1> USE NobodyAssumption, TimesAssumption, LeaseAssumption DEF IInv, TypeOK, vars
<1>1. TypeOK'
  OBVIOUS
<1>2. TokensDiffer'
  BY DEF TokensDiffer
<1>3. TimeoutsPrompt'
  BY DEF TimeoutsPrompt, Waiting, Acquiring
<1>4. CommandsFresh'
  BY DEF CommandsFresh, Acquiring
<1>5. AnswerInTime'
  BY DEF AnswerInTime, Acquiring
<1>6. LeaseOutlivesBody'
  BY DEF LeaseOutlivesBody
<1>7. QED
  BY <1>2, <1>3, <1>4, <1>5, <1>6

---------------------------------------------------------------------------

\* No lease, no command and no worker to begin with.
LEMMA InitEstablishes == Init => IInv
  BY TimesAssumption
     DEF Init, IInv, TypeOK, TokensDiffer, TimeoutsPrompt, CommandsFresh,
         AnswerInTime, LeaseOutlivesBody, Acquiring, Waiting, Documents

\* One step per action, each by its lemma.
LEMMA NextPreserves == IInv /\ [Next]_vars => IInv'
<1> SUFFICES ASSUME IInv, [Next]_vars
             PROVE  IInv'
  OBVIOUS
<1>1. ASSUME NEW w \in Workers, Step(w)
      PROVE  IInv'
  <2>1. CASE Enter(w)
    BY <2>1, EnterPreserves
  <2>2. CASE Send(w)
    BY <2>2, SendPreserves
  <2>3. CASE Start(w)
    BY <2>3, StartPreserves
  <2>4. CASE Retry(w)
    BY <2>4, RetryPreserves
  <2>5. CASE GiveUp(w)
    BY <2>5, GiveUpPreserves
  <2>6. CASE Finish(w)
    BY <2>6, FinishPreserves
  <2>7. CASE Release(w)
    BY <2>7, ReleasePreserves
  <2>8. CASE Crash(w)
    BY <2>8, CrashPreserves
  <2>9. QED
    BY <1>1, <2>1, <2>2, <2>3, <2>4, <2>5, <2>6, <2>7, <2>8 DEF Step
<1>2. ASSUME NEW c \in wire, Serve(c)
      PROVE  IInv'
  BY <1>2, ServePreserves
<1>3. CASE Expire
  BY <1>3, ExpirePreserves
<1>4. CASE Tick
  BY <1>4, TickPreserves
<1>5. CASE UNCHANGED vars
  BY <1>5, StutterPreserves
<1>6. QED
  BY <1>1, <1>2, <1>3, <1>4, <1>5 DEF Next

\* The inductive invariant holds in every behaviour of the lease.
THEOREM Invariance == Spec => []IInv
<1>1. Init => IInv
  BY InitEstablishes
<1>2. IInv /\ [Next]_vars => IInv'
  BY NextPreserves
<1>3. QED
  BY <1>1, <1>2, PTL DEF Spec

\* The variables of the lease keep their types (MuteLock!TypeOK).
THEOREM TypeCorrect == Spec => []TypeOK
<1>1. IInv => TypeOK
  BY DEF IInv
<1>2. QED
  BY <1>1, Invariance, PTL

\* The lease of a worker in the body of _mute_lock is its own and outlives
\* the body's timeout.
THEOREM BodyCovered == Spec => []LeaseOutlivesBody
<1>1. IInv => LeaseOutlivesBody
  BY DEF IInv
<1>2. QED
  BY <1>1, Invariance, PTL

\* Two workers in the body would hold the one lease document, hence the same
\* token, and tokens differ.
LEMMA InvariantExcludes == IInv => MutualExclusion
  BY DEF IInv, LeaseOutlivesBody, TokensDiffer, MutualExclusion

\* No two operations of execute_restriction on one member are ever in progress
\* together.
THEOREM Exclusion == Spec => []MutualExclusion
<1>1. IInv => MutualExclusion
  BY InvariantExcludes
<1>2. QED
  BY <1>1, Invariance, PTL

\* A worker that alone is in the body is the one Holder chooses.
LEMMA TheOneInBody ==
    ASSUME NEW f, NEW w \in Workers, f[w] = "body",
           \A u, v \in Workers : f[u] = "body" /\ f[v] = "body" => u = v
    PROVE  (CHOOSE v \in Workers : f[v] = "body") = w
  OBVIOUS

\* A step moves one worker at most.
LEMMA OneMoves ==
    ASSUME [Next]_vars
    PROVE  \/ pc' = pc
           \/ \E u \in Workers : \E s : pc' = [pc EXCEPT ![u] = s]
<1>1. ASSUME NEW w \in Workers, Step(w)
      PROVE  \E s : pc' = [pc EXCEPT ![w] = s]
  BY <1>1 DEF Step, Enter, Send, Start, Retry, GiveUp, Finish, Release, Crash, Forget
<1>2. CASE (\E c \in wire : Serve(c)) \/ Expire \/ Tick \/ UNCHANGED vars
  BY <1>2 DEF Serve, Expire, Tick, vars
<1>3. QED
  BY <1>1, <1>2 DEF Next

\* Refinement of LeaseMutex: the body is handed over only through a state in
\* which nobody is in it.
THEOREM Refinement == Spec => ImplementsMutex
<1> USE WorkersAssumption
<1>1. Init => Mutex!Init
  BY DEF Init, Mutex!Init, Holder
<1>2. TypeOK /\ MutualExclusion /\ MutualExclusion' /\ [Next]_vars
        => [Mutex!Next]_Holder
  <2> SUFFICES ASSUME TypeOK, MutualExclusion, MutualExclusion', [Next]_vars
               PROVE  [Mutex!Next]_Holder
    OBVIOUS
  <2>1. pc \in [Workers -> {"idle", "trying", "sent", "body", "leaving"}]
    BY DEF TypeOK
  <2>2. CASE \A w \in Workers : pc[w] # "body"
    <3>1. Holder = Nobody
      BY <2>2 DEF Holder
    <3>2. CASE \A w \in Workers : pc'[w] # "body"
      BY <3>1, <3>2 DEF Holder
    <3>3. CASE \E w \in Workers : pc'[w] = "body"
      <4>1. PICK w \in Workers : pc'[w] = "body"
        BY <3>3
      <4>2. Holder' = w
        BY <4>1, TheOneInBody DEF Holder, MutualExclusion
      <4>3. QED
        BY <3>1, <4>1, <4>2 DEF Mutex!Next, Mutex!Acquire
    <3>4. QED
      BY <3>2, <3>3
  <2>3. CASE \E w \in Workers : pc[w] = "body"
    <3>1. PICK w \in Workers : pc[w] = "body"
      BY <2>3
    <3>2. Holder = w
      BY <3>1, TheOneInBody DEF Holder, MutualExclusion
    <3>3. CASE pc'[w] = "body"
      <4>1. Holder' = w
        BY <3>1, <3>3, TheOneInBody DEF Holder, MutualExclusion
      <4>2. QED
        BY <3>2, <4>1
    <3>4. CASE pc'[w] # "body"
      <4>1. \A v \in Workers : v # w => pc'[v] = pc[v]
        BY <2>1, <3>1, <3>4, OneMoves
      <4>2. \A v \in Workers : pc'[v] # "body"
        BY <3>1, <3>4, <4>1 DEF MutualExclusion
      <4>3. Holder' = Nobody
        BY <4>2 DEF Holder
      <4>4. QED
        BY <3>1, <3>2, <4>3 DEF Mutex!Next, Mutex!Release
    <3>5. QED
      BY <3>3, <3>4
  <2>4. QED
    BY <2>2, <2>3
<1>3. QED
  BY <1>1, <1>2, TypeCorrect, Exclusion, PTL DEF Spec, ImplementsMutex, Mutex!Spec

-----------------------------------------------------------------------------
(* The components among the services *)

\* A step of ServicesNext is one of the component that runs.
LEMMA ServiceSteps ==
    ASSUME [ServicesNext]_<<component, vars, slots>>
    PROVE  /\ component' = component
           /\ component = "flags" => [Flags!Next]_(Flags!vars)
           /\ component = "stream" => [Stream!Next]_(Stream!vars)
           /\ component = "quota" => [Quotas!Next]_(Quotas!vars)
           /\ component = "proactive" => [Proactive!Next]_(Proactive!vars)
           /\ component = "summaries" => [Summaries!Next]_(Summaries!vars)
<1>1. CASE ServicesNext
  BY <1>1 DEF ServicesNext
<1>2. CASE UNCHANGED <<component, vars, slots>>
  BY <1>2 DEF slots, Flags!vars, Stream!vars, Quotas!vars, Proactive!vars, Summaries!vars
<1> QED
  BY <1>1, <1>2

FlagsKept == component = "flags" => DP!FlagsInv

\* FeatureFlags begins and steps as the one the proofs are about, and what they
\* show of that one holds of it.
LEMMA FlagsAlike ==
    /\ Flags!Init => DP!Flags!Init
    /\ [Flags!Next]_(Flags!vars) => [DP!Flags!Next]_(DP!Flags!vars)
    /\ (DP!Flags!CacheFollowsStore => Flags!CacheFollowsStore) /\ (DP!Flags!HierarchyRespected => Flags!HierarchyRespected)
<1>1. Flags!Init => DP!Flags!Init
  BY DEF
     Flags!Init, DP!Flags!Init, Flags!Keys, DP!Flags!Keys, Flags!Override,
     DP!Flags!Override, Flags!At, DP!Flags!At
<1>2. [Flags!Next]_(Flags!vars) => [DP!Flags!Next]_(DP!Flags!vars)
  BY DEF
     Flags!Next, DP!Flags!Next, Flags!vars, DP!Flags!vars, Flags!Get, DP!Flags!Get,
     Flags!Keys, DP!Flags!Keys, Flags!List, DP!Flags!List, Flags!Delete, DP!Flags!Delete,
     Flags!SetOverride, DP!Flags!SetOverride, Flags!SetRollout, DP!Flags!SetRollout,
     Flags!SetTimed, DP!Flags!SetTimed, Flags!Bump, DP!Flags!Bump, Flags!Hget,
     DP!Flags!Hget, Flags!Find, DP!Flags!Find, Flags!Warm, DP!Flags!Warm, Flags!Save,
     DP!Flags!Save, Flags!Publish, DP!Flags!Publish, Flags!Die, DP!Flags!Die, Flags!Tick,
     DP!Flags!Tick, Flags!Begin, DP!Flags!Begin, Flags!At, DP!Flags!At, Flags!Override,
     DP!Flags!Override, Flags!Rollout, DP!Flags!Rollout, Flags!Found, DP!Flags!Found,
     Flags!Parse, DP!Flags!Parse, Flags!Go, DP!Flags!Go, Flags!Missing, DP!Flags!Missing,
     Flags!Serialize, DP!Flags!Serialize, Flags!Return, DP!Flags!Return, Flags!Active,
     DP!Flags!Active, Flags!Effective, DP!Flags!Effective, Flags!InRollout,
     DP!Flags!InRollout, Flags!Percentage, DP!Flags!Percentage, Flags!Write, DP!Flags!Write
<1>3. (DP!Flags!CacheFollowsStore => Flags!CacheFollowsStore) /\ (DP!Flags!HierarchyRespected => Flags!HierarchyRespected)
  BY DEF
     Flags!CacheFollowsStore, DP!Flags!CacheFollowsStore, Flags!HierarchyRespected,
     DP!Flags!HierarchyRespected, Flags!Keys, DP!Flags!Keys, Flags!Serialize,
     DP!Flags!Serialize
<1> QED
  BY <1>1, <1>2, <1>3

\* FeatureFlags among the services: a field of Redis follows its document unless
\* a write overtook the one that filled it or a call died between its two
\* writes, and a lookup that runs alone gives the value of the hierarchy with
\* the type of the flag; for any calls, buckets, percentages and durations.
THEOREM ServicesFlagsHold ==
    ASSUME DP!FlagsUsual PROVE ServicesSpec => []FlagsHold
<1>1. ServicesInit => FlagsKept
  BY FlagsAlike, DP!FlagsBegin DEF ServicesInit, FlagsKept
<1>2. FlagsKept /\ [ServicesNext]_<<component, vars, slots>> => FlagsKept'
  BY ServiceSteps, FlagsAlike, DP!FlagsNextPreserves DEF FlagsKept
<1>3. FlagsKept => FlagsHold
  BY FlagsAlike, DP!FlagsInvImplies DEF FlagsKept, FlagsHold
<1> QED
  BY <1>1, <1>2, <1>3, PTL DEF ServicesSpec

StreamKept == component = "stream" => DP!StreamInv

\* ReplyStream begins and steps as the one the proofs are about, and what they
\* show of that one holds of it.
LEMMA StreamAlike ==
    /\ Stream!Init => DP!Stream!Init
    /\ [Stream!Next]_(Stream!vars) => [DP!Stream!Next]_(DP!Stream!vars)
    /\ DP!Stream!ReplyShown => Stream!ReplyShown
<1>1. Stream!Init => DP!Stream!Init
  BY DEF
     Stream!Init, DP!Stream!Init, Stream!Placeholder, DP!Stream!Placeholder, Stream!Idle,
     DP!Stream!Idle, Stream!Draft, DP!Stream!Draft, Stream!text, DP!Stream!text
<1>2. [Stream!Next]_(Stream!vars) => [DP!Stream!Next]_(DP!Stream!vars)
  BY DEF
     Stream!Next, DP!Stream!Next, Stream!vars, DP!Stream!vars, Stream!PartEvent,
     DP!Stream!PartEvent, Stream!ForceText, DP!Stream!ForceText, Stream!ToolCall,
     DP!Stream!ToolCall, Stream!Activity, DP!Stream!Activity, Stream!Output,
     DP!Stream!Output, Stream!Fail, DP!Stream!Fail, Stream!EditDone, DP!Stream!EditDone,
     Stream!EditFails, DP!Stream!EditFails, Stream!Finish, DP!Stream!Finish,
     Stream!CleanUp, DP!Stream!CleanUp, Stream!Delete, DP!Stream!Delete, Stream!Wake,
     DP!Stream!Wake, Stream!TaskDone, DP!Stream!TaskDone, Stream!TaskFails,
     DP!Stream!TaskFails, Stream!GhostLands, DP!Stream!GhostLands, Stream!Over,
     DP!Stream!Over, Stream!Part, DP!Stream!Part, Stream!Keep, DP!Stream!Keep,
     Stream!StreamText, DP!Stream!StreamText, Stream!Refresh, DP!Stream!Refresh,
     Stream!text, DP!Stream!text, Stream!Land, DP!Stream!Land, Stream!Sent, DP!Stream!Sent,
     Stream!Return, DP!Stream!Return, Stream!Raise, DP!Stream!Raise, Stream!Cancel,
     DP!Stream!Cancel, Stream!End, DP!Stream!End, Stream!Idle, DP!Stream!Idle,
     Stream!Draft, DP!Stream!Draft, Stream!Schedule, DP!Stream!Schedule, Stream!Edit,
     DP!Stream!Edit, Stream!Placeholder, DP!Stream!Placeholder
<1>3. DP!Stream!ReplyShown => Stream!ReplyShown
  BY DEF
     Stream!ReplyShown, DP!Stream!ReplyShown, Stream!OneResponse, DP!Stream!OneResponse,
     Stream!Settled, DP!Stream!Settled, Stream!End, DP!Stream!End, Stream!Draft,
     DP!Stream!Draft, Stream!text, DP!Stream!text
<1> QED
  BY <1>1, <1>2, <1>3

\* ReplyStream among the services: in every reachable state the message shows
\* the answer, the error or nothing of a reply that is over, unless an edit of
\* a draft was still under way, for every number of responses, parts and
\* faults.
THEOREM ServicesReplyShown ==
    ServicesSpec => []ReplyShown
<1>1. ServicesInit => StreamKept
  BY StreamAlike, DP!StreamBegins DEF ServicesInit, StreamKept
<1>2. StreamKept /\ [ServicesNext]_<<component, vars, slots>> => StreamKept'
  BY ServiceSteps, StreamAlike, DP!StreamNextPreserves DEF StreamKept
<1>3. StreamKept => ReplyShown
  BY StreamAlike, DP!StreamInvImplies DEF StreamKept, ReplyShown
<1> QED
  BY <1>1, <1>2, <1>3, PTL DEF ServicesSpec

QuotaKept == component = "quota" => DP!QuotaInv

\* AIQuota begins and steps as the one the proofs are about, and what they
\* show of that one holds of it.
LEMMA QuotasAlike ==
    /\ Quotas!Init => DP!Quotas!Init
    /\ [Quotas!Next]_(Quotas!vars) => [DP!Quotas!Next]_(DP!Quotas!vars)
    /\ DP!Quotas!QuotaHolds => Quotas!QuotaHolds
<1>1. Quotas!Init => DP!Quotas!Init
  BY DEF
     Quotas!Init, DP!Quotas!Init, Quotas!NoJob, DP!Quotas!NoJob
<1>2. [Quotas!Next]_(Quotas!vars) => [DP!Quotas!Next]_(DP!Quotas!vars)
  BY DEF
     Quotas!Next, DP!Quotas!Next, Quotas!vars, DP!Quotas!vars, Quotas!NextMonth,
     DP!Quotas!NextMonth, Quotas!Kinds, DP!Quotas!Kinds, Quotas!Begin, DP!Quotas!Begin,
     Quotas!Find, DP!Quotas!Find, Quotas!Insert, DP!Quotas!Insert, Quotas!Roll,
     DP!Quotas!Roll, Quotas!Charge, DP!Quotas!Charge, Quotas!Record, DP!Quotas!Record,
     Quotas!Count, DP!Quotas!Count, Quotas!Reset, DP!Quotas!Reset, Quotas!SetLimit,
     DP!Quotas!SetLimit, Quotas!Filter, DP!Quotas!Filter, Quotas!Info, DP!Quotas!Info,
     Quotas!Look, DP!Quotas!Look, Quotas!Notify, DP!Quotas!Notify, Quotas!Die,
     DP!Quotas!Die, Quotas!Quiet, DP!Quotas!Quiet, Quotas!Load, DP!Quotas!Load, Quotas!At,
     DP!Quotas!At, Quotas!history, DP!Quotas!history, Quotas!Quota, DP!Quotas!Quota,
     Quotas!Save, DP!Quotas!Save, Quotas!Use, DP!Quotas!Use, Quotas!Finish,
     DP!Quotas!Finish, Quotas!Fresh, DP!Quotas!Fresh, Quotas!Total, DP!Quotas!Total,
     Quotas!NoJob, DP!Quotas!NoJob
<1>3. DP!Quotas!QuotaHolds => Quotas!QuotaHolds
  BY DEF
     Quotas!QuotaHolds, DP!Quotas!QuotaHolds, Quotas!NeverOvercharged,
     DP!Quotas!NeverOvercharged, Quotas!ChargedOnce, DP!Quotas!ChargedOnce, Quotas!Used,
     DP!Quotas!Used, Quotas!Quiet, DP!Quotas!Quiet, Quotas!Recorded, DP!Quotas!Recorded
<1> QED
  BY <1>1, <1>2, <1>3

\* AIQuota among the services: a chat is never charged for more than its
\* requests of the month unless one of them saves over an operator's reset, and
\* requests one after the other are charged and recorded once each, for every
\* set of requests, limits and boosts and any number of months.
THEOREM ServicesQuotaHolds ==
    ASSUME MaxMonth \in Nat \ {0} PROVE ServicesSpec => []QuotaHolds
<1>1. 1 \in 1 .. MaxMonth /\ MaxMonth \in Nat
  OBVIOUS
<1>2. ServicesInit => QuotaKept
  BY <1>1, QuotasAlike, DP!QuotaBegins DEF ServicesInit, QuotaKept
<1>3. QuotaKept /\ [ServicesNext]_<<component, vars, slots>> => QuotaKept'
  BY <1>1, ServiceSteps, QuotasAlike, DP!QuotaNextPreserves DEF QuotaKept
<1>4. QuotaKept => QuotaHolds
  BY QuotasAlike, DP!QuotaInvImplies DEF QuotaKept, QuotaHolds
<1> QED
  BY <1>2, <1>3, <1>4, PTL DEF ServicesSpec

BatchesKept == component = "proactive" => DP!BatchesInv

\* ProactiveReplies begins and steps as the one the proofs are about, and what they
\* show of that one holds of it.
LEMMA ProactiveAlike ==
    /\ Proactive!Init => DP!Proactive!Init
    /\ [Proactive!Next]_(Proactive!vars) => [DP!Proactive!Next]_(DP!Proactive!vars)
    /\ DP!Proactive!BatchesHold => Proactive!BatchesHold
<1>1. Proactive!Init => DP!Proactive!Init
  BY DEF
     Proactive!Init, DP!Proactive!Init, Proactive!Messages, DP!Proactive!Messages,
     Proactive!NewJob, DP!Proactive!NewJob
<1>2. [Proactive!Next]_(Proactive!vars) => [DP!Proactive!Next]_(DP!Proactive!vars)
  BY DEF
     Proactive!Next, DP!Proactive!Next, Proactive!vars, DP!Proactive!vars, Proactive!Age,
     DP!Proactive!Age, Proactive!Lapse, DP!Proactive!Lapse, Proactive!Vanish,
     DP!Proactive!Vanish, Proactive!Messages, DP!Proactive!Messages, Proactive!Cache,
     DP!Proactive!Cache, Proactive!Cardinality, DP!Proactive!Cardinality,
     Proactive!IsFiniteSet, DP!Proactive!IsFiniteSet, Proactive!Skip, DP!Proactive!Skip,
     Proactive!Track, DP!Proactive!Track, Proactive!Lock, DP!Proactive!Lock,
     Proactive!Load, DP!Proactive!Load, Proactive!Act, DP!Proactive!Act, Proactive!Clear,
     DP!Proactive!Clear, Proactive!Fail, DP!Proactive!Fail, Proactive!Unlock,
     DP!Proactive!Unlock, Proactive!Die, DP!Proactive!Die, Proactive!history,
     DP!Proactive!history, Proactive!Go, DP!Proactive!Go, Proactive!Recent,
     DP!Proactive!Recent, Proactive!Latest, DP!Proactive!Latest, Proactive!InBatch,
     DP!Proactive!InBatch, Proactive!NewJob, DP!Proactive!NewJob
<1>3. DP!Proactive!BatchesHold => Proactive!BatchesHold
  BY DEF
     Proactive!BatchesHold, DP!Proactive!BatchesHold, Proactive!BatchesApart,
     DP!Proactive!BatchesApart, Proactive!TrackedKept, DP!Proactive!TrackedKept,
     Proactive!ServedOnce, DP!Proactive!ServedOnce, Proactive!Cardinality,
     DP!Proactive!Cardinality, Proactive!IsFiniteSet, DP!Proactive!IsFiniteSet,
     Proactive!Messages, DP!Proactive!Messages, Proactive!InBatch, DP!Proactive!InBatch
<1> QED
  BY <1>1, <1>2, <1>3

\* ProactiveReplies among the services: two batches run at once only when the
\* lock of one ran out, a batch that fails or dies loses no message, and updates
\* one after the other act on a message in one batch, for any number of
\* messages and every size of a batch.
THEOREM ServicesBatchesHold ==
    ASSUME DP!BatchesUsual PROVE ServicesSpec => []BatchesHold
<1>1. ServicesInit => BatchesKept
  BY ProactiveAlike, DP!BatchesBegin DEF ServicesInit, BatchesKept
<1>2. BatchesKept /\ [ServicesNext]_<<component, vars, slots>> => BatchesKept'
  BY ServiceSteps, ProactiveAlike, DP!BatchesNextPreserves DEF BatchesKept
<1>3. BatchesKept => BatchesHold
  BY ProactiveAlike, DP!BatchesInvImplies DEF BatchesKept, BatchesHold
<1> QED
  BY <1>1, <1>2, <1>3, PTL DEF ServicesSpec

SummariesKept == component = "summaries" => DP!SummariesInv

\* ChatSummaries begins and steps as the one the proofs are about, and what they
\* show of that one holds of it.
LEMMA SummariesAlike ==
    /\ Summaries!Init => DP!Summaries!Init
    /\ [Summaries!Next]_(Summaries!vars) => [DP!Summaries!Next]_(DP!Summaries!vars)
    /\ DP!Summaries!SummariesHold => Summaries!SummariesHold
<1>1. Summaries!Init => DP!Summaries!Init
  BY DEF
     Summaries!Init, DP!Summaries!Init, Summaries!Days, DP!Summaries!Days, Summaries!Jobs,
     DP!Summaries!Jobs, Summaries!Idle, DP!Summaries!Idle, Summaries!Chats,
     DP!Summaries!Chats, Summaries!Dates, DP!Summaries!Dates
<1>2. [Summaries!Next]_(Summaries!vars) => [DP!Summaries!Next]_(DP!Summaries!vars)
  BY DEF
     Summaries!Next, DP!Summaries!Next, Summaries!vars, DP!Summaries!vars, Summaries!Tick,
     DP!Summaries!Tick, Summaries!Run, DP!Summaries!Run, Summaries!Skip, DP!Summaries!Skip,
     Summaries!Look, DP!Summaries!Look, Summaries!Chats, DP!Summaries!Chats,
     Summaries!Command, DP!Summaries!Command, Summaries!Jobs, DP!Summaries!Jobs,
     Summaries!Discard, DP!Summaries!Discard, Summaries!Find, DP!Summaries!Find,
     Summaries!Upsert, DP!Summaries!Upsert, Summaries!Send, DP!Summaries!Send,
     Summaries!SaveSent, DP!Summaries!SaveSent, Summaries!NoPin, DP!Summaries!NoPin,
     Summaries!Pin, DP!Summaries!Pin, Summaries!SavePinned, DP!Summaries!SavePinned,
     Summaries!Stop, DP!Summaries!Stop, Summaries!Idle, DP!Summaries!Idle, Summaries!Mixed,
     DP!Summaries!Mixed, Summaries!Leave, DP!Summaries!Leave, Summaries!DayOf,
     DP!Summaries!DayOf, Summaries!Go, DP!Summaries!Go, Summaries!NewDoc,
     DP!Summaries!NewDoc, Summaries!Stopped, DP!Summaries!Stopped, Summaries!Busy,
     DP!Summaries!Busy, Summaries!CompletedDate, DP!Summaries!CompletedDate
<1>3. DP!Summaries!SummariesHold => Summaries!SummariesHold
  BY DEF
     Summaries!SummariesHold, DP!Summaries!SummariesHold, Summaries!PostedOnce,
     DP!Summaries!PostedOnce, Summaries!PostedLate, DP!Summaries!PostedLate,
     Summaries!DocsTrue, DP!Summaries!DocsTrue, Summaries!Days, DP!Summaries!Days,
     Summaries!Jobs, DP!Summaries!Jobs, Summaries!Busy, DP!Summaries!Busy, Summaries!DayOf,
     DP!Summaries!DayOf, Summaries!Chats, DP!Summaries!Chats, Summaries!Dates,
     DP!Summaries!Dates, Summaries!CompletedDate, DP!Summaries!CompletedDate
<1> QED
  BY <1>1, <1>2, <1>3

\* ChatSummaries among the services: the scheduled job posts a chat's day at
\* most once and not before its hour, and the document of a day at which no job
\* is tells the last message posted, unless two jobs shared the day or one ended
\* between a message and its id; for any chats, hours and commands.
THEOREM ServicesSummariesHold ==
    ASSUME DP!SummariesUsual PROVE ServicesSpec => []SummariesHold
<1>1. ServicesInit => SummariesKept
  BY SummariesAlike, DP!SummariesBegin DEF ServicesInit, SummariesKept
<1>2. SummariesKept /\ [ServicesNext]_<<component, vars, slots>> => SummariesKept'
  BY ServiceSteps, SummariesAlike, DP!SummariesNextPreserves DEF SummariesKept
<1>3. SummariesKept => SummariesHold
  BY SummariesAlike, DP!SummariesInvImplies DEF SummariesKept, SummariesHold
<1> QED
  BY <1>1, <1>2, <1>3, PTL DEF ServicesSpec
=============================================================================
