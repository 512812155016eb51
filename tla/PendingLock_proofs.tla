------------------------- MODULE PendingLock_proofs -------------------------
(***************************************************************************)
(* The Redis lease of PendingLock excludes, for every set of workers and   *)
(* every choice of times with Interval + 2 * Lag < Lease, as long as the   *)
(* renewal of the coroutine in the body is alive.                          *)
(*                                                                         *)
(* PendingExclusion is not inductive: it rests on the key of a protected   *)
(* worker being its own and outliving the next renewal, and that on the    *)
(* answer to SET arriving within Lag.                                      *)
(***************************************************************************)
EXTENDS PendingLock, TLAPS

Renewing(w) == renewal[w] \in {"asleep", "looked"}

\* A renewal task belongs to a coroutine in the body.
RenewalsBelong ==
    /\ \A w \in Workers : Renewing(w) => pc[w] = "body"
    /\ \A w \in Workers : pc[w] = "body" => renewal[w] # "none"

\* Workers that are not idle hold owners of their own.
OwnersDiffer ==
    /\ \A w \in Workers : token[w] <= issued
    /\ \A w \in Workers : pc[w] # "idle" => token[w] >= 1
    /\ \A v, w \in Workers :
          pc[v] # "idle" /\ pc[w] # "idle" /\ token[v] = token[w] => v = w

\* The key has been the worker's since SET was served, and still is when the
\* answer arrives.
GrantStands ==
    \A w \in Workers : pc[w] = "granted" =>
        /\ lock # Nobody
        /\ lock.owner = token[w]
        /\ now <= until[w] + Lag
        /\ lock.expires = until[w] + Lease

\* The next renewal reaches Redis before the key goes.
RenewedInTime ==
    \A w \in Workers : Renewing(w) =>
        /\ lock # Nobody
        /\ lock.owner = token[w]
        /\ now <= until[w] + Lag
        /\ until[w] + Lease <= lock.expires + Interval + Lag

IInv ==
    /\ TypeOK
    /\ RenewalsBelong
    /\ OwnersDiffer
    /\ GrantStands
    /\ RenewedInTime

\* What the invariant says of the key while a worker has a claim to it.
LEMMA ClaimHolds ==
    ASSUME IInv, NEW w \in Workers, pc[w] = "granted" \/ Renewing(w)
    PROVE  lock \in Keys /\ lock.owner = token[w] /\ now < lock.expires
<1>1. lock \in Keys /\ now \in Nat /\ until[w] \in Nat
  BY DEF IInv, TypeOK, GrantStands, RenewedInTime
<1>2. lock.expires \in Nat
  BY <1>1 DEF Keys
<1>3. QED
  BY <1>1, <1>2, TimesAssumption, LagAssumption DEF IInv, GrantStands, RenewedInTime

\* So nobody has a claim to a key that is free.
LEMMA FreeMeansUnclaimed ==
    ASSUME IInv, Free
    PROVE  \A w \in Workers : pc[w] # "granted" /\ ~ Renewing(w)
<1> SUFFICES ASSUME NEW w \in Workers, pc[w] = "granted" \/ Renewing(w) PROVE FALSE
  OBVIOUS
<1>1. lock \in Keys /\ now < lock.expires
  BY ClaimHolds
<1>2. lock.expires \in Nat /\ now \in Nat
  BY <1>1 DEF Keys, IInv, TypeOK
<1>3. QED
  BY <1>1, <1>2, NobodyAssumption DEF Free

\* A claim is exclusive.
LEMMA ClaimsDiffer ==
    ASSUME IInv, NEW v \in Workers, NEW w \in Workers,
           pc[w] = "granted" \/ Renewing(w), pc[v] # "idle", lock.owner = token[v]
    PROVE  v = w
  BY ClaimHolds DEF IInv, OwnersDiffer, RenewalsBelong

\* The key is free or names an owner and an expiry.
LEMMA KeyTyped ==
    ASSUME TypeOK, NEW t \in Tokens
    PROVE  Key(t) \in Keys /\ Key(t).owner = t /\ Key(t).expires = now + Lease
  BY TimesAssumption DEF Key, Keys, TypeOK

\* A new acquisition draws an owner nobody has.
LEMMA EnterPreserves ==
    ASSUME IInv, NEW w \in Workers, Enter(w)
    PROVE  IInv'
<1> USE NobodyAssumption, TimesAssumption DEF IInv, TypeOK, Enter, To
<1>1. TypeOK'
  OBVIOUS
<1>2. RenewalsBelong'
  BY DEF RenewalsBelong, Renewing
<1>3. OwnersDiffer'
  BY DEF OwnersDiffer
<1>4. GrantStands'
  BY DEF GrantStands
<1>5. RenewedInTime'
  BY DEF RenewedInTime, RenewalsBelong, Renewing
<1>6. QED
  BY <1>1, <1>2, <1>3, <1>4, <1>5

\* SET succeeds only on a key nobody has a claim to.
LEMMA SetPreserves ==
    ASSUME IInv, NEW w \in Workers, Set(w)
    PROVE  IInv'
<1> USE NobodyAssumption, TimesAssumption DEF IInv, TypeOK, Set, To
<1>0. token[w] \in Tokens
  BY DEF OwnersDiffer, Tokens
<1>1. CASE Free /\ lock' = Key(token[w]) /\ pc' = [pc EXCEPT ![w] = "granted"]
             /\ until' = [until EXCEPT ![w] = now]
  <2>1. lock' \in Keys /\ lock'.owner = token[w] /\ lock'.expires = now + Lease
    BY <1>0, <1>1, KeyTyped
  <2>2. \A v \in Workers : pc[v] # "granted" /\ ~ Renewing(v)
    BY <1>1, FreeMeansUnclaimed
  <2>3. TypeOK'
    BY <1>1, <2>1
  <2>4. RenewalsBelong'
    BY <1>1, <2>2 DEF RenewalsBelong, Renewing
  <2>5. OwnersDiffer'
    BY <1>1 DEF OwnersDiffer
  <2>6. GrantStands'
    BY <1>1, <2>1, <2>2 DEF GrantStands
  <2>7. RenewedInTime'
    BY <2>2 DEF RenewedInTime, Renewing
  <2>8. QED
    BY <2>3, <2>4, <2>5, <2>6, <2>7
<1>2. CASE pc' = [pc EXCEPT ![w] = "refused"] /\ UNCHANGED <<lock, until>>
  <2>1. TypeOK'
    BY <1>2
  <2>2. RenewalsBelong'
    BY <1>2 DEF RenewalsBelong, Renewing
  <2>3. OwnersDiffer'
    BY <1>2 DEF OwnersDiffer
  <2>4. GrantStands' /\ RenewedInTime'
    BY <1>2 DEF GrantStands, RenewedInTime, Renewing
  <2>5. QED
    BY <2>1, <2>2, <2>3, <2>4
<1>3. QED
  BY <1>1, <1>2

\* The first renewal is due Interval after an answer that took at most Lag.
LEMMA StartPreserves ==
    ASSUME IInv, NEW w \in Workers, Start(w)
    PROVE  IInv'
<1> USE NobodyAssumption, TimesAssumption DEF IInv, TypeOK, Start, To
<1>1. TypeOK'
  OBVIOUS
<1>2. RenewalsBelong'
  BY DEF RenewalsBelong, Renewing
<1>3. OwnersDiffer'
  BY DEF OwnersDiffer
<1>4. GrantStands'
  BY DEF GrantStands
<1>5. RenewedInTime'
  <2> SUFFICES ASSUME NEW v \in Workers, Renewing(v)'
               PROVE  /\ lock # Nobody
                      /\ lock.owner = token[v]
                      /\ now <= until'[v] + Lag
                      /\ until'[v] + Lease <= lock.expires + Interval + Lag
    BY DEF RenewedInTime
  <2>1. CASE v = w
    <3>1. lock \in Keys /\ lock.owner = token[w] /\ lock.expires \in Nat
      BY ClaimHolds DEF Keys
    <3>2. now <= until[w] + Lag /\ lock.expires = until[w] + Lease
      BY DEF GrantStands
    <3>3. QED
      BY <2>1, <3>1, <3>2
  <2>2. CASE v # w
    BY <2>2 DEF RenewedInTime, Renewing
  <2>3. QED
    BY <2>1, <2>2
<1>6. QED
  BY <1>1, <1>2, <1>3, <1>4, <1>5

\* A renewal that is in time finds the key its own and renews it.
LEMMA RenewPreserves ==
    ASSUME IInv, NEW w \in Workers, Renew(w)
    PROVE  IInv'
<1> USE NobodyAssumption, TimesAssumption DEF IInv, TypeOK, Renew
<1>1. Renewing(w) /\ pc[w] = "body" /\ token[w] \in Tokens
  BY DEF Renewing, RenewalsBelong, OwnersDiffer, Tokens
<1>2. Holds(w)
  BY <1>1, ClaimHolds DEF Holds
<1>3. lock' \in Keys /\ lock'.owner = token[w] /\ lock'.expires = now + Lease
  BY <1>1, <1>2, KeyTyped
<1>4. \A v \in Workers : (pc[v] = "granted" \/ Renewing(v)) => v = w
  <2> SUFFICES ASSUME NEW v \in Workers, pc[v] = "granted" \/ Renewing(v) PROVE v = w
    OBVIOUS
  <2>1. lock.owner = token[w] /\ pc[w] # "idle"
    BY <1>1, <1>2 DEF Holds
  <2>2. QED
    BY <2>1, ClaimsDiffer
<1>5. TypeOK'
  BY <1>3
<1>6. RenewalsBelong'
  BY <1>1 DEF RenewalsBelong, Renewing
<1>7. OwnersDiffer'
  BY DEF OwnersDiffer
<1>8. GrantStands'
  BY <1>1, <1>4 DEF GrantStands
<1>9. RenewedInTime'
  BY <1>3, <1>4 DEF RenewedInTime, Renewing
<1>10. QED
  BY <1>5, <1>6, <1>7, <1>8, <1>9

\* A renewal that looks and one that ends claim no more than before.
LEMMA WakePreserves ==
    ASSUME IInv, NEW w \in Workers, Look(w) \/ Falter(w)
    PROVE  IInv'
<1> USE NobodyAssumption, TimesAssumption DEF IInv, TypeOK, Look, Falter
<1>1. TypeOK'
  OBVIOUS
<1>2. RenewalsBelong'
  BY DEF RenewalsBelong, Renewing
<1>3. OwnersDiffer'
  BY DEF OwnersDiffer
<1>4. GrantStands' /\ RenewedInTime'
  BY DEF GrantStands, RenewedInTime, Renewing
<1>5. QED
  BY <1>1, <1>2, <1>3, <1>4

\* The steps that leave the key as it is and give up a claim, or have none.
LEMMA LeavePreserves ==
    ASSUME IInv, NEW w \in Workers,
           Retry(w) \/ GiveUp(w) \/ Finish(w) \/ Release(w) \/ Crash(w)
    PROVE  IInv'
<1> USE NobodyAssumption, TimesAssumption
    DEF IInv, TypeOK, Retry, GiveUp, Finish, Release, Crash, To
<1>1. TypeOK'
  <2>1. pc[w] # "idle" => token[w] \in Tokens
    BY DEF OwnersDiffer, Tokens
  <2>2. QED
    BY <2>1
<1>2. RenewalsBelong'
  BY DEF RenewalsBelong, Renewing
<1>3. OwnersDiffer'
  BY DEF OwnersDiffer
<1>4. GrantStands' /\ RenewedInTime'
  BY DEF GrantStands, RenewedInTime, Renewing
<1>5. QED
  BY <1>1, <1>2, <1>3, <1>4

\* Only the owner deletes the key, and it has left the body.
LEMMA DeletePreserves ==
    ASSUME IInv, NEW w \in Workers, Delete(w)
    PROVE  IInv'
<1> USE NobodyAssumption, TimesAssumption DEF IInv, TypeOK, Delete, To
<1>1. TypeOK'
  OBVIOUS
<1>2. RenewalsBelong'
  BY DEF RenewalsBelong, Renewing
<1>3. OwnersDiffer'
  BY DEF OwnersDiffer
<1>4. CASE UNCHANGED lock
  BY <1>1, <1>2, <1>3, <1>4 DEF GrantStands, RenewedInTime, Renewing
<1>5. CASE Holds(w) /\ lock' = Nobody
  <2>1. \A v \in Workers : pc[v] # "granted" /\ ~ Renewing(v)
    <3> SUFFICES ASSUME NEW v \in Workers, pc[v] = "granted" \/ Renewing(v) PROVE FALSE
      OBVIOUS
    <3>1. w = v
      BY <1>5, ClaimsDiffer DEF Holds
    <3>2. QED
      BY <3>1 DEF RenewalsBelong, Renewing
  <2>2. QED
    BY <1>1, <1>2, <1>3, <2>1 DEF GrantStands, RenewedInTime, Renewing
<1>6. QED
  BY <1>4, <1>5

\* A cancelled SET, like any other, takes only a key nobody has a claim to.
LEMMA OrphanPreserves ==
    ASSUME IInv, NEW t \in Tokens, ServeOrphan(t)
    PROVE  IInv'
<1> USE NobodyAssumption, TimesAssumption DEF IInv, TypeOK, ServeOrphan
<1>1. RenewalsBelong' /\ OwnersDiffer'
  BY DEF RenewalsBelong, Renewing, OwnersDiffer
<1>2. CASE Free
  <2>1. TypeOK'
    BY <1>2, KeyTyped
  <2>2. \A v \in Workers : pc[v] # "granted" /\ ~ Renewing(v)
    BY <1>2, FreeMeansUnclaimed
  <2>3. QED
    BY <1>1, <2>1, <2>2 DEF GrantStands, RenewedInTime, Renewing
<1>3. CASE ~ Free
  BY <1>1, <1>3 DEF GrantStands, RenewedInTime, Renewing
<1>4. QED
  BY <1>2, <1>3

\* The clock waits for answers and renewals that are due.
LEMMA TickPreserves ==
    ASSUME IInv, Tick
    PROVE  IInv'
<1> USE NobodyAssumption, TimesAssumption DEF IInv, TypeOK, Tick, Prompt
<1>1. TypeOK'
  OBVIOUS
<1>2. RenewalsBelong' /\ OwnersDiffer'
  BY DEF RenewalsBelong, Renewing, OwnersDiffer
<1>3. GrantStands'
  BY DEF GrantStands
<1>4. RenewedInTime'
  BY DEF RenewedInTime, Renewing
<1>5. QED
  BY <1>1, <1>2, <1>3, <1>4

\* A step that changes nothing.
LEMMA StutterPreserves ==
    ASSUME IInv, UNCHANGED vars
    PROVE  IInv'
  BY DEF vars, IInv, TypeOK, RenewalsBelong, Renewing, OwnersDiffer, GrantStands, RenewedInTime

\* Base and step of the induction.
LEMMA InitEstablishes == Init => IInv
  BY TimesAssumption, NobodyAssumption
     DEF Init, IInv, TypeOK, RenewalsBelong, Renewing, OwnersDiffer, GrantStands, RenewedInTime, Tokens

\* Every step preserves it.
LEMMA NextPreserves == IInv /\ [Next]_vars => IInv'
<1> SUFFICES ASSUME IInv, [Next]_vars PROVE IInv'
  OBVIOUS
<1>1. ASSUME NEW w \in Workers, Step(w) PROVE IInv'
  BY <1>1, EnterPreserves, SetPreserves, StartPreserves, RenewPreserves, WakePreserves,
     LeavePreserves, DeletePreserves DEF Step
<1>2. CASE \E t \in Tokens : ServeOrphan(t)
  BY <1>2, OrphanPreserves
<1>3. CASE Tick
  BY <1>3, TickPreserves
<1>4. CASE UNCHANGED vars
  BY <1>4, StutterPreserves
<1>5. QED
  BY <1>1, <1>2, <1>3, <1>4 DEF Next

\* The invariant the theorems below rest on, for any number of coroutines and
\* any times with Interval + 2 * Lag < Lease.
THEOREM PendingInvariance == Spec => []IInv
<1>1. QED
  BY InitEstablishes, NextPreserves, PTL DEF Spec

\* Two protected workers would both have a claim.
LEMMA InvariantExcludes == IInv => PendingExclusion
<1> SUFFICES ASSUME IInv, NEW w \in Workers, NEW v \in Workers, Protected(w), Protected(v)
             PROVE  w = v
  BY DEF PendingExclusion
<1>1. Renewing(w) /\ Renewing(v) /\ pc[v] = "body"
  BY DEF Protected, Renewing, IInv, TypeOK, RenewalsBelong
<1>2. lock.owner = token[v]
  BY <1>1, ClaimHolds
<1>3. QED
  BY <1>1, <1>2, ClaimsDiffer

\* No two coroutines are in the body of pending_user_lock for one user at a
\* time, except behind the back of one whose renewal task has ended.
THEOREM PendingMutualExclusion == Spec => []PendingExclusion
<1>1. QED
  BY PendingInvariance, InvariantExcludes, PTL

\* The key, the clock and the workers of pending_user_lock keep their types.
THEOREM PendingTypeCorrect == Spec => []TypeOK
<1>1. IInv => TypeOK
  BY DEF IInv
<1>2. QED
  BY <1>1, PendingInvariance, PTL

\* A worker that alone is protected is the one Holder chooses.
LEMMA TheProtected ==
    ASSUME PendingExclusion, NEW w \in Workers, Protected(w)
    PROVE  Holder = w
  BY DEF Holder, PendingExclusion

\* A step protects, or unprotects, one worker at most.
LEMMA OneMoves ==
    ASSUME TypeOK, [Next]_vars
    PROVE  \/ \A v \in Workers : Protected(v)' = Protected(v)
           \/ \E w \in Workers : \A v \in Workers \ {w} : Protected(v)' = Protected(v)
<1> USE DEF Protected
<1>1. ASSUME NEW w \in Workers, Step(w)
      PROVE  \A v \in Workers \ {w} : pc'[v] = pc[v] /\ renewal'[v] = renewal[v]
  BY <1>1 DEF TypeOK, Step, Enter, Set, Retry, GiveUp, Start, Look, Renew, Falter, Finish,
              Release, Delete, Crash, To
<1>2. CASE (\E t \in Tokens : ServeOrphan(t)) \/ Tick \/ UNCHANGED vars
  BY <1>2 DEF ServeOrphan, Tick, vars
<1>3. QED
  BY <1>1, <1>2 DEF Next

\* Refinement of LeaseMutex: the body is handed over only through a state in
\* which nobody is protected in it.
THEOREM PendingRefinement == Spec => ImplementsMutex
<1>1. Init => Mutex!Init
  BY DEF Init, Mutex!Init, Holder, Protected
<1>2. TypeOK /\ PendingExclusion /\ PendingExclusion' /\ [Next]_vars
        => [Mutex!Next]_Holder
  <2> SUFFICES ASSUME TypeOK, PendingExclusion, PendingExclusion', [Next]_vars
               PROVE  [Mutex!Next]_Holder
    OBVIOUS
  <2>1. \A v \in Workers : Protected(v) => Holder = v
    BY TheProtected
  <2>2. \A v \in Workers : Protected(v)' => Holder' = v
    BY DEF Holder, PendingExclusion
  <2>3. (\A v \in Workers : ~ Protected(v)) => Holder = Nobody
    BY DEF Holder
  <2>4. (\A v \in Workers : ~ Protected(v)') => Holder' = Nobody
    BY DEF Holder
  <2>5. CASE \A v \in Workers : Protected(v)' = Protected(v)
    BY <2>1, <2>2, <2>3, <2>4, <2>5
  <2>6. CASE \E w \in Workers : \A v \in Workers \ {w} : Protected(v)' = Protected(v)
    <3>1. PICK w \in Workers : \A v \in Workers \ {w} : Protected(v)' = Protected(v)
      BY <2>6
    <3>2. CASE \E v \in Workers \ {w} : Protected(v)
      BY <2>1, <2>2, <3>1, <3>2
    <3>3. CASE \A v \in Workers \ {w} : ~ Protected(v)
      <4>1. Holder = w \/ Holder = Nobody
        BY <2>1, <2>3, <3>3
      <4>2. Holder' = w \/ Holder' = Nobody
        BY <2>2, <2>4, <3>1, <3>3
      <4>3. QED
        BY <4>1, <4>2 DEF Mutex!Next, Mutex!Acquire, Mutex!Release
    <3>4. QED
      BY <3>2, <3>3
  <2>7. QED
    BY <2>5, <2>6, OneMoves
<1>3. QED
  BY <1>1, <1>2, PendingTypeCorrect, PendingMutualExclusion, PTL
     DEF Spec, ImplementsMutex, Mutex!Spec
=============================================================================
