------------------------ MODULE WelcomeSecurity_proofs ------------------------
(***************************************************************************)
(* The captcha session, for every number of messages, faults and repeats   *)
(* and every way to enter: what the sweep decides about stays, a leave     *)
(* that comes late removes nothing of a newer stay, a deadline that has    *)
(* passed stays passed, who solved the captcha is not kicked for it, and   *)
(* who is muted by the captcha has a record, unless a handler died.        *)
(*                                                                         *)
(* The invariant behind them follows the order of message ids: the row is  *)
(* never behind the record, and a handler that holds the pending lock has  *)
(* read the row of the stay the record is about.                           *)
(***************************************************************************)
EXTENDS WelcomeSecurity, FiniteSetTheorems, FunctionTheorems, WellFoundedInduction, TLAPS

\* The steps taken under the pending lock.
Inside == {"read", "upsert", "session", "reload", "mute", "approve", "restrict", "forget",
           "current", "check", "recheck", "expel", "erase"}

\* Who takes such a step holds the lock.
Locked == \A t \in Tasks : task[t].pc \in Inside => lock = t

\* What was not sent has no handler, and the stay began with the last message.
Messages ==
    /\ \A m \in Updates : m > sent => kind[m] = "none" /\ task[m].pc = "idle"
    /\ \A m \in Updates : task[m].pc \in {"left", "drop", "look", "remove"} =>
           kind[m] \in {"leave", "removed"}
    /\ present # 0 => present = sent /\ kind[present] = "join" /\ ~ requested

\* A row or a record that is not there has no session, and none is of a
\* message still to come.
Past(r) == r.joined <= sent /\ (r.id = 0 => r.joined = 0)
Sessions ==
    /\ Past(row) /\ row.joined <= row.last /\ row.last <= sent
    /\ Past(record) /\ (record.id = 0 => ~ record.late)
    /\ \A t \in Tasks : Past(task[t].row)

\* A leave handler deletes a row whose user was not seen after its message.
DropsOld ==
    \A m \in Updates :
        /\ task[m].pc = "drop" /\ row.id = task[m].row.id => task[m].row.joined <= row.joined
        /\ task[m].pc \in {"look", "remove"} => task[m].row.joined <= m

\* The record of the stay the user is in is about the row, and the holder of the
\* lock knows that row.
SameStay ==
    present # 0 =>
        /\ record.joined = present => row.joined = present /\ row.id = record.member
        /\ \A t \in Tasks : task[t].pc \in {"upsert", "session"} =>
               /\ task[t].row.joined = present => row.joined = present /\ row.id = task[t].row.id
               /\ record.joined = present => task[t].row.joined = present

\* The record is the one the sweep decides about.
SameRecord ==
    task[Sweep].pc \in {"check", "recheck", "expel", "erase"} /\ Exists(record) =>
        /\ record.id = task[Sweep].doc.id /\ record.member = task[Sweep].doc.member
        /\ record.joined = task[Sweep].doc.joined /\ record.request = task[Sweep].doc.request

\* Who was let go has no record, or is about to lose it.
Released ==
    verified = "released" /\ ~ excused =>
        /\ Exists(record) => task[Captcha].pc = "forget"
        /\ task[Sweep].pc \notin {"check", "recheck", "expel"}

\* The handler of the join that began the stay has not come to the lock.
Coming == task[present].pc \in {"idle", "joined", "key", "wait"}

\* It has not finished with the record.
UnderWay == Coming \/ task[present].pc \in {"read", "upsert", "session"}

\* Until that handler is through, nothing is known of the row and the record;
\* then the row is that of the stay, whoever holds the lock knows it, and a
\* captcha mute comes with the record of the stay.
RowKnown ==
    present # 0 /\ ~ excused /\ task[present].pc \notin {"idle", "joined"} => row.joined = present

HolderKnows ==
    present # 0 /\ ~ excused =>
        \A t \in Tasks :
            /\ task[t].pc \in {"upsert", "session"} => Coming \/ task[t].row.joined = present
            /\ task[t].pc = "reload" => Coming \/ record.joined = present \/ ~ Exists(record)
            /\ task[t].pc = "mute" => Coming \/ record.joined = present

Held ==
    present # 0 /\ ~ excused /\ restriction = "captcha" =>
        \/ UnderWay
        \/ record.joined = present
        \/ task[present].pc = "reload" /\ ~ Exists(record)

\* What the captcha and the sweep do to the mute before they remove the record.
Freed ==
    /\ task[Captcha].pc = "forget" => restriction # "captcha"
    /\ task[Sweep].pc = "erase" =>
           restriction # "captcha" \/ present = 0 \/ record.joined # present

SessionInv ==
    /\ TypeOK
    /\ Locked /\ Messages /\ Sessions /\ DropsOld /\ SameStay /\ SameRecord /\ Released
    /\ RowKnown /\ HolderKnows /\ Held /\ Freed

-----------------------------------------------------------------------------
(* The actors, and what the helpers of the actions do *)

\* The handlers are the first of the tasks, the other three come after them.
LEMMA Actors ==
    /\ MaxMessages \in Nat /\ Updates \subseteq Tasks /\ Updates \subseteq Nat
    /\ \A m \in Updates : m # 0 /\ m <= MaxMessages
    /\ {Request, Captcha, Sweep} \subseteq Tasks
    /\ Request \notin Updates /\ Captcha \notin Updates /\ Sweep \notin Updates
    /\ Request # Captcha /\ Request # Sweep /\ Captcha # Sweep
    /\ Tasks \subseteq Nat /\ Free \notin Tasks
BY BoundsAssumption DEF Updates, Request, Captcha, Sweep, Tasks, Free

TaskType == [pc : Steps, row : Rows, doc : Records, request : BOOLEAN]

\* The empty documents and a task that has not begun are of their types.
LEMMA BlankTyped ==
    /\ NoRow \in Rows /\ NoRecord \in Records
    /\ NoRow.id = 0 /\ NoRow.joined = 0 /\ NoRow.last = 0
    /\ NoRecord.id = 0 /\ NoRecord.joined = 0 /\ ~ NoRecord.late
    /\ Blank \in TaskType /\ Blank.pc = "idle" /\ Blank.row = NoRow /\ Blank.doc = NoRecord
<1>1. NoRow \in Rows /\ NoRecord \in Records
  BY Actors DEF NoRow, NoRecord, Rows, Records
<1> QED
  BY <1>1 DEF NoRow, NoRecord, Blank, TaskType, Steps

\* Only the step of the task changes.
LEMMA GoDoes ==
    ASSUME TypeOK, NEW t \in Tasks, NEW s \in Steps, Go(t, s)
    PROVE  /\ task' \in [Tasks -> TaskType]
           /\ task'[t].pc = s /\ task'[t].row = task[t].row /\ task'[t].doc = task[t].doc
           /\ \A u \in Tasks \ {t} : task'[u] = task[u]
BY DEF TypeOK, TaskType, Go

\* The step and the row it has read change.
LEMMA RowDoes ==
    ASSUME TypeOK, NEW t \in Tasks, NEW s \in Steps, NEW r \in Rows,
           task' = [task EXCEPT ![t].pc = s, ![t].row = r]
    PROVE  /\ task' \in [Tasks -> TaskType]
           /\ task'[t].pc = s /\ task'[t].row = r /\ task'[t].doc = task[t].doc
           /\ \A u \in Tasks \ {t} : task'[u] = task[u]
BY DEF TypeOK, TaskType

\* The step and the record it has read change.
LEMMA DocDoes ==
    ASSUME TypeOK, NEW t \in Tasks, NEW s \in Steps, NEW d \in Records,
           task' = [task EXCEPT ![t].pc = s, ![t].doc = d]
    PROVE  /\ task' \in [Tasks -> TaskType]
           /\ task'[t].pc = s /\ task'[t].row = task[t].row /\ task'[t].doc = d
           /\ \A u \in Tasks \ {t} : task'[u] = task[u]
BY DEF TypeOK, TaskType

\* The step and what the task is about change.
LEMMA RequestDoes ==
    ASSUME TypeOK, NEW t \in Tasks, NEW s \in Steps, NEW q \in BOOLEAN,
           task' = [task EXCEPT ![t].pc = s, ![t].request = q]
    PROVE  /\ task' \in [Tasks -> TaskType]
           /\ task'[t].pc = s /\ task'[t].row = task[t].row /\ task'[t].doc = task[t].doc
           /\ \A u \in Tasks \ {t} : task'[u] = task[u]
BY DEF TypeOK, TaskType

\* The task is over and the lock is no longer its own.
LEMMA EndDoes ==
    ASSUME TypeOK, NEW t \in Tasks, End(t)
    PROVE  /\ task' \in [Tasks -> TaskType]
           /\ task'[t].pc = (IF t \in Updates THEN "done" ELSE "idle")
           /\ task'[t].row = NoRow /\ task'[t].doc = NoRecord
           /\ \A u \in Tasks \ {t} : task'[u] = task[u]
           /\ lock' \in {Free} \cup Tasks
           /\ \A u \in Tasks \ {t} : lock = u => lock' = u
<1> DEFINE blank == [Blank EXCEPT !.pc = IF t \in Updates THEN "done" ELSE "idle"]
<1>1. /\ blank \in TaskType /\ blank.pc = (IF t \in Updates THEN "done" ELSE "idle")
      /\ blank.row = NoRow /\ blank.doc = NoRecord
  BY BlankTyped DEF TaskType, Steps
<1>2. task' = [task EXCEPT ![t] = blank]
  BY DEF End
<1> HIDE DEF blank
<1>3. task \in [Tasks -> TaskType]
  BY DEF TypeOK, TaskType
<1>4. lock' = IF lock = t THEN Free ELSE lock
  BY DEF End
<1> QED
  BY <1>1, <1>2, <1>3, <1>4 DEF TypeOK

\* What is known of the counters.
LEMMA Counters ==
    ASSUME TypeOK
    PROVE  /\ sent \in Nat /\ sent <= MaxMessages /\ present \in Nat
           /\ present # 0 => present \in Updates
           /\ \A i \in Updates : i # 0 /\ i \in Nat
           /\ {row.joined, row.last, record.joined} \subseteq Nat
           /\ \A t \in Tasks : task[t].row.joined \in Nat
BY Actors DEF TypeOK, Updates, Rows, Records

-----------------------------------------------------------------------------
(* A handler that ends *)

\* A handler may end without more ado, unless it is that of the join that began
\* the stay and has something left to do; then its death is on record.
MayEnd(t) ==
    \/ excused'
    \/ t \in {Request, Sweep}
    \/ task[t].pc \in {"left", "drop", "look", "remove", "mute", "approve", "restrict", "expel"}
    \/ t \in Updates /\ kind[t] # "join"

\* A message that is being handled was sent.
LEMMA Handled ==
    ASSUME SessionInv, NEW t \in Updates, task[t].pc # "idle" \/ kind[t] # "none"
    PROVE  t <= sent
BY Actors, Counters DEF SessionInv, Messages

\* A handler that may end keeps the invariant.
LEMMA EndKeeps ==
    ASSUME SessionInv, NEW t \in Tasks, End(t), MayEnd(t),
           task[t].pc # "idle" \/ (t \in Updates /\ kind[t] # "none"),
           UNCHANGED <<telegram, restriction, row, record, verified, repeats>>,
           key' \in BOOLEAN, dm' \in {"none", "join", "request"}, faults' \in 0 .. MaxFaults,
           excused' \in BOOLEAN, excused => excused'
    PROVE  SessionInv'
<1> USE Actors DEF telegram
<1>0. TypeOK
  BY DEF SessionInv
<1>a. /\ task'[t].pc = (IF t \in Updates THEN "done" ELSE "idle")
      /\ task'[t].row = NoRow /\ task'[t].doc = NoRecord
      /\ \A u \in Tasks \ {t} : task'[u] = task[u] /\ (lock = u => lock' = u)
  BY <1>0, EndDoes
<1>b. /\ sent \in Nat /\ present \in Nat /\ (present # 0 => present \in Updates)
      /\ \A i \in Updates : i # 0 /\ i \in Nat
  BY <1>0, Counters
<1>c. t \in Updates => t <= sent
  BY Handled
<1>t. TypeOK'
  <2>1. task' \in [Tasks -> TaskType] /\ lock' \in {Free} \cup Tasks
    BY <1>0, EndDoes
  <2> QED
    BY <1>0, <2>1 DEF TypeOK, TaskType
<1>1. Locked'
  BY <1>a, <1>b DEF SessionInv, Locked, Inside
<1>2. Messages'
  BY <1>a, <1>b, <1>c DEF SessionInv, Messages
<1>3. Sessions'
  BY <1>a, <1>b, BlankTyped DEF SessionInv, Sessions, Past
<1>4. DropsOld'
  BY <1>a, <1>b DEF SessionInv, DropsOld
<1>5. SameStay'
  BY <1>a, <1>b DEF SessionInv, SameStay
<1>6. SameRecord'
  BY <1>a, <1>b DEF SessionInv, SameRecord, Exists
<1>7. Released'
  BY <1>a, <1>b DEF SessionInv, Released, Exists, MayEnd
<1>8. RowKnown' /\ HolderKnows'
  BY <1>a, <1>b DEF SessionInv, RowKnown, HolderKnows, Coming, Exists, MayEnd, Messages
<1>9. Held'
  BY <1>a, <1>b DEF SessionInv, HolderKnows, Held, Coming, UnderWay, Exists, MayEnd, Messages
<1>10. Freed'
  BY <1>a, <1>b DEF SessionInv, Freed
<1> QED
  BY <1>t, <1>1, <1>2, <1>3, <1>4, <1>5, <1>6, <1>7, <1>8, <1>9, <1>10 DEF SessionInv

-----------------------------------------------------------------------------
(* New identities, and the row of the user *)

\* There are more identities than documents in sight, so the least one that is
\* not in use exists.
LEMMA UnusedIdIs ==
    ASSUME NEW used, IsFiniteSet(used), Cardinality(used) <= 2 * MaxMessages + 8
    PROVE  UnusedId(used) \in Ids \ used
<1>1. Ids \ used # {}
  <2> SUFFICES ASSUME Ids \subseteq used PROVE FALSE
    OBVIOUS
  <2>1. IsFiniteSet(Ids) /\ Cardinality(Ids) = 2 * MaxMessages + 9
    <3>1. 2 * MaxMessages + 9 \in Nat /\ ~ (1 > 2 * MaxMessages + 9)
      BY Actors
    <3> QED
      BY <3>1, FS_Interval DEF Ids
  <2>2. Cardinality(Ids) <= Cardinality(used) /\ Cardinality(used) \in Nat
    BY FS_Subset, FS_CardinalityType
  <2> QED
    BY <2>1, <2>2, Actors
<1> DEFINE below == {p \in Nat \X Nat : p[1] < p[2]}
<1>2. IsWellFoundedOn(below, Nat)
  BY NatLessThanWellFounded DEF OpToRel
<1> HIDE DEF below
<1>3. PICK i \in Ids \ used : \A j \in Ids \ used : ~ (<<j, i>> \in below)
  <2>1. Ids \ used \subseteq Nat
    BY Actors DEF Ids
  <2> QED
    BY <1>1, <1>2, <2>1, WFMin
<1>4. \A j \in Ids \ used : i <= j
  <2> SUFFICES ASSUME NEW j \in Ids \ used PROVE ~ (j < i)
    BY DEF Ids
  <2>1. ~ (<<j, i>> \in below) /\ <<j, i>> \in Nat \X Nat
    BY <1>3 DEF Ids
  <2> QED
    BY <2>1 DEF below
<1> QED
  BY <1>3, <1>4 DEF UnusedId

\* As many identities at most as there are tasks.
LEMMA PerTask ==
    ASSUME NEW f \in [Tasks -> Nat]
    PROVE  LET T == {f[t] : t \in Tasks}
           IN  IsFiniteSet(T) /\ Cardinality(T) \in Nat /\ Cardinality(T) <= MaxMessages + 3
<1> DEFINE T == {f[t] : t \in Tasks}
<1>1. f \in Surjection(Tasks, T)
  BY Fun_IsSurj
<1>2. IsFiniteSet(Tasks) /\ Cardinality(Tasks) = MaxMessages + 3
  <2>1. MaxMessages + 3 \in Nat /\ ~ (1 > MaxMessages + 3)
    BY Actors
  <2> QED
    BY <2>1, FS_Interval DEF Tasks
<1> QED
  BY <1>1, <1>2, FS_Surjection, FS_CardinalityType

\* The union of two small sets is small.
LEMMA Together ==
    ASSUME NEW S, NEW T, IsFiniteSet(S), IsFiniteSet(T), NEW m \in Nat, NEW n \in Nat,
           Cardinality(S) <= m, Cardinality(T) <= n
    PROVE  IsFiniteSet(S \cup T) /\ Cardinality(S \cup T) <= m + n
<1>1. IsFiniteSet(S \cap T)
  <2>1. S \cap T \in SUBSET S
    OBVIOUS
  <2> QED
    BY <2>1, FS_Subset
<1>2. Cardinality(S \cap T) \in Nat /\ Cardinality(S) \in Nat /\ Cardinality(T) \in Nat
  BY <1>1, FS_CardinalityType
<1>3. /\ IsFiniteSet(S \cup T)
      /\ Cardinality(S \cup T) = Cardinality(S) + Cardinality(T) - Cardinality(S \cap T)
  BY FS_Union
<1> QED
  BY <1>2, <1>3

\* The identity of a new row is that of no row a task remembers, and no record
\* is about it.
LEMMA NewRowIdIs ==
    ASSUME TypeOK
    PROVE  /\ NewRowId \in Ids /\ NewRowId # record.member
           /\ \A t \in Tasks : NewRowId # task[t].row.id
<1> DEFINE two == {row.id, record.member}
           rows == {task[t].row.id : t \in Tasks}
           members == {task[t].doc.member : t \in Tasks}
<1>0. MaxMessages \in Nat /\ Ids \cup {0} \subseteq Nat
  BY Actors DEF Ids
<1>1. IsFiniteSet(two) /\ Cardinality(two) <= 2
  <2>1. IsFiniteSet({row.id}) /\ Cardinality({row.id}) = 1
    BY FS_Singleton
  <2>2. IsFiniteSet({record.member}) /\ Cardinality({record.member}) = 1
    BY FS_Singleton
  <2>3. two = {row.id} \cup {record.member}
    OBVIOUS
  <2> HIDE DEF two
  <2>4. /\ IsFiniteSet({row.id} \cup {record.member})
        /\ Cardinality({row.id} \cup {record.member}) <= 1 + 1
    <3>1. Cardinality({row.id}) <= 1 /\ Cardinality({record.member}) <= 1 /\ 1 \in Nat
      BY <2>1, <2>2
    <3> QED
      BY <2>1, <2>2, <3>1, Together
  <2> QED
    BY <2>3, <2>4
<1>2. IsFiniteSet(rows) /\ Cardinality(rows) <= MaxMessages + 3
  <2> DEFINE f == [t \in Tasks |-> task[t].row.id]
  <2>1. f \in [Tasks -> Nat]
    BY <1>0 DEF TypeOK, Rows
  <2>2. rows = {f[t] : t \in Tasks}
    OBVIOUS
  <2> HIDE DEF f
  <2> QED
    BY <2>1, <2>2, PerTask
<1>3. IsFiniteSet(members) /\ Cardinality(members) <= MaxMessages + 3
  <2> DEFINE f == [t \in Tasks |-> task[t].doc.member]
  <2>1. f \in [Tasks -> Nat]
    BY <1>0 DEF TypeOK, Records
  <2>2. members = {f[t] : t \in Tasks}
    OBVIOUS
  <2> HIDE DEF f
  <2> QED
    BY <2>1, <2>2, PerTask
<1> HIDE DEF two, rows, members
<1>4. IsFiniteSet(two \cup rows) /\ Cardinality(two \cup rows) <= 2 + (MaxMessages + 3)
  <2>1. MaxMessages + 3 \in Nat /\ 2 \in Nat
    BY <1>0
  <2> QED
    BY <1>1, <1>2, <2>1, Together
<1>5. /\ IsFiniteSet((two \cup rows) \cup members)
      /\ Cardinality((two \cup rows) \cup members) <= (2 + (MaxMessages + 3)) + (MaxMessages + 3)
  <2>1. MaxMessages + 3 \in Nat /\ 2 + (MaxMessages + 3) \in Nat
    BY <1>0
  <2> QED
    BY <1>3, <1>4, <2>1, Together
<1>6. NewRowId \in Ids \ ((two \cup rows) \cup members)
  <2>1. (2 + (MaxMessages + 3)) + (MaxMessages + 3) = 2 * MaxMessages + 8
    BY <1>0
  <2>2. UnusedId((two \cup rows) \cup members) \in Ids \ ((two \cup rows) \cup members)
    BY <1>5, <2>1, UnusedIdIs
  <2> QED
    BY <2>2 DEF NewRowId, two, rows, members
<1> QED
  BY <1>6 DEF two, rows, members

\* The identity of a new record is an identity.
LEMMA NewRecordIdIs ==
    ASSUME TypeOK
    PROVE  /\ NewRecordId \in Ids /\ NewRecordId # record.id
           /\ \A t \in Tasks : NewRecordId # task[t].doc.id
<1> DEFINE docs == {task[t].doc.id : t \in Tasks}
<1>0. MaxMessages \in Nat /\ Ids \cup {0} \subseteq Nat
  BY Actors DEF Ids
<1>1. IsFiniteSet({record.id}) /\ Cardinality({record.id}) <= 1
  <2>1. IsFiniteSet({record.id}) /\ Cardinality({record.id}) = 1
    BY FS_Singleton
  <2> QED
    BY <2>1
<1>2. IsFiniteSet(docs) /\ Cardinality(docs) <= MaxMessages + 3
  <2> DEFINE f == [t \in Tasks |-> task[t].doc.id]
  <2>1. f \in [Tasks -> Nat]
    BY <1>0 DEF TypeOK, Records
  <2>2. docs = {f[t] : t \in Tasks}
    OBVIOUS
  <2> HIDE DEF f
  <2> QED
    BY <2>1, <2>2, PerTask
<1> HIDE DEF docs
<1>3. /\ IsFiniteSet({record.id} \cup docs)
      /\ Cardinality({record.id} \cup docs) <= 1 + (MaxMessages + 3)
  <2>1. MaxMessages + 3 \in Nat /\ 1 \in Nat
    BY <1>0
  <2> QED
    BY <1>1, <1>2, <2>1, Together
<1>4. Cardinality({record.id} \cup docs) <= 2 * MaxMessages + 8
  BY <1>0, <1>3, FS_CardinalityType
<1>5. NewRecordId \in Ids \ ({record.id} \cup docs)
  BY <1>3, <1>4, UnusedIdIs DEF NewRecordId, docs
<1> QED
  BY <1>5 DEF docs

\* A message keeps the row, or begins one with an identity of its own; it is the
\* last one seen, unless a later one was.
LEMMA EnsureRowDoes ==
    ASSUME TypeOK, Sessions, NEW m \in Nat, m <= sent, NEW join \in BOOLEAN, EnsureRow(m, join)
    PROVE  /\ row' \in Rows /\ row'.id # 0
           /\ row'.joined <= row'.last /\ row'.last <= sent
           /\ join => row'.joined >= m
           /\ row.joined <= row'.joined
           /\ Exists(row) => row'.id = row.id
           /\ ~ Exists(row) => \A t \in Tasks : row'.id # task[t].row.id
<1>1. /\ sent \in Nat /\ sent <= MaxMessages /\ MaxMessages \in Nat
      /\ row \in Rows /\ row.joined \in Nat /\ row.last \in Nat
  BY Counters, Actors DEF TypeOK, Rows
<1>2. row.joined <= row.last /\ row.last <= sent
  BY DEF Sessions
<1>3. CASE Exists(row)
  <2> DEFINE last == Greater(row.last, m)
             joined == IF join THEN Greater(row.joined, m) ELSE row.joined
  <2>1. row' = [row EXCEPT !.last = last, !.joined = joined]
    BY <1>3 DEF EnsureRow
  <2>2. /\ last \in 0 .. MaxMessages /\ joined \in 0 .. MaxMessages
        /\ joined <= last /\ last <= sent /\ row.joined <= joined /\ (join => joined >= m)
    BY <1>1, <1>2 DEF Greater
  <2> HIDE DEF last, joined
  <2> QED
    BY <1>1, <1>3, <2>1, <2>2 DEF Rows, Exists
<1>4. CASE ~ Exists(row)
  <2>1. row.joined = 0
    BY <1>4 DEF Exists, Sessions, Past
  <2>2. /\ NewRowId \in Ids /\ NewRowId # 0
        /\ \A t \in Tasks : NewRowId # task[t].row.id
    BY NewRowIdIs DEF Ids
  <2>3. row' = [id |-> NewRowId, last |-> m, joined |-> IF join THEN m ELSE 0]
    BY <1>4 DEF EnsureRow
  <2> QED
    BY <1>1, <1>4, <2>1, <2>2, <2>3 DEF Rows
<1> QED
  BY <1>3, <1>4

\* An update is delivered again.
LEMMA RedeliverKeeps ==
    ASSUME SessionInv, NEW m \in Updates, Redeliver(m) PROVE SessionInv'
<1> USE Actors DEF telegram, stored, history, budget
<1>0. TypeOK
  BY DEF SessionInv
<1>b. /\ sent \in Nat /\ present \in Nat /\ (present # 0 => present \in Updates)
      /\ \A i \in Updates : i # 0 /\ i \in Nat
      /\ {row.joined, row.last, record.joined} \subseteq Nat
      /\ \A u \in Tasks : task[u].row.joined \in Nat
      /\ m \in Tasks /\ m # Captcha /\ m # Sweep /\ m # Request
  BY <1>0, Counters
<1>s. "idle" \in Steps
  BY DEF Steps
<1>a. /\ task[m].pc = "done"
      /\ task' \in [Tasks -> TaskType]
      /\ task'[m].pc = "idle" /\ task'[m].row = task[m].row /\ task'[m].doc = task[m].doc
      /\ \A u \in Tasks \ {m} : task'[u] = task[u]
      /\ task'[Captcha] = task[Captcha] /\ task'[Sweep] = task[Sweep]
      /\ UNCHANGED <<kind, sent, present, requested, restriction, row, record, lock, verified,
         excused>>
  BY <1>0, <1>b, <1>s, GoDoes DEF At, Redeliver
<1>t. TypeOK'
  BY <1>0, <1>a, <1>b, BoundsAssumption DEF TypeOK, TaskType, Steps, Redeliver
<1>1. Locked' /\ Messages' /\ Sessions'
  BY <1>a, <1>b DEF SessionInv, Locked, Inside, Messages, Sessions, Past, Exists
<1>2. DropsOld'
  BY <1>a, <1>b DEF SessionInv, DropsOld, Sessions, Past, Messages
<1>3. SameStay'
  BY <1>a, <1>b DEF SessionInv, SameStay, Exists, Sessions, Past, Messages, Locked, Inside
<1>4. SameRecord' /\ Released'
  BY <1>a, <1>b DEF SessionInv, SameRecord, Exists, Locked, Inside, Released
<1>5. RowKnown' /\ HolderKnows'
  BY <1>a, <1>b DEF SessionInv, RowKnown, Exists, Messages, Sessions, Past, HolderKnows, Coming,
     Locked, Inside
<1>6. Held'
  BY <1>a, <1>b DEF SessionInv, Held, HolderKnows, RowKnown, UnderWay, Coming, Exists, Messages,
     Sessions, Past, Locked, Inside
<1>7. Freed'
  BY <1>a, <1>b DEF SessionInv, Freed, Locked, Inside, Sessions, Past, Messages
<1> QED
  BY <1>t, <1>1, <1>2, <1>3, <1>4, <1>5, <1>6, <1>7 DEF SessionInv

\* A request to join.
LEMMA AskToJoinKeeps ==
    ASSUME SessionInv, AskToJoin PROVE SessionInv'
<1> USE Actors DEF telegram, stored, history, budget
<1>0. TypeOK
  BY DEF SessionInv
<1>b. /\ sent \in Nat /\ present \in Nat /\ (present # 0 => present \in Updates)
      /\ \A i \in Updates : i # 0 /\ i \in Nat
      /\ {row.joined, row.last, record.joined} \subseteq Nat
      /\ \A u \in Tasks : task[u].row.joined \in Nat
  BY <1>0, Counters
<1>s. "wait" \in Steps
  BY DEF Steps
<1>a. /\ present = 0 /\ task[Request].pc = "idle" /\ requested' = TRUE
      /\ task' \in [Tasks -> TaskType]
      /\ task'[Request].pc = "wait" /\ task'[Request].row = task[Request].row
      /\ task'[Request].doc = task[Request].doc
      /\ \A u \in Tasks \ {Request} : task'[u] = task[u]
      /\ UNCHANGED <<kind, sent, present, restriction, row, record, lock, verified, excused>>
  BY <1>0, <1>b, <1>s, RequestDoes DEF At, AskToJoin
<1>t. TypeOK'
  BY <1>0, <1>a, <1>b DEF TypeOK, TaskType, Steps, AskToJoin
<1>1. Locked' /\ Messages' /\ Sessions'
  <2>1. Locked'
    BY <1>a DEF SessionInv, Locked, Inside
  <2>2. Messages'
    BY <1>a, <1>b DEF SessionInv, Messages
  <2>3. Sessions'
    BY <1>a, <1>b DEF SessionInv, Sessions, Past
  <2> QED
    BY <2>1, <2>2, <2>3
<1>2. DropsOld'
  BY <1>a, <1>b DEF SessionInv, DropsOld, Sessions, Past, Messages
<1>3. SameStay'
  BY <1>a, <1>b DEF SessionInv, SameStay, Exists, Sessions, Past, Messages, Locked, Inside
<1>4. SameRecord' /\ Released'
  BY <1>a, <1>b DEF SessionInv, SameRecord, Exists, Locked, Inside, Released
<1>5. RowKnown' /\ HolderKnows'
  BY <1>a, <1>b DEF SessionInv, RowKnown, Exists, Messages, Sessions, Past, HolderKnows, Coming,
     Locked, Inside
<1>6. Held'
  BY <1>a, <1>b DEF SessionInv, Held, HolderKnows, RowKnown, UnderWay, Coming, Exists, Messages,
     Sessions, Past, Locked, Inside
<1>7. Freed'
  BY <1>a, <1>b DEF SessionInv, Freed, Locked, Inside, Sessions, Past, Messages
<1> QED
  BY <1>t, <1>1, <1>2, <1>3, <1>4, <1>5, <1>6, <1>7 DEF SessionInv

\* A captcha is solved.
LEMMA SolveKeeps ==
    ASSUME SessionInv, Solve PROVE SessionInv'
<1> USE Actors DEF telegram, stored, history, budget
<1>0. TypeOK
  BY DEF SessionInv
<1>b. /\ sent \in Nat /\ present \in Nat /\ (present # 0 => present \in Updates)
      /\ \A i \in Updates : i # 0 /\ i \in Nat
      /\ {row.joined, row.last, record.joined} \subseteq Nat
      /\ \A u \in Tasks : task[u].row.joined \in Nat
  BY <1>0, Counters
<1>s. "wait" \in Steps
  BY DEF Steps
<1>a. /\ task[Captcha].pc = "idle"
      /\ task' \in [Tasks -> TaskType]
      /\ task'[Captcha].pc = "wait" /\ task'[Captcha].row = task[Captcha].row
      /\ task'[Captcha].doc = task[Captcha].doc
      /\ \A u \in Tasks \ {Captcha} : task'[u] = task[u]
      /\ UNCHANGED <<kind, sent, present, requested, restriction, row, record, lock, verified,
         excused>>
  <2>1. task' = [task EXCEPT ![Captcha].pc = "wait", ![Captcha].request = (dm = "request")]
    BY DEF Solve
  <2> QED
    BY <1>0, <1>s, <2>1, RequestDoes DEF At, Solve
<1>t. TypeOK'
  BY <1>0, <1>a, <1>b DEF TypeOK, TaskType, Steps, Solve
<1>1. Locked' /\ Messages' /\ Sessions'
  <2>1. Locked'
    BY <1>a DEF SessionInv, Locked, Inside
  <2>2. Messages'
    BY <1>a, <1>b DEF SessionInv, Messages
  <2>3. Sessions'
    BY <1>a, <1>b DEF SessionInv, Sessions, Past
  <2> QED
    BY <2>1, <2>2, <2>3
<1>2. DropsOld'
  BY <1>a, <1>b DEF SessionInv, DropsOld, Sessions, Past, Messages
<1>3. SameStay'
  BY <1>a, <1>b DEF SessionInv, SameStay, Exists, Sessions, Past, Messages, Locked, Inside
<1>4. SameRecord' /\ Released'
  BY <1>a, <1>b DEF SessionInv, SameRecord, Exists, Locked, Inside, Released
<1>5. RowKnown' /\ HolderKnows'
  BY <1>a, <1>b DEF SessionInv, RowKnown, Exists, Messages, Sessions, Past, HolderKnows, Coming,
     Locked, Inside
<1>6. Held'
  BY <1>a, <1>b DEF SessionInv, Held, HolderKnows, RowKnown, UnderWay, Coming, Exists, Messages,
     Sessions, Past, Locked, Inside
<1>7. Freed'
  BY <1>a, <1>b DEF SessionInv, Freed, Locked, Inside, Sessions, Past, Messages
<1> QED
  BY <1>t, <1>1, <1>2, <1>3, <1>4, <1>5, <1>6, <1>7 DEF SessionInv

\* The sweep finds a record.
LEMMA FindKeeps ==
    ASSUME SessionInv, Find PROVE SessionInv'
<1> USE Actors DEF telegram, stored, history, budget
<1>0. TypeOK
  BY DEF SessionInv
<1>b. /\ sent \in Nat /\ present \in Nat /\ (present # 0 => present \in Updates)
      /\ \A i \in Updates : i # 0 /\ i \in Nat
      /\ {row.joined, row.last, record.joined} \subseteq Nat
      /\ \A u \in Tasks : task[u].row.joined \in Nat
  BY <1>0, Counters
<1>s. "wait" \in Steps /\ row \in Rows /\ record \in Records
  BY <1>0 DEF Steps, TypeOK
<1>a. /\ task[Sweep].pc = "idle"
      /\ task' \in [Tasks -> TaskType]
      /\ task'[Sweep].pc = "wait" /\ task'[Sweep].row = task[Sweep].row /\ task'[Sweep].doc = record
      /\ \A u \in Tasks \ {Sweep} : task'[u] = task[u]
      /\ UNCHANGED <<kind, sent, present, requested, restriction, row, record, lock, verified,
         excused>>
  BY <1>0, <1>b, <1>s, DocDoes DEF At, Find
<1>t. TypeOK'
  BY <1>0, <1>a, <1>b DEF TypeOK, TaskType, Steps, Find
<1>1. Locked' /\ Messages' /\ Sessions'
  BY <1>a, <1>b DEF SessionInv, Locked, Inside, Messages, Sessions, Past, Exists
<1>2. DropsOld'
  BY <1>a, <1>b DEF SessionInv, DropsOld, Sessions, Past, Messages
<1>3. SameStay'
  BY <1>a, <1>b DEF SessionInv, SameStay, Exists, Sessions, Past, Messages, Locked, Inside
<1>4. SameRecord' /\ Released'
  BY <1>a, <1>b DEF SessionInv, SameRecord, Exists, Locked, Inside, Released
<1>5. RowKnown' /\ HolderKnows'
  BY <1>a, <1>b DEF SessionInv, RowKnown, Exists, Messages, Sessions, Past, HolderKnows, Coming,
     Locked, Inside
<1>6. Held'
  BY <1>a, <1>b DEF SessionInv, Held, HolderKnows, RowKnown, UnderWay, Coming, Exists, Messages,
     Sessions, Past, Locked, Inside
<1>7. Freed'
  BY <1>a, <1>b DEF SessionInv, Freed, Locked, Inside, Sessions, Past, Messages
<1> QED
  BY <1>t, <1>1, <1>2, <1>3, <1>4, <1>5, <1>6, <1>7 DEF SessionInv

\* A leave handler has read the row.
LEMMA LeftGoesKeeps ==
    ASSUME SessionInv, NEW m \in Updates, At(m, "left") \/ (At(m, "idle") /\ kind[m] = "removed"),
           task' = [task EXCEPT ![m].pc = "drop", ![m].row = row],
           UNCHANGED <<telegram, restriction, stored, dm, lock, history, budget>>
    PROVE SessionInv'
<1> USE Actors DEF telegram, stored, history, budget
<1>0. TypeOK
  BY DEF SessionInv
<1>b. /\ sent \in Nat /\ present \in Nat /\ (present # 0 => present \in Updates)
      /\ \A i \in Updates : i # 0 /\ i \in Nat
      /\ {row.joined, row.last, record.joined} \subseteq Nat
      /\ \A u \in Tasks : task[u].row.joined \in Nat
      /\ m \in Tasks /\ m # Captcha /\ m # Sweep /\ m # Request
  BY <1>0, Counters
<1>s. "drop" \in Steps /\ row \in Rows /\ record \in Records
  BY <1>0 DEF Steps, TypeOK
<1>a. /\ (task[m].pc = "left" \/ (task[m].pc = "idle" /\ kind[m] = "removed"))
      /\ task' \in [Tasks -> TaskType]
      /\ task'[m].pc = "drop" /\ task'[m].row = row /\ task'[m].doc = task[m].doc
      /\ \A u \in Tasks \ {m} : task'[u] = task[u]
      /\ task'[Captcha] = task[Captcha] /\ task'[Sweep] = task[Sweep]
      /\ UNCHANGED <<kind, sent, present, requested, restriction, row, record, lock, verified,
         excused>>
  BY <1>0, <1>b, <1>s, RowDoes DEF At
<1>t. TypeOK'
  BY <1>0, <1>a, <1>b DEF TypeOK, TaskType, Steps
<1>1. Locked' /\ Messages' /\ Sessions'
  BY <1>a, <1>b DEF SessionInv, Locked, Inside, Messages, Sessions, Past, Exists
<1>2. DropsOld'
  BY <1>a, <1>b DEF SessionInv, DropsOld, Sessions, Past, Messages
<1>3. SameStay'
  BY <1>a, <1>b DEF SessionInv, SameStay, Exists, Sessions, Past, Messages, Locked, Inside
<1>4. SameRecord' /\ Released'
  BY <1>a, <1>b DEF SessionInv, SameRecord, Exists, Locked, Inside, Released
<1>5. RowKnown' /\ HolderKnows'
  BY <1>a, <1>b DEF SessionInv, RowKnown, Exists, Messages, Sessions, Past, HolderKnows, Coming,
     Locked, Inside
<1>6. Held'
  BY <1>a, <1>b DEF SessionInv, Held, HolderKnows, RowKnown, UnderWay, Coming, Exists, Messages,
     Sessions, Past, Locked, Inside
<1>7. Freed'
  BY <1>a, <1>b DEF SessionInv, Freed, Locked, Inside, Sessions, Past, Messages
<1> QED
  BY <1>t, <1>1, <1>2, <1>3, <1>4, <1>5, <1>6, <1>7 DEF SessionInv

\* A leave handler has read the record.
LEMMA LookGoesKeeps ==
    ASSUME SessionInv, NEW m \in Updates, At(m, "look"),
           task' = [task EXCEPT ![m].pc = "remove", ![m].doc = record],
           UNCHANGED <<telegram, restriction, stored, dm, lock, history, budget>>
    PROVE SessionInv'
<1> USE Actors DEF telegram, stored, history, budget
<1>0. TypeOK
  BY DEF SessionInv
<1>b. /\ sent \in Nat /\ present \in Nat /\ (present # 0 => present \in Updates)
      /\ \A i \in Updates : i # 0 /\ i \in Nat
      /\ {row.joined, row.last, record.joined} \subseteq Nat
      /\ \A u \in Tasks : task[u].row.joined \in Nat
      /\ m \in Tasks /\ m # Captcha /\ m # Sweep /\ m # Request
  BY <1>0, Counters
<1>s. "remove" \in Steps /\ row \in Rows /\ record \in Records
  BY <1>0 DEF Steps, TypeOK
<1>a. /\ task[m].pc = "look"
      /\ task' \in [Tasks -> TaskType]
      /\ task'[m].pc = "remove" /\ task'[m].row = task[m].row /\ task'[m].doc = record
      /\ \A u \in Tasks \ {m} : task'[u] = task[u]
      /\ task'[Captcha] = task[Captcha] /\ task'[Sweep] = task[Sweep]
      /\ UNCHANGED <<kind, sent, present, requested, restriction, row, record, lock, verified,
         excused>>
  BY <1>0, <1>b, <1>s, DocDoes DEF At
<1>t. TypeOK'
  BY <1>0, <1>a, <1>b DEF TypeOK, TaskType, Steps
<1>1. Locked' /\ Messages' /\ Sessions'
  BY <1>a, <1>b DEF SessionInv, Locked, Inside, Messages, Sessions, Past, Exists
<1>2. DropsOld'
  BY <1>a, <1>b DEF SessionInv, DropsOld, Sessions, Past, Messages
<1>3. SameStay'
  BY <1>a, <1>b DEF SessionInv, SameStay, Exists, Sessions, Past, Messages, Locked, Inside
<1>4. SameRecord' /\ Released'
  BY <1>a, <1>b DEF SessionInv, SameRecord, Exists, Locked, Inside, Released
<1>5. RowKnown' /\ HolderKnows'
  BY <1>a, <1>b DEF SessionInv, RowKnown, Exists, Messages, Sessions, Past, HolderKnows, Coming,
     Locked, Inside
<1>6. Held'
  BY <1>a, <1>b DEF SessionInv, Held, HolderKnows, RowKnown, UnderWay, Coming, Exists, Messages,
     Sessions, Past, Locked, Inside
<1>7. Freed'
  BY <1>a, <1>b DEF SessionInv, Freed, Locked, Inside, Sessions, Past, Messages
<1> QED
  BY <1>t, <1>1, <1>2, <1>3, <1>4, <1>5, <1>6, <1>7 DEF SessionInv

\* A leave handler deletes a row that was not seen since.
LEMMA DropGoesKeeps ==
    ASSUME SessionInv, NEW m \in Updates, At(m, "drop"), row.id = task[m].row.id, row.last <= m,
           row' = NoRow, Go(m, "look"),
           UNCHANGED <<telegram, restriction, record, key, dm, lock, history, budget>>
    PROVE SessionInv'
<1> USE Actors DEF telegram, stored, history, budget
<1>0. TypeOK
  BY DEF SessionInv
<1>b. /\ sent \in Nat /\ present \in Nat /\ (present # 0 => present \in Updates)
      /\ \A i \in Updates : i # 0 /\ i \in Nat
      /\ {row.joined, row.last, record.joined} \subseteq Nat
      /\ \A u \in Tasks : task[u].row.joined \in Nat
      /\ m \in Tasks /\ m # Captcha /\ m # Sweep /\ m # Request
  BY <1>0, Counters
<1>s. "look" \in Steps
  BY DEF Steps
<1>a. /\ task[m].pc = "drop" /\ row.id = task[m].row.id /\ row.last <= m /\ row' = NoRow 
      /\ task' \in [Tasks -> TaskType]
      /\ task'[m].pc = "look" /\ task'[m].row = task[m].row /\ task'[m].doc = task[m].doc
      /\ \A u \in Tasks \ {m} : task'[u] = task[u]
      /\ task'[Captcha] = task[Captcha] /\ task'[Sweep] = task[Sweep]
      /\ UNCHANGED <<kind, sent, present, requested, restriction, record, lock, verified,
         excused>>
  BY <1>0, <1>b, <1>s, GoDoes DEF At
<1>t. TypeOK'
  BY <1>0, <1>a, <1>b, BlankTyped DEF TypeOK, TaskType, Steps
<1>1. Locked'
  BY <1>a, <1>b DEF SessionInv, Locked, Inside
<1>2. Messages'
  BY <1>a, <1>b DEF SessionInv, Messages
<1>3. Sessions'
  BY <1>a, <1>b, BlankTyped DEF SessionInv, Sessions, Past, Exists
<1>4. DropsOld'
  BY <1>a, <1>b, BlankTyped DEF SessionInv, DropsOld, Sessions, Past, Messages
<1>5. SameStay'
  BY <1>a, <1>b, BlankTyped DEF SessionInv, SameStay, Exists, Sessions, Past, Messages, Locked,
     Inside
<1>6. SameRecord' /\ Released'
  BY <1>a, <1>b DEF SessionInv, SameRecord, Exists, Locked, Inside, Released
<1>7. RowKnown'
  BY <1>a, <1>b, BlankTyped DEF SessionInv, RowKnown, Exists, Messages, Sessions, Past
<1>8. HolderKnows'
  BY <1>a, <1>b DEF SessionInv, HolderKnows, RowKnown, Coming, Exists, Messages, Sessions, Past,
     Locked, Inside
<1>9. Held'
  BY <1>a, <1>b DEF SessionInv, Held, HolderKnows, RowKnown, UnderWay, Coming, Exists, Messages,
     Sessions, Past, Locked, Inside
<1>10. Freed'
  BY <1>a, <1>b DEF SessionInv, Freed, Locked, Inside, Sessions, Past, Messages
<1> QED
  BY <1>t, <1>1, <1>2, <1>3, <1>4, <1>5, <1>6, <1>7, <1>8, <1>9, <1>10 DEF SessionInv

\* A join handler without the key of a request goes for the lock.
LEMMA KeyGoesKeeps ==
    ASSUME SessionInv, NEW m \in Updates, At(m, "key"), Go(m, "wait"),
           UNCHANGED <<telegram, restriction, stored, dm, lock, history, budget>>
    PROVE SessionInv'
<1> USE Actors DEF telegram, stored, history, budget
<1>0. TypeOK
  BY DEF SessionInv
<1>b. /\ sent \in Nat /\ present \in Nat /\ (present # 0 => present \in Updates)
      /\ \A i \in Updates : i # 0 /\ i \in Nat
      /\ {row.joined, row.last, record.joined} \subseteq Nat
      /\ \A u \in Tasks : task[u].row.joined \in Nat
      /\ m \in Tasks /\ m # Captcha /\ m # Sweep /\ m # Request
  BY <1>0, Counters
<1>s. "wait" \in Steps
  BY DEF Steps
<1>a. /\ task[m].pc = "key"
      /\ task' \in [Tasks -> TaskType]
      /\ task'[m].pc = "wait" /\ task'[m].row = task[m].row /\ task'[m].doc = task[m].doc
      /\ \A u \in Tasks \ {m} : task'[u] = task[u]
      /\ task'[Captcha] = task[Captcha] /\ task'[Sweep] = task[Sweep]
      /\ UNCHANGED <<kind, sent, present, requested, restriction, row, record, lock, verified,
         excused>>
  BY <1>0, <1>b, <1>s, GoDoes DEF At
<1>t. TypeOK'
  BY <1>0, <1>a, <1>b DEF TypeOK, TaskType, Steps
<1>1. Locked' /\ Messages' /\ Sessions'
  BY <1>a, <1>b DEF SessionInv, Locked, Inside, Messages, Sessions, Past, Exists
<1>2. DropsOld'
  BY <1>a, <1>b DEF SessionInv, DropsOld, Sessions, Past, Messages
<1>3. SameStay'
  BY <1>a, <1>b DEF SessionInv, SameStay, Exists, Sessions, Past, Messages, Locked, Inside
<1>4. SameRecord' /\ Released'
  BY <1>a, <1>b DEF SessionInv, SameRecord, Exists, Locked, Inside, Released
<1>5. RowKnown' /\ HolderKnows'
  BY <1>a, <1>b DEF SessionInv, RowKnown, Exists, Messages, Sessions, Past, HolderKnows, Coming,
     Locked, Inside
<1>6. Held'
  BY <1>a, <1>b DEF SessionInv, Held, HolderKnows, RowKnown, UnderWay, Coming, Exists, Messages,
     Sessions, Past, Locked, Inside
<1>7. Freed'
  BY <1>a, <1>b DEF SessionInv, Freed, Locked, Inside, Sessions, Past, Messages
<1> QED
  BY <1>t, <1>1, <1>2, <1>3, <1>4, <1>5, <1>6, <1>7 DEF SessionInv

\* The holder of the lock reads the row.
LEMMA ReadRowKeeps ==
    ASSUME SessionInv, NEW t \in Tasks, ReadRow(t) PROVE SessionInv'
<1> USE Actors DEF telegram, stored, history, budget
<1>0. TypeOK
  BY DEF SessionInv
<1>b. /\ sent \in Nat /\ present \in Nat /\ (present # 0 => present \in Updates)
      /\ \A i \in Updates : i # 0 /\ i \in Nat
      /\ {row.joined, row.last, record.joined} \subseteq Nat
      /\ \A u \in Tasks : task[u].row.joined \in Nat
  BY <1>0, Counters
<1>s. "upsert" \in Steps /\ row \in Rows /\ record \in Records
  BY <1>0 DEF Steps, TypeOK
<1>a. /\ task[t].pc = "read"
      /\ task' \in [Tasks -> TaskType]
      /\ task'[t].pc = "upsert" /\ task'[t].row = row /\ task'[t].doc = task[t].doc
      /\ \A u \in Tasks \ {t} : task'[u] = task[u]
      /\ UNCHANGED <<kind, sent, present, requested, restriction, row, record, lock, verified,
         excused>>
  BY <1>0, <1>b, <1>s, RowDoes DEF At, ReadRow
<1>t. TypeOK'
  BY <1>0, <1>a, <1>b DEF TypeOK, TaskType, Steps, ReadRow
<1>1. Locked' /\ Messages' /\ Sessions'
  BY <1>a, <1>b DEF SessionInv, Locked, Inside, Messages, Sessions, Past, Exists
<1>2. DropsOld'
  BY <1>a, <1>b DEF SessionInv, DropsOld, Sessions, Past, Messages
<1>3. SameStay'
  BY <1>a, <1>b DEF SessionInv, SameStay, Exists, Sessions, Past, Messages, Locked, Inside
<1>4. SameRecord' /\ Released'
  BY <1>a, <1>b DEF SessionInv, SameRecord, Exists, Locked, Inside, Released
<1>5. RowKnown' /\ HolderKnows'
  BY <1>a, <1>b DEF SessionInv, RowKnown, Exists, Messages, Sessions, Past, HolderKnows, Coming,
     Locked, Inside
<1>6. Held'
  BY <1>a, <1>b DEF SessionInv, Held, HolderKnows, RowKnown, UnderWay, Coming, Exists, Messages,
     Sessions, Past, Locked, Inside
<1>7. Freed'
  BY <1>a, <1>b DEF SessionInv, Freed, Locked, Inside, Sessions, Past, Messages
<1> QED
  BY <1>t, <1>1, <1>2, <1>3, <1>4, <1>5, <1>6, <1>7 DEF SessionInv

\* A join handler finds the record it has ensured.
LEMMA ReloadGoesKeeps ==
    ASSUME SessionInv, NEW t \in Tasks, At(t, "reload"), Exists(record), t # Request, Go(t, "mute"),
           UNCHANGED <<telegram, restriction, stored, dm, lock, history, budget>>
    PROVE SessionInv'
<1> USE Actors DEF telegram, stored, history, budget
<1>0. TypeOK
  BY DEF SessionInv
<1>b. /\ sent \in Nat /\ present \in Nat /\ (present # 0 => present \in Updates)
      /\ \A i \in Updates : i # 0 /\ i \in Nat
      /\ {row.joined, row.last, record.joined} \subseteq Nat
      /\ \A u \in Tasks : task[u].row.joined \in Nat
  BY <1>0, Counters
<1>s. "mute" \in Steps
  BY DEF Steps
<1>a. /\ task[t].pc = "reload" /\ Exists(record)
      /\ task' \in [Tasks -> TaskType]
      /\ task'[t].pc = "mute" /\ task'[t].row = task[t].row /\ task'[t].doc = task[t].doc
      /\ \A u \in Tasks \ {t} : task'[u] = task[u]
      /\ UNCHANGED <<kind, sent, present, requested, restriction, row, record, lock, verified,
         excused>>
  BY <1>0, <1>b, <1>s, GoDoes DEF At
<1>t. TypeOK'
  BY <1>0, <1>a, <1>b DEF TypeOK, TaskType, Steps
<1>l. Locked'
  BY <1>a DEF SessionInv, Locked, Inside
<1>1. Locked' /\ Messages' /\ Sessions'
  <2>1. Messages'
    BY <1>a, <1>b DEF SessionInv, Messages
  <2>2. Sessions'
    BY <1>a, <1>b DEF SessionInv, Sessions, Past
  <2> QED
    BY <1>l, <2>1, <2>2
<1>2. DropsOld'
  BY <1>a, <1>b DEF SessionInv, DropsOld, Sessions, Past, Messages
<1>3. SameStay'
  BY <1>a, <1>b DEF SessionInv, SameStay, Exists, Sessions, Past, Messages, Locked, Inside
<1>4. SameRecord'
  BY <1>a, <1>b DEF SessionInv, SameRecord, Exists, Locked, Inside
<1>5. Released'
  <2>1. task'[Captcha].pc = "forget" <=> task[Captcha].pc = "forget"
    BY <1>a
  <2>2. task'[Sweep].pc \in {"check", "recheck", "expel"}
          => task[Sweep].pc \in {"check", "recheck", "expel"}
    BY <1>a
  <2> QED
    BY <1>a, <2>1, <2>2 DEF SessionInv, Released, Exists
<1>6. RowKnown' /\ HolderKnows'
  BY <1>a, <1>b DEF SessionInv, RowKnown, Exists, Messages, Sessions, Past, HolderKnows, Coming,
     Locked, Inside
<1>7. Held'
  BY <1>a, <1>b DEF SessionInv, Held, HolderKnows, RowKnown, UnderWay, Coming, Exists, Messages,
     Sessions, Past, Locked, Inside
<1>8. Freed'
  BY <1>a, <1>b DEF SessionInv, Freed, Locked, Inside, Sessions, Past, Messages
<1> QED
  BY <1>t, <1>1, <1>2, <1>3, <1>4, <1>5, <1>6, <1>7, <1>8 DEF SessionInv

\* The sweep reads the record again.
LEMMA CurrentGoesKeeps ==
    ASSUME SessionInv, At(Sweep, "current"), Exists(record),
           task' = [task EXCEPT ![Sweep].pc = "check", ![Sweep].doc = record],
           UNCHANGED <<telegram, restriction, stored, dm, lock, history, budget>>
    PROVE SessionInv'
<1> USE Actors DEF telegram, stored, history, budget
<1>0. TypeOK
  BY DEF SessionInv
<1>b. /\ sent \in Nat /\ present \in Nat /\ (present # 0 => present \in Updates)
      /\ \A i \in Updates : i # 0 /\ i \in Nat
      /\ {row.joined, row.last, record.joined} \subseteq Nat
      /\ \A u \in Tasks : task[u].row.joined \in Nat
  BY <1>0, Counters
<1>s. "check" \in Steps /\ row \in Rows /\ record \in Records
  BY <1>0 DEF Steps, TypeOK
<1>a. /\ task[Sweep].pc = "current" /\ Exists(record)
      /\ task' \in [Tasks -> TaskType]
      /\ task'[Sweep].pc = "check" /\ task'[Sweep].row = task[Sweep].row
      /\ task'[Sweep].doc = record
      /\ \A u \in Tasks \ {Sweep} : task'[u] = task[u]
      /\ UNCHANGED <<kind, sent, present, requested, restriction, row, record, lock, verified,
         excused>>
  BY <1>0, <1>b, <1>s, DocDoes DEF At
<1>t. TypeOK'
  BY <1>0, <1>a, <1>b DEF TypeOK, TaskType, Steps
<1>1. Locked' /\ Messages' /\ Sessions'
  BY <1>a, <1>b DEF SessionInv, Locked, Inside, Messages, Sessions, Past, Exists
<1>2. DropsOld'
  BY <1>a, <1>b DEF SessionInv, DropsOld, Sessions, Past, Messages
<1>3. SameStay'
  BY <1>a, <1>b DEF SessionInv, SameStay, Exists, Sessions, Past, Messages, Locked, Inside
<1>4. SameRecord' /\ Released'
  BY <1>a, <1>b DEF SessionInv, SameRecord, Exists, Locked, Inside, Released
<1>5. RowKnown' /\ HolderKnows'
  BY <1>a, <1>b DEF SessionInv, RowKnown, Exists, Messages, Sessions, Past, HolderKnows, Coming,
     Locked, Inside
<1>6. Held'
  BY <1>a, <1>b DEF SessionInv, Held, HolderKnows, RowKnown, UnderWay, Coming, Exists, Messages,
     Sessions, Past, Locked, Inside
<1>7. Freed'
  BY <1>a, <1>b DEF SessionInv, Freed, Locked, Inside, Sessions, Past, Messages
<1> QED
  BY <1>t, <1>1, <1>2, <1>3, <1>4, <1>5, <1>6, <1>7 DEF SessionInv

\* The sweep goes on with a current session.
LEMMA SweepGoesKeeps ==
    ASSUME SessionInv, NEW s \in {"recheck", "expel"}, At(Sweep, "check") \/ At(Sweep, "recheck"),
           Go(Sweep, s), UNCHANGED <<telegram, restriction, stored, dm, lock, history, budget>>
    PROVE SessionInv'
<1> USE Actors DEF telegram, stored, history, budget
<1>0. TypeOK
  BY DEF SessionInv
<1>b. /\ sent \in Nat /\ present \in Nat /\ (present # 0 => present \in Updates)
      /\ \A i \in Updates : i # 0 /\ i \in Nat
      /\ {row.joined, row.last, record.joined} \subseteq Nat
      /\ \A u \in Tasks : task[u].row.joined \in Nat
  BY <1>0, Counters
<1>s. s \in Steps
  BY DEF Steps
<1>a. /\ task[Sweep].pc \in {"check", "recheck"}
      /\ task' \in [Tasks -> TaskType]
      /\ task'[Sweep].pc = s /\ task'[Sweep].row = task[Sweep].row
      /\ task'[Sweep].doc = task[Sweep].doc
      /\ \A u \in Tasks \ {Sweep} : task'[u] = task[u]
      /\ UNCHANGED <<kind, sent, present, requested, restriction, row, record, lock, verified,
         excused>>
  BY <1>0, <1>b, <1>s, GoDoes DEF At
<1>t. TypeOK'
  BY <1>0, <1>a, <1>b DEF TypeOK, TaskType, Steps
<1>1. Locked' /\ Messages' /\ Sessions'
  BY <1>a, <1>b DEF SessionInv, Locked, Inside, Messages, Sessions, Past, Exists
<1>2. DropsOld'
  BY <1>a, <1>b DEF SessionInv, DropsOld, Sessions, Past, Messages
<1>3. SameStay'
  BY <1>a, <1>b DEF SessionInv, SameStay, Exists, Sessions, Past, Messages, Locked, Inside
<1>4. SameRecord' /\ Released'
  BY <1>a, <1>b DEF SessionInv, SameRecord, Exists, Locked, Inside, Released
<1>5. RowKnown' /\ HolderKnows'
  BY <1>a, <1>b DEF SessionInv, RowKnown, Exists, Messages, Sessions, Past, HolderKnows, Coming,
     Locked, Inside
<1>6. Held'
  BY <1>a, <1>b DEF SessionInv, Held, HolderKnows, RowKnown, UnderWay, Coming, Exists, Messages,
     Sessions, Past, Locked, Inside
<1>7. Freed'
  BY <1>a, <1>b DEF SessionInv, Freed, Locked, Inside, Sessions, Past, Messages
<1> QED
  BY <1>t, <1>1, <1>2, <1>3, <1>4, <1>5, <1>6, <1>7 DEF SessionInv

\* The sweep declines the request.
LEMMA DeclineGoesKeeps ==
    ASSUME SessionInv, At(Sweep, "expel"), requested, requested' = FALSE, Go(Sweep, "erase"),
           UNCHANGED <<kind, sent, present, restriction, stored, dm, lock, history, budget>>
    PROVE SessionInv'
<1> USE Actors DEF telegram, stored, history, budget
<1>0. TypeOK
  BY DEF SessionInv
<1>b. /\ sent \in Nat /\ present \in Nat /\ (present # 0 => present \in Updates)
      /\ \A i \in Updates : i # 0 /\ i \in Nat
      /\ {row.joined, row.last, record.joined} \subseteq Nat
      /\ \A u \in Tasks : task[u].row.joined \in Nat
  BY <1>0, Counters
<1>s. "erase" \in Steps
  BY DEF Steps
<1>a. /\ task[Sweep].pc = "expel" /\ requested /\ requested' = FALSE
      /\ task' \in [Tasks -> TaskType]
      /\ task'[Sweep].pc = "erase" /\ task'[Sweep].row = task[Sweep].row
      /\ task'[Sweep].doc = task[Sweep].doc
      /\ \A u \in Tasks \ {Sweep} : task'[u] = task[u]
      /\ UNCHANGED <<kind, sent, present, restriction, row, record, lock, verified, excused>>
  BY <1>0, <1>b, <1>s, GoDoes DEF At
<1>t. TypeOK'
  BY <1>0, <1>a, <1>b DEF TypeOK, TaskType, Steps
<1>1. Locked' /\ Messages' /\ Sessions'
  BY <1>a, <1>b DEF SessionInv, Locked, Inside, Messages, Sessions, Past, Exists
<1>2. DropsOld'
  BY <1>a, <1>b DEF SessionInv, DropsOld, Sessions, Past, Messages
<1>3. SameStay'
  BY <1>a, <1>b DEF SessionInv, SameStay, Exists, Sessions, Past, Messages, Locked, Inside
<1>4. SameRecord' /\ Released'
  BY <1>a, <1>b DEF SessionInv, SameRecord, Exists, Locked, Inside, Released
<1>5. RowKnown' /\ HolderKnows'
  BY <1>a, <1>b DEF SessionInv, RowKnown, Exists, Messages, Sessions, Past, HolderKnows, Coming,
     Locked, Inside
<1>6. Held'
  BY <1>a, <1>b DEF SessionInv, Held, HolderKnows, RowKnown, UnderWay, Coming, Exists, Messages,
     Sessions, Past, Locked, Inside
<1>7. Freed'
  BY <1>a, <1>b DEF SessionInv, Freed, Locked, Inside, Sessions, Past, Messages
<1> QED
  BY <1>t, <1>1, <1>2, <1>3, <1>4, <1>5, <1>6, <1>7 DEF SessionInv

\* A message is seen.
LEMMA SeenKeeps ==
    ASSUME SessionInv, NEW m \in Updates, Seen(m) PROVE SessionInv'
<1> USE Actors DEF telegram, stored, history, budget
<1>0. TypeOK
  BY DEF SessionInv
<1>b. /\ sent \in Nat /\ present \in Nat /\ (present # 0 => present \in Updates)
      /\ \A i \in Updates : i # 0 /\ i \in Nat
      /\ {row.joined, row.last, record.joined} \subseteq Nat
      /\ \A u \in Tasks : task[u].row.joined \in Nat
      /\ m \in Tasks /\ m # Captcha /\ m # Sweep /\ m # Request
  BY <1>0, Counters
<1>m. sent \in Nat /\ m \in Nat /\ m <= sent
  BY <1>b DEF SessionInv, Messages, At, Seen
<1>e. /\ row' \in Rows /\ row'.id # 0
      /\ row'.joined <= row'.last /\ row'.last <= sent /\ row.joined <= row'.joined
      /\ Exists(row) => row'.id = row.id
      /\ ~ Exists(row) => \A u \in Tasks : row'.id # task[u].row.id
  BY <1>0, <1>m, EnsureRowDoes DEF SessionInv, Seen
<1>n. {row'.joined, row'.last} \subseteq Nat
  BY <1>e, Actors DEF Rows
<1>s. (IF kind[m] = "join" THEN "joined" ELSE "left") \in Steps
  BY DEF Steps
<1>a. /\ task[m].pc = "idle" /\ kind[m] \in {"join", "leave"}
      /\ task' \in [Tasks -> TaskType]
      /\ task'[m].pc = (IF kind[m] = "join" THEN "joined" ELSE "left")
      /\ task'[m].row = task[m].row /\ task'[m].doc = task[m].doc
      /\ \A u \in Tasks \ {m} : task'[u] = task[u]
      /\ task'[Captcha] = task[Captcha] /\ task'[Sweep] = task[Sweep]
      /\ UNCHANGED <<kind, sent, present, requested, restriction, record, lock, verified,
         excused>>
  BY <1>0, <1>b, <1>s, GoDoes DEF At, Seen
<1>t. TypeOK'
  BY <1>0, <1>a, <1>b, <1>e, <1>n DEF TypeOK, TaskType, Steps, Seen
<1>1. Locked' /\ Messages' /\ Sessions'
  BY <1>a, <1>b, <1>e, <1>n DEF SessionInv, Locked, Inside, Messages, Sessions, Past, Exists
<1>2. DropsOld'
  BY <1>a, <1>b, <1>e, <1>n DEF SessionInv, DropsOld, Sessions, Past, Messages
<1>3. SameStay'
  BY <1>a, <1>b, <1>e, <1>n DEF SessionInv, SameStay, Exists, Sessions, Past, Messages, Locked,
     Inside
<1>4. SameRecord' /\ Released'
  BY <1>a, <1>b, <1>e, <1>n DEF SessionInv, SameRecord, Exists, Locked, Inside, Released
<1>5. RowKnown' /\ HolderKnows'
  BY <1>a, <1>b, <1>e, <1>n DEF SessionInv, RowKnown, Exists, Messages, Sessions, Past,
     HolderKnows, Coming, Locked, Inside
<1>6. Held'
  BY <1>a, <1>b, <1>e, <1>n DEF SessionInv, Held, HolderKnows, RowKnown, UnderWay, Coming,
     Exists, Messages, Sessions, Past, Locked, Inside
<1>7. Freed'
  BY <1>a, <1>b, <1>e, <1>n DEF SessionInv, Freed, Locked, Inside, Sessions, Past, Messages
<1> QED
  BY <1>t, <1>1, <1>2, <1>3, <1>4, <1>5, <1>6, <1>7 DEF SessionInv

\* A join handler begins the session of its message.
LEMMA JoinedKeeps ==
    ASSUME SessionInv, NEW m \in Updates, Joined(m) PROVE SessionInv'
<1> USE Actors DEF telegram, stored, history, budget
<1>0. TypeOK
  BY DEF SessionInv
<1>b. /\ sent \in Nat /\ present \in Nat /\ (present # 0 => present \in Updates)
      /\ \A i \in Updates : i # 0 /\ i \in Nat
      /\ {row.joined, row.last, record.joined} \subseteq Nat
      /\ \A u \in Tasks : task[u].row.joined \in Nat
      /\ m \in Tasks /\ m # Captcha /\ m # Sweep /\ m # Request
  BY <1>0, Counters
<1>m. sent \in Nat /\ m \in Nat /\ m <= sent
  BY <1>b DEF SessionInv, Messages, At, Joined
<1>e. /\ row' \in Rows /\ row'.id # 0
      /\ row'.joined <= row'.last /\ row'.last <= sent /\ row.joined <= row'.joined
      /\ Exists(row) => row'.id = row.id
      /\ ~ Exists(row) => \A u \in Tasks : row'.id # task[u].row.id
      /\ row'.joined >= m
  BY <1>0, <1>m, EnsureRowDoes DEF SessionInv, Joined
<1>n. {row'.joined, row'.last} \subseteq Nat
  BY <1>e, Actors DEF Rows
<1>s. "key" \in Steps
  BY DEF Steps
<1>a. /\ task[m].pc = "joined"
      /\ task' \in [Tasks -> TaskType]
      /\ task'[m].pc = "key" /\ task'[m].row = task[m].row /\ task'[m].doc = task[m].doc
      /\ \A u \in Tasks \ {m} : task'[u] = task[u]
      /\ task'[Captcha] = task[Captcha] /\ task'[Sweep] = task[Sweep]
      /\ UNCHANGED <<kind, sent, present, requested, restriction, record, lock, verified,
         excused>>
  BY <1>0, <1>b, <1>s, GoDoes DEF At, Joined
<1>t. TypeOK'
  BY <1>0, <1>a, <1>b, <1>e, <1>n DEF TypeOK, TaskType, Steps, Joined
<1>1. Locked' /\ Messages' /\ Sessions'
  BY <1>a, <1>b, <1>e, <1>n DEF SessionInv, Locked, Inside, Messages, Sessions, Past, Exists
<1>2. DropsOld'
  BY <1>a, <1>b, <1>e, <1>n DEF SessionInv, DropsOld, Sessions, Past, Messages
<1>3. SameStay'
  BY <1>a, <1>b, <1>e, <1>n DEF SessionInv, SameStay, Exists, Sessions, Past, Messages, Locked,
     Inside
<1>4. SameRecord' /\ Released'
  BY <1>a, <1>b, <1>e, <1>n DEF SessionInv, SameRecord, Exists, Locked, Inside, Released
<1>5. RowKnown' /\ HolderKnows'
  BY <1>a, <1>b, <1>e, <1>n DEF SessionInv, RowKnown, Exists, Messages, Sessions, Past,
     HolderKnows, Coming, Locked, Inside
<1>6. Held'
  BY <1>a, <1>b, <1>e, <1>n DEF SessionInv, Held, HolderKnows, RowKnown, UnderWay, Coming,
     Exists, Messages, Sessions, Past, Locked, Inside
<1>7. Freed'
  BY <1>a, <1>b, <1>e, <1>n DEF SessionInv, Freed, Locked, Inside, Sessions, Past, Messages
<1> QED
  BY <1>t, <1>1, <1>2, <1>3, <1>4, <1>5, <1>6, <1>7 DEF SessionInv

\* The button begins a row for a member who has none.
LEMMA ButtonKeeps ==
    ASSUME SessionInv, Button PROVE SessionInv'
<1> USE Actors DEF telegram, stored, history, budget
<1>0. TypeOK
  BY DEF SessionInv
<1>b. /\ sent \in Nat /\ present \in Nat /\ (present # 0 => present \in Updates)
      /\ \A i \in Updates : i # 0 /\ i \in Nat
      /\ {row.joined, row.last, record.joined} \subseteq Nat
      /\ \A u \in Tasks : task[u].row.joined \in Nat
  BY <1>0, Counters
<1>e. /\ row'.joined <= row'.last /\ row'.last <= sent /\ row.joined <= row'.joined
      /\ Exists(row) => row'.id = row.id
      /\ row' \in Rows
      /\ row' = row \/ (row'.id # 0 /\ \A u \in Tasks : Exists(row) \/ row'.id # task[u].row.id)
  <2>1. CASE row' = row
    BY <1>0, <1>b, <2>1 DEF SessionInv, Sessions, TypeOK
  <2>2. CASE EnsureRow(0, FALSE)
    <3>1. 0 \in Nat /\ 0 <= sent /\ FALSE \in BOOLEAN /\ Sessions
      BY <1>b DEF SessionInv
    <3> QED
      BY <1>0, <2>2, <3>1, EnsureRowDoes
  <2> QED
    BY <2>1, <2>2 DEF Button
<1>n. {row'.joined, row'.last} \subseteq Nat
  BY <1>e, Actors DEF Rows
<1>a. /\ task' = task
      /\ UNCHANGED <<kind, sent, present, requested, restriction, record, lock, verified,
         excused>>
  BY DEF Button
<1>t. TypeOK'
  BY <1>0, <1>a, <1>b, <1>e, <1>n DEF TypeOK, TaskType, Steps, Button
<1>1. Locked'
  BY <1>a, <1>b, <1>e, <1>n DEF SessionInv, Locked, Inside
<1>2. Messages'
  BY <1>a, <1>b, <1>e, <1>n DEF SessionInv, Messages
<1>3. Sessions'
  BY <1>a, <1>b, <1>e, <1>n DEF SessionInv, Sessions, Past, Exists
<1>4. DropsOld'
  BY <1>a, <1>b, <1>e, <1>n DEF SessionInv, DropsOld, Sessions, Past, Messages
<1>5. SameStay'
  BY <1>a, <1>b, <1>e, <1>n DEF SessionInv, SameStay, Exists, Sessions, Past, Messages, Locked,
     Inside
<1>6. SameRecord' /\ Released'
  BY <1>a, <1>b, <1>e, <1>n DEF SessionInv, SameRecord, Exists, Locked, Inside, Released
<1>7. RowKnown' /\ HolderKnows'
  BY <1>a, <1>b, <1>e, <1>n DEF SessionInv, RowKnown, Exists, Messages, Sessions, Past,
     HolderKnows, Coming, Locked, Inside
<1>8. Held'
  BY <1>a, <1>b, <1>e, <1>n DEF SessionInv, Held, HolderKnows, RowKnown, UnderWay, Coming,
     Exists, Messages, Sessions, Past, Locked, Inside
<1>9. Freed'
  BY <1>a, <1>b, <1>e, <1>n DEF SessionInv, Freed, Locked, Inside, Sessions, Past, Messages
<1> QED
  BY <1>t, <1>1, <1>2, <1>3, <1>4, <1>5, <1>6, <1>7, <1>8, <1>9 DEF SessionInv

\* A deadline passes.
LEMMA LateKeeps ==
    ASSUME SessionInv, Late PROVE SessionInv'
<1> USE Actors DEF telegram, stored, history, budget
<1>0. TypeOK
  BY DEF SessionInv
<1>b. /\ sent \in Nat /\ present \in Nat /\ (present # 0 => present \in Updates)
      /\ \A i \in Updates : i # 0 /\ i \in Nat
      /\ {row.joined, row.last, record.joined} \subseteq Nat
      /\ \A u \in Tasks : task[u].row.joined \in Nat
  BY <1>0, Counters
<1>a. /\ task' = task
      /\ Exists(record) /\ record' \in Records /\ record'.id = record.id
      /\ record'.member = record.member /\ record'.joined = record.joined
      /\ record'.request = record.request
      /\ UNCHANGED <<kind, sent, present, requested, restriction, row, lock, verified, excused>>
  BY <1>0 DEF Late, TypeOK, Records, Exists
<1>t. TypeOK'
  BY <1>0, <1>a, <1>b DEF TypeOK, TaskType, Steps, Late
<1>1. Locked' /\ Messages' /\ Sessions'
  BY <1>a, <1>b DEF SessionInv, Locked, Inside, Messages, Sessions, Past, Exists
<1>2. DropsOld'
  BY <1>a, <1>b DEF SessionInv, DropsOld, Sessions, Past, Messages
<1>3. SameStay'
  BY <1>a, <1>b DEF SessionInv, SameStay, Exists, Sessions, Past, Messages, Locked, Inside
<1>4. SameRecord' /\ Released'
  BY <1>a, <1>b DEF SessionInv, SameRecord, Exists, Locked, Inside, Released
<1>5. RowKnown' /\ HolderKnows'
  BY <1>a, <1>b DEF SessionInv, RowKnown, Exists, Messages, Sessions, Past, HolderKnows, Coming,
     Locked, Inside
<1>6. Held'
  BY <1>a, <1>b DEF SessionInv, Held, HolderKnows, RowKnown, UnderWay, Coming, Exists, Messages,
     Sessions, Past, Locked, Inside
<1>7. Freed'
  BY <1>a, <1>b DEF SessionInv, Freed, Locked, Inside, Sessions, Past, Messages
<1> QED
  BY <1>t, <1>1, <1>2, <1>3, <1>4, <1>5, <1>6, <1>7 DEF SessionInv

\* The welcome mute ends.
LEMMA WelcomeMuteEndsKeeps ==
    ASSUME SessionInv, WelcomeMuteEnds PROVE SessionInv'
<1> USE Actors DEF telegram, stored, history, budget
<1>0. TypeOK
  BY DEF SessionInv
<1>b. /\ sent \in Nat /\ present \in Nat /\ (present # 0 => present \in Updates)
      /\ \A i \in Updates : i # 0 /\ i \in Nat
      /\ {row.joined, row.last, record.joined} \subseteq Nat
      /\ \A u \in Tasks : task[u].row.joined \in Nat
  BY <1>0, Counters
<1>a. /\ task' = task
      /\ restriction' = "none"
      /\ UNCHANGED <<kind, sent, present, requested, row, record, lock, verified, excused>>
  BY DEF WelcomeMuteEnds
<1>t. TypeOK'
  BY <1>0, <1>a, <1>b DEF TypeOK, TaskType, Steps, WelcomeMuteEnds
<1>1. Locked' /\ Messages' /\ Sessions'
  BY <1>a, <1>b DEF SessionInv, Locked, Inside, Messages, Sessions, Past, Exists
<1>2. DropsOld'
  BY <1>a, <1>b DEF SessionInv, DropsOld, Sessions, Past, Messages
<1>3. SameStay'
  BY <1>a, <1>b DEF SessionInv, SameStay, Exists, Sessions, Past, Messages, Locked, Inside
<1>4. SameRecord' /\ Released'
  BY <1>a, <1>b DEF SessionInv, SameRecord, Exists, Locked, Inside, Released
<1>5. RowKnown' /\ HolderKnows'
  BY <1>a, <1>b DEF SessionInv, RowKnown, Exists, Messages, Sessions, Past, HolderKnows, Coming,
     Locked, Inside
<1>6. Held'
  BY <1>a, <1>b DEF SessionInv, Held, HolderKnows, RowKnown, UnderWay, Coming, Exists, Messages,
     Sessions, Past, Locked, Inside
<1>7. Freed'
  BY <1>a, <1>b DEF SessionInv, Freed, Locked, Inside, Sessions, Past, Messages
<1> QED
  BY <1>t, <1>1, <1>2, <1>3, <1>4, <1>5, <1>6, <1>7 DEF SessionInv

\* The user joins.
LEMMA JoinKeeps ==
    ASSUME SessionInv, Join \/ AdminApproves PROVE SessionInv'
<1> USE Actors DEF telegram, stored, history, budget
<1>0. TypeOK
  BY DEF SessionInv
<1>b. /\ sent \in Nat /\ present \in Nat /\ (present # 0 => present \in Updates)
      /\ \A i \in Updates : i # 0 /\ i \in Nat
      /\ {row.joined, row.last, record.joined} \subseteq Nat
      /\ \A u \in Tasks : task[u].row.joined \in Nat
  BY <1>0, Counters
<1>e. /\ Enter /\ requested' = FALSE /\ (present = 0 \/ requested)
      /\ UNCHANGED <<restriction, stored, dm, lock, task, history, budget>>
  BY DEF Join, AdminApproves
<1>a. /\ task' = task
      /\ requested' = FALSE /\ (present = 0 \/ requested)
      /\ present' = sent + 1
      /\ sent < MaxMessages /\ sent' = sent + 1 /\ sent + 1 \in Updates /\ sent + 1 # 0
      /\ sent + 1 \in 0 .. MaxMessages
      /\ kind' \in [Updates -> {"none", "join", "leave", "removed"}]
      /\ kind'[sent + 1] = "join"
      /\ \A i \in Updates \ {sent + 1} : kind'[i] = kind[i]
      /\ UNCHANGED <<restriction, row, record, lock, verified, excused>>
  BY <1>0, <1>b, <1>e DEF Enter, Say, Updates, TypeOK
<1>t. TypeOK'
  BY <1>0, <1>a, <1>b, <1>e DEF TypeOK, TaskType, Steps, TaskType
<1>1. Locked' /\ Messages' /\ Sessions'
  BY <1>a, <1>b DEF SessionInv, Locked, Inside, Messages, Sessions, Past, Exists
<1>2. DropsOld'
  BY <1>a, <1>b DEF SessionInv, DropsOld, Sessions, Past, Messages
<1>3. SameStay'
  BY <1>a, <1>b DEF SessionInv, SameStay, Exists, Sessions, Past, Messages, Locked, Inside
<1>4. SameRecord' /\ Released'
  BY <1>a, <1>b DEF SessionInv, SameRecord, Exists, Locked, Inside, Released
<1>5. RowKnown' /\ HolderKnows'
  BY <1>a, <1>b DEF SessionInv, RowKnown, Exists, Messages, Sessions, Past, HolderKnows, Coming,
     Locked, Inside
<1>6. Held'
  BY <1>a, <1>b DEF SessionInv, Held, HolderKnows, RowKnown, UnderWay, Coming, Exists, Messages,
     Sessions, Past, Locked, Inside
<1>7. Freed'
  BY <1>a, <1>b DEF SessionInv, Freed, Locked, Inside, Sessions, Past, Messages
<1> QED
  BY <1>t, <1>1, <1>2, <1>3, <1>4, <1>5, <1>6, <1>7 DEF SessionInv

\* The user leaves.
LEMMA LeaveKeeps ==
    ASSUME SessionInv, Leave PROVE SessionInv'
<1> USE Actors DEF telegram, stored, history, budget
<1>0. TypeOK
  BY DEF SessionInv
<1>b. /\ sent \in Nat /\ present \in Nat /\ (present # 0 => present \in Updates)
      /\ \A i \in Updates : i # 0 /\ i \in Nat
      /\ {row.joined, row.last, record.joined} \subseteq Nat
      /\ \A u \in Tasks : task[u].row.joined \in Nat
  BY <1>0, Counters
<1>a. /\ task' = task
      /\ present' = 0
      /\ sent < MaxMessages /\ sent' = sent + 1 /\ sent + 1 \in Updates /\ sent + 1 # 0
      /\ sent + 1 \in 0 .. MaxMessages
      /\ kind' \in [Updates -> {"none", "join", "leave", "removed"}]
      /\ kind'[sent + 1] = "leave"
      /\ \A i \in Updates \ {sent + 1} : kind'[i] = kind[i]
      /\ UNCHANGED <<requested, restriction, row, record, lock, verified, excused>>
  BY <1>0, <1>b DEF Leave, Say, Updates, TypeOK
<1>t. TypeOK'
  BY <1>0, <1>a, <1>b DEF TypeOK, TaskType, Steps, Leave
<1>1. Locked' /\ Messages' /\ Sessions'
  BY <1>a, <1>b DEF SessionInv, Locked, Inside, Messages, Sessions, Past, Exists
<1>2. DropsOld'
  BY <1>a, <1>b DEF SessionInv, DropsOld, Sessions, Past, Messages
<1>3. SameStay'
  BY <1>a, <1>b DEF SessionInv, SameStay, Exists, Sessions, Past, Messages, Locked, Inside
<1>4. SameRecord' /\ Released'
  BY <1>a, <1>b DEF SessionInv, SameRecord, Exists, Locked, Inside, Released
<1>5. RowKnown' /\ HolderKnows'
  BY <1>a, <1>b DEF SessionInv, RowKnown, Exists, Messages, Sessions, Past, HolderKnows, Coming,
     Locked, Inside
<1>6. Held'
  BY <1>a, <1>b DEF SessionInv, Held, HolderKnows, RowKnown, UnderWay, Coming, Exists, Messages,
     Sessions, Past, Locked, Inside
<1>7. Freed'
  BY <1>a, <1>b DEF SessionInv, Freed, Locked, Inside, Sessions, Past, Messages
<1> QED
  BY <1>t, <1>1, <1>2, <1>3, <1>4, <1>5, <1>6, <1>7 DEF SessionInv

\* A waiter gets the free lock.
LEMMA AcquireKeeps ==
    ASSUME SessionInv, NEW t \in Tasks, Acquire(t) PROVE SessionInv'
<1> USE Actors DEF telegram, stored, history, budget
<1>0. TypeOK
  BY DEF SessionInv
<1>b. /\ sent \in Nat /\ present \in Nat /\ (present # 0 => present \in Updates)
      /\ \A i \in Updates : i # 0 /\ i \in Nat
      /\ {row.joined, row.last, record.joined} \subseteq Nat
      /\ \A u \in Tasks : task[u].row.joined \in Nat
  BY <1>0, Counters
<1>s. /\ FirstStep(t) \in {"read", "approve", "restrict", "current"}
      /\ FirstStep(t) \in Steps
      /\ t \in Updates => FirstStep(t) = "read"
  <2>1. t \in Updates \/ t = Request \/ t = Captcha \/ t = Sweep
    BY BoundsAssumption DEF Updates, Request, Captcha, Sweep, Tasks
  <2> QED
    BY <2>1 DEF FirstStep, Steps
<1>a. /\ task[t].pc = "wait" /\ lock = Free /\ lock' = t
      /\ task' \in [Tasks -> TaskType]
      /\ task'[t].pc = FirstStep(t) /\ task'[t].row = task[t].row /\ task'[t].doc = task[t].doc
      /\ \A u \in Tasks \ {t} : task'[u] = task[u]
      /\ UNCHANGED <<kind, sent, present, requested, restriction, row, record, verified,
         excused>>
  BY <1>0, <1>b, <1>s, GoDoes DEF At, Acquire
<1>t. TypeOK'
  BY <1>0, <1>a, <1>b, <1>s DEF TypeOK, TaskType, Steps, Acquire
<1>1. Locked' /\ Messages' /\ Sessions'
  BY <1>a, <1>b, <1>s DEF SessionInv, Locked, Inside, Messages, Sessions, Past, Exists
<1>2. DropsOld'
  BY <1>a, <1>b, <1>s DEF SessionInv, DropsOld, Sessions, Past, Messages
<1>3. SameStay'
  BY <1>a, <1>b, <1>s DEF SessionInv, SameStay, Exists, Sessions, Past, Messages, Locked, Inside
<1>4. SameRecord' /\ Released'
  BY <1>a, <1>b, <1>s DEF SessionInv, SameRecord, Exists, Locked, Inside, Released
<1>5. RowKnown' /\ HolderKnows'
  BY <1>a, <1>b, <1>s DEF SessionInv, RowKnown, Exists, Messages, Sessions, Past, HolderKnows,
     Coming, Locked, Inside
<1>6. Held'
  BY <1>a, <1>b, <1>s DEF SessionInv, Held, HolderKnows, RowKnown, UnderWay, Coming, Exists,
     Messages, Sessions, Past, Locked, Inside
<1>7. Freed'
  BY <1>a, <1>b, <1>s DEF SessionInv, Freed, Locked, Inside, Sessions, Past, Messages
<1> QED
  BY <1>t, <1>1, <1>2, <1>3, <1>4, <1>5, <1>6, <1>7 DEF SessionInv

\* A record is inserted unless there is one.
LEMMA UpsertKeeps ==
    ASSUME SessionInv, NEW t \in Tasks, Upsert(t) PROVE SessionInv'
<1> USE Actors DEF telegram, stored, history, budget
<1>0. TypeOK
  BY DEF SessionInv
<1>b. /\ sent \in Nat /\ present \in Nat /\ (present # 0 => present \in Updates)
      /\ \A i \in Updates : i # 0 /\ i \in Nat
      /\ {row.joined, row.last, record.joined} \subseteq Nat
      /\ \A u \in Tasks : task[u].row.joined \in Nat
  BY <1>0, Counters
<1>o. \A u \in Tasks \ {t} : task[u].pc \notin Inside
  BY DEF SessionInv, Locked, Inside, At, Upsert
<1>s. (IF Exists(task[t].row) THEN "session" ELSE "reload") \in Steps
  BY DEF Steps
<1>e. /\ record' \in Records
      /\ Exists(record) => record' = record /\ verified' = verified
      /\ ~ Exists(record) =>
             /\ record'.id # 0 /\ record'.member = task[t].row.id
             /\ record'.joined = task[t].row.joined /\ ~ record'.late
             /\ verified' = "no"
  <2>1. CASE Exists(record)
    BY <1>0, <2>1 DEF Upsert, TypeOK
  <2>2. CASE ~ Exists(record)
    <3>1. /\ NewRecordId \in Ids /\ NewRecordId # 0
          /\ task[t].row.id \in {0} \cup Ids /\ task[t].row.joined \in 0 .. MaxMessages
          /\ task[t].request \in BOOLEAN
      BY <1>0, NewRecordIdIs DEF TypeOK, Rows, Ids
    <3>2. /\ record' = [id |-> NewRecordId, member |-> task[t].row.id,
                         joined |-> task[t].row.joined,
                        request |-> task[t].request, late |-> FALSE]
          /\ verified' = "no"
      BY <2>2 DEF Upsert
    <3> QED
      BY <2>2, <3>1, <3>2 DEF Records
  <2> QED
    BY <2>1, <2>2
<1>n. record'.joined \in Nat
  BY <1>e, Actors DEF Records
<1>a. /\ task[t].pc = "upsert"
      /\ task' \in [Tasks -> TaskType]
      /\ task'[t].pc = (IF Exists(task[t].row) THEN "session" ELSE "reload")
      /\ task'[t].row = task[t].row /\ task'[t].doc = task[t].doc
      /\ \A u \in Tasks \ {t} : task'[u] = task[u]
      /\ UNCHANGED <<kind, sent, present, requested, restriction, row, lock, excused>>
  BY <1>0, <1>b, <1>s, GoDoes DEF At, Upsert
<1>t. TypeOK'
  BY <1>0, <1>a, <1>b, <1>e, <1>n, <1>o DEF TypeOK, TaskType, Steps, Upsert
<1>1. Locked' /\ Messages' /\ Sessions'
  BY <1>a, <1>b, <1>e, <1>n, <1>o DEF SessionInv, Locked, Inside, Messages, Sessions, Past,
     Exists
<1>2. DropsOld'
  BY <1>a, <1>b, <1>e, <1>n, <1>o DEF SessionInv, DropsOld, Sessions, Past, Messages
<1>3. SameStay'
  <2>1. present # 0 /\ task[t].row.joined = present
          => row.joined = present /\ row.id = task[t].row.id
    BY <1>a DEF SessionInv, SameStay
  <2>2. present # 0 /\ record'.joined = present =>
            row.joined = present /\ row.id = record'.member /\ task[t].row.joined = present
    BY <1>a, <1>e, <2>1 DEF SessionInv, SameStay
  <2>3. \A u \in Tasks : task'[u].pc \in {"upsert", "session"} => u = t
    BY <1>a, <1>o DEF Inside
  <2> QED
    BY <1>a, <2>1, <2>2, <2>3 DEF SameStay
<1>4. SameRecord' /\ Released'
  BY <1>a, <1>b, <1>e, <1>n, <1>o DEF SessionInv, SameRecord, Exists, Locked, Inside, Released
<1>5. RowKnown' /\ HolderKnows'
  BY <1>a, <1>b, <1>e, <1>n, <1>o DEF SessionInv, RowKnown, Exists, Messages, Sessions, Past,
     HolderKnows, Coming, Locked, Inside
<1>6. Held'
  BY <1>a, <1>b, <1>e, <1>n, <1>o DEF SessionInv, Held, HolderKnows, RowKnown, UnderWay, Coming,
     Exists, Messages, Sessions, Past, Locked, Inside
<1>7. Freed'
  BY <1>a, <1>b, <1>e, <1>n, <1>o DEF SessionInv, Freed, Locked, Inside, Sessions, Past,
     Messages
<1> QED
  BY <1>t, <1>1, <1>2, <1>3, <1>4, <1>5, <1>6, <1>7 DEF SessionInv

\* The record is renewed for a newer session.
LEMMA SessionKeeps ==
    ASSUME SessionInv, NEW t \in Tasks, Session(t) PROVE SessionInv'
<1> USE Actors DEF telegram, stored, history, budget
<1>0. TypeOK
  BY DEF SessionInv
<1>b. /\ sent \in Nat /\ present \in Nat /\ (present # 0 => present \in Updates)
      /\ \A i \in Updates : i # 0 /\ i \in Nat
      /\ {row.joined, row.last, record.joined} \subseteq Nat
      /\ \A u \in Tasks : task[u].row.joined \in Nat
  BY <1>0, Counters
<1>o. \A u \in Tasks \ {t} : task[u].pc \notin Inside
  BY DEF SessionInv, Locked, Inside, At, Session
<1>s. "reload" \in Steps /\ NoRow \in Rows /\ NoRow.id = 0 /\ NoRow.joined = 0
  BY BlankTyped DEF Steps
<1>e. /\ record' \in Records /\ record'.id = record.id
      /\ (record' = record /\ verified' = verified) \/ (Exists(record) /\ verified' = "no")
      /\ ~ (Exists(record) /\ Outdated(record, task[t].row)) => record' = record
      /\ Exists(record) /\ Outdated(record, task[t].row) =>
             record'.member = task[t].row.id /\ record'.joined = task[t].row.joined
  <2>1. CASE ~ (Exists(record) /\ Outdated(record, task[t].row))
    BY <1>0, <2>1 DEF Session, TypeOK
  <2>2. CASE Exists(record) /\ Outdated(record, task[t].row)
    <3>1. /\ task[t].row.id \in {0} \cup Ids /\ task[t].row.joined \in 0 .. MaxMessages
          /\ task[t].request \in BOOLEAN /\ record \in Records
      BY <1>0 DEF TypeOK, Rows
    <3>2. record' = Renewed(t) /\ verified' = "no"
      BY <2>2 DEF Session
    <3> QED
      BY <2>2, <3>1, <3>2 DEF Records, Renewed
  <2> QED
    BY <2>1, <2>2
<1>n. record'.joined \in Nat
  BY <1>e, Actors DEF Records
<1>r. record.joined = present /\ present # 0 => record' = record
  BY <1>0, <1>b, <1>e DEF SessionInv, SameStay, Session, At, Outdated
<1>k. Exists(record) /\ task[t].row.joined = present /\ present # 0 => record'.joined = present
  BY <1>0, <1>b, <1>e DEF SessionInv, Sessions, Past, Messages, Outdated
<1>a. /\ task[t].pc = "session"
      /\ task' \in [Tasks -> TaskType]
      /\ task'[t].pc = "reload" /\ task'[t].row = NoRow /\ task'[t].doc = task[t].doc
      /\ \A u \in Tasks \ {t} : task'[u] = task[u]
      /\ UNCHANGED <<kind, sent, present, requested, restriction, row, lock, excused>>
  BY <1>0, <1>b, <1>s, RowDoes DEF At, Session
<1>t. TypeOK'
  BY <1>0, <1>a, <1>b, <1>e, <1>n, <1>o, <1>r, <1>k, <1>s DEF TypeOK, TaskType, Steps, Session
<1>1. Locked' /\ Messages' /\ Sessions'
  BY <1>a, <1>b, <1>e, <1>n, <1>o, <1>r, <1>k, <1>s DEF SessionInv, Locked, Inside, Messages,
     Sessions, Past, Exists
<1>2. DropsOld'
  BY <1>a, <1>b, <1>e, <1>n, <1>o, <1>r, <1>k, <1>s DEF SessionInv, DropsOld, Sessions, Past,
     Messages
<1>3. SameStay'
  BY <1>a, <1>b, <1>e, <1>n, <1>o, <1>r, <1>k, <1>s DEF SessionInv, SameStay, Exists, Sessions,
     Past, Messages, Locked, Inside
<1>4. SameRecord' /\ Released'
  BY <1>a, <1>b, <1>e, <1>n, <1>o, <1>r, <1>k, <1>s DEF SessionInv, SameRecord, Exists, Locked,
     Inside, Released
<1>5. RowKnown' /\ HolderKnows'
  BY <1>a, <1>b, <1>e, <1>n, <1>o, <1>r, <1>k, <1>s DEF SessionInv, RowKnown, Exists, Messages,
     Sessions, Past, HolderKnows, Coming, Locked, Inside
<1>6. Held'
  BY <1>a, <1>b, <1>e, <1>n, <1>o, <1>r, <1>k, <1>s DEF SessionInv, Held, HolderKnows, RowKnown,
     UnderWay, Coming, Exists, Messages, Sessions, Past, Locked, Inside
<1>7. Freed'
  BY <1>a, <1>b, <1>e, <1>n, <1>o, <1>r, <1>k, <1>s DEF SessionInv, Freed, Locked, Inside,
     Sessions, Past, Messages
<1> QED
  BY <1>t, <1>1, <1>2, <1>3, <1>4, <1>5, <1>6, <1>7 DEF SessionInv

\* The captcha mute is put on.
LEMMA MuteKeeps ==
    ASSUME SessionInv, NEW t \in Tasks, Mute(t) PROVE SessionInv'
<1> USE Actors DEF telegram, stored, history, budget
<1>0. TypeOK
  BY DEF SessionInv
<1>b. /\ sent \in Nat /\ present \in Nat /\ (present # 0 => present \in Updates)
      /\ \A i \in Updates : i # 0 /\ i \in Nat
      /\ {row.joined, row.last, record.joined} \subseteq Nat
      /\ \A u \in Tasks : task[u].row.joined \in Nat
  BY <1>0, Counters
<1>a. /\ task[t].pc = "mute" /\ restriction' = "captcha"
      /\ task' \in [Tasks -> TaskType]
      /\ task'[t].pc = (IF t \in Updates THEN "done" ELSE "idle") /\ task'[t].row = NoRow
      /\ \A u \in Tasks \ {t} : task'[u] = task[u] /\ (lock = u => lock' = u)
      /\ lock' \in {Free} \cup Tasks
      /\ NoRow.id = 0 /\ NoRow.joined = 0
      /\ UNCHANGED <<kind, sent, present, requested, row, record, verified, excused>>
  BY <1>0, <1>b, EndDoes, BlankTyped DEF At, Mute
<1>t. TypeOK'
  BY <1>0, <1>a, <1>b DEF TypeOK, TaskType, Steps, Mute
<1>1. Locked' /\ Messages' /\ Sessions'
  BY <1>a, <1>b DEF SessionInv, Locked, Inside, Messages, Sessions, Past, Exists
<1>2. DropsOld'
  BY <1>a, <1>b DEF SessionInv, DropsOld, Sessions, Past, Messages
<1>3. SameStay'
  BY <1>a, <1>b DEF SessionInv, SameStay, Exists, Sessions, Past, Messages, Locked, Inside
<1>4. SameRecord' /\ Released'
  BY <1>a, <1>b DEF SessionInv, SameRecord, Exists, Locked, Inside, Released
<1>5. RowKnown' /\ HolderKnows'
  BY <1>a, <1>b DEF SessionInv, RowKnown, Exists, Messages, Sessions, Past, HolderKnows, Coming,
     Locked, Inside
<1>6. Held'
  BY <1>a, <1>b DEF SessionInv, Held, HolderKnows, RowKnown, UnderWay, Coming, Exists, Messages,
     Sessions, Past, Locked, Inside
<1>7. Freed'
  <2>1. \A u \in Tasks : task[u].pc \in {"forget", "erase"} => u = t
    BY <1>a DEF SessionInv, Locked, Inside
  <2>2. task'[Captcha].pc # "forget" /\ task'[Sweep].pc # "erase"
    BY <1>a, <2>1
  <2> QED
    BY <2>2 DEF Freed
<1> QED
  BY <1>t, <1>1, <1>2, <1>3, <1>4, <1>5, <1>6, <1>7 DEF SessionInv

\* The captcha lets in a member who has been let in.
LEMMA ApproveStaysKeeps ==
    ASSUME SessionInv, At(Captcha, "approve"), Go(Captcha, "restrict"), key' = TRUE,
           verified' = "approved",
           UNCHANGED <<telegram, restriction, row, record, dm, lock, excused, budget>>
    PROVE SessionInv'
<1> USE Actors DEF telegram, stored, history, budget
<1>0. TypeOK
  BY DEF SessionInv
<1>b. /\ sent \in Nat /\ present \in Nat /\ (present # 0 => present \in Updates)
      /\ \A i \in Updates : i # 0 /\ i \in Nat
      /\ {row.joined, row.last, record.joined} \subseteq Nat
      /\ \A u \in Tasks : task[u].row.joined \in Nat
  BY <1>0, Counters
<1>s. "restrict" \in Steps
  BY DEF Steps
<1>a. /\ task[Captcha].pc = "approve" /\ verified' = "approved"
      /\ task' \in [Tasks -> TaskType]
      /\ task'[Captcha].pc = "restrict" /\ task'[Captcha].row = task[Captcha].row
      /\ task'[Captcha].doc = task[Captcha].doc
      /\ \A u \in Tasks \ {Captcha} : task'[u] = task[u]
      /\ UNCHANGED <<kind, sent, present, requested, restriction, row, record, lock, excused>>
  BY <1>0, <1>b, <1>s, GoDoes DEF At
<1>t. TypeOK'
  BY <1>0, <1>a, <1>b DEF TypeOK, TaskType, Steps
<1>1. Locked' /\ Messages' /\ Sessions'
  BY <1>a, <1>b DEF SessionInv, Locked, Inside, Messages, Sessions, Past, Exists
<1>2. DropsOld'
  BY <1>a, <1>b DEF SessionInv, DropsOld, Sessions, Past, Messages
<1>3. SameStay'
  BY <1>a, <1>b DEF SessionInv, SameStay, Exists, Sessions, Past, Messages, Locked, Inside
<1>4. SameRecord' /\ Released'
  BY <1>a, <1>b DEF SessionInv, SameRecord, Exists, Locked, Inside, Released
<1>5. RowKnown' /\ HolderKnows'
  BY <1>a, <1>b DEF SessionInv, RowKnown, Exists, Messages, Sessions, Past, HolderKnows, Coming,
     Locked, Inside
<1>6. Held'
  BY <1>a, <1>b DEF SessionInv, Held, HolderKnows, RowKnown, UnderWay, Coming, Exists, Messages,
     Sessions, Past, Locked, Inside
<1>7. Freed'
  BY <1>a, <1>b DEF SessionInv, Freed, Locked, Inside, Sessions, Past, Messages
<1> QED
  BY <1>t, <1>1, <1>2, <1>3, <1>4, <1>5, <1>6, <1>7 DEF SessionInv

\* The captcha lets the user in.
LEMMA ApproveJoinsKeeps ==
    ASSUME SessionInv, At(Captcha, "approve"), Go(Captcha, "restrict"), key' = TRUE,
           verified' = "approved",
           requested, requested' = FALSE, Enter,
           UNCHANGED <<restriction, row, record, dm, lock, excused, budget>>
    PROVE SessionInv'
<1> USE Actors DEF telegram, stored, history, budget
<1>0. TypeOK
  BY DEF SessionInv
<1>b. /\ sent \in Nat /\ present \in Nat /\ (present # 0 => present \in Updates)
      /\ \A i \in Updates : i # 0 /\ i \in Nat
      /\ {row.joined, row.last, record.joined} \subseteq Nat
      /\ \A u \in Tasks : task[u].row.joined \in Nat
  BY <1>0, Counters
<1>s. "restrict" \in Steps
  BY DEF Steps
<1>e. /\ present' = sent + 1
      /\ sent < MaxMessages /\ sent' = sent + 1 /\ sent + 1 \in Updates /\ sent + 1 # 0
      /\ sent + 1 \in 0 .. MaxMessages
      /\ kind' \in [Updates -> {"none", "join", "leave", "removed"}]
      /\ kind'[sent + 1] = "join"
      /\ \A i \in Updates \ {sent + 1} : kind'[i] = kind[i]
  BY <1>0, <1>b DEF Enter, Say, Updates, TypeOK
<1>a. /\ task[Captcha].pc = "approve" /\ verified' = "approved" /\ requested /\ requested' = FALSE
      /\ task' \in [Tasks -> TaskType]
      /\ task'[Captcha].pc = "restrict" /\ task'[Captcha].row = task[Captcha].row
      /\ task'[Captcha].doc = task[Captcha].doc
      /\ \A u \in Tasks \ {Captcha} : task'[u] = task[u]
      /\ UNCHANGED <<restriction, row, record, lock, excused>>
  BY <1>0, <1>b, <1>s, GoDoes DEF At
<1>t. TypeOK'
  BY <1>0, <1>a, <1>b, <1>e DEF TypeOK, TaskType, Steps, TaskType
<1>1. Locked' /\ Messages' /\ Sessions'
  BY <1>a, <1>b, <1>e DEF SessionInv, Locked, Inside, Messages, Sessions, Past, Exists
<1>2. DropsOld'
  BY <1>a, <1>b, <1>e DEF SessionInv, DropsOld, Sessions, Past, Messages
<1>3. SameStay'
  BY <1>a, <1>b, <1>e DEF SessionInv, SameStay, Exists, Sessions, Past, Messages, Locked, Inside
<1>4. SameRecord' /\ Released'
  BY <1>a, <1>b, <1>e DEF SessionInv, SameRecord, Exists, Locked, Inside, Released
<1>5. RowKnown' /\ HolderKnows'
  BY <1>a, <1>b, <1>e DEF SessionInv, RowKnown, Exists, Messages, Sessions, Past, HolderKnows,
     Coming, Locked, Inside
<1>6. Held'
  BY <1>a, <1>b, <1>e DEF SessionInv, Held, HolderKnows, RowKnown, UnderWay, Coming, Exists,
     Messages, Sessions, Past, Locked, Inside
<1>7. Freed'
  BY <1>a, <1>b, <1>e DEF SessionInv, Freed, Locked, Inside, Sessions, Past, Messages
<1> QED
  BY <1>t, <1>1, <1>2, <1>3, <1>4, <1>5, <1>6, <1>7 DEF SessionInv

\* The captcha lets the member go.
LEMMA RestrictGoesKeeps ==
    ASSUME SessionInv, At(Captcha, "restrict"), Go(Captcha, "forget"),
           restriction' \in {"none", "welcome"},
           verified' = "released", UNCHANGED <<telegram, stored, dm, lock, excused, budget>>
    PROVE SessionInv'
<1> USE Actors DEF telegram, stored, history, budget
<1>0. TypeOK
  BY DEF SessionInv
<1>b. /\ sent \in Nat /\ present \in Nat /\ (present # 0 => present \in Updates)
      /\ \A i \in Updates : i # 0 /\ i \in Nat
      /\ {row.joined, row.last, record.joined} \subseteq Nat
      /\ \A u \in Tasks : task[u].row.joined \in Nat
  BY <1>0, Counters
<1>s. "forget" \in Steps
  BY DEF Steps
<1>a. /\ task[Captcha].pc = "restrict" /\ verified' = "released"
      /\ restriction' \in {"none", "welcome"}
      /\ task' \in [Tasks -> TaskType]
      /\ task'[Captcha].pc = "forget" /\ task'[Captcha].row = task[Captcha].row
      /\ task'[Captcha].doc = task[Captcha].doc
      /\ \A u \in Tasks \ {Captcha} : task'[u] = task[u]
      /\ UNCHANGED <<kind, sent, present, requested, row, record, lock, excused>>
  BY <1>0, <1>b, <1>s, GoDoes DEF At
<1>t. TypeOK'
  BY <1>0, <1>a, <1>b DEF TypeOK, TaskType, Steps
<1>1. Locked' /\ Messages' /\ Sessions'
  BY <1>a, <1>b DEF SessionInv, Locked, Inside, Messages, Sessions, Past, Exists
<1>2. DropsOld'
  BY <1>a, <1>b DEF SessionInv, DropsOld, Sessions, Past, Messages
<1>3. SameStay'
  BY <1>a, <1>b DEF SessionInv, SameStay, Exists, Sessions, Past, Messages, Locked, Inside
<1>4. SameRecord' /\ Released'
  BY <1>a, <1>b DEF SessionInv, SameRecord, Exists, Locked, Inside, Released
<1>5. RowKnown' /\ HolderKnows'
  BY <1>a, <1>b DEF SessionInv, RowKnown, Exists, Messages, Sessions, Past, HolderKnows, Coming,
     Locked, Inside
<1>6. Held'
  BY <1>a, <1>b DEF SessionInv, Held, HolderKnows, RowKnown, UnderWay, Coming, Exists, Messages,
     Sessions, Past, Locked, Inside
<1>7. Freed'
  BY <1>a, <1>b DEF SessionInv, Freed, Locked, Inside, Sessions, Past, Messages
<1> QED
  BY <1>t, <1>1, <1>2, <1>3, <1>4, <1>5, <1>6, <1>7 DEF SessionInv

\* The captcha removes the record.
LEMMA ForgetKeeps ==
    ASSUME SessionInv, Forget PROVE SessionInv'
<1> USE Actors DEF telegram, stored, history, budget
<1>0. TypeOK
  BY DEF SessionInv
<1>b. /\ sent \in Nat /\ present \in Nat /\ (present # 0 => present \in Updates)
      /\ \A i \in Updates : i # 0 /\ i \in Nat
      /\ {row.joined, row.last, record.joined} \subseteq Nat
      /\ \A u \in Tasks : task[u].row.joined \in Nat
  BY <1>0, Counters
<1>o. \A u \in Tasks \ {Captcha} : task[u].pc \notin Inside
  BY DEF SessionInv, Locked, Inside, At, Forget
<1>a. /\ task[Captcha].pc = "forget" /\ record' = NoRecord
      /\ task' \in [Tasks -> TaskType]
      /\ task'[Captcha].pc = (IF Captcha \in Updates THEN "done" ELSE "idle")
      /\ task'[Captcha].row = NoRow
      /\ \A u \in Tasks \ {Captcha} : task'[u] = task[u] /\ (lock = u => lock' = u)
      /\ lock' \in {Free} \cup Tasks
      /\ NoRow.id = 0 /\ NoRow.joined = 0
      /\ NoRecord \in Records /\ NoRecord.id = 0 /\ NoRecord.joined = 0 /\ ~ NoRecord.late
      /\ UNCHANGED <<kind, sent, present, requested, restriction, row, verified, excused>>
  BY <1>0, <1>b, EndDoes, BlankTyped DEF At, Forget
<1>t. TypeOK'
  BY <1>0, <1>a, <1>b, <1>o DEF TypeOK, TaskType, Steps, Forget
<1>1. Locked' /\ Messages' /\ Sessions'
  BY <1>a, <1>b, <1>o DEF SessionInv, Locked, Inside, Messages, Sessions, Past, Exists
<1>2. DropsOld'
  BY <1>a, <1>b, <1>o DEF SessionInv, DropsOld, Sessions, Past, Messages
<1>3. SameStay'
  BY <1>a, <1>b, <1>o DEF SessionInv, SameStay, Exists, Sessions, Past, Messages, Locked, Inside
<1>4. SameRecord' /\ Released'
  BY <1>a, <1>b, <1>o DEF SessionInv, SameRecord, Exists, Locked, Inside, Released
<1>5. RowKnown' /\ HolderKnows'
  BY <1>a, <1>b, <1>o DEF SessionInv, RowKnown, Exists, Messages, Sessions, Past, HolderKnows,
     Coming, Locked, Inside
<1>6. Held'
  BY <1>a, <1>b, <1>o DEF SessionInv, Held, HolderKnows, RowKnown, UnderWay, Coming, Exists,
     Messages, Sessions, Past, Locked, Inside, Freed
<1>7. Freed'
  BY <1>a, <1>b, <1>o DEF SessionInv, Freed, Locked, Inside, Sessions, Past, Messages
<1> QED
  BY <1>t, <1>1, <1>2, <1>3, <1>4, <1>5, <1>6, <1>7 DEF SessionInv

\* The sweep removes the record.
LEMMA EraseKeeps ==
    ASSUME SessionInv, Erase PROVE SessionInv'
<1> USE Actors DEF telegram, stored, history, budget
<1>0. TypeOK
  BY DEF SessionInv
<1>b. /\ sent \in Nat /\ present \in Nat /\ (present # 0 => present \in Updates)
      /\ \A i \in Updates : i # 0 /\ i \in Nat
      /\ {row.joined, row.last, record.joined} \subseteq Nat
      /\ \A u \in Tasks : task[u].row.joined \in Nat
  BY <1>0, Counters
<1>o. \A u \in Tasks \ {Sweep} : task[u].pc \notin Inside
  BY DEF SessionInv, Locked, Inside, At, Erase
<1>a. /\ task[Sweep].pc = "erase" /\ (record' = record \/ record' = NoRecord)
      /\ task' \in [Tasks -> TaskType]
      /\ task'[Sweep].pc = (IF Sweep \in Updates THEN "done" ELSE "idle")
      /\ task'[Sweep].row = NoRow
      /\ \A u \in Tasks \ {Sweep} : task'[u] = task[u] /\ (lock = u => lock' = u)
      /\ lock' \in {Free} \cup Tasks
      /\ NoRow.id = 0 /\ NoRow.joined = 0
      /\ NoRecord \in Records /\ NoRecord.id = 0 /\ NoRecord.joined = 0 /\ ~ NoRecord.late
      /\ UNCHANGED <<kind, sent, present, requested, restriction, row, verified, excused>>
  BY <1>0, <1>b, EndDoes, BlankTyped DEF At, Erase
<1>t. TypeOK'
  BY <1>0, <1>a, <1>b, <1>o DEF TypeOK, TaskType, Steps, Erase
<1>1. Locked' /\ Messages' /\ Sessions'
  BY <1>a, <1>b, <1>o DEF SessionInv, Locked, Inside, Messages, Sessions, Past, Exists
<1>2. DropsOld'
  BY <1>a, <1>b, <1>o DEF SessionInv, DropsOld, Sessions, Past, Messages
<1>3. SameStay'
  BY <1>a, <1>b, <1>o DEF SessionInv, SameStay, Exists, Sessions, Past, Messages, Locked, Inside
<1>4. SameRecord' /\ Released'
  BY <1>a, <1>b, <1>o DEF SessionInv, SameRecord, Exists, Locked, Inside, Released
<1>5. RowKnown' /\ HolderKnows'
  BY <1>a, <1>b, <1>o DEF SessionInv, RowKnown, Exists, Messages, Sessions, Past, HolderKnows,
     Coming, Locked, Inside
<1>6. Held'
  BY <1>a, <1>b, <1>o DEF SessionInv, Held, HolderKnows, RowKnown, UnderWay, Coming, Exists,
     Messages, Sessions, Past, Locked, Inside, Freed
<1>7. Freed'
  BY <1>a, <1>b, <1>o DEF SessionInv, Freed, Locked, Inside, Sessions, Past, Messages
<1> QED
  BY <1>t, <1>1, <1>2, <1>3, <1>4, <1>5, <1>6, <1>7 DEF SessionInv

\* The sweep kicks the member.
LEMMA KickKeeps ==
    ASSUME SessionInv, Kick PROVE SessionInv'
<1> USE Actors DEF telegram, stored, history, budget
<1>0. TypeOK
  BY DEF SessionInv
<1>b. /\ sent \in Nat /\ present \in Nat /\ (present # 0 => present \in Updates)
      /\ \A i \in Updates : i # 0 /\ i \in Nat
      /\ {row.joined, row.last, record.joined} \subseteq Nat
      /\ \A u \in Tasks : task[u].row.joined \in Nat
  BY <1>0, Counters
<1>s. "erase" \in Steps
  BY DEF Steps
<1>e. \/ UNCHANGED <<kind, sent>>
      \/ /\ sent < MaxMessages /\ sent' = sent + 1 /\ sent + 1 \in Updates /\ sent + 1 # 0
         /\ sent + 1 \in 0 .. MaxMessages
         /\ kind' \in [Updates -> {"none", "join", "leave", "removed"}]
         /\ kind'[sent + 1] = "removed"
         /\ \A i \in Updates \ {sent + 1} : kind'[i] = kind[i]
  BY <1>0, <1>b DEF Kick, Say, Updates, TypeOK
<1>a. /\ task[Sweep].pc = "expel" /\ present' = 0 /\ restriction' = "none"
      /\ task' \in [Tasks -> TaskType]
      /\ task'[Sweep].pc = "erase" /\ task'[Sweep].row = task[Sweep].row
      /\ task'[Sweep].doc = task[Sweep].doc
      /\ \A u \in Tasks \ {Sweep} : task'[u] = task[u]
      /\ UNCHANGED <<requested, row, record, lock, verified, excused>>
  BY <1>0, <1>b, <1>s, GoDoes DEF At, Kick
<1>t. TypeOK'
  BY <1>0, <1>a, <1>b, <1>e DEF TypeOK, TaskType, Steps, Updates, Kick
<1>1. Locked' /\ Messages' /\ Sessions'
  BY <1>a, <1>b, <1>e DEF SessionInv, Locked, Inside, Messages, Sessions, Past, Exists
<1>2. DropsOld'
  BY <1>a, <1>b, <1>e DEF SessionInv, DropsOld, Sessions, Past, Messages
<1>3. SameStay'
  BY <1>a, <1>b, <1>e DEF SessionInv, SameStay, Exists, Sessions, Past, Messages, Locked, Inside
<1>4. SameRecord' /\ Released'
  BY <1>a, <1>b, <1>e DEF SessionInv, SameRecord, Exists, Locked, Inside, Released
<1>5. RowKnown' /\ HolderKnows'
  BY <1>a, <1>b, <1>e DEF SessionInv, RowKnown, Exists, Messages, Sessions, Past, HolderKnows,
     Coming, Locked, Inside
<1>6. Held'
  BY <1>a, <1>b, <1>e DEF SessionInv, Held, HolderKnows, RowKnown, UnderWay, Coming, Exists,
     Messages, Sessions, Past, Locked, Inside
<1>7. Freed'
  BY <1>a, <1>b, <1>e DEF SessionInv, Freed, Locked, Inside, Sessions, Past, Messages
<1> QED
  BY <1>t, <1>1, <1>2, <1>3, <1>4, <1>5, <1>6, <1>7 DEF SessionInv

\* A leave handler removes the record of the stay it ended.
LEMMA RemoveKeeps ==
    ASSUME SessionInv, NEW m \in Updates, Remove(m) PROVE SessionInv'
<1> USE Actors DEF telegram, stored, history, budget
<1>0. TypeOK
  BY DEF SessionInv
<1>b. /\ sent \in Nat /\ present \in Nat /\ (present # 0 => present \in Updates)
      /\ \A i \in Updates : i # 0 /\ i \in Nat
      /\ {row.joined, row.last, record.joined} \subseteq Nat
      /\ \A u \in Tasks : task[u].row.joined \in Nat
      /\ m \in Tasks /\ m # Captcha /\ m # Sweep /\ m # Request
  BY <1>0, Counters
<1>e. present # 0 /\ record.joined = present => ~ EndedBy(record, m)
  BY <1>0, <1>b DEF SessionInv, DropsOld, Messages, EndedBy, Remove, At
<1>a. /\ task[m].pc = "remove" /\ (record' = record \/ record' = NoRecord)
      /\ task' \in [Tasks -> TaskType]
      /\ task'[m].pc = (IF m \in Updates THEN "done" ELSE "idle") /\ task'[m].row = NoRow
      /\ \A u \in Tasks \ {m} : task'[u] = task[u] /\ (lock = u => lock' = u)
      /\ lock' \in {Free} \cup Tasks
      /\ NoRow.id = 0 /\ NoRow.joined = 0
      /\ task'[Captcha] = task[Captcha] /\ task'[Sweep] = task[Sweep]
      /\ NoRecord \in Records /\ NoRecord.id = 0 /\ NoRecord.joined = 0 /\ ~ NoRecord.late
      /\ present # 0 /\ record.joined = present => record' = record
      /\ UNCHANGED <<kind, sent, present, requested, restriction, row, verified, excused>>
  BY <1>0, <1>b, EndDoes, BlankTyped, <1>e DEF At, Remove
<1>t. TypeOK'
  BY <1>0, <1>a, <1>b DEF TypeOK, TaskType, Steps, Remove
<1>1. Locked' /\ Messages' /\ Sessions'
  BY <1>a, <1>b DEF SessionInv, Locked, Inside, Messages, Sessions, Past, Exists
<1>2. DropsOld'
  BY <1>a, <1>b DEF SessionInv, DropsOld, Sessions, Past, Messages
<1>3. SameStay'
  BY <1>a, <1>b DEF SessionInv, SameStay, Exists, Sessions, Past, Messages, Locked, Inside
<1>4. SameRecord' /\ Released'
  BY <1>a, <1>b DEF SessionInv, SameRecord, Exists, Locked, Inside, Released
<1>5. RowKnown' /\ HolderKnows'
  BY <1>a, <1>b DEF SessionInv, RowKnown, Exists, Messages, Sessions, Past, HolderKnows, Coming,
     Locked, Inside
<1>6. Held'
  BY <1>a, <1>b DEF SessionInv, Held, HolderKnows, RowKnown, UnderWay, Coming, Exists, Messages,
     Sessions, Past, Locked, Inside
<1>7. Freed'
  BY <1>a, <1>b DEF SessionInv, Freed, Locked, Inside, Sessions, Past, Messages
<1> QED
  BY <1>t, <1>1, <1>2, <1>3, <1>4, <1>5, <1>6, <1>7 DEF SessionInv

-----------------------------------------------------------------------------
(* The actions that may end a handler *)

\* Left, Drop, Look and Key, to their ends.
LEMMA MessageKeeps ==
    ASSUME SessionInv, NEW m \in Updates, Left(m) \/ Drop(m) \/ Look(m) \/ Key(m)
    PROVE  SessionInv'
<1> USE Actors DEF telegram, stored, history, budget
<1>0. /\ m \in Tasks /\ key \in BOOLEAN /\ dm \in {"none", "join", "request"}
      /\ faults \in 0 .. MaxFaults /\ excused \in BOOLEAN
  BY DEF SessionInv, TypeOK
<1>1. CASE Left(m)
  <2>1. CASE Exists(row)
    BY <1>1, <2>1, LeftGoesKeeps DEF Left
  <2>2. CASE ~ Exists(row)
    <3>1. MayEnd(m) /\ End(m) /\ (task[m].pc # "idle" \/ kind[m] # "none")
      BY <1>1, <2>2 DEF Left, At, MayEnd
    <3> QED
      BY <1>0, <1>1, <3>1, EndKeeps DEF Left
  <2> QED
    BY <2>1, <2>2
<1>2. CASE Drop(m)
  <2>1. CASE row.id = task[m].row.id /\ row.last <= m
    BY <1>2, <2>1, DropGoesKeeps DEF Drop
  <2>2. CASE ~ (row.id = task[m].row.id /\ row.last <= m)
    <3>1. MayEnd(m) /\ End(m) /\ task[m].pc # "idle" /\ row' = row
      BY <1>2, <2>2 DEF Drop, At, MayEnd
    <3> QED
      BY <1>0, <1>2, <3>1, EndKeeps DEF Drop
  <2> QED
    BY <2>1, <2>2
<1>3. CASE Look(m)
  <2>1. CASE Exists(record)
    BY <1>3, <2>1, LookGoesKeeps DEF Look
  <2>2. CASE ~ Exists(record)
    <3>1. MayEnd(m) /\ End(m) /\ task[m].pc # "idle"
      BY <1>3, <2>2 DEF Look, At, MayEnd
    <3> QED
      BY <1>0, <1>3, <3>1, EndKeeps DEF Look
  <2> QED
    BY <2>1, <2>2
<1>4. CASE Key(m)
  <2>1. CASE key
    <3>1. MayEnd(m) /\ End(m) /\ task[m].pc # "idle" /\ key' = FALSE /\ excused' = TRUE
      BY <1>4, <2>1 DEF Key, At, MayEnd
    <3> QED
      BY <1>0, <1>4, <3>1, EndKeeps DEF Key
  <2>2. CASE ~ key
    BY <1>4, <2>2, KeyGoesKeeps DEF Key
  <2> QED
    BY <2>1, <2>2
<1> QED
  BY <1>1, <1>2, <1>3, <1>4

\* Reload, to its end.
LEMMA ReloadKeeps ==
    ASSUME SessionInv, NEW t \in Tasks, Reload(t) PROVE SessionInv'
<1> USE Actors DEF telegram, stored, history, budget
<1>0. /\ key \in BOOLEAN /\ dm \in {"none", "join", "request"}
      /\ faults \in 0 .. MaxFaults /\ excused \in BOOLEAN
  BY DEF SessionInv, TypeOK
<1>1. CASE Exists(record) /\ t # Request
  BY <1>1, ReloadGoesKeeps DEF Reload
<1>2. CASE ~ (Exists(record) /\ t # Request)
  <2>1. /\ MayEnd(t) /\ End(t) /\ task[t].pc # "idle"
        /\ dm' \in {"none", "join", "request"} /\ excused' \in BOOLEAN /\ (excused => excused')
    BY <1>0, <1>2 DEF Reload, At, MayEnd
  <2> QED
    BY <1>0, <2>1, EndKeeps DEF Reload
<1> QED
  BY <1>1, <1>2

\* The steps of the captcha.
LEMMA CaptchaKeeps ==
    ASSUME SessionInv, Approve \/ OnUserPassed \/ Forget PROVE SessionInv'
<1> USE Actors DEF telegram, stored, history, budget
<1>0. /\ key \in BOOLEAN /\ dm \in {"none", "join", "request"}
      /\ faults \in 0 .. MaxFaults /\ excused \in BOOLEAN
      /\ restriction \in {"none", "captcha", "welcome"}
  BY DEF SessionInv, TypeOK
<1>1. CASE Approve
  <2>1. CASE requested
    BY <1>1, <2>1, ApproveJoinsKeeps DEF Approve
  <2>2. CASE ~ requested /\ present # 0
    BY <1>1, <2>2, ApproveStaysKeeps DEF Approve
  <2>3. CASE ~ requested /\ present = 0
    <3>1. /\ MayEnd(Captcha) /\ End(Captcha) /\ task[Captcha].pc # "idle"
          /\ key' = TRUE /\ excused' = TRUE
      BY <1>1, <2>3 DEF Approve, At, MayEnd
    <3> QED
      BY <1>0, <1>1, <2>3, <3>1, EndKeeps DEF Approve
  <2> QED
    BY <2>1, <2>2, <2>3
<1>2. CASE OnUserPassed
  <2>1. CASE WelcomeMute \/ restriction # "none"
    <3>1. restriction' \in {"none", "welcome"}
      BY <1>2, <2>1 DEF OnUserPassed
    <3> QED
      BY <1>2, <2>1, <3>1, RestrictGoesKeeps DEF OnUserPassed
  <2>2. CASE ~ (WelcomeMute \/ restriction # "none")
    <3>1. MayEnd(Captcha) /\ End(Captcha) /\ task[Captcha].pc # "idle"
      BY <1>2, <2>2 DEF OnUserPassed, At, MayEnd
    <3> QED
      BY <1>0, <1>2, <2>2, <3>1, EndKeeps DEF OnUserPassed
  <2> QED
    BY <2>1, <2>2
<1> QED
  BY <1>1, <1>2, ForgetKeeps

\* The steps of the sweep.
LEMMA SweepKeeps ==
    ASSUME SessionInv, Current \/ Check \/ Recheck \/ Decline \/ Kick \/ Erase PROVE SessionInv'
<1> USE Actors DEF telegram, stored, history, budget
<1>0. /\ key \in BOOLEAN /\ dm \in {"none", "join", "request"}
      /\ faults \in 0 .. MaxFaults /\ excused \in BOOLEAN
  BY DEF SessionInv, TypeOK
<1>e. ASSUME End(Sweep), task[Sweep].pc # "idle",
             UNCHANGED <<telegram, restriction, stored, dm, history, budget>>
      PROVE  SessionInv'
  <2>1. MayEnd(Sweep)
    BY DEF MayEnd
  <2> QED
    BY <1>0, <1>e, <2>1, EndKeeps
<1>1. CASE Current
  <2>1. CASE Exists(record)
    BY <1>1, <2>1, CurrentGoesKeeps DEF Current
  <2>2. CASE ~ Exists(record)
    BY <1>1, <1>e, <2>2 DEF Current, At
  <2> QED
    BY <2>1, <2>2
<1>2. CASE Check
  <2>1. CASE IsCurrent(task[Sweep].doc) /\ task[Sweep].doc.late
    BY <1>2, <2>1, SweepGoesKeeps DEF Check
  <2>2. CASE ~ (IsCurrent(task[Sweep].doc) /\ task[Sweep].doc.late)
    BY <1>2, <1>e, <2>2 DEF Check, At
  <2> QED
    BY <2>1, <2>2
<1>3. CASE Recheck
  <2>1. CASE IsCurrent(task[Sweep].doc)
    BY <1>3, <2>1, SweepGoesKeeps DEF Recheck
  <2>2. CASE ~ IsCurrent(task[Sweep].doc)
    BY <1>3, <1>e, <2>2 DEF Recheck, At
  <2> QED
    BY <2>1, <2>2
<1>4. CASE Decline
  <2>1. CASE requested
    BY <1>4, <2>1, DeclineGoesKeeps DEF Decline
  <2>2. CASE ~ requested
    BY <1>4, <1>e, <2>2 DEF Decline, At
  <2> QED
    BY <2>1, <2>2
<1> QED
  BY <1>1, <1>2, <1>3, <1>4, KickKeeps, EraseKeeps

\* Whatever goes wrong.
LEMMA FaultKeeps ==
    ASSUME SessionInv, NEW t \in Tasks, Refused(t) \/ TimedOut(t) \/ Crash(t) PROVE SessionInv'
<1> USE Actors DEF telegram, stored, history, budget
<1>0. /\ key \in BOOLEAN /\ dm \in {"none", "join", "request"}
      /\ faults \in 0 .. MaxFaults /\ excused \in BOOLEAN /\ MaxFaults \in Nat
  BY BoundsAssumption DEF SessionInv, TypeOK
<1>1. \A f : Fault(f) => faults' \in 0 .. MaxFaults
  BY <1>0 DEF Fault
<1>2. /\ End(t) /\ task[t].pc # "idle" /\ faults' \in 0 .. MaxFaults
      /\ excused' \in BOOLEAN /\ (excused => excused')
      /\ UNCHANGED <<telegram, restriction, stored, dm, verified, repeats>>
  BY <1>0, <1>1 DEF Refused, TimedOut, Crash, At
<1>3. MayEnd(t)
  BY DEF MayEnd, Refused, TimedOut, Crash
<1> QED
  BY <1>0, <1>2, <1>3, EndKeeps

-----------------------------------------------------------------------------
(* The invariant *)

\* Nothing was sent yet.
LEMMA InitEstablishes == Init => SessionInv
<1> SUFFICES ASSUME Init PROVE SessionInv
  OBVIOUS
<1> USE Actors, BlankTyped
<1>1. TypeOK
  <2>1. task \in [Tasks -> TaskType]
    BY DEF Init
  <2>2. 0 \in 0 .. MaxMessages /\ 0 \in 0 .. MaxFaults /\ 0 \in 0 .. MaxRepeats
    BY BoundsAssumption
  <2> QED
    BY <2>1, <2>2 DEF Init, TypeOK, TaskType
<1>2. Locked
  BY DEF Init, Locked, Inside
<1>3. Messages /\ Sessions /\ DropsOld
  BY DEF Init, Messages, Sessions, Past, DropsOld
<1>4. SameStay /\ SameRecord /\ Released
  BY DEF Init, SameStay, SameRecord, Released, Exists
<1>5. RowKnown /\ HolderKnows /\ Held /\ Freed
  BY DEF Init, RowKnown, HolderKnows, Held, Freed
<1> QED
  BY <1>1, <1>2, <1>3, <1>4, <1>5 DEF SessionInv

\* Every step keeps the invariant.
LEMMA NextPreserves ==
    ASSUME SessionInv, [Next]_vars PROVE SessionInv'
<1>1. CASE Join \/ Leave \/ AskToJoin \/ AdminApproves
  BY <1>1, JoinKeeps, LeaveKeeps, AskToJoinKeeps
<1>2. CASE Late \/ WelcomeMuteEnds \/ Button \/ Solve \/ Find
  BY <1>2, LateKeeps, WelcomeMuteEndsKeeps, ButtonKeeps, SolveKeeps, FindKeeps
<1>3. CASE \E m \in Updates : Redeliver(m) \/ Seen(m)
  BY <1>3, RedeliverKeeps, SeenKeeps
<1>4. ASSUME NEW t \in Tasks,
             Acquire(t) \/ Advance(t) \/ Refused(t) \/ TimedOut(t) \/ Crash(t)
      PROVE  SessionInv'
  <2>1. CASE t \in Updates /\ (Joined(t) \/ Left(t) \/ Drop(t) \/ Look(t) \/ Remove(t) \/ Key(t))
    BY <2>1, JoinedKeeps, RemoveKeeps, MessageKeeps
  <2>2. CASE ReadRow(t) \/ Upsert(t) \/ Session(t) \/ Reload(t) \/ Mute(t)
    BY <2>2, ReadRowKeeps, UpsertKeeps, SessionKeeps, ReloadKeeps, MuteKeeps
  <2>3. CASE t = Captcha /\ (Approve \/ OnUserPassed \/ Forget)
    BY <2>3, CaptchaKeeps
  <2>4. CASE t = Sweep /\ (Current \/ Check \/ Recheck \/ Decline \/ Kick \/ Erase)
    BY <2>4, SweepKeeps
  <2>5. CASE Advance(t)
    BY <2>1, <2>2, <2>3, <2>4, <2>5 DEF Advance
  <2>6. CASE Acquire(t)
    BY <2>6, AcquireKeeps
  <2>7. CASE Refused(t) \/ TimedOut(t) \/ Crash(t)
    BY <2>7, FaultKeeps
  <2> QED
    BY <1>4, <2>5, <2>6, <2>7
<1>5. CASE UNCHANGED vars
  BY <1>5 DEF vars, telegram, stored, history, budget, SessionInv, TypeOK, Locked, Messages,
     Sessions, Past, DropsOld, SameStay, SameRecord, Released, RowKnown, HolderKnows, Held,
     UnderWay, Coming, Freed, Exists
<1> QED
  BY <1>1, <1>2, <1>3, <1>4, <1>5 DEF Next

\* The session of the captcha is what the invariant says, in every reachable
\* state, for every number of messages, faults and repeats.
THEOREM SessionInvariance == Spec => []SessionInv
<1>1. Init => SessionInv
  BY InitEstablishes
<1>2. SessionInv /\ [Next]_vars => SessionInv'
  BY NextPreserves
<1> QED
  BY <1>1, <1>2, PTL DEF Spec

-----------------------------------------------------------------------------
(* What the invariant means *)

\* The record under the sweep's decision is the one it read.
LEMMA InvMeansExpiryKeeps ==
    ASSUME SessionInv PROVE ExpiryKeepsSession
<1> SUFFICES ASSUME task[Sweep].pc \in {"check", "recheck", "expel", "erase"}, Exists(record)
             PROVE  [record EXCEPT !.late = TRUE] = [task[Sweep].doc EXCEPT !.late = TRUE]
  BY DEF ExpiryKeepsSession
<1> DEFINE doc == task[Sweep].doc
<1>1. /\ record.id = doc.id /\ record.member = doc.member
      /\ record.joined = doc.joined /\ record.request = doc.request
  BY DEF SessionInv, SameRecord
<1>2. record \in Records /\ doc \in Records
  BY Actors DEF SessionInv, TypeOK
<1> HIDE DEF doc
<1>3. [record EXCEPT !.late = TRUE] = [doc EXCEPT !.late = TRUE]
  BY <1>1, <1>2 DEF Records
<1> QED
  BY <1>3 DEF doc

\* All is handled, so the join that began the stay is, and its record is there.
LEMMA InvMeansHeldHasRecord ==
    ASSUME SessionInv PROVE HeldHasRecordOrExcused
<1> SUFFICES ASSUME ~ excused, Quiet, present # 0, restriction = "captcha" PROVE Exists(record)
  BY DEF HeldHasRecordOrExcused, HeldHasRecord
<1>1. present \in Updates /\ kind[present] = "join"
  BY Counters DEF SessionInv, Messages
<1>2. task[present].pc = "done"
  BY <1>1 DEF Quiet, At
<1>3. record.joined = present
  BY <1>2 DEF SessionInv, Held, UnderWay, Coming
<1> QED
  BY <1>3 DEF SessionInv, Sessions, Past, Exists

\* Who solved the captcha of this session has no record the sweep could act on.
LEMMA InvMeansSpared ==
    ASSUME SessionInv PROVE SparesReleased
BY DEF SessionInv, Released, SparesReleased, Kick, At

-----------------------------------------------------------------------------
(* What a step does to the row and the record of the stay the user is in *)

\* No leave is later than the stay.
LEMMA Earlier ==
    ASSUME SessionInv, NEW m \in Updates, present # 0,
           task[m].pc \in {"left", "drop", "look", "remove"}
    PROVE  m < present
<1>1. present = sent /\ kind[m] # kind[present]
  BY Counters DEF SessionInv, Messages
<1>2. m <= sent /\ m # present
  BY <1>1, Handled
<1> QED
  BY <1>1, <1>2, Counters, Actors DEF SessionInv

\* A leave handler deletes neither the row nor the record of the stay.
LEMMA LeaveSpares ==
    ASSUME SessionInv, NEW m \in Updates, present # 0
    PROVE  /\ Drop(m) /\ row.joined = present => row' = row
           /\ Remove(m) /\ record.joined = present => record' = record
<1>0. /\ TypeOK /\ m \in Nat /\ present \in Nat /\ row.joined \in Nat /\ row.last \in Nat
      /\ row.joined <= row.last
  BY Counters, Actors DEF SessionInv, Sessions
<1>1. ASSUME Drop(m), row.joined = present PROVE row' = row
  <2>1. m < present
    BY <1>1, Earlier DEF Drop, At
  <2>2. ~ (row.last <= m)
    BY <1>0, <1>1, <2>1
  <2> QED
    BY <1>1, <2>2 DEF Drop
<1>2. ASSUME Remove(m), record.joined = present PROVE record' = record
  <2>1. m < present /\ task[m].row.joined <= m
    BY <1>2, Earlier DEF Remove, At, SessionInv, DropsOld
  <2>2. task[m].row.joined \in Nat
    BY <1>0, Counters, Actors
  <2>3. ~ EndedBy(record, m)
    BY <1>0, <1>2, <2>1, <2>2 DEF EndedBy
  <2> QED
    BY <1>2, <2>3 DEF Remove
<1> QED
  BY <1>1, <1>2

\* The row of the stay is not deleted.
LEMMA RowStays ==
    ASSUME SessionInv, Next, present # 0, row.joined = present PROVE Exists(row')
<1> USE DEF telegram, stored, history, budget
<1>0. TypeOK /\ Exists(row)
  BY DEF SessionInv, Sessions, Past, Exists
<1>1. \A i, join : EnsureRow(i, join) => row'.id = row.id
  <2> SUFFICES ASSUME NEW i, NEW join, EnsureRow(i, join) PROVE row'.id = row.id
    OBVIOUS
  <2> DEFINE last == Greater(row.last, i)
             joined == IF join THEN Greater(row.joined, i) ELSE row.joined
  <2>1. row' = [row EXCEPT !.last = last, !.joined = joined]
    BY <1>0 DEF EnsureRow
  <2> HIDE DEF last, joined
  <2> QED
    BY <1>0, <2>1 DEF TypeOK, Rows
<1>2. CASE Join \/ Leave \/ AskToJoin \/ AdminApproves \/ Late \/ WelcomeMuteEnds \/ Solve \/ Find
  BY <1>0, <1>2 DEF Join, Leave, AskToJoin, AdminApproves, Late, WelcomeMuteEnds, Solve, Find,
     Exists
<1>3. CASE Button
  BY <1>0, <1>1, <1>3 DEF Button, Exists
<1>4. ASSUME NEW m \in Updates, Redeliver(m) \/ Seen(m) PROVE Exists(row')
  BY <1>0, <1>1, <1>4 DEF Redeliver, Seen, Exists
<1>5. ASSUME NEW t \in Tasks,
             Acquire(t) \/ Refused(t) \/ TimedOut(t) \/ Crash(t)
      PROVE  Exists(row')
  BY <1>0, <1>5 DEF Acquire, Refused, TimedOut, Crash, Exists
<1>6. ASSUME NEW t \in Tasks, Advance(t) PROVE Exists(row')
  <2>1. CASE t \in Updates /\ (Joined(t) \/ Left(t) \/ Look(t) \/ Remove(t) \/ Key(t))
    BY <1>0, <1>1, <2>1 DEF Joined, Left, Look, Remove, Key, Exists
  <2>2. CASE t \in Updates /\ Drop(t)
    BY <1>0, <2>2, LeaveSpares
  <2>3. CASE ReadRow(t) \/ Upsert(t) \/ Session(t) \/ Reload(t) \/ Mute(t)
    BY <1>0, <2>3 DEF ReadRow, Upsert, Session, Reload, Mute, Exists
  <2>4. CASE Approve \/ OnUserPassed \/ Forget
    BY <1>0, <2>4 DEF Approve, OnUserPassed, Forget, Exists
  <2>5. CASE Current \/ Check \/ Recheck \/ Decline \/ Kick \/ Erase
    BY <1>0, <2>5 DEF Current, Check, Recheck, Decline, Kick, Erase, Exists
  <2> QED
    BY <1>6, <2>1, <2>2, <2>3, <2>4, <2>5 DEF Advance
<1> QED
  BY <1>2, <1>3, <1>4, <1>5, <1>6 DEF Next

\* The record of the stay is deleted by the captcha and the sweep alone, and
\* nothing moves a deadline that has passed.
LEMMA RecordStays ==
    ASSUME SessionInv, Next, present # 0, record.joined = present
    PROVE  /\ ~ Exists(record') => lock \in {Captcha, Sweep}
           /\ record.late /\ Exists(record') => record'.late
<1> USE DEF telegram, stored, history, budget
<1>0. TypeOK /\ Exists(record)
  BY DEF SessionInv, Sessions, Past, Exists
<1>k. ASSUME record' = record
      PROVE  Exists(record') /\ (record.late => record'.late)
  BY <1>0, <1>k
<1>2. CASE Join \/ Leave \/ AskToJoin \/ AdminApproves \/ WelcomeMuteEnds \/ Solve \/ Find \/ Button
  BY <1>2, <1>k DEF Join, Leave, AskToJoin, AdminApproves, WelcomeMuteEnds, Solve, Find, Button
<1>3. CASE Late
  BY <1>0, <1>3 DEF Late, TypeOK, Records, Exists
<1>4. ASSUME NEW m \in Updates, Redeliver(m) \/ Seen(m) PROVE record' = record
  BY <1>4 DEF Redeliver, Seen
<1>5. ASSUME NEW t \in Tasks,
             Acquire(t) \/ Refused(t) \/ TimedOut(t) \/ Crash(t)
      PROVE  record' = record
  BY <1>5 DEF Acquire, Refused, TimedOut, Crash
<1>6. ASSUME NEW t \in Tasks, Advance(t)
      PROVE  /\ ~ Exists(record') => lock \in {Captcha, Sweep}
             /\ Exists(record') => record' = record
  <2>1. CASE t \in Updates /\ (Joined(t) \/ Left(t) \/ Drop(t) \/ Look(t) \/ Key(t))
    BY <1>k, <2>1 DEF Joined, Left, Drop, Look, Key
  <2>2. CASE t \in Updates /\ Remove(t)
    BY <1>k, <2>2, LeaveSpares
  <2>3. CASE ReadRow(t) \/ Reload(t) \/ Mute(t)
    BY <1>k, <2>3 DEF ReadRow, Reload, Mute
  <2>4. CASE Upsert(t)
    BY <1>0, <1>k, <2>4 DEF Upsert
  <2>5. CASE Session(t)
    <3>1. row.joined = present /\ row.id = record.member /\ task[t].row.joined = present
          /\ row.id = task[t].row.id
      BY <2>5 DEF Session, At, SessionInv, SameStay
    <3>2. ~ Outdated(record, task[t].row)
      BY <1>0, <3>1, Counters DEF Outdated
    <3> QED
      BY <1>k, <2>5, <3>2 DEF Session
  <2>6. CASE Approve \/ OnUserPassed \/ Current \/ Check \/ Recheck \/ Decline \/ Kick
    BY <1>k, <2>6 DEF Approve, OnUserPassed, Current, Check, Recheck, Decline, Kick
  <2>7. CASE Forget
    BY <1>0, <2>7, Actors, BlankTyped DEF Forget, At, SessionInv, Locked, Inside, Exists
  <2>8. CASE Erase
    BY <1>0, <2>8, Actors, BlankTyped DEF Erase, At, SessionInv, Locked, Inside, Exists
  <2> QED
    BY <1>6, <2>1, <2>2, <2>3, <2>4, <2>5, <2>6, <2>7, <2>8 DEF Advance
<1> QED
  BY <1>k, <1>2, <1>3, <1>4, <1>5, <1>6 DEF Next

\* The steps of the invariant keep what is newer, and deadlines.
LEMMA StepKeeps ==
    ASSUME SessionInv, Next PROVE KeepsNewer /\ KeepsDeadline
BY RowStays, RecordStays DEF KeepsNewer, KeepsDeadline

-----------------------------------------------------------------------------
(* The theorems *)

\* KickUnpassedUsers decides about the record it has read under the lock: no
\* rejoin replaces it or moves its deadline meanwhile.
THEOREM SessionExpiryKept == Spec => []ExpiryKeepsSession
<1>1. SessionInv => ExpiryKeepsSession
  BY InvMeansExpiryKeeps
<1> QED
  BY <1>1, SessionInvariance, PTL

\* A member under the captcha mute has a pending record once all is handled,
\* unless a handler died or a join was let through for an approved request.
THEOREM SessionHeldHasRecord == Spec => []HeldHasRecordOrExcused
<1>1. SessionInv => HeldHasRecordOrExcused
  BY InvMeansHeldHasRecord
<1> QED
  BY <1>1, SessionInvariance, PTL

\* A leave that comes late removes neither the row nor the record of the stay
\* the user is in, in whatever way they entered.
THEOREM SessionNewerKept == Spec => LeaveKeepsNewer
<1>1. SessionInv /\ [Next]_vars => [KeepsNewer]_vars
  BY StepKeeps
<1> QED
  BY <1>1, SessionInvariance, PTL DEF Spec, LeaveKeepsNewer

\* No handler moves a deadline that has passed, in whatever way the user entered.
THEOREM SessionDeadlineStands == Spec => DeadlineStands
<1>1. SessionInv /\ [Next]_vars => [KeepsDeadline]_vars
  BY StepKeeps
<1> QED
  BY <1>1, SessionInvariance, PTL DEF Spec, DeadlineStands

\* The sweep kicks nobody for the session they solved the captcha in.
THEOREM SessionReleasedSpared == Spec => ReleasedNotKicked
<1>1. SessionInv /\ [Next]_vars => [SparesReleased]_vars
  BY InvMeansSpared
<1> QED
  BY <1>1, SessionInvariance, PTL DEF Spec, ReleasedNotKicked
================================================================================
