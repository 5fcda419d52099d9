------------------------ MODULE TelegramWorker_proofs ------------------------
(***************************************************************************)
(* Theorems about TelegramWorker, for any set of requests, any number of   *)
(* messages per context, and any bounds on attempts, updates and crashes.  *)
(***************************************************************************)
EXTENDS TelegramWorker, FiniteSetTheorems, FunctionTheorems, SequenceTheorems,
        TLAPS

-----------------------------------------------------------------------------
(* The inductive invariant.  TLC checked it first.                           *)

KeyboardOf(b) ==
    \E i \in DOMAIN outbox : outbox[i].kind = "keyboard" /\ outbox[i].batch = b

(* Only rows of no rendering may be dropped.                                 *)
ShapeOK ==
    \A i \in DOMAIN outbox :
        /\ outbox[i].batch <= batches
        /\ outbox[i].kind = "keyboard" => outbox[i].batch > 0
        /\ outbox[i].req = "none" =>
               outbox[i].batch = 0 /\ outbox[i].kind # "approval"

(* A keyboard that is queued has its whole context queued, and one on the    *)
(* phone has it delivered.                                                   *)
BatchOK(b) ==
    /\ KeyboardOf(b) => Cardinality(Context(b)) = Chunks
    /\ b \in shown => KeyboardOf(b) /\ ContextReady(b)

(* What is still to be queued completes what is queued of the last batch.    *)
TodoOK ==
    \/ todo = <<>>
    \/ todo = <<Reply>>
    \/ /\ \E r \in Request : \A i \in DOMAIN todo :
             todo[i] = NewRow(IF i = Len(todo) THEN "keyboard" ELSE "text", r, batches)
       /\ batches > 0 /\ ~KeyboardOf(batches)
       /\ Cardinality(Context(batches)) + Len(todo) = Chunks + 1

StageOK ==
    /\ pc = "handle" => fetched # <<>>
    /\ pc # "render" => todo = <<>>
    /\ pc \in {"render", "mark"} => Pending # {}
    /\ pc = "mark" /\ outbox[First].kind = "keyboard" =>
           outbox[First].attempts < MaxAttempts

OutboxInv == ShapeOK /\ (\A b \in 1..batches : BatchOK(b)) /\ TodoOK

IInv == TypeOK /\ OutboxInv /\ StageOK

-----------------------------------------------------------------------------
(* The oldest pending row                                                    *)

Least(T) == CHOOSE i \in T : \A j \in T : i <= j

LEMMA LeastOfSet ==
    ASSUME NEW T \in SUBSET Nat, T # {}
    PROVE  Least(T) \in T /\ \A j \in T : Least(T) <= j
  <1>1. PICK i \in T : \A j \in T : ~ (<<j, i>> \in OpToRel(<, Nat))
    BY WFMin, NatLessThanWellFounded
  <1>2. \A j \in T : ~(j < i)
    BY <1>1 DEF OpToRel
  <1>3. \E k \in T : \A j \in T : k <= j
    BY <1>2
  <1> QED BY <1>3 DEF Least

LEMMA LeastStays ==
    ASSUME NEW S \in SUBSET Nat, S # {}, NEW T \in SUBSET Nat, S \subseteq T,
           NEW n \in Nat, \A j \in T : j \in S \/ j = n + 1, \A j \in S : j <= n
    PROVE  Least(T) = Least(S)
  <1>1. /\ Least(S) \in S /\ \A j \in S : Least(S) <= j
        /\ Least(T) \in T /\ \A j \in T : Least(T) <= j
    BY LeastOfSet
  <1>2. Least(T) <= Least(S) /\ Least(S) <= n /\ Least(T) \in Nat /\ Least(S) \in Nat
    BY <1>1
  <1>3. Least(T) \in S
    BY <1>1, <1>2
  <1> QED BY <1>1, <1>2, <1>3

LEMMA FirstIsPending ==
    ASSUME outbox \in Seq(Row), Pending # {}
    PROVE  First \in Pending /\ First \in DOMAIN outbox
  <1>1. Pending \in SUBSET Nat /\ Pending \subseteq DOMAIN outbox
    BY DEF Pending
  <1>2. First = Least(Pending)
    BY DEF First, Least
  <1> QED BY <1>1, <1>2, LeastOfSet

(* What is appended is not the oldest.                                       *)
LEMMA FirstStays ==
    ASSUME outbox \in Seq(Row), Pending # {}, NEW row \in Row,
           outbox' = Append(outbox, row)
    PROVE  Pending' # {} /\ First' = First /\ outbox'[First] = outbox[First]
  <1>1. /\ Pending \in SUBSET Nat /\ Pending' \in SUBSET Nat
        /\ Pending \subseteq Pending'
        /\ \A j \in Pending' : j \in Pending \/ j = Len(outbox) + 1
        /\ \A j \in Pending : j <= Len(outbox)
        /\ \A j \in Pending : outbox'[j] = outbox[j]
    BY DEF Pending
  <1>2. First = Least(Pending) /\ First' = Least(Pending')
    BY DEF First, Least, Pending
  <1>3. Len(outbox) \in Nat
    OBVIOUS
  <1>5. Pending' # {}
    BY <1>1
  <1>4. Least(Pending') = Least(Pending)
    BY <1>1, <1>3, LeastStays
  <1> QED BY <1>1, <1>2, <1>4, <1>5, LeastOfSet

-----------------------------------------------------------------------------
(* The rows of a batch                                                       *)

(* A step that leaves the rows of batch b as they were, or delivers one.     *)
SameBatch(b) ==
    /\ Cardinality(Context(b)') = Cardinality(Context(b))
    /\ KeyboardOf(b)' <=> KeyboardOf(b)
    /\ ContextReady(b) => ContextReady(b)'

LEMMA ContextIsFinite ==
    ASSUME outbox \in Seq(Row), NEW b
    PROVE  IsFiniteSet(Context(b)) /\ Cardinality(Context(b)) \in Nat
  <1>1. IsFiniteSet(1..Len(outbox)) /\ Context(b) \in SUBSET (1..Len(outbox))
    BY FS_Interval DEF Context
  <1> QED BY <1>1, FS_Subset, FS_CardinalityType

LEMMA AppendOther ==
    ASSUME outbox \in Seq(Row), NEW row \in Row, outbox' = Append(outbox, row),
           NEW b, row.batch # b
    PROVE  SameBatch(b)
  <1>1. /\ DOMAIN outbox' = DOMAIN outbox \cup {Len(outbox) + 1}
        /\ \A i \in DOMAIN outbox : outbox'[i] = outbox[i]
        /\ outbox'[Len(outbox) + 1] = row
        /\ Len(outbox) + 1 \notin DOMAIN outbox
    OBVIOUS
  <1>2. Context(b)' = Context(b)
    BY <1>1 DEF Context
  <1> QED BY <1>1, <1>2 DEF SameBatch, KeyboardOf, ContextReady, Context

LEMMA AppendText ==
    ASSUME outbox \in Seq(Row), NEW row \in Row, outbox' = Append(outbox, row),
           row.kind = "text"
    PROVE  /\ Cardinality(Context(row.batch)') = Cardinality(Context(row.batch)) + 1
           /\ KeyboardOf(row.batch)' <=> KeyboardOf(row.batch)
  <1>1. /\ DOMAIN outbox' = DOMAIN outbox \cup {Len(outbox) + 1}
        /\ \A i \in DOMAIN outbox : outbox'[i] = outbox[i]
        /\ outbox'[Len(outbox) + 1] = row
        /\ Len(outbox) + 1 \notin DOMAIN outbox
    OBVIOUS
  <1>2. /\ Context(row.batch)' = Context(row.batch) \cup {Len(outbox) + 1}
        /\ Len(outbox) + 1 \notin Context(row.batch)
    BY <1>1 DEF Context
  <1> QED BY ZenonT(30), <1>1, <1>2, ContextIsFinite, FS_AddElement DEF KeyboardOf

LEMMA AppendKeyboard ==
    ASSUME outbox \in Seq(Row), NEW row \in Row, outbox' = Append(outbox, row),
           row.kind = "keyboard"
    PROVE  /\ Cardinality(Context(row.batch)') = Cardinality(Context(row.batch))
           /\ KeyboardOf(row.batch)'
  <1>1. /\ DOMAIN outbox' = DOMAIN outbox \cup {Len(outbox) + 1}
        /\ \A i \in DOMAIN outbox : outbox'[i] = outbox[i]
        /\ outbox'[Len(outbox) + 1] = row
        /\ Len(outbox) + 1 \notin DOMAIN outbox
    OBVIOUS
  <1>2. Context(row.batch)' = Context(row.batch)
    BY <1>1 DEF Context
  <1> QED BY <1>1, <1>2 DEF KeyboardOf

(* A row changes its state only.                                             *)
LEMMA ChangedRow ==
    ASSUME outbox \in Seq(Row), NEW k \in DOMAIN outbox,
           outbox' \in Seq(Row), Len(outbox') = Len(outbox),
           \A i \in DOMAIN outbox :
               /\ i # k => outbox'[i] = outbox[i]
               /\ outbox'[i].kind = outbox[i].kind
               /\ outbox'[i].batch = outbox[i].batch,
           NEW b, ContextReady(b) => k \notin Context(b) \/ outbox'[k].st = outbox[k].st
    PROVE  SameBatch(b)
  <1>1. DOMAIN outbox' = DOMAIN outbox
    OBVIOUS
  <1>2. Context(b)' = Context(b)
    BY <1>1 DEF Context
  <1>3. \A i \in Context(b) : i \in DOMAIN outbox
    BY DEF Context
  <1>4. ContextReady(b) => ContextReady(b)'
    BY <1>2, <1>3 DEF ContextReady
  <1>5. KeyboardOf(b)' <=> KeyboardOf(b)
    BY <1>1 DEF KeyboardOf
  <1> QED BY <1>2, <1>4, <1>5 DEF SameBatch

(* A row of another batch is taken out.                                      *)
LEMMA RemovedRow ==
    ASSUME outbox \in Seq(Row), NEW k \in DOMAIN outbox, NEW b, outbox[k].batch # b,
           outbox' \in Seq(Row), Len(outbox') = Len(outbox) - 1,
           \A i \in 1..(Len(outbox) - 1) :
               outbox'[i] = outbox[IF i < k THEN i ELSE i + 1]
    PROVE  SameBatch(b)
  <1> DEFINE S == Context(b)
             T == Context(b)'
             f == [i \in S |-> IF i < k THEN i ELSE i - 1]
  <1>1. /\ DOMAIN outbox = 1..Len(outbox) /\ DOMAIN outbox' = 1..(Len(outbox) - 1)
        /\ k \in 1..Len(outbox) /\ Len(outbox) \in Nat
    OBVIOUS
  <1>2. \A i \in 1..Len(outbox) : i # k =>
           LET j == IF i < k THEN i ELSE i - 1
           IN  j \in 1..(Len(outbox) - 1) /\ outbox'[j] = outbox[i]
    BY <1>1
  <1>3. \A j \in 1..(Len(outbox) - 1) :
           LET i == IF j < k THEN j ELSE j + 1
           IN  i \in 1..Len(outbox) /\ i # k /\ outbox'[j] = outbox[i]
    BY <1>1
  <1>4. \A i \in S : i \in 1..Len(outbox) /\ i # k
    BY <1>1 DEF Context
  <1>5. f \in [S -> T]
    BY <1>1, <1>2, <1>4 DEF Context
  <1>6. \A i, j \in S : f[i] = f[j] => i = j
    BY <1>1, <1>4
  <1>7. \A j \in T : (IF j < k THEN j ELSE j + 1) \in S
    BY <1>1, <1>3 DEF Context
  <1>8. \A j \in T : \E i \in S : f[i] = j
    <2> TAKE j \in T
    <2>1. j \in 1..(Len(outbox) - 1)
      BY <1>1 DEF Context
    <2> DEFINE i == IF j < k THEN j ELSE j + 1
    <2>2. i \in S
      BY <1>7
    <2>3. f[i] = j
      BY <1>1, <2>1, <2>2
    <2> QED BY <2>2, <2>3
  <1>9. Cardinality(T) = Cardinality(S)
    <2> HIDE DEF S, T, f
    <2>1. f \in Bijection(S, T)
      BY <1>5, <1>6, <1>8, Fun_IsBij
    <2>2. ExistsBijection(S, T)
      BY <2>1 DEF ExistsBijection
    <2>3. IsFiniteSet(S)
      BY ContextIsFinite DEF S
    <2> QED BY <2>2, <2>3, FS_Bijection
  <1>10. KeyboardOf(b)' <=> KeyboardOf(b)
    <2>1. ASSUME NEW i \in 1..Len(outbox), outbox[i].kind = "keyboard", outbox[i].batch = b
          PROVE  KeyboardOf(b)'
      BY <1>1, <1>2, <2>1 DEF KeyboardOf
    <2>2. ASSUME NEW j \in 1..(Len(outbox) - 1),
                 outbox'[j].kind = "keyboard", outbox'[j].batch = b
          PROVE  KeyboardOf(b)
      BY <1>1, <1>3, <2>2 DEF KeyboardOf
    <2> QED BY <1>1, <2>1, <2>2 DEF KeyboardOf
  <1>11. ContextReady(b) => ContextReady(b)'
    <2> SUFFICES ASSUME ContextReady(b), NEW j \in T
                 PROVE  outbox'[j].st = "delivered"
      BY DEF ContextReady
    <2>1. j \in 1..(Len(outbox) - 1)
      BY <1>1 DEF Context
    <2>2. outbox'[j] = outbox[IF j < k THEN j ELSE j + 1]
      BY <1>3, <2>1
    <2> QED BY <1>7, <2>2 DEF ContextReady
  <1> QED BY <1>9, <1>10, <1>11 DEF SameBatch

LEMMA MarkedRows ==
    ASSUME outbox \in Seq(Row), NEW k \in DOMAIN outbox,
           NEW st \in {"delivered", "failed"}
    PROVE  /\ Marked(k, st) \in Seq(Row)
           /\ outbox[k].req = "none" =>
                 /\ Len(Marked(k, st)) = Len(outbox) - 1
                 /\ \A i \in 1..(Len(outbox) - 1) :
                       Marked(k, st)[i] = outbox[IF i < k THEN i ELSE i + 1]
           /\ outbox[k].req # "none" =>
                 /\ Len(Marked(k, st)) = Len(outbox)
                 /\ \A i \in DOMAIN outbox :
                       /\ i # k => Marked(k, st)[i] = outbox[i]
                       /\ Marked(k, st)[i].kind = outbox[i].kind
                       /\ Marked(k, st)[i].batch = outbox[i].batch
                       /\ Marked(k, st)[i].req = outbox[i].req
                       /\ Marked(k, st)[i].attempts = outbox[i].attempts
  <1>1. CASE outbox[k].req = "none"
    <2>1. Marked(k, st) = SubSeq(outbox, 1, k - 1) \o SubSeq(outbox, k + 1, Len(outbox))
      BY <1>1 DEF Marked
    <2> DEFINE before == SubSeq(outbox, 1, k - 1)
               after == SubSeq(outbox, k + 1, Len(outbox))
    <2>2. k \in 1..Len(outbox) /\ Len(outbox) \in Nat
      OBVIOUS
    <2>3. /\ before \in Seq(Row) /\ after \in Seq(Row)
          /\ Len(before) = k - 1 /\ Len(after) = Len(outbox) - k
          /\ \A i \in 1..(k - 1) : before[i] = outbox[i]
          /\ \A i \in 1..(Len(outbox) - k) : after[i] = outbox[k + i]
      BY <2>2
    <2> HIDE DEF before, after
    <2>4. /\ before \o after \in Seq(Row) /\ Len(before \o after) = Len(outbox) - 1
          /\ \A i \in 1..(Len(outbox) - 1) :
                (before \o after)[i] = IF i < k THEN before[i] ELSE after[i - (k - 1)]
      <3>1. /\ before \o after \in Seq(Row)
            /\ Len(before \o after) = Len(before) + Len(after)
        BY <2>3
      <3>2. \A i \in 1..(Len(before) + Len(after)) :
               (before \o after)[i] =
                   IF i <= Len(before) THEN before[i] ELSE after[i - Len(before)]
        BY <2>3, ConcatProperties, Zenon
      <3>3. /\ Len(before) + Len(after) = Len(outbox) - 1
            /\ \A i \in 1..(Len(outbox) - 1) : i <= Len(before) <=> i < k
        BY SMTT(30), <2>2, <2>3
      <3> QED BY <2>3, <3>1, <3>2, <3>3
    <2>5. \A i \in 1..(Len(outbox) - 1) :
             (before \o after)[i] = outbox[IF i < k THEN i ELSE i + 1]
      <3> TAKE i \in 1..(Len(outbox) - 1)
      <3>1. CASE i < k
        BY <2>2, <2>3, <2>4, <3>1
      <3>2. CASE ~(i < k)
        <4>1. i - (k - 1) \in 1..(Len(outbox) - k) /\ k + (i - (k - 1)) = i + 1
          BY <2>2, <3>2
        <4>2. after[i - (k - 1)] = outbox[i + 1]
          BY <2>3, <4>1
        <4> QED BY <2>4, <3>2, <4>2
      <3> QED BY <3>1, <3>2
    <2>6. Marked(k, st) = before \o after
      BY <2>1 DEF before, after
    <2> QED BY <1>1, <2>4, <2>5, <2>6
  <1>2. CASE outbox[k].req # "none"
    <2>1. /\ Marked(k, st) = [outbox EXCEPT ![k].st = st] /\ outbox[k] \in Row
          /\ k \in 1..Len(outbox) /\ Len(outbox) \in Nat
      BY <1>2 DEF Marked
    <2>2. /\ [outbox[k] EXCEPT !.st = st] \in Row
          /\ [outbox[k] EXCEPT !.st = st].kind = outbox[k].kind
          /\ [outbox[k] EXCEPT !.st = st].batch = outbox[k].batch
          /\ [outbox[k] EXCEPT !.st = st].req = outbox[k].req
          /\ [outbox[k] EXCEPT !.st = st].attempts = outbox[k].attempts
      BY <2>1 DEF Row
    <2> DEFINE row == [outbox[k] EXCEPT !.st = st]
    <2>3. Marked(k, st) = [outbox EXCEPT ![k] = row]
      BY <2>1
    <2> HIDE DEF row
    <2>4. Marked(k, st) \in Seq(Row) /\ Len(Marked(k, st)) = Len(outbox)
      BY <2>1, <2>2, <2>3 DEF row
    <2> QED BY <1>2, <2>1, <2>2, <2>3, <2>4 DEF row
  <1> QED BY <1>1, <1>2

(* Settling a pending row, or counting an attempt, loses no context.         *)
LEMMA MarkedBatches ==
    ASSUME TypeOK, ShapeOK, NEW k \in Pending, NEW st \in {"delivered", "failed"},
           outbox' = Marked(k, st), batches' = batches
    PROVE  /\ ShapeOK' /\ \A b \in 1..batches : SameBatch(b)
           /\ outbox' \in Seq(Row)
           /\ \A i \in DOMAIN outbox' : outbox'[i].attempts <= MaxAttempts
  <1>1. /\ outbox \in Seq(Row) /\ k \in DOMAIN outbox /\ outbox[k].st = "pending"
        /\ batches \in Nat
        /\ DOMAIN outbox = 1..Len(outbox) /\ Len(outbox) \in Nat
    BY DEF Pending, TypeOK
  <1>2. CASE outbox[k].req = "none"
    <2>1. /\ outbox' \in Seq(Row) /\ Len(outbox') = Len(outbox) - 1
          /\ \A i \in 1..(Len(outbox) - 1) :
                outbox'[i] = outbox[IF i < k THEN i ELSE i + 1]
      BY <1>1, <1>2, MarkedRows
    <2>2. ASSUME NEW i \in DOMAIN outbox'
          PROVE  \E j \in DOMAIN outbox : outbox'[i] = outbox[j]
      <3>1. i \in 1..(Len(outbox) - 1)
        BY <1>1, <2>1
      <3>2. (IF i < k THEN i ELSE i + 1) \in DOMAIN outbox
        BY <1>1, <3>1
      <3> QED BY <2>1, <3>1, <3>2
    <2>3. ShapeOK'
      BY <2>2 DEF ShapeOK
    <2>4. outbox[k].batch = 0
      BY <1>1, <1>2 DEF ShapeOK
    <2>5. \A b \in 1..batches : SameBatch(b)
      BY <1>1, <2>1, <2>4, RemovedRow
    <2>6. \A i \in DOMAIN outbox' : outbox'[i].attempts <= MaxAttempts
      BY <2>2 DEF TypeOK
    <2> QED BY <2>1, <2>3, <2>5, <2>6
  <1>3. CASE outbox[k].req # "none"
    <2>1. /\ outbox' \in Seq(Row) /\ Len(outbox') = Len(outbox)
          /\ \A i \in DOMAIN outbox :
                /\ i # k => outbox'[i] = outbox[i]
                /\ outbox'[i].kind = outbox[i].kind
                /\ outbox'[i].batch = outbox[i].batch
                /\ outbox'[i].req = outbox[i].req
                /\ outbox'[i].attempts = outbox[i].attempts
      BY ZenonT(30), <1>1, <1>3, MarkedRows
    <2>2. DOMAIN outbox' = DOMAIN outbox
      BY <1>1, <2>1
    <2>3. ShapeOK'
      BY <2>1, <2>2 DEF ShapeOK
    <2>4. ASSUME NEW b PROVE SameBatch(b)
      <3>1. ContextReady(b) => k \notin Context(b)
        BY <1>1 DEF ContextReady
      <3> QED BY <1>1, <2>1, <3>1, ChangedRow
    <2>5. \A i \in DOMAIN outbox' : outbox'[i].attempts <= MaxAttempts
      BY <2>1, <2>2 DEF TypeOK
    <2> QED BY <2>1, <2>3, <2>4, <2>5
  <1> QED BY <1>2, <1>3

LEMMA AttemptedBatches ==
    ASSUME TypeOK, ShapeOK, NEW k \in DOMAIN outbox, outbox[k].attempts < MaxAttempts,
           outbox' = Attempted(k), batches' = batches
    PROVE  /\ ShapeOK' /\ \A b \in 1..batches : SameBatch(b)
           /\ outbox' \in Seq(Row)
           /\ \A i \in DOMAIN outbox' : outbox'[i].attempts <= MaxAttempts
           /\ Pending' = Pending
  <1> DEFINE n == outbox[k].attempts + 1
             row == [outbox[k] EXCEPT !.attempts = n]
  <1>0. /\ outbox \in Seq(Row) /\ outbox[k] \in Row /\ MaxAttempts \in Nat
    BY WorkerAssumption DEF TypeOK
  <1>9. outbox[k].attempts \in Nat
    BY <1>0 DEF Row
  <1>1. /\ outbox \in Seq(Row) /\ outbox[k] \in Row /\ MaxAttempts \in Nat
        /\ n \in Nat /\ n <= MaxAttempts
    BY <1>0, <1>9
  <1>3. outbox' = [outbox EXCEPT ![k] = row]
    BY <1>1 DEF Attempted
  <1> HIDE DEF n
  <1>2. /\ row \in Row /\ row.kind = outbox[k].kind /\ row.batch = outbox[k].batch
        /\ row.req = outbox[k].req /\ row.st = outbox[k].st /\ row.attempts <= MaxAttempts
    BY <1>1 DEF Row
  <1> HIDE DEF row
  <1>4. /\ outbox' \in Seq(Row) /\ Len(outbox') = Len(outbox)
        /\ DOMAIN outbox' = DOMAIN outbox
        /\ \A i \in DOMAIN outbox :
              /\ i # k => outbox'[i] = outbox[i]
              /\ outbox'[i].kind = outbox[i].kind
              /\ outbox'[i].batch = outbox[i].batch
              /\ outbox'[i].req = outbox[i].req
              /\ outbox'[i].st = outbox[i].st
              /\ outbox'[i].attempts <= MaxAttempts
    BY <1>1, <1>2, <1>3 DEF TypeOK
  <1>5. ShapeOK'
    BY <1>4 DEF ShapeOK
  <1>6. \A b \in 1..batches : SameBatch(b)
    BY <1>1, <1>4, ChangedRow
  <1>7. Pending' = Pending
    BY <1>4 DEF Pending
  <1> QED BY <1>4, <1>5, <1>6, <1>7

LEMMA Concatenation ==
    ASSUME NEW R, NEW s \in Seq(R), NEW t \in Seq(R)
    PROVE  /\ s \o t \in Seq(R) /\ Len(s \o t) = Len(s) + Len(t)
           /\ \A i \in 1..Len(s) : (s \o t)[i] = s[i]
           /\ \A j \in 1..Len(t) : (s \o t)[Len(s) + j] = t[j]
  <1>1. /\ s \o t \in Seq(R) /\ Len(s \o t) = Len(s) + Len(t)
        /\ Len(s) \in Nat /\ Len(t) \in Nat
    OBVIOUS
  <1>2. \A i \in 1..(Len(s) + Len(t)) :
           (s \o t)[i] = IF i <= Len(s) THEN s[i] ELSE t[i - Len(s)]
    OBVIOUS
  <1>3. ASSUME NEW j \in 1..Len(t) PROVE (s \o t)[Len(s) + j] = t[j]
    <2>1. /\ Len(s) + j \in 1..(Len(s) + Len(t)) /\ ~(Len(s) + j <= Len(s))
          /\ Len(s) + j - Len(s) = j
      BY <1>1
    <2> QED BY <1>2, <2>1
  <1> QED BY <1>1, <1>2, <1>3

(* What /details queues: a reply, then the first m rows of a rendering.       *)
DetailsQueued(r, m) ==
    /\ outbox' \in Seq(Row) /\ Len(outbox') = Len(outbox) + 1 + m
    /\ \A i \in 1..Len(outbox) : outbox'[i] = outbox[i]
    /\ outbox'[Len(outbox) + 1] = Reply
    /\ \A j \in 1..m :
          outbox'[Len(outbox) + 1 + j] =
              NewRow(IF j <= Chunks THEN "text" ELSE "keyboard", r, batches + 1)

LEMMA DetailsRows ==
    ASSUME TypeOK, NEW r \in Request, NEW m \in 0..(Chunks + 1),
           outbox' = Append(outbox, Reply) \o SubSeq(Rendering(r, batches + 1), 1, m)
    PROVE  DetailsQueued(r, m)
  <1> DEFINE whole == Rendering(r, batches + 1)
             rows == SubSeq(whole, 1, m)
             base == Append(outbox, Reply)
  <1>1. /\ outbox \in Seq(Row) /\ Len(outbox) \in Nat /\ batches + 1 \in Nat
        /\ Chunks \in Nat
    BY WorkerAssumption DEF TypeOK
  <1>2. /\ Reply \in Row
        /\ \A kind \in {"text", "keyboard"} : NewRow(kind, r, batches + 1) \in Row
    BY <1>1 DEF Reply, NewRow, Row
  <1>9. /\ whole \in Seq(Row) /\ Len(whole) = Chunks + 1
        /\ \A j \in 1..(Chunks + 1) :
              whole[j] = NewRow(IF j <= Chunks THEN "text" ELSE "keyboard", r, batches + 1)
    BY <1>1, <1>2 DEF Rendering
  <1> HIDE DEF whole
  <1>3. /\ rows \in Seq(Row) /\ Len(rows) = m
        /\ \A j \in 1..m :
              rows[j] = NewRow(IF j <= Chunks THEN "text" ELSE "keyboard", r, batches + 1)
    BY <1>1, <1>9
  <1>4. /\ base \in Seq(Row) /\ Len(base) = Len(outbox) + 1
        /\ base[Len(outbox) + 1] = Reply
        /\ \A i \in 1..Len(outbox) : base[i] = outbox[i]
    BY <1>1, <1>2
  <1> DEFINE all == base \o rows
  <1>5. outbox' = all
    BY DEF whole
  <1> HIDE DEF base, rows
  <1>8. base \in Seq(Row) /\ rows \in Seq(Row)
    BY <1>3, <1>4
  <1>6. /\ all \in Seq(Row) /\ Len(all) = Len(base) + Len(rows)
        /\ \A i \in 1..Len(base) : all[i] = base[i]
        /\ \A j \in 1..Len(rows) : all[Len(base) + j] = rows[j]
    BY <1>8, Concatenation
  <1> HIDE DEF all
  <1>7. /\ all \in Seq(Row) /\ Len(all) = Len(outbox) + 1 + m
        /\ \A i \in 1..Len(outbox) : all[i] = outbox[i]
        /\ all[Len(outbox) + 1] = Reply
        /\ \A j \in 1..m :
              all[Len(outbox) + 1 + j] =
                  NewRow(IF j <= Chunks THEN "text" ELSE "keyboard", r, batches + 1)
    <2>1. \A i \in 1..Len(outbox) : i \in 1..Len(base)
      BY <1>1, <1>4
    <2>2. Len(outbox) + 1 \in 1..Len(base)
      BY <1>1, <1>4
    <2>3. Len(base) + Len(rows) = Len(outbox) + 1 + m
      BY <1>1, <1>3, <1>4
    <2> QED BY <1>3, <1>4, <1>6, <2>1, <2>2, <2>3
  <1> QED BY <1>5, <1>7 DEF DetailsQueued

(* A rendering queued at once, as /details does, as far as it got.           *)
LEMMA DetailsBatches ==
    ASSUME TypeOK, ShapeOK, NEW r \in Request, NEW m \in 0..(Chunks + 1),
           DetailsQueued(r, m), batches' = batches + 1, NEW B, B = batches + 1
    PROVE  /\ ShapeOK' /\ \A b \in 1..batches : SameBatch(b)
           /\ KeyboardOf(B)' => Cardinality(Context(B)') = Chunks
           /\ outbox' \in Seq(Row)
           /\ \A i \in DOMAIN outbox' : outbox'[i].attempts <= MaxAttempts
  <1> DEFINE n == Len(outbox)
  <1>1. /\ outbox \in Seq(Row) /\ n \in Nat /\ batches \in Nat /\ B \in Nat /\ B > 0
        /\ Chunks \in Nat /\ Chunks > 0 /\ MaxAttempts \in Nat /\ m \in Nat
        /\ DOMAIN outbox = 1..n /\ r # "none"
    BY WorkerAssumption DEF TypeOK
  <1>2. /\ Reply.batch = 0 /\ Reply.kind = "text" /\ Reply.attempts = 0
        /\ \A kind \in {"text", "keyboard"} :
              /\ NewRow(kind, r, B).batch = B /\ NewRow(kind, r, B).kind = kind
              /\ NewRow(kind, r, B).req = r /\ NewRow(kind, r, B).attempts = 0
    BY DEF Reply, NewRow
  <1>6. /\ outbox' \in Seq(Row) /\ Len(outbox') = n + 1 + m
        /\ \A i \in 1..n : outbox'[i] = outbox[i]
        /\ outbox'[n + 1] = Reply
        /\ \A j \in 1..m :
              outbox'[n + 1 + j] = NewRow(IF j <= Chunks THEN "text" ELSE "keyboard", r, B)
    BY DEF DetailsQueued
  <1> HIDE DEF n
  <1>8. \A i \in 1..n : outbox'[i] = outbox[i] /\ outbox[i] \in Row
    BY <1>1, <1>6
  <1>9. /\ outbox'[n + 1].batch = 0 /\ outbox'[n + 1].kind = "text"
        /\ outbox'[n + 1].attempts = 0
    BY <1>2, <1>6
  <1>10. \A j \in 1..m :
            /\ outbox'[n + 1 + j].batch = B /\ outbox'[n + 1 + j].req = r
            /\ outbox'[n + 1 + j].attempts = 0
            /\ outbox'[n + 1 + j].kind = IF j <= Chunks THEN "text" ELSE "keyboard"
    BY <1>2, <1>6
  <1>11. DOMAIN outbox' = 1..(n + 1 + m)
    BY <1>1, <1>6
  <1>12. ASSUME NEW i \in DOMAIN outbox'
         PROVE  \/ i \in 1..n \/ i = n + 1
                \/ \E j \in 1..m : i = n + 1 + j
    <2>1. i \in 1..(n + 1 + m)
      BY <1>11
    <2>2. i \in 1..n \/ i = n + 1 \/ i - (n + 1) \in 1..m
      BY <1>1, <2>1
    <2>3. i = n + 1 + (i - (n + 1))
      BY <1>1, <2>1
    <2> QED BY <2>2, <2>3
  <1>13. \A i \in 1..n : outbox[i].batch <= batches /\ outbox[i].batch \in Nat
    BY <1>1, <1>8 DEF ShapeOK, Row
  <1>14. ShapeOK'
    <2> SUFFICES ASSUME NEW i \in DOMAIN outbox'
                 PROVE  /\ outbox'[i].batch <= B
                        /\ outbox'[i].kind = "keyboard" => outbox'[i].batch > 0
                        /\ outbox'[i].req = "none" =>
                               outbox'[i].batch = 0 /\ outbox'[i].kind # "approval"
      BY DEF ShapeOK
    <2>1. CASE i \in 1..n
      BY <1>1, <1>8, <1>13, <2>1 DEF ShapeOK
    <2>2. CASE i = n + 1
      BY <1>1, <1>9, <2>2
    <2>3. CASE \E j \in 1..m : i = n + 1 + j
      <3>1. PICK j \in 1..m : i = n + 1 + j
        BY <2>3
      <3>2. outbox'[i].batch = B /\ outbox'[i].req = r
        BY <1>10, <3>1
      <3> QED BY <1>1, <3>2
    <2> QED BY <1>12, <2>1, <2>2, <2>3
  <1>15. ASSUME NEW b \in 1..batches PROVE SameBatch(b)
    <2>1. b # 0 /\ b # B
      BY <1>1
    <2>2. \A i \in DOMAIN outbox' : i \notin 1..n => outbox'[i].batch # b
      BY <1>9, <1>10, <1>12, <2>1
    <2>3. \A i \in 1..n : i \in DOMAIN outbox'
      BY <1>1, <1>11
    <2>4. Context(b)' = Context(b)
      BY <1>1, <1>8, <2>2, <2>3 DEF Context
    <2>5. KeyboardOf(b)' <=> KeyboardOf(b)
      BY <1>1, <1>8, <2>2, <2>3 DEF KeyboardOf
    <2>6. ContextReady(b) => ContextReady(b)'
      BY <1>1, <1>8, <2>4 DEF ContextReady, Context
    <2> QED BY <2>4, <2>5, <2>6 DEF SameBatch
  <1>19. \A i \in 1..n : outbox'[i].batch # B
    BY <1>1, <1>8, <1>13
  <1>16. KeyboardOf(B)' => m = Chunks + 1
    <2> SUFFICES ASSUME NEW i \in DOMAIN outbox', outbox'[i].kind = "keyboard",
                        outbox'[i].batch = B
                 PROVE  m = Chunks + 1
      BY DEF KeyboardOf
    <2>1. i # n + 1 /\ i \notin 1..n
      BY <1>9, <1>19
    <2>2. PICK j \in 1..m : i = n + 1 + j
      BY <1>12, <2>1
    <2>3. ~(j <= Chunks)
      BY <1>10, <2>2
    <2> QED BY <1>1, <2>3
  <1>17. m = Chunks + 1 => Cardinality(Context(B)') = Chunks
    <2> SUFFICES ASSUME m = Chunks + 1 PROVE Cardinality(Context(B)') = Chunks
      OBVIOUS
    <2>2. ASSUME NEW i \in Context(B)' PROVE i \in (n + 2)..(n + 1 + Chunks)
      <3>1. i \in DOMAIN outbox' /\ outbox'[i].kind = "text" /\ outbox'[i].batch = B
        BY <2>2 DEF Context
      <3>4. i # n + 1 /\ i \notin 1..n
        BY <1>1, <1>9, <1>19, <3>1
      <3>2. PICK j \in 1..m : i = n + 1 + j
        BY <1>12, <3>1, <3>4
      <3>3. j <= Chunks
        BY <1>10, <3>1, <3>2
      <3> QED BY <1>1, <3>2, <3>3
    <2>3. ASSUME NEW i \in (n + 2)..(n + 1 + Chunks) PROVE i \in Context(B)'
      <3>1. /\ i - (n + 1) \in 1..m /\ i - (n + 1) <= Chunks
            /\ i = n + 1 + (i - (n + 1)) /\ i \in 1..(n + 1 + m)
        BY <1>1
      <3>2. outbox'[i].kind = "text" /\ outbox'[i].batch = B
        BY <1>10, <3>1
      <3> QED BY <1>11, <3>1, <3>2 DEF Context
    <2>4. Context(B)' = (n + 2)..(n + 1 + Chunks)
      BY <2>2, <2>3
    <2>5. Cardinality((n + 2)..(n + 1 + Chunks)) = Chunks
      BY <1>1, FS_Interval
    <2> QED BY <2>4, <2>5
  <1>18. \A i \in DOMAIN outbox' : outbox'[i].attempts <= MaxAttempts
    <2>1. \A i \in 1..n : outbox'[i].attempts <= MaxAttempts
      BY <1>1, <1>8 DEF TypeOK
    <2>2. \A i \in DOMAIN outbox' :
             outbox'[i].attempts <= MaxAttempts \/ outbox'[i].attempts = 0
      <3> TAKE i \in DOMAIN outbox'
      <3>1. CASE i \in 1..n
        BY <2>1, <3>1
      <3>2. CASE i = n + 1
        BY <1>9, <3>2
      <3>3. CASE \E j \in 1..m : i = n + 1 + j
        <4>1. PICK j \in 1..m : i = n + 1 + j
          BY <3>3
        <4> QED BY <1>10, <4>1
      <3> QED BY <1>12, <3>1, <3>2, <3>3
    <2> QED BY <1>1, <2>2
  <1> QED BY <1>6, <1>14, <1>15, <1>16, <1>17, <1>18

-----------------------------------------------------------------------------
(* What keeps the invariant of the outbox                                    *)

(* No rendering is begun, continued or shown.                                *)
LEMMA QuietOutbox ==
    ASSUME TypeOK, OutboxInv, ShapeOK', batches' = batches, shown' = shown,
           todo' \in {todo, <<>>, <<Reply>>}, \A b \in 1..batches : SameBatch(b)
    PROVE  OutboxInv'
  <1>1. ASSUME NEW b \in 1..batches PROVE BatchOK(b)'
    <2>1. BatchOK(b) /\ SameBatch(b)
      BY DEF OutboxInv
    <2> QED BY <2>1 DEF BatchOK, SameBatch
  <1>2. TodoOK'
    <2>1. CASE todo' # todo \/ todo = <<>> \/ todo = <<Reply>>
      <3>1. todo' = <<>> \/ todo' = <<Reply>>
        BY <2>1
      <3>2. Reply' = Reply
        BY DEF Reply, NewRow
      <3> QED BY <3>1, <3>2 DEF TodoOK
    <2>2. CASE todo' = todo /\ todo # <<>> /\ todo # <<Reply>>
      <3>1. PICK n \in Nat : n = batches
        BY DEF TypeOK
      <3>2. /\ \E r \in Request : \A i \in DOMAIN todo :
                  todo[i] = NewRow(IF i = Len(todo) THEN "keyboard" ELSE "text", r, n)
            /\ n > 0 /\ ~KeyboardOf(n)
            /\ Cardinality(Context(n)) + Len(todo) = Chunks + 1
        BY <2>2, <3>1 DEF OutboxInv, TodoOK, KeyboardOf, Context
      <3>3. n \in 1..batches
        BY <3>1, <3>2
      <3>4. SameBatch(n)
        BY <3>3
      <3>5. ~KeyboardOf(n)' /\ Cardinality(Context(n)') + Len(todo) = Chunks + 1
        BY <3>2, <3>4 DEF SameBatch
      <3>6. n = batches'
        BY <3>1
      <3> QED BY <2>2, <3>2, <3>5, <3>6 DEF TodoOK, KeyboardOf, Context, NewRow
    <2> QED BY <2>1, <2>2
  <1> QED BY <1>1, <1>2 DEF OutboxInv

LEMMA UnchangedOutbox ==
    ASSUME outbox' = outbox
    PROVE  /\ \A b : SameBatch(b)
           /\ \A b : Context(b)' = Context(b) /\ (KeyboardOf(b)' <=> KeyboardOf(b))
           /\ Pending' = Pending /\ First' = First
           /\ batches' = batches => (ShapeOK => ShapeOK')
  <1>1. \A b : Context(b)' = Context(b)
    BY DEF Context
  <1>2. \A b : KeyboardOf(b)' <=> KeyboardOf(b)
    BY DEF KeyboardOf
  <1>3. \A b : ContextReady(b) => ContextReady(b)'
    BY <1>1 DEF ContextReady
  <1>4. Pending' = Pending
    BY DEF Pending
  <1>5. First' = First
    BY <1>4 DEF First
  <1>6. batches' = batches => (ShapeOK => ShapeOK')
    BY DEF ShapeOK
  <1> QED BY <1>1, <1>2, <1>3, <1>4, <1>5, <1>6 DEF SameBatch

(* A row of no rendering is appended.                                        *)
LEMMA PlainRow ==
    ASSUME TypeOK, OutboxInv, NEW row \in Row, outbox' = Append(outbox, row),
           row.batch = 0, row.kind # "keyboard", row.attempts = 0,
           row.req = "none" => row.kind # "approval",
           batches' = batches, shown' = shown, todo' \in {todo, <<>>, <<Reply>>}
    PROVE  /\ OutboxInv' /\ outbox' \in Seq(Row)
           /\ \A i \in DOMAIN outbox' : outbox'[i].attempts <= MaxAttempts
  <1>1. /\ outbox \in Seq(Row) /\ batches \in Nat /\ MaxAttempts \in Nat
    BY WorkerAssumption DEF TypeOK
  <1>2. /\ DOMAIN outbox' = DOMAIN outbox \cup {Len(outbox) + 1}
        /\ \A i \in DOMAIN outbox : outbox'[i] = outbox[i]
        /\ outbox'[Len(outbox) + 1] = row /\ outbox' \in Seq(Row)
    BY <1>1
  <1>3. ShapeOK
    BY DEF OutboxInv
  <1>4. ShapeOK'
    BY <1>1, <1>2, <1>3 DEF ShapeOK
  <1>5. ASSUME NEW b \in 1..batches PROVE SameBatch(b)
    <2>1. row.batch # b
      BY <1>1
    <2> QED BY <1>1, <2>1, AppendOther
  <1>6. OutboxInv'
    BY <1>4, <1>5, QuietOutbox
  <1>7. \A i \in DOMAIN outbox' : outbox'[i].attempts <= MaxAttempts
    BY <1>1, <1>2 DEF TypeOK
  <1> QED BY <1>2, <1>6, <1>7

LEMMA PlainRows ==
    /\ Reply \in Row /\ Reply.batch = 0 /\ Reply.kind = "text" /\ Reply.attempts = 0
    /\ \A r \in Request \cup {"none"} : \A kind \in {"approval", "note"} :
          LET row == NewRow(kind, r, 0)
          IN  /\ row \in Row /\ row.batch = 0 /\ row.kind = kind /\ row.req = r
              /\ row.attempts = 0
  BY DEF Reply, NewRow, Row

-----------------------------------------------------------------------------
(* Each action keeps the invariant                                           *)

LEMMA SequenceOf ==
    ASSUME NEW S, NEW T, S \subseteq T
    PROVE  /\ Seq(S) \subseteq Seq(T)
           /\ <<>> \in Seq(T) /\ \A e \in T : <<e>> \in Seq(T)
           /\ \A s \in Seq(T) : s # <<>> =>
                 Tail(s) \in Seq(T) /\ Head(s) \in T /\ Len(Tail(s)) = Len(s) - 1
  OBVIOUS

OutboxTyped ==
    /\ outbox \in Seq(Row)
    /\ \A i \in DOMAIN outbox : outbox[i].attempts <= MaxAttempts

LEMMA HostStep ==
    ASSUME IInv, Host
    PROVE  IInv'
  <1>1. PICK r \in Request : Ask(r) \/ Settle(r)
    BY DEF Host
  <1>2. /\ UNCHANGED <<batches, inbox, offset, sent, shown, pc, fetched, todo,
                       outcome, crashes>>
        /\ requests' \in [Request -> {"none", "waiting", "over"}]
    BY <1>1 DEF Ask, Settle, HostOnly, worker, IInv, TypeOK
  <1>3. CASE outbox' = outbox
    <2>1. OutboxInv'
      BY <1>2, <1>3, UnchangedOutbox, QuietOutbox DEF IInv, OutboxInv
    <2>2. StageOK'
      BY <1>2, <1>3, UnchangedOutbox DEF IInv, StageOK
    <2> QED BY <1>2, <1>3, <2>1, <2>2 DEF IInv, TypeOK
  <1>4. CASE \E row \in {NewRow("approval", r, 0), NewRow("note", "none", 0)} :
                outbox' = Append(outbox, row)
    <2>1. PICK row \in {NewRow("approval", r, 0), NewRow("note", "none", 0)} :
             outbox' = Append(outbox, row)
      BY <1>4
    <2>2. /\ row \in Row /\ row.batch = 0 /\ row.kind # "keyboard" /\ row.attempts = 0
          /\ row.req = "none" => row.kind # "approval"
      BY <2>1, PlainRows, WorkerAssumption
    <2>3. OutboxInv' /\ OutboxTyped'
      BY <1>2, <2>1, <2>2, PlainRow DEF IInv, OutboxTyped
    <2>4. outbox \in Seq(Row) /\ (Pending # {} =>
             Pending' # {} /\ First' = First /\ outbox'[First] = outbox[First])
      BY <2>1, <2>2, FirstStays DEF IInv, TypeOK
    <2>5. StageOK'
      BY <1>2, <2>4 DEF IInv, StageOK
    <2> QED BY <1>2, <2>3, <2>5 DEF IInv, TypeOK, OutboxTyped
  <1> QED BY <1>1, <1>3, <1>4 DEF Ask, Settle

LEMMA PhoneStep ==
    ASSUME IInv, PhoneSends
    PROVE  IInv'
  <1>1. /\ sent' = sent + 1 /\ sent < MaxUpdates /\ sent \in Nat /\ MaxUpdates \in Nat
        /\ UNCHANGED <<requests, outbox, batches, inbox, offset, shown, pc, fetched,
                       todo, outcome, crashes>>
    BY WorkerAssumption DEF PhoneSends, tables, worker, IInv, TypeOK
  <1>2. OutboxInv'
    BY <1>1, UnchangedOutbox, QuietOutbox DEF IInv, OutboxInv
  <1>3. StageOK'
    BY <1>1, UnchangedOutbox DEF IInv, StageOK
  <1>4. 1..sent \subseteq 1..sent' /\ offset \in 0..sent' /\ sent' \in 0..MaxUpdates
    BY <1>1 DEF IInv, TypeOK
  <1>5. fetched \in Seq(1..sent')
    BY <1>4, SequenceOf DEF IInv, TypeOK
  <1> QED BY <1>1, <1>2, <1>3, <1>4, <1>5 DEF IInv, TypeOK

(* Steps that leave the rows alone and begin no rendering.                   *)
LEMMA IdleStep ==
    ASSUME IInv, Start \/ Crash \/ Poll \/ DrainEnd \/ RenderNote
    PROVE  IInv'
  <1>1. /\ UNCHANGED <<requests, outbox, batches, inbox, offset, sent, shown>>
        /\ todo' \in {todo, <<>>, <<Reply>>}
    BY DEF Start, Crash, Poll, DrainEnd, RenderNote, tables
  <1>2. OutboxInv'
    BY <1>1, UnchangedOutbox, QuietOutbox DEF IInv, OutboxInv
  <1>3. Pending' = Pending /\ First' = First
    BY <1>1, UnchangedOutbox
  <1>4. StageOK'
    BY <1>1, <1>3 DEF Start, Crash, Poll, DrainEnd, RenderNote, IInv, StageOK
  <1>5. fetched' \in Seq(1..sent)
    <2>1. CASE fetched' = fetched \/ fetched' = <<>>
      BY <2>1, SequenceOf DEF IInv, TypeOK
    <2>2. CASE fetched' = [i \in 1..(sent - offset) |-> offset + i]
      <3>1. sent \in Nat /\ offset \in Nat /\ offset <= sent
        BY DEF IInv, TypeOK
      <3>2. \A i \in 1..(sent - offset) : offset + i \in 1..sent
        BY <3>1
      <3> QED BY <2>2, <3>1, <3>2
    <2> QED BY <2>1, <2>2 DEF Start, Crash, Poll, DrainEnd, RenderNote
  <1>6. todo' \in Seq(Row)
    <2>1. <<>> \in Seq(Row) /\ <<Reply>> \in Seq(Row)
      BY PlainRows, SequenceOf
    <2> QED BY <1>1, <2>1 DEF IInv, TypeOK
  <1>7. crashes' \in 0..MaxCrashes
    BY WorkerAssumption DEF Start, Crash, Poll, DrainEnd, RenderNote, IInv, TypeOK
  <1>8. /\ pc' \in {"down", "poll", "handle", "drain", "render", "mark"}
        /\ outcome' \in {"none", "ok", "uncertain", "refused"}
    BY DEF Start, Crash, Poll, DrainEnd, RenderNote, IInv, TypeOK
  <1> QED BY <1>1, <1>2, <1>4, <1>5, <1>6, <1>7, <1>8 DEF IInv, TypeOK

LEMMA PlanStep ==
    ASSUME IInv, Plan, todo = <<>>, UNCHANGED <<shown, todo>>
    PROVE  /\ OutboxInv' /\ OutboxTyped' /\ batches' \in Nat
           /\ shown' \subseteq 1..batches'
  <1>1. CASE UNCHANGED <<outbox, batches>>
    <2>1. OutboxInv'
      BY <1>1, UnchangedOutbox, QuietOutbox DEF IInv, OutboxInv
    <2> QED BY <1>1, <2>1 DEF IInv, TypeOK, OutboxTyped
  <1>2. CASE outbox' = Append(outbox, Reply) /\ UNCHANGED batches
    BY <1>2, PlainRow, PlainRows DEF IInv, TypeOK, OutboxTyped
  <1>3. ASSUME NEW r \in Request, NEW m \in 0..(Chunks + 1),
               outbox' = Append(outbox, Reply) \o SubSeq(Rendering(r, batches + 1), 1, m),
               batches' = batches + 1
        PROVE  /\ OutboxInv' /\ OutboxTyped' /\ batches' \in Nat
               /\ shown' \subseteq 1..batches'
    <2>1. PICK B \in Nat : B = batches + 1
      BY DEF IInv, TypeOK
    <2>2. DetailsQueued(r, m)
      BY <1>3, DetailsRows DEF IInv
    <2>3. /\ ShapeOK' /\ \A b \in 1..batches : SameBatch(b)
          /\ KeyboardOf(B)' => Cardinality(Context(B)') = Chunks
          /\ outbox' \in Seq(Row)
          /\ \A i \in DOMAIN outbox' : outbox'[i].attempts <= MaxAttempts
      BY <1>3, <2>1, <2>2, DetailsBatches DEF IInv, OutboxInv
    <2>4. ASSUME NEW b \in 1..batches PROVE BatchOK(b)'
      <3>1. BatchOK(b) /\ SameBatch(b)
        BY <2>3 DEF IInv, OutboxInv
      <3> QED BY <3>1 DEF BatchOK, SameBatch
    <2>5. BatchOK(B)'
      <3>2. batches \in Nat /\ shown \subseteq 1..batches /\ shown' = shown
        BY DEF IInv, TypeOK
      <3>3. B \notin 1..batches
        BY <2>1, <3>2
      <3>1. B \notin shown'
        BY <3>2, <3>3
      <3> QED BY <2>3, <3>1 DEF BatchOK
    <2>6. \A b \in 1..batches' : b \in 1..batches \/ b = B
      BY <1>3, <2>1 DEF IInv, TypeOK
    <2>7. \A b \in 1..batches' : BatchOK(b)'
      BY <2>4, <2>5, <2>6
    <2>8. TodoOK'
      BY DEF TodoOK
    <2>9. batches' \in Nat /\ shown' \subseteq 1..batches'
      BY <1>3 DEF IInv, TypeOK
    <2> QED BY <2>3, <2>7, <2>8, <2>9 DEF OutboxInv, OutboxTyped
  <1> QED BY <1>1, <1>2, <1>3 DEF Plan, PlanDetails, PlanOther

LEMMA HandleStep ==
    ASSUME IInv, HandleUpdate \/ HandleThrows
    PROVE  IInv'
  <1>1. /\ pc = "handle" /\ fetched # <<>> /\ todo = <<>> /\ fetched \in Seq(1..sent)
        /\ fetched' = Tail(fetched) /\ pc' = IF fetched' = <<>> THEN "drain" ELSE "handle"
        /\ UNCHANGED <<requests, sent, shown, todo, outcome, crashes>>
    BY DEF HandleUpdate, HandleThrows, NextUpdate, IInv, TypeOK, StageOK
  <1>2. Head(fetched) \in 1..sent /\ fetched' \in Seq(1..sent)
    BY <1>1, SequenceOf
  <1>3. StageOK'
    BY <1>1 DEF StageOK
  <1>4. inbox' \subseteq 1..sent /\ offset' \in 0..sent
    <2>1. /\ inbox' = inbox \/ inbox' = inbox \cup {Head(fetched)}
          /\ offset' = offset \/ offset' = Advanced(Head(fetched))
      BY DEF HandleUpdate, HandleThrows
    <2>2. inbox \subseteq 1..sent /\ offset \in 0..sent /\ sent \in Nat
      BY DEF IInv, TypeOK
    <2>3. Advanced(Head(fetched)) \in 0..sent
      BY <1>2, <2>2 DEF Advanced
    <2> QED BY <1>2, <2>1, <2>2, <2>3
  <1>5. /\ OutboxInv' /\ OutboxTyped' /\ batches' \in Nat
        /\ shown' \subseteq 1..batches'
    <2>1. CASE Plan
      BY <1>1, <2>1, PlanStep
    <2>2. CASE UNCHANGED <<outbox, batches>>
      <3>1. OutboxInv'
        BY <1>1, <2>2, UnchangedOutbox, QuietOutbox DEF IInv, OutboxInv
      <3> QED BY <1>1, <2>2, <3>1 DEF IInv, TypeOK, OutboxTyped
    <2> QED BY <2>1, <2>2 DEF HandleUpdate, HandleThrows
  <1> QED BY <1>1, <1>2, <1>3, <1>4, <1>5 DEF IInv, TypeOK, OutboxTyped

(* Nothing is queued of a batch that begins.                                 *)
LEMMA RenderStep ==
    ASSUME IInv, Render
    PROVE  IInv'
  <1>1. /\ pc' = "render" /\ pc = "drain" /\ Pending # {} /\ outbox[First].kind = "approval"
        /\ UNCHANGED <<requests, outbox, inbox, offset, sent, shown, fetched,
                       outcome, crashes>>
    BY DEF Render
  <1>2. StageOK'
    BY <1>1, UnchangedOutbox DEF StageOK
  <1>3. CASE ~Waits(outbox[First].req)
    <2>1. todo' = <<>> /\ batches' = batches
      BY <1>3 DEF Render
    <2>2. OutboxInv'
      BY <1>1, <2>1, UnchangedOutbox, QuietOutbox DEF IInv, OutboxInv
    <2> QED BY <1>1, <1>2, <2>1, <2>2 DEF IInv, TypeOK
  <1>4. CASE Waits(outbox[First].req)
    <2>1. PICK B \in Nat : B = batches + 1
      BY DEF IInv, TypeOK
    <2>2. PICK r : r = outbox[First].req
      OBVIOUS
    <2>3. r \in Request
      <3>1. First \in DOMAIN outbox /\ outbox[First] \in Row
        BY <1>1, FirstIsPending DEF IInv, TypeOK
      <3>2. r \in Request \cup {"none"}
        BY <2>2, <3>1 DEF Row
      <3>3. r # "none"
        BY <1>1, <2>2, <3>1 DEF IInv, OutboxInv, ShapeOK
      <3> QED BY <3>2, <3>3
    <2>4. todo' = Rendering(r, B) /\ batches' = B
      BY <1>4, <2>1, <2>2 DEF Render
    <2>5. /\ batches \in Nat /\ shown \subseteq 1..batches /\ Chunks \in Nat \ {0}
          /\ outbox \in Seq(Row)
      BY WorkerAssumption DEF IInv, TypeOK
    <2>6. \A kind \in {"text", "keyboard"} : NewRow(kind, r, B) \in Row
      BY <2>1, <2>3 DEF NewRow, Row
    <2>7. /\ todo' \in Seq(Row) /\ Len(todo') = Chunks + 1 /\ DOMAIN todo' = 1..(Chunks + 1)
          /\ \A i \in 1..(Chunks + 1) :
                todo'[i] = NewRow(IF i = Chunks + 1 THEN "keyboard" ELSE "text", r, B)
      BY <2>4, <2>5, <2>6 DEF Rendering
    <2>8. \A i \in DOMAIN outbox : outbox[i].batch # B
      <3>2. \A i \in DOMAIN outbox : outbox[i] \in Row
        BY <2>5
      <3>1. \A i \in DOMAIN outbox : outbox[i].batch \in Nat /\ outbox[i].batch <= batches
        BY <3>2 DEF Row, IInv, OutboxInv, ShapeOK
      <3> QED BY <2>1, <2>5, <3>1
    <2>9. ~KeyboardOf(B) /\ Context(B) = {}
      BY <2>8 DEF KeyboardOf, Context
    <2>10. ~KeyboardOf(B)' /\ Cardinality(Context(B)') = 0
      BY <1>1, <2>9, UnchangedOutbox, FS_EmptySet
    <2>11. TodoOK'
      <3>1. /\ \A i \in DOMAIN todo' :
                  todo'[i] = NewRow(IF i = Len(todo') THEN "keyboard" ELSE "text", r, B)
            /\ B > 0 /\ 0 + Len(todo') = Chunks + 1
        BY <2>1, <2>5, <2>7
      <3> QED BY <2>3, <2>4, <2>10, <3>1 DEF TodoOK, KeyboardOf, Context, NewRow
    <2>12. ShapeOK'
      <3>1. \A i \in DOMAIN outbox : outbox[i] \in Row
        BY <2>5
      <3>2. \A i \in DOMAIN outbox :
               outbox[i].batch \in Nat /\ (outbox[i].batch <= batches => outbox[i].batch <= B)
        BY <2>1, <2>5, <3>1 DEF Row
      <3> QED BY <1>1, <2>4, <3>2 DEF IInv, OutboxInv, ShapeOK
    <2>13. ASSUME NEW b \in 1..batches' PROVE BatchOK(b)'
      <3>1. CASE b = B
        <4>1. B \notin 1..batches
          BY <2>1, <2>5
        <4>2. B \notin shown'
          BY <1>1, <2>5, <4>1
        <4> QED BY <2>10, <3>1, <4>2 DEF BatchOK
      <3>2. CASE b # B
        <4>1. b \in 1..batches
          BY <2>1, <2>4, <2>5, <3>2
        <4>2. BatchOK(b) /\ SameBatch(b)
          BY <1>1, <4>1, UnchangedOutbox DEF IInv, OutboxInv
        <4> QED BY <1>1, <4>2 DEF BatchOK, SameBatch
      <3> QED BY <3>1, <3>2
    <2>14. shown' \subseteq 1..batches'
      BY <1>1, <2>1, <2>4, <2>5
    <2> QED BY <1>1, <1>2, <2>1, <2>4, <2>7, <2>11, <2>12, <2>13, <2>14
            DEF IInv, OutboxInv, TypeOK
  <1> QED BY <1>3, <1>4

(* A row is settled, or an attempt counted.                                  *)
LEMMA SettleStep ==
    ASSUME IInv, RenderEnd \/ Mark \/ GiveUp
    PROVE  IInv'
  <1>1. /\ UNCHANGED <<requests, batches, inbox, offset, sent, shown, fetched, todo, crashes>>
        /\ pc' = "drain" /\ outcome' \in {"none", outcome} /\ Pending # {} /\ todo = <<>>
    BY DEF RenderEnd, Mark, GiveUp, Sendable, worker, IInv, StageOK
  <1>2. First \in Pending /\ First \in DOMAIN outbox
    BY <1>1, FirstIsPending DEF IInv, TypeOK
  <1>6. TypeOK /\ ShapeOK /\ batches' = batches
    BY <1>1 DEF IInv, OutboxInv
  <1>3. /\ ShapeOK' /\ \A b \in 1..batches : SameBatch(b)
        /\ outbox' \in Seq(Row)
        /\ \A i \in DOMAIN outbox' : outbox'[i].attempts <= MaxAttempts
    <2>1. CASE \E st \in {"delivered", "failed"} : outbox' = Marked(First, st)
      BY <1>2, <1>6, <2>1, MarkedBatches
    <2>2. CASE outbox' = Attempted(First) /\ Mark /\ outbox[First].kind = "keyboard"
      <3>1. outbox[First].attempts < MaxAttempts
        BY <2>2 DEF Mark, IInv, StageOK
      <3> QED BY <1>2, <1>6, <2>2, <3>1, AttemptedBatches
    <2>3. \/ \E st \in {"delivered", "failed"} : outbox' = Marked(First, st)
          \/ outbox' = Attempted(First) /\ Mark /\ outbox[First].kind = "keyboard"
      BY DEF RenderEnd, Mark, GiveUp
    <2> QED BY <2>1, <2>2, <2>3
  <1>4. OutboxInv'
    BY <1>1, <1>3, QuietOutbox DEF IInv
  <1>5. StageOK'
    BY <1>1 DEF StageOK
  <1> QED BY <1>1, <1>3, <1>4, <1>5 DEF IInv, TypeOK

(* A keyboard goes out: its batch has its context, and all of it delivered.  *)
LEMMA SendStep ==
    ASSUME IInv, Send
    PROVE  IInv'
  <1>1. /\ pc = "drain" /\ pc' = "mark" /\ Pending # {} /\ MaySend(First) /\ todo = <<>>
        /\ UNCHANGED <<requests, outbox, batches, inbox, offset, sent, fetched, todo, crashes>>
        /\ outcome' \in {"ok", "uncertain", "refused"}
    BY DEF Send, Sendable, tables, IInv, StageOK
  <1>2. First \in DOMAIN outbox /\ outbox[First] \in Row
    BY <1>1, FirstIsPending DEF IInv, TypeOK
  <1>3. StageOK'
    BY <1>1, UnchangedOutbox DEF StageOK, MaySend
  <1>4. PICK n : n = outbox[First].batch
    OBVIOUS
  <1>5. \/ shown' = shown
        \/ shown' = shown \cup {n} /\ outbox[First].kind = "keyboard"
    BY <1>4 DEF Send
  <1>6. outbox[First].kind = "keyboard" =>
           n \in 1..batches /\ KeyboardOf(n) /\ ContextReady(n)
    <2>1. ASSUME outbox[First].kind = "keyboard" PROVE n \in 1..batches
      <3>1. n \in Nat /\ n <= batches /\ n > 0 /\ batches \in Nat
        BY <1>2, <1>4, <2>1 DEF IInv, TypeOK, OutboxInv, ShapeOK, Row
      <3> QED BY <3>1
    <2> QED BY <1>1, <1>2, <1>4, <2>1 DEF KeyboardOf, MaySend
  <1>7. \A b : /\ Context(b)' = Context(b) /\ (KeyboardOf(b)' <=> KeyboardOf(b))
               /\ ContextReady(b) => ContextReady(b)'
    BY <1>1, UnchangedOutbox DEF SameBatch
  <1>8. ASSUME NEW b \in 1..batches PROVE BatchOK(b)'
    <2>1. BatchOK(b)
      BY DEF IInv, OutboxInv
    <2> QED BY <1>5, <1>6, <1>7, <2>1 DEF BatchOK
  <1>9. ShapeOK' /\ TodoOK'
    BY <1>1, UnchangedOutbox DEF TodoOK, IInv, OutboxInv
  <1>10. shown' \subseteq 1..batches
    BY <1>5, <1>6 DEF IInv, TypeOK
  <1> QED BY <1>1, <1>3, <1>8, <1>9, <1>10 DEF IInv, OutboxInv, TypeOK

(* One more row of a rendering is queued: a message of its context, or, when *)
(* that is whole, its keyboard.                                              *)
LEMMA RenderRowStep ==
    ASSUME IInv, RenderRow
    PROVE  IInv'
  <1>1. /\ pc = "render" /\ todo # <<>> /\ outbox' = Append(outbox, Head(todo))
        /\ todo' = Tail(todo) /\ Pending # {}
        /\ UNCHANGED <<requests, batches, inbox, offset, sent, shown, pc, fetched,
                       outcome, crashes>>
    BY DEF RenderRow, IInv, StageOK
  <1>2. /\ outbox \in Seq(Row) /\ batches \in Nat /\ Chunks \in Nat \ {0}
        /\ MaxAttempts \in Nat /\ todo \in Seq(Row) /\ shown \subseteq 1..batches
    BY WorkerAssumption DEF IInv, TypeOK
  <1>3. Head(todo) \in Row /\ todo' \in Seq(Row) /\ Len(todo') = Len(todo) - 1
    BY <1>1, <1>2, SequenceOf
  <1>4. PICK row \in Row : row = Head(todo)
    BY <1>3
  <1>5. outbox' = Append(outbox, row) /\ outbox' \in Seq(Row)
    BY <1>1, <1>2, <1>4
  <1>6. StageOK'
    <2>1. Pending' # {}
      BY <1>1, <1>2, <1>5, FirstStays
    <2> QED BY <1>1, <2>1 DEF StageOK
  <1>7. CASE todo = <<Reply>>
    <2>1. row = Reply /\ todo' = <<>>
      BY <1>1, <1>4, <1>7
    <2>2. OutboxInv' /\ OutboxTyped'
      BY <1>1, <1>5, <2>1, PlainRow, PlainRows DEF IInv, OutboxTyped
    <2> QED BY <1>1, <1>3, <1>6, <2>2 DEF IInv, TypeOK, OutboxTyped
  <1>8. CASE todo # <<Reply>>
    <2>1. PICK B \in Nat : B = batches
      BY <1>2
    <2>2. PICK r \in Request : \A i \in DOMAIN todo :
             todo[i] = NewRow(IF i = Len(todo) THEN "keyboard" ELSE "text", r, B)
      BY <1>1, <1>8, <2>1 DEF IInv, OutboxInv, TodoOK
    <2>3. B > 0 /\ ~KeyboardOf(B) /\ Cardinality(Context(B)) + Len(todo) = Chunks + 1
      BY <1>1, <1>8, <2>1 DEF IInv, OutboxInv, TodoOK, KeyboardOf, Context
    <2>4. B \in 1..batches /\ B \notin shown
      <3>1. B \in 1..batches
        BY <2>1, <2>3
      <3> QED BY <2>3, <3>1 DEF IInv, OutboxInv, BatchOK
    <2>5. /\ row.batch = B /\ row.req = r /\ row.attempts = 0
          /\ row.kind = IF Len(todo) = 1 THEN "keyboard" ELSE "text"
      <3>1. row = todo[1] /\ 1 \in DOMAIN todo /\ Len(todo) \in Nat
        BY <1>1, <1>2, <1>4
      <3>2. row = NewRow(IF 1 = Len(todo) THEN "keyboard" ELSE "text", r, B)
        BY <2>2, <3>1
      <3> QED BY <3>2 DEF NewRow
    <2>6. /\ DOMAIN outbox' = DOMAIN outbox \cup {Len(outbox) + 1}
          /\ \A i \in DOMAIN outbox : outbox'[i] = outbox[i]
          /\ outbox'[Len(outbox) + 1] = row
      BY <1>2, <1>5
    <2>7. ShapeOK'
      <3>1. row.batch <= batches /\ row.batch > 0 /\ row.req # "none"
        BY <2>1, <2>3, <2>5, WorkerAssumption
      <3> QED BY <1>1, <2>6, <3>1 DEF IInv, OutboxInv, ShapeOK
    <2>8. OutboxTyped'
      BY <1>2, <1>5, <2>5, <2>6 DEF OutboxTyped, IInv, TypeOK
    <2>9. ASSUME NEW b \in 1..batches, b # B PROVE BatchOK(b)'
      <3>1. BatchOK(b) /\ SameBatch(b)
        BY <1>2, <1>5, <2>5, <2>9, AppendOther DEF IInv, OutboxInv
      <3> QED BY <1>1, <3>1 DEF BatchOK, SameBatch
    <2>10. B \notin shown'
      BY <1>1, <2>4
    <2>11. Cardinality(Context(B)) \in Nat /\ Len(todo) \in Nat
      BY <1>2, ContextIsFinite
    <2>12. CASE Len(todo) = 1
      <3>1. KeyboardOf(B)' /\ Cardinality(Context(B)') = Chunks
        <4>1. Cardinality(Context(B)) = Chunks
          BY <1>2, <2>3, <2>11, <2>12
        <4>2. KeyboardOf(B)' /\ Cardinality(Context(B)') = Cardinality(Context(B))
          BY <1>2, <1>5, <2>5, <2>12, AppendKeyboard
        <4> QED BY <4>1, <4>2
      <3>2. BatchOK(B)'
        BY <2>10, <3>1 DEF BatchOK
      <3>3. todo' = <<>>
        BY <1>2, <1>3, <2>12
      <3> QED BY <1>1, <1>3, <1>6, <2>7, <2>8, <2>9, <3>2, <3>3
              DEF IInv, OutboxInv, TypeOK, OutboxTyped, TodoOK
    <2>13. CASE Len(todo) # 1
      <3>1. Cardinality(Context(B)') = Cardinality(Context(B)) + 1 /\ ~KeyboardOf(B)'
        BY <1>2, <1>5, <2>3, <2>5, <2>13, AppendText
      <3>2. BatchOK(B)'
        BY <2>10, <3>1 DEF BatchOK
      <3>3. Cardinality(Context(B)') + Len(todo') = Chunks + 1
        BY <1>2, <1>3, <2>3, <2>11, <3>1
      <3>4. \A i \in DOMAIN todo' :
               todo'[i] = NewRow(IF i = Len(todo') THEN "keyboard" ELSE "text", r, B)
        <4> TAKE i \in DOMAIN todo'
        <4>1. /\ i \in 1..(Len(todo) - 1) /\ i + 1 \in DOMAIN todo /\ todo'[i] = todo[i + 1]
              /\ i + 1 = Len(todo) <=> i = Len(todo')
          BY <1>1, <1>2, <1>3
        <4> QED BY <2>2, <4>1
      <3>5. TodoOK'
        BY <1>1, <2>1, <2>3, <3>1, <3>3, <3>4 DEF TodoOK, KeyboardOf, Context, NewRow
      <3> QED BY <1>1, <1>3, <1>6, <2>7, <2>8, <2>9, <3>2, <3>5
              DEF IInv, OutboxInv, TypeOK, OutboxTyped
    <2> QED BY <2>12, <2>13
  <1> QED BY <1>7, <1>8

-----------------------------------------------------------------------------
(* The theorems                                                              *)

(* Whatever crashes, is retried or is rendered again, the queue keeps each   *)
(* rendering whole: this is the invariant the theorems below rest on.        *)
THEOREM Invariance == Spec => []IInv
  <1>1. ASSUME Init PROVE IInv
    <2>1. /\ outbox = <<>> /\ todo = <<>> /\ batches = 0 /\ shown = {} /\ pc = "down"
      BY <1>1 DEF Init
    <2>2. StageOK /\ OutboxInv
      BY <2>1 DEF StageOK, OutboxInv, ShapeOK, TodoOK
    <2>3. outbox \in Seq(Row) /\ todo \in Seq(Row) /\ fetched \in Seq(1..sent)
      BY <1>1, SequenceOf DEF Init
    <2> QED BY <1>1, <2>2, <2>3, WorkerAssumption DEF Init, IInv, TypeOK
  <1>2. ASSUME IInv, [Next]_vars PROVE IInv'
    <2>1. CASE UNCHANGED vars
      <3>1. OutboxInv'
        BY <1>2, <2>1, UnchangedOutbox, QuietOutbox DEF vars, tables, worker, IInv, OutboxInv
      <3>2. StageOK'
        BY <1>2, <2>1, UnchangedOutbox DEF vars, tables, worker, IInv, StageOK
      <3> QED BY <1>2, <2>1, <3>1, <3>2 DEF vars, tables, worker, IInv, TypeOK
    <2>2. CASE Next
      BY <1>2, <2>2, HostStep, PhoneStep, IdleStep, HandleStep, RenderStep,
         RenderRowStep, SettleStep, SendStep DEF Next, Works
    <2> QED BY <1>2, <2>1, <2>2
  <1> QED BY <1>1, <1>2, PTL DEF Spec

(* The tables and the worker's own state keep their types: in particular no  *)
(* row counts more attempts than a keyboard may have, and the offset never   *)
(* passes the last update.                                                   *)
THEOREM TypeCorrect == Spec => []TypeOK
  <1>1. IInv => TypeOK
    BY DEF IInv
  <1> QED BY <1>1, Invariance, PTL

(* The buttons of a rendering are on the phone only when its own context is  *)
(* whole and every message of it was sent.                                   *)
THEOREM KeyboardAfterItsTextTheorem == Spec => []KeyboardAfterItsText
  <1>1. IInv => KeyboardAfterItsText
    <2> SUFFICES ASSUME IInv, NEW b \in shown
                 PROVE  Cardinality(Context(b)) = Chunks /\ ContextReady(b)
      BY DEF KeyboardAfterItsText
    <2>1. BatchOK(b)
      BY DEF IInv, TypeOK, OutboxInv
    <2> QED BY <2>1 DEF BatchOK
  <1> QED BY <1>1, Invariance, PTL
=============================================================================
