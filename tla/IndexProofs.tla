----------------------------- MODULE IndexProofs -----------------------------
(***************************************************************************)
(* The index mirrors the table, for every table, every number of changes,  *)
(* every set of faults and every buffer size: what the engine makes of the *)
(* requests, however often they were repeated and whatever part of them    *)
(* failed before, shows the delivered changes.                             *)
(***************************************************************************)
EXTENDS DeliveryProofs, WellFoundedInduction

------------------------------------------------------------------------------
(* Induction over the operations of a request. *)

(* The order of the numbers, as a set of pairs. *)
Less == {p \in Nat \X Nat : p[1] < p[2]}

(* Every set of numbers has a least one. *)
LEMMA LessIsWellFounded == IsWellFoundedOn(Less, Nat)
<1>1. OpToRel(<, Nat) = Less
  BY Zenon DEF OpToRel, Less
<1>. QED
  BY <1>1, NatLessThanWellFounded, Zenon

(* A set that has zero, and with each number the next one, has them all.   *)
LEMMA SetInduction ==
  ASSUME NEW S, 0 \in S, \A n \in Nat : n \in S => n + 1 \in S
  PROVE  Nat \subseteq S
<1> DEFINE T == Nat \ S
<1>1. SUFFICES ASSUME T # {}
               PROVE  FALSE
  OBVIOUS
<1>2. PICK x \in T : \A y \in T : ~(<<y, x>> \in Less)
  <2>1. T \subseteq Nat
    OBVIOUS
  <2>. HIDE DEF T
  <2>. QED
    BY <1>1, <2>1, LessIsWellFounded, WFMin
<1>3. x # 0 /\ x - 1 \in Nat
  OBVIOUS
<1>4. <<x - 1, x>> \in Less
  BY <1>3 DEF Less
<1>5. x - 1 \in S
  BY <1>2, <1>3, <1>4
<1>6. (x - 1) + 1 \in S
  BY <1>3, <1>5
<1>. QED
  BY <1>3, <1>6

(* The engine starts from the index as it is and takes up one operation    *)
(* after the other: the recursive definition of Progress has a solution.   *)
LEMMA ProgressSteps ==
  ASSUME NEW ops, NEW busy, Len(ops) \in Nat
  PROVE  /\ Progress(ops, busy)[0] = [index |-> docs, failed |-> {}, notFound |-> {}]
         /\ \A i \in 1..Len(ops) :
              Progress(ops, busy)[i] = Do(Progress(ops, busy)[i - 1], ops[i], i, busy)
<1> DEFINE Start == [index |-> docs, failed |-> {}, notFound |-> {}]
           Solves(g, n) == g = [i \in 0..n |-> IF i = 0 THEN Start
                                               ELSE Do(g[i - 1], ops[i], i, busy)]
           S == {n \in Nat : \E g : Solves(g, n)}
<1>1. 0 \in S
  <2> DEFINE g == [i \in 0..0 |-> Start]
  <2>1. Solves(g, 0)
    <3>. HIDE DEF Start
    <3>. QED
      OBVIOUS
  <2>. HIDE DEF Solves
  <2>. QED
    BY <2>1
<1>2. ASSUME NEW n \in Nat, n \in S
      PROVE  n + 1 \in S
  <2>1. PICK g : Solves(g, n)
    BY <1>2
  <2> DEFINE h == [i \in 0..n + 1 |-> IF i <= n THEN g[i]
                                      ELSE Do(g[n], ops[n + 1], n + 1, busy)]
  <2>2. \A i \in 0..n : h[i] = g[i]
    OBVIOUS
  <2>3. h[n + 1] = Do(g[n], ops[n + 1], n + 1, busy)
    OBVIOUS
  <2>4. ASSUME NEW i \in 0..n + 1
        PROVE  h[i] = IF i = 0 THEN Start ELSE Do(h[i - 1], ops[i], i, busy)
    <3>1. \A j \in 0..n : g[j] = IF j = 0 THEN Start ELSE Do(g[j - 1], ops[j], j, busy)
      BY <2>1
    <3>2. CASE i = 0
      <4>. HIDE DEF h, Start
      <4>. QED
        BY <2>2, <3>1, <3>2
    <3>3. CASE i \in 1..n
      <4>1. i - 1 \in 0..n /\ i \in 0..n /\ i # 0
        BY <3>3
      <4>2. g[i] = Do(g[i - 1], ops[i], i, busy)
        BY <3>1, <4>1, Zenon
      <4>3. h[i] = g[i] /\ h[i - 1] = g[i - 1]
        BY <2>2, <4>1, Zenon
      <4>. HIDE DEF h, Start
      <4>. QED
        BY <4>1, <4>2, <4>3, Zenon
    <3>4. CASE i = n + 1
      <4>1. i # 0 /\ i - 1 = n /\ n \in 0..n
        BY <3>4
      <4>2. h[i - 1] = g[n]
        BY <2>2, <4>1, Zenon
      <4>. HIDE DEF h, Start
      <4>. QED
        BY <2>3, <3>4, <4>1, <4>2, Zenon
    <3>. QED
      BY <3>2, <3>3, <3>4
  <2>5. h = [i \in 0..n + 1 |-> h[i]]
    OBVIOUS
  <2>6. Solves(h, n + 1)
    <3>. HIDE DEF h, Start
    <3>. QED
      BY <2>4, <2>5, Zenon
  <2>7. n + 1 \in Nat
    OBVIOUS
  <2>. HIDE DEF h, Solves
  <2>. QED
    BY <2>6, <2>7
<1>3. Len(ops) \in S
  <2>. HIDE DEF S
  <2>. QED
    BY <1>1, <1>2, SetInduction
<1>4. \E g : Solves(g, Len(ops))
  <2>. HIDE DEF Solves
  <2>. QED
    BY <1>3
<1>5. Progress(ops, busy) = CHOOSE g : Solves(g, Len(ops))
  BY DEF Progress
<1>6. Solves(Progress(ops, busy), Len(ops))
  <2>. HIDE DEF Solves
  <2>. QED
    BY <1>4, <1>5
<1> DEFINE P == Progress(ops, busy)
<1>7. P = [i \in 0..Len(ops) |-> IF i = 0 THEN Start ELSE Do(P[i - 1], ops[i], i, busy)]
  BY <1>6
<1>8. \A i \in 0..Len(ops) : P[i] = IF i = 0 THEN Start ELSE Do(P[i - 1], ops[i], i, busy)
  <2>. HIDE DEF P, Start
  <2>. QED
    BY <1>7
<1>9. P[0] = Start
  <2>1. 0 \in 0..Len(ops)
    OBVIOUS
  <2>. HIDE DEF P, Start
  <2>. QED
    BY <1>8, <2>1
<1>10. ASSUME NEW i \in 1..Len(ops)
       PROVE  P[i] = Do(P[i - 1], ops[i], i, busy)
  <2>1. i \in 0..Len(ops) /\ i # 0
    OBVIOUS
  <2>. HIDE DEF P, Start
  <2>. QED
    BY <1>8, <2>1, Zenon
<1>. QED
  BY <1>9, <1>10

(* The same, up to a bound. *)
LEMMA RangeInduction ==
  ASSUME NEW n \in Nat, NEW S, 0 \in S, \A i \in 1..n : i - 1 \in S => i \in S
  PROVE  0..n \subseteq S
<1> DEFINE T == {i \in Nat : i <= n => i \in S}
<1>1. 0 \in T
  OBVIOUS
<1>2. ASSUME NEW i \in Nat, i \in T
      PROVE  i + 1 \in T
  <2>1. CASE i + 1 <= n
    <3>1. i + 1 \in 1..n /\ (i + 1) - 1 = i /\ i <= n
      BY <2>1
    <3>. QED
      BY <1>2, <3>1
  <2>. QED
    BY <2>1
<1>3. Nat \subseteq T
  <2>. HIDE DEF T
  <2>. QED
    BY <1>1, <1>2, SetInduction
<1>. QED
  BY <1>3

------------------------------------------------------------------------------
(* Rows and documents. *)

(* A document of the index. *)
Docs(id) == {Absent} \union Without(id, Odd)

(* A row of the table. *)
TableDocs(id) == {Absent} \union TableRows(id)

(* A row of the batcher as changes make them. *)
WellFormed(row) == \E n \in 1..MaxItems, id \in Ids : row \in RowsOf(n, id)

(* The row decides what its document shows in column c, and what that is.  *)
Settles(row, c) == row.action # "update" \/ c \in DOMAIN row.body

Shown(doc, c) == IF c \in DOMAIN doc THEN doc[c] ELSE Unsent

(* The document behind the operation of a row that does not fail. *)
After(doc, row) == IF row.action = "update" THEN Merged(doc, row.body) ELSE row.body

(* A function with columns is not the empty one. *)
LEMMA FieldsNotAbsent ==
  ASSUME NEW id, NEW S, IdColumn \in S, NEW f \in Fields(id, S)
  PROVE  f # Absent /\ DOMAIN f = S
<1>1. DOMAIN f = S
  BY DEF Fields
<1>2. DOMAIN Absent = {}
  BY DEF Absent, NoValues
<1>. QED
  BY <1>1, <1>2

(* The id column is in every document, and in every partial one. *)
LEMMA IdIsSent == \A T \in SUBSET (Toasted \union Odd) : IdColumn \in Columns \ T
BY RowsAssumption, DeliveryAssumption DEF DataColumns

(* A document may lack some columns, but not its id, and shows numbers of  *)
(* changes.                                                                *)
LEMMA DocForm ==
  ASSUME NEW id, NEW T \in SUBSET (Toasted \union Odd), NEW doc \in Without(id, T)
  PROVE  /\ \E S \in SUBSET T : doc \in Fields(id, Columns \ S)
         /\ doc # Absent /\ DOMAIN doc \subseteq Columns
         /\ IdColumn \in DOMAIN doc /\ doc[IdColumn] = id
         /\ \A c \in DOMAIN doc \ {IdColumn} : doc[c] \in 0..MaxItems
<1>1. PICK S \in SUBSET T : doc \in Fields(id, Columns \ S)
  BY DEF Without
<1>2. IdColumn \in Columns \ S
  BY IdIsSent
<1>3. doc # Absent /\ DOMAIN doc = Columns \ S
  BY <1>1, <1>2, FieldsNotAbsent
<1>4. doc[IdColumn] = id /\ \A c \in (Columns \ S) \ {IdColumn} : doc[c] \in 0..MaxItems
  BY <1>1 DEF Fields
<1>. QED
  BY <1>1, <1>2, <1>3, <1>4

(* The fields of a well-formed row. *)
LEMMA RowForm ==
  ASSUME NEW row, WellFormed(row)
  PROVE  /\ row \in Row
         /\ row.seq \in 1..MaxItems
         /\ row.id \in Ids
         /\ row.action \in {"index", "update", "delete"}
         /\ row.action = "index" => row.body \in Without(row.id, Odd)
         /\ row.action = "delete" => row.body = Absent
         /\ row.action = "update" => row.body \in Without(row.id, Toasted \union Odd)
<1>1. PICK n \in 1..MaxItems, id \in Ids : row \in RowsOf(n, id)
  BY DEF WellFormed
<1>2. row \in Row
  BY <1>1, RowAssumption
<1>3. CASE row \in {[seq |-> n, id |-> id, action |-> "index", body |-> sent]
                      : sent \in Without(id, Odd)}
  <2>1. PICK sent \in Without(id, Odd) :
               row = [seq |-> n, id |-> id, action |-> "index", body |-> sent]
    BY <1>3
  <2>. QED
    BY <1>2, <2>1
<1>4. CASE row = [seq |-> n, id |-> id, action |-> "delete", body |-> NoValues]
  BY <1>2, <1>4 DEF Absent
<1>5. CASE row \in {[seq |-> n, id |-> id, action |-> "update", body |-> sent]
                      : sent \in Without(id, Toasted \union Odd)}
  <2>1. PICK sent \in Without(id, Toasted \union Odd) :
               row = [seq |-> n, id |-> id, action |-> "update", body |-> sent]
    BY <1>5
  <2>. QED
    BY <1>2, <2>1
<1>. QED
  BY <1>1, <1>3, <1>4, <1>5 DEF RowsOf

(* A row and the document it leaves behind. *)
LEMMA AfterRow ==
  ASSUME NEW row, WellFormed(row),
         NEW doc \in Docs(row.id), row.action = "update" => doc # Absent
  PROVE  /\ After(doc, row) \in Docs(row.id)
         /\ After(doc, row) = Absent <=> row.action = "delete"
         /\ \A c \in Columns : IF Settles(row, c)
                               THEN Shown(After(doc, row), c) = Shown(row.body, c)
                               ELSE Shown(After(doc, row), c) = Shown(doc, c)
<1>1. CASE row.action = "index"
  <2>1. After(doc, row) = row.body /\ row.body \in Without(row.id, Odd)
    BY <1>1, RowForm DEF After
  <2>2. row.body # Absent
    BY <2>1, DocForm
  <2>. QED
    BY <1>1, <2>1, <2>2 DEF Docs, Settles
<1>2. CASE row.action = "delete"
  <2>1. After(doc, row) = Absent /\ row.body = Absent
    BY <1>2, RowForm DEF After
  <2>. QED
    BY <1>2, <2>1 DEF Docs, Settles
<1>3. CASE row.action = "update"
  <2>1. doc \in Without(row.id, Odd) /\ row.body \in Without(row.id, Toasted \union Odd)
    BY <1>3, RowForm DEF Docs
  <2>2. PICK S \in SUBSET Odd : doc \in Fields(row.id, Columns \ S)
    BY <2>1, DocForm
  <2>3. PICK T \in SUBSET (Toasted \union Odd) : row.body \in Fields(row.id, Columns \ T)
    BY <2>1, DocForm
  <2>4. /\ DOMAIN doc = Columns \ S /\ DOMAIN row.body = Columns \ T
        /\ IdColumn \in Columns \ T
    BY <2>2, <2>3, IdIsSent, FieldsNotAbsent
  <2>5. /\ After(doc, row) = [c \in Columns \ (S \intersect T) |->
                               IF c \in Columns \ T THEN row.body[c] ELSE doc[c]]
    <3>1. DOMAIN doc \union DOMAIN row.body = Columns \ (S \intersect T)
      BY <2>4
    <3>. QED
      BY <1>3, <2>4, <3>1 DEF After, Merged
  <2>6. After(doc, row) \in Fields(row.id, Columns \ (S \intersect T))
    <3>1. \A c \in Columns \ T : /\ row.body[c] \in {row.id} \union 0..MaxItems
                                 /\ c # IdColumn => row.body[c] \in 0..MaxItems
      BY <2>3 DEF Fields
    <3>2. row.body[IdColumn] = row.id
      BY <2>3 DEF Fields
    <3>3. \A c \in Columns \ S : /\ doc[c] \in {row.id} \union 0..MaxItems
                                 /\ c # IdColumn => doc[c] \in 0..MaxItems
      BY <2>2 DEF Fields
    <3>. QED
      BY <2>4, <2>5, <3>1, <3>2, <3>3 DEF Fields
  <2>7. After(doc, row) \in Without(row.id, Odd)
    <3>1. S \intersect T \in SUBSET Odd
      OBVIOUS
    <3>. QED
      BY <2>6, <3>1 DEF Without
  <2>8. After(doc, row) # Absent
    BY <2>7, DocForm
  <2>9. ASSUME NEW d \in Columns
        PROVE  IF Settles(row, d) THEN Shown(After(doc, row), d) = Shown(row.body, d)
                                  ELSE Shown(After(doc, row), d) = Shown(doc, d)
    BY <1>3, <2>4, <2>5 DEF Settles, Shown
  <2>. QED
    BY <1>3, <2>7, <2>8, <2>9 DEF Docs
<1>. QED
  BY <1>1, <1>2, <1>3, RowForm

------------------------------------------------------------------------------
(* The engine's work on a request. *)

(* What the engine has done is an index, and sets of operations. *)
IsWork(work) ==
  /\ work = [index |-> work.index, failed |-> work.failed, notFound |-> work.notFound]
  /\ DOMAIN work.index = Ids
  /\ \A id \in Ids : work.index[id] \in Docs(id)

(* The committed rows, and the index, are as changes make them. *)
Sendable ==
  /\ FlushLen \in Nat
  /\ \A i \in 1..FlushLen : WellFormed(buffer[i])
  /\ DOMAIN docs = Ids
  /\ \A id \in Ids : docs[id] \in Docs(id)

(* The operation of a committed row, over either transport. *)
LEMMA RequestRow ==
  ASSUME Sendable, NEW i \in 1..FlushLen
  PROVE  /\ Request[i].id = buffer[i].id
         /\ Request[i].op = buffer[i].action
         /\ Request[i].doc = buffer[i].body
<1>1. /\ buffer[i].action \in {"index", "update", "delete"}
      /\ buffer[i].action = "delete" => buffer[i].body = NoValues
  BY RowForm DEF Sendable, Absent
<1>2. \/ Request[i] = ToBulkRequest(buffer[i])
      \/ Request[i] = Bytes(buffer[i])
  BY DEF Request
<1>. QED
  BY <1>1, <1>2 DEF ToBulkRequest, Bytes

(* An operation that succeeds writes the document of its row and no other. *)
Writes(row, before, after) ==
  /\ row.action = "update" => before.index[row.id] # Absent
  /\ after.index[row.id] = After(before.index[row.id], row)
  /\ \A id \in Ids \ {row.id} : after.index[id] = before.index[id]

(* One that fails leaves the index alone. *)
TakesUp(i, busy, before, after) ==
  \/ /\ i \in busy \/ (buffer[i].action = "update" /\ before.index[buffer[i].id] = Absent)
     /\ after.index = before.index /\ after.failed = before.failed \union {i}
  \/ /\ i \notin busy
     /\ after.failed = before.failed
     /\ Writes(buffer[i], before, after)

(* The engine takes up an operation. *)
LEMMA EngineStep ==
  ASSUME Sendable, NEW i \in 1..FlushLen, NEW busy, NEW work, IsWork(work)
  PROVE  /\ IsWork(Do(work, Request[i], i, busy))
         /\ TakesUp(i, busy, work, Do(work, Request[i], i, busy))
<1> DEFINE row == buffer[i]
           op == Request[i]
           doc == work.index[op.id]
           next == Do(work, op, i, busy)
<1>1. op.id = row.id /\ op.op = row.action /\ op.doc = row.body
  BY RequestRow
<1>2. WellFormed(row)
  BY DEF Sendable
<1>3. /\ row.id \in Ids /\ row.action \in {"index", "update", "delete"}
      /\ row.action = "delete" => row.body = Absent
  BY <1>2, RowForm
<1>4. doc \in Docs(row.id)
  BY <1>1, <1>3 DEF IsWork
<1>. HIDE DEF row, op
<1>5. CASE i \in busy \/ (op.op = "update" /\ doc = Absent)
  <2>1. next = [work EXCEPT !.failed = @ \union {i}]
    BY <1>5 DEF Do
  <2>2. next = [index |-> work.index, failed |-> work.failed \union {i},
                notFound |-> work.notFound]
    BY <2>1 DEF IsWork
  <2>. HIDE DEF next
  <2>3. next.index = work.index /\ next.failed = work.failed \union {i}
    BY <2>2
  <2>4. IsWork(next)
    BY <2>2 DEF IsWork
  <2>. QED
    BY <1>1, <1>5, <2>3, <2>4 DEF TakesUp, row, op, next
<1>6. CASE i \notin busy /\ op.op = "delete" /\ doc = Absent
  <2>1. next = [work EXCEPT !.notFound = @ \union {i}]
    BY <1>6 DEF Do
  <2>2. next = [index |-> work.index, failed |-> work.failed,
                notFound |-> work.notFound \union {i}]
    BY <2>1 DEF IsWork
  <2>3. After(doc, row) = Absent
    BY <1>1, <1>3, <1>6 DEF After
  <2>. HIDE DEF next
  <2>4. next.index = work.index /\ next.failed = work.failed
    BY <2>2
  <2>5. IsWork(next)
    BY <2>2 DEF IsWork
  <2>6. next.index[row.id] = After(work.index[row.id], row)
    BY <1>1, <1>6, <2>3, <2>4
  <2>7. row.action # "update"
    BY <1>1, <1>6
  <2>. QED
    BY <1>6, <2>4, <2>5, <2>6, <2>7 DEF TakesUp, Writes, row, op, next
<1>7. CASE /\ ~(i \in busy \/ (op.op = "update" /\ doc = Absent))
           /\ ~(i \notin busy /\ op.op = "delete" /\ doc = Absent)
  <2>1. next = [work EXCEPT !.index[op.id] = Effect(op, doc)]
    BY <1>7 DEF Do
  <2>2. next = [index |-> [work.index EXCEPT ![row.id] = Effect(op, doc)],
                failed |-> work.failed, notFound |-> work.notFound]
    BY <1>1, <2>1 DEF IsWork
  <2>3. Effect(op, doc) = After(doc, row)
    BY <1>1, <1>3 DEF Effect, After
  <2>4. row.action = "update" => doc # Absent
    BY <1>1, <1>7
  <2>5. After(doc, row) \in Docs(row.id)
    BY <1>2, <1>4, <2>4, AfterRow
  <2>. HIDE DEF next, doc
  <2>6. /\ next.failed = work.failed
        /\ next.index = [work.index EXCEPT ![row.id] = After(doc, row)]
        /\ next = [index |-> next.index, failed |-> next.failed, notFound |-> next.notFound]
    BY <2>2, <2>3
  <2>7. /\ DOMAIN next.index = Ids
        /\ next.index[row.id] = After(doc, row)
        /\ \A id \in Ids \ {row.id} : next.index[id] = work.index[id]
    BY <1>3, <2>6 DEF IsWork
  <2>8. IsWork(next)
    BY <2>5, <2>6, <2>7 DEF IsWork
  <2>. QED
    BY <1>1, <1>7, <2>4, <2>6, <2>7, <2>8 DEF TakesUp, Writes, row, op, next, doc
<1>. QED
  BY <1>5, <1>6, <1>7

(* What the engine has done after i operations of the request. *)
LEMMA ProgressOf ==
  ASSUME Sendable, NEW busy
  PROVE  /\ Progress(Request, busy)[0] = [index |-> docs, failed |-> {}, notFound |-> {}]
         /\ \A i \in 1..FlushLen :
              Progress(Request, busy)[i] = Do(Progress(Request, busy)[i - 1], Request[i], i, busy)
         /\ Work(Request, busy) = Progress(Request, busy)[FlushLen]
<1>1. Len(Request) = FlushLen /\ FlushLen \in Nat
  BY RequestLength DEF Sendable
<1>. QED
  BY <1>1, ProgressSteps DEF Work

(* It stays an index all along. *)
LEMMA ProgressIsWork ==
  ASSUME Sendable, NEW busy
  PROVE  \A i \in 0..FlushLen : IsWork(Progress(Request, busy)[i])
<1> DEFINE P == Progress(Request, busy)
           S == {i \in Nat : IsWork(P[i])}
<1>1. 0 \in S
  <2>1. P[0] = [index |-> docs, failed |-> {}, notFound |-> {}]
    BY ProgressOf
  <2>. HIDE DEF P
  <2>. QED
    BY <2>1 DEF IsWork, Sendable
<1>2. ASSUME NEW i \in 1..FlushLen, i - 1 \in S
      PROVE  i \in S
  <2>1. P[i] = Do(P[i - 1], Request[i], i, busy)
    BY ProgressOf
  <2>2. IsWork(P[i - 1])
    BY <1>2
  <2>3. i \in Nat
    BY DEF Sendable
  <2>. HIDE DEF P
  <2>4. IsWork(P[i])
    <3>. HIDE DEF S
    <3>1. IsWork(Do(P[i - 1], Request[i], i, busy))
      BY <2>2, EngineStep, Zenon
    <3>. QED
      BY <2>1, <3>1
  <2>. QED
    BY <2>3, <2>4
<1>. HIDE DEF S
<1>3. 0..FlushLen \subseteq S
  BY <1>1, <1>2, RangeInduction DEF Sendable
<1>. QED
  BY <1>3 DEF S

(* One operation more: it fails, or it writes the document of its row. *)
LEMMA ProgressStep ==
  ASSUME Sendable, NEW busy, NEW i \in 1..FlushLen
  PROVE  /\ IsWork(Progress(Request, busy)[i - 1]) /\ IsWork(Progress(Request, busy)[i])
         /\ TakesUp(i, busy, Progress(Request, busy)[i - 1], Progress(Request, busy)[i])
<1> DEFINE P == Progress(Request, busy)
<1>1. i - 1 \in 0..FlushLen
  BY DEF Sendable
<1>2. IsWork(P[i - 1])
  BY <1>1, ProgressIsWork
<1>3. P[i] = Do(P[i - 1], Request[i], i, busy)
  BY ProgressOf
<1>. HIDE DEF P
<1>. QED
  BY <1>2, <1>3, EngineStep DEF P

(* Failures are kept: a request without any had none on the way. *)
LEMMA FailuresStay ==
  ASSUME Sendable, NEW busy, Work(Request, busy).failed = {}
  PROVE  \A i \in 0..FlushLen : Progress(Request, busy)[i].failed = {}
<1> DEFINE P == Progress(Request, busy)
           S == {i \in Nat : i <= FlushLen => P[FlushLen - i].failed = {}}
<1>1. 0 \in S
  <2>1. P[FlushLen].failed = {}
    BY ProgressOf
  <2>. HIDE DEF P
  <2>. QED
    BY <2>1 DEF Sendable
<1>2. ASSUME NEW i \in 1..FlushLen, i - 1 \in S
      PROVE  i \in S
  <2>1. FlushLen - i + 1 \in 1..FlushLen /\ FlushLen - (i - 1) = FlushLen - i + 1
    BY DEF Sendable
  <2>2. P[FlushLen - i + 1].failed = {}
    <3>1. i - 1 <= FlushLen
      BY DEF Sendable
    <3>2. P[FlushLen - (i - 1)].failed = {}
      <4>. HIDE DEF P
      <4>. QED
        BY <1>2, <3>1
    <3>. HIDE DEF P
    <3>. QED
      BY <2>1, <3>2
  <2>3. PICK k \in 1..FlushLen : k = FlushLen - i + 1 /\ k - 1 = FlushLen - i
    BY <2>1 DEF Sendable
  <2>4. P[k - 1].failed \subseteq P[k].failed
    <3>1. TakesUp(k, busy, P[k - 1], P[k])
      BY ProgressStep
    <3>. HIDE DEF P
    <3>. QED
      BY <3>1 DEF TakesUp
  <2>5. P[k - 1].failed = {}
    BY <2>2, <2>3, <2>4
  <2>. HIDE DEF P
  <2>. QED
    BY <2>3, <2>5
<1>3. 0..FlushLen \subseteq S
  <2>. HIDE DEF S
  <2>. QED
    BY <1>1, <1>2, RangeInduction DEF Sendable
<1>4. ASSUME NEW i \in 0..FlushLen
      PROVE  P[i].failed = {}
  <2>1. FlushLen - i \in 0..FlushLen /\ FlushLen - (FlushLen - i) = i /\ FlushLen - i <= FlushLen
    BY DEF Sendable
  <2>2. FlushLen - i \in S
    BY <1>3, <2>1
  <2>. HIDE DEF P
  <2>. QED
    BY <2>1, <2>2
<1>. QED
  BY <1>4

------------------------------------------------------------------------------
(* What the rows in the backlog will make of a document. *)

(* Once the rows behind the j-th are carried out, the document `doc' of    *)
(* `id' will show `goal': column by column, the last row that settles the  *)
(* column has its value, or no row settles it and it is there already.     *)
(* Of values that cannot be decoded nothing is said.                       *)
Mirrors(doc, goal, rows, j, id) ==
  \A c \in Columns : Shown(goal, c) # Undecodable =>
    \/ \E k \in j + 1..Len(rows) :
         /\ rows[k].id = id /\ Settles(rows[k], c)
         /\ Shown(rows[k].body, c) = Shown(goal, c)
         /\ \A m \in k + 1..Len(rows) : rows[m].id = id => ~Settles(rows[m], c)
    \/ /\ \A k \in j + 1..Len(rows) : rows[k].id = id => ~Settles(rows[k], c)
       /\ Shown(doc, c) = Shown(goal, c)

(* There was no document from the start for the updates of the row to go   *)
(* to.                                                                     *)
NotIndexed(doc, rows, id) ==
  /\ id \in Unindexed
  /\ doc = Absent
  /\ \A k \in 1..Len(rows) : rows[k].id = id => rows[k].action = "update"

(* When an operation is repeated, or carried out early, the rows behind it *)
(* still lead to the same document.                                        *)
LEMMA MirrorsAgain ==
  ASSUME NEW rows, Len(rows) \in Nat, NEW k \in 1..Len(rows), WellFormed(rows[k]),
         NEW doc \in Docs(rows[k].id), rows[k].action = "update" => doc # Absent,
         NEW goal, NEW j \in 0..k - 1, Mirrors(doc, goal, rows, j, rows[k].id)
  PROVE  Mirrors(After(doc, rows[k]), goal, rows, j, rows[k].id)
<1>1. k \in j + 1..Len(rows)
  OBVIOUS
<1>2. SUFFICES ASSUME NEW c \in Columns, Shown(goal, c) # Undecodable,
                      \A m \in j + 1..Len(rows) :
                        rows[m].id = rows[k].id => ~Settles(rows[m], c),
                      Shown(doc, c) = Shown(goal, c)
               PROVE  Shown(After(doc, rows[k]), c) = Shown(goal, c)
  BY DEF Mirrors
<1>3. ~Settles(rows[k], c)
  BY <1>1, <1>2
<1>. QED
  BY <1>2, <1>3, AfterRow

(* When its turn comes and it succeeds, the rest of the rows does it. *)
LEMMA MirrorsForth ==
  ASSUME NEW rows, Len(rows) \in Nat, NEW k \in 1..Len(rows), WellFormed(rows[k]),
         NEW doc \in Docs(rows[k].id), rows[k].action = "update" => doc # Absent,
         NEW goal, Mirrors(doc, goal, rows, k - 1, rows[k].id)
  PROVE  Mirrors(After(doc, rows[k]), goal, rows, k, rows[k].id)
<1> DEFINE id == rows[k].id
           Last(m, c) == /\ rows[m].id = id /\ Settles(rows[m], c)
                         /\ Shown(rows[m].body, c) = Shown(goal, c)
                         /\ \A l \in m + 1..Len(rows) : rows[l].id = id => ~Settles(rows[l], c)
           None(m, c) == \A l \in m + 1..Len(rows) : rows[l].id = id => ~Settles(rows[l], c)
<1>1. SUFFICES ASSUME NEW c \in Columns, Shown(goal, c) # Undecodable
               PROVE  \/ \E m \in k + 1..Len(rows) : Last(m, c)
                      \/ None(k, c) /\ Shown(After(doc, rows[k]), c) = Shown(goal, c)
  BY DEF Mirrors
<1>2. (k - 1) + 1 = k
  OBVIOUS
<1>3. \/ \E m \in k..Len(rows) : Last(m, c)
      \/ None(k - 1, c) /\ Shown(doc, c) = Shown(goal, c)
  BY <1>1, <1>2 DEF Mirrors
<1>4. IF Settles(rows[k], c) THEN Shown(After(doc, rows[k]), c) = Shown(rows[k].body, c)
                             ELSE Shown(After(doc, rows[k]), c) = Shown(doc, c)
  BY AfterRow
<1>5. CASE Last(k, c)
  BY <1>4, <1>5
<1>6. ASSUME NEW m \in k..Len(rows), Last(m, c), m # k
      PROVE  \E l \in k + 1..Len(rows) : Last(l, c)
  <2>1. m \in k + 1..Len(rows)
    BY <1>6
  <2>. HIDE DEF Last
  <2>. QED
    BY <1>6, <2>1
<1>7. CASE None(k - 1, c) /\ Shown(doc, c) = Shown(goal, c)
  <2>1. ~Settles(rows[k], c)
    BY <1>2, <1>7
  <2>2. None(k, c)
    BY <1>2, <1>7
  <2>. QED
    BY <1>4, <1>7, <2>1, <2>2
<1>. HIDE DEF Last, None
<1>. QED
  BY <1>3, <1>5, <1>6, <1>7

(* An operation of another row changes nothing. *)
LEMMA MirrorsPast ==
  ASSUME NEW rows, Len(rows) \in Nat, NEW k \in 1..Len(rows), NEW id, rows[k].id # id,
         NEW doc, NEW goal, Mirrors(doc, goal, rows, k - 1, id)
  PROVE  Mirrors(doc, goal, rows, k, id)
<1>1. (k - 1) + 1 = k
  OBVIOUS
<1>2. ASSUME NEW c \in Columns, NEW m \in k..Len(rows), rows[m].id = id
      PROVE  m \in k + 1..Len(rows)
  BY <1>2
<1>3. k + 1..Len(rows) \subseteq k..Len(rows)
  OBVIOUS
<1>. QED
  BY <1>1, <1>2, <1>3 DEF Mirrors

(* The rows behind the n-th on their own. *)
LEMMA MirrorsCut ==
  ASSUME NEW rows, Len(rows) \in Nat, NEW n \in 0..Len(rows),
         NEW rest, Len(rest) = Len(rows) - n,
         \A m \in 1..Len(rest) : rest[m] = rows[n + m],
         NEW doc, NEW goal, NEW id, Mirrors(doc, goal, rows, n, id)
  PROVE  Mirrors(doc, goal, rest, 0, id)
<1>0. Len(rest) \in Nat
  OBVIOUS
<1>1. SUFFICES ASSUME NEW c \in Columns, Shown(goal, c) # Undecodable
               PROVE  \/ \E k \in 0 + 1..Len(rest) :
                           /\ rest[k].id = id /\ Settles(rest[k], c)
                           /\ Shown(rest[k].body, c) = Shown(goal, c)
                           /\ \A m \in k + 1..Len(rest) : rest[m].id = id => ~Settles(rest[m], c)
                      \/ /\ \A k \in 0 + 1..Len(rest) : rest[k].id = id => ~Settles(rest[k], c)
                         /\ Shown(doc, c) = Shown(goal, c)
  BY Zenon DEF Mirrors
<1>2. CASE \E k \in n + 1..Len(rows) :
             /\ rows[k].id = id /\ Settles(rows[k], c)
             /\ Shown(rows[k].body, c) = Shown(goal, c)
             /\ \A m \in k + 1..Len(rows) : rows[m].id = id => ~Settles(rows[m], c)
  <2>1. PICK k \in n + 1..Len(rows) :
               /\ rows[k].id = id /\ Settles(rows[k], c)
               /\ Shown(rows[k].body, c) = Shown(goal, c)
               /\ \A m \in k + 1..Len(rows) : rows[m].id = id => ~Settles(rows[m], c)
    BY <1>2
  <2>2. k - n \in 0 + 1..Len(rest) /\ rest[k - n] = rows[k]
    BY <1>0
  <2>3. ASSUME NEW m \in k - n + 1..Len(rest)
        PROVE  n + m \in k + 1..Len(rows) /\ rest[m] = rows[n + m]
    BY <1>0
  <2>. QED
    BY <2>1, <2>2, <2>3
<1>3. CASE /\ \A k \in n + 1..Len(rows) : rows[k].id = id => ~Settles(rows[k], c)
           /\ Shown(doc, c) = Shown(goal, c)
  <2>1. ASSUME NEW m \in 0 + 1..Len(rest)
        PROVE  n + m \in n + 1..Len(rows) /\ rest[m] = rows[n + m]
    BY <1>0
  <2>. QED
    BY <1>3, <2>1
<1>. QED
  BY <1>1, <1>2, <1>3 DEF Mirrors

(* A change joins the rows.  What it settles is as the changed row of the  *)
(* table has it, and what it does not settle is as before.                 *)
LEMMA MirrorsChange ==
  ASSUME NEW rows, Len(rows) \in Nat, NEW more, Len(more) = Len(rows) + 1,
         \A k \in 1..Len(rows) : more[k] = rows[k],
         NEW doc, NEW old, NEW new, NEW id, more[Len(rows) + 1].id = id,
         \A c \in Columns : Shown(new, c) # Undecodable =>
           IF Settles(more[Len(rows) + 1], c)
           THEN Shown(more[Len(rows) + 1].body, c) = Shown(new, c)
           ELSE Shown(new, c) = Shown(old, c) /\ Mirrors(doc, old, rows, 0, id)
  PROVE  Mirrors(doc, new, more, 0, id)
<1> DEFINE n == Len(rows) + 1
<1>0. n \in Nat /\ n \in 0 + 1..Len(more) /\ Len(more) = n
  OBVIOUS
<1>1. SUFFICES ASSUME NEW c \in Columns, Shown(new, c) # Undecodable
               PROVE  \/ \E k \in 0 + 1..Len(more) :
                           /\ more[k].id = id /\ Settles(more[k], c)
                           /\ Shown(more[k].body, c) = Shown(new, c)
                           /\ \A m \in k + 1..Len(more) : more[m].id = id => ~Settles(more[m], c)
                      \/ /\ \A k \in 0 + 1..Len(more) : more[k].id = id => ~Settles(more[k], c)
                         /\ Shown(doc, c) = Shown(new, c)
  BY Zenon DEF Mirrors
<1>2. CASE Settles(more[n], c)
  <2>1. \A m \in n + 1..Len(more) : FALSE
    BY <1>0
  <2>2. Shown(more[n].body, c) = Shown(new, c) /\ more[n].id = id
    BY <1>1, <1>2
  <2>. HIDE DEF n
  <2>. QED
    BY <1>0, <1>2, <2>1, <2>2
<1>3. CASE ~Settles(more[n], c)
  <2>1. Shown(new, c) = Shown(old, c) /\ Mirrors(doc, old, rows, 0, id)
    BY <1>1, <1>3
  <2>2. CASE \E k \in 0 + 1..Len(rows) :
               /\ rows[k].id = id /\ Settles(rows[k], c)
               /\ Shown(rows[k].body, c) = Shown(old, c)
               /\ \A m \in k + 1..Len(rows) : rows[m].id = id => ~Settles(rows[m], c)
    <3>1. PICK k \in 0 + 1..Len(rows) :
                 /\ rows[k].id = id /\ Settles(rows[k], c)
                 /\ Shown(rows[k].body, c) = Shown(old, c)
                 /\ \A m \in k + 1..Len(rows) : rows[m].id = id => ~Settles(rows[m], c)
      BY <2>2
    <3>2. k \in 0 + 1..Len(more) /\ more[k] = rows[k]
      OBVIOUS
    <3>3. ASSUME NEW m \in k + 1..Len(more), more[m].id = id
          PROVE  ~Settles(more[m], c)
      <4>1. CASE m = n
        BY <1>3, <4>1
      <4>2. CASE m # n
        <5>1. m \in k + 1..Len(rows) /\ more[m] = rows[m]
          BY <4>2
        <5>. QED
          BY <3>1, <3>3, <5>1
      <4>. QED
        BY <4>1, <4>2
    <3>. QED
      BY <2>1, <3>1, <3>2, <3>3
  <2>3. CASE /\ \A k \in 0 + 1..Len(rows) : rows[k].id = id => ~Settles(rows[k], c)
             /\ Shown(doc, c) = Shown(old, c)
    <3>1. ASSUME NEW m \in 0 + 1..Len(more), more[m].id = id
          PROVE  ~Settles(more[m], c)
      <4>1. CASE m = n
        BY <1>3, <4>1
      <4>2. CASE m # n
        <5>1. m \in 0 + 1..Len(rows) /\ more[m] = rows[m]
          BY <4>2
        <5>. QED
          BY <2>3, <3>1, <5>1
      <4>. QED
        BY <4>1, <4>2
    <3>. QED
      BY <2>1, <2>3, <3>1
  <2>. QED
    BY <1>1, <2>1, <2>2, <2>3 DEF Mirrors
<1>. QED
  BY <1>2, <1>3

(* A change of another row joins them. *)
LEMMA MirrorsOther ==
  ASSUME NEW rows, Len(rows) \in Nat, NEW more, Len(more) = Len(rows) + 1,
         \A k \in 1..Len(rows) : more[k] = rows[k],
         NEW doc, NEW goal, NEW id, more[Len(rows) + 1].id # id,
         Mirrors(doc, goal, rows, 0, id)
  PROVE  Mirrors(doc, goal, more, 0, id)
<1>1. ASSUME NEW m \in Nat, m >= 1, m <= Len(more), more[m].id = id
      PROVE  m <= Len(rows) /\ more[m] = rows[m]
  <2>1. m # Len(rows) + 1
    BY <1>1
  <2>. QED
    BY <1>1, <2>1
<1>2. ASSUME NEW m \in Nat, m >= 1, m <= Len(rows)
      PROVE  m <= Len(more) /\ more[m] = rows[m]
  BY <1>2
<1>3. SUFFICES ASSUME NEW c \in Columns, Shown(goal, c) # Undecodable
               PROVE  \/ \E k \in 0 + 1..Len(more) :
                           /\ more[k].id = id /\ Settles(more[k], c)
                           /\ Shown(more[k].body, c) = Shown(goal, c)
                           /\ \A m \in k + 1..Len(more) : more[m].id = id => ~Settles(more[m], c)
                      \/ /\ \A k \in 0 + 1..Len(more) : more[k].id = id => ~Settles(more[k], c)
                         /\ Shown(doc, c) = Shown(goal, c)
  BY Zenon DEF Mirrors
<1>4. CASE \E k \in 0 + 1..Len(rows) :
             /\ rows[k].id = id /\ Settles(rows[k], c)
             /\ Shown(rows[k].body, c) = Shown(goal, c)
             /\ \A m \in k + 1..Len(rows) : rows[m].id = id => ~Settles(rows[m], c)
  <2>1. PICK k \in 0 + 1..Len(rows) :
               /\ rows[k].id = id /\ Settles(rows[k], c)
               /\ Shown(rows[k].body, c) = Shown(goal, c)
               /\ \A m \in k + 1..Len(rows) : rows[m].id = id => ~Settles(rows[m], c)
    BY <1>4
  <2>2. k \in 0 + 1..Len(more) /\ more[k] = rows[k]
    OBVIOUS
  <2>3. ASSUME NEW m \in k + 1..Len(more), more[m].id = id
        PROVE  ~Settles(more[m], c)
    <3>1. m \in k + 1..Len(rows) /\ more[m] = rows[m]
      BY <1>1, <2>3
    <3>. QED
      BY <2>1, <2>3, <3>1
  <2>. QED
    BY <2>1, <2>2, <2>3
<1>5. CASE /\ \A k \in 0 + 1..Len(rows) : rows[k].id = id => ~Settles(rows[k], c)
           /\ Shown(doc, c) = Shown(goal, c)
  <2>1. ASSUME NEW m \in 0 + 1..Len(more), more[m].id = id
        PROVE  ~Settles(more[m], c)
    <3>1. m \in 0 + 1..Len(rows) /\ more[m] = rows[m]
      BY <1>1, <2>1
    <3>. QED
      BY <1>5, <2>1, <3>1
  <2>. QED
    BY <1>5, <2>1
<1>. QED
  BY <1>3, <1>4, <1>5 DEF Mirrors

(* The values of a row of the table. *)
LEMMA TableRowForm ==
  ASSUME NEW id \in Ids, NEW row \in TableRows(id)
  PROVE  /\ row # Absent /\ DOMAIN row = Columns
         /\ row[IdColumn] = id /\ id \in Nat
         /\ \A c \in Columns : row[c] \notin {Unsent, Null}
         /\ \A c \in DataColumns : row[c] \in 0..MaxItems \union OddValues
         /\ \A c \in DataColumns \ Odd : row[c] \in 0..MaxItems
<1>1. DOMAIN row = Columns /\ row[IdColumn] = id /\ id \in Nat
  BY DeliveryAssumption DEF TableRows
<1>2. row # Absent
  <2>1. DOMAIN Absent = {} /\ IdColumn \in Columns
    BY RowsAssumption DEF Absent, NoValues
  <2>. QED
    BY <1>1, <2>1
<1>3. /\ \A c \in DataColumns : row[c] \in 0..MaxItems \union OddValues
      /\ \A c \in DataColumns \ Odd : row[c] \in 0..MaxItems
  BY DEF TableRows
<1>4. ASSUME NEW c \in Columns
      PROVE  row[c] \notin {Unsent, Null}
  <2>1. c = IdColumn \/ c \in DataColumns
    BY DEF DataColumns
  <2>2. row[c] \in Nat \/ row[c] \in OddValues
    <3>1. CASE c = IdColumn
      BY <1>1, <3>1
    <3>2. CASE c \in DataColumns
      <4>1. row[c] \in 0..MaxItems \/ row[c] \in OddValues
        BY <1>3, <3>2
      <4>. QED
        BY <4>1
    <3>. QED
      BY <2>1, <3>1, <3>2
  <2>. QED
    BY <2>2 DEF OddValues, Unsent, Null, Undecodable, Unencodable
<1>. QED
  BY <1>1, <1>2, <1>3, <1>4

(* The same of any row of the table, or of none. *)
LEMMA TableDocForm ==
  ASSUME NEW id \in Ids, NEW goal \in TableDocs(id)
  PROVE  /\ Shown(goal, IdColumn) # Undecodable
         /\ goal = Absent <=> Shown(goal, IdColumn) = Unsent
         /\ DOMAIN goal \subseteq Columns
         /\ \A c \in DOMAIN goal : goal[c] # Unsent /\ Shown(goal, c) = goal[c]
<1>1. Undecodable # Unsent /\ Undecodable \notin Nat /\ Unsent \notin Nat
  BY DEF Undecodable, Unsent
<1>2. CASE goal = Absent
  <2>1. DOMAIN goal = {}
    BY <1>2 DEF Absent, NoValues
  <2>. QED
    BY <1>1, <1>2, <2>1 DEF Shown
<1>3. CASE goal \in TableRows(id)
  <2>1. /\ goal # Absent /\ DOMAIN goal = Columns /\ goal[IdColumn] = id /\ id \in Nat
        /\ \A c \in Columns : goal[c] \notin {Unsent, Null}
    BY <1>3, TableRowForm
  <2>. QED
    BY <1>1, <2>1, RowsAssumption DEF Shown
<1>. QED
  BY <1>2, <1>3 DEF TableDocs

(* A document shows its id. *)
LEMMA DocShowsId ==
  ASSUME NEW id \in Ids, NEW doc \in Docs(id)
  PROVE  doc = Absent <=> Shown(doc, IdColumn) = Unsent
<1>1. CASE doc = Absent
  <2>1. DOMAIN doc = {}
    BY <1>1 DEF Absent, NoValues
  <2>. QED
    BY <1>1, <2>1 DEF Shown
<1>2. CASE doc \in Without(id, Odd)
  <2>1. doc # Absent /\ IdColumn \in DOMAIN doc /\ doc[IdColumn] = id
    BY <1>2, DocForm
  <2>2. id # Unsent
    BY DeliveryAssumption DEF Unsent
  <2>. QED
    BY <2>1, <2>2 DEF Shown
<1>. QED
  BY <1>1, <1>2 DEF Docs

(* Without rows in the backlog, the document is there. *)
LEMMA MirrorsDone ==
  ASSUME NEW rows, NEW id \in Ids, NEW doc \in Docs(id), NEW goal \in TableDocs(id),
         Mirrors(doc, goal, rows, 0, id),
         \A k \in 1..Len(rows) : rows[k].id # id
  PROVE  /\ doc = Absent <=> goal = Absent
         /\ \A c \in DOMAIN goal :
              goal[c] # Undecodable => c \in DOMAIN doc /\ doc[c] = goal[c]
<1>1. \A c \in Columns : Shown(goal, c) # Undecodable => Shown(doc, c) = Shown(goal, c)
  <2>1. \A k \in 0 + 1..Len(rows) : rows[k].id # id
    OBVIOUS
  <2>. QED
    BY <2>1 DEF Mirrors
<1>2. doc = Absent <=> goal = Absent
  <2>1. Shown(doc, IdColumn) = Shown(goal, IdColumn)
    BY <1>1, TableDocForm, RowsAssumption
  <2>. QED
    BY <2>1, TableDocForm, DocShowsId
<1>3. ASSUME NEW c \in DOMAIN goal, goal[c] # Undecodable
      PROVE  c \in DOMAIN doc /\ doc[c] = goal[c]
  <2>1. c \in Columns /\ goal[c] # Unsent /\ Shown(goal, c) = goal[c]
    BY TableDocForm
  <2>2. Shown(doc, c) = goal[c]
    BY <1>1, <1>3, <2>1
  <2>. QED
    BY <2>1, <2>2 DEF Shown
<1>. QED
  BY <1>2, <1>3

------------------------------------------------------------------------------
(* Documents are not taken back. *)

(* No column is older than what the engine has been sent with `row'. *)
NotBelow(doc, row) ==
  \A c \in DOMAIN doc \ {IdColumn} : doc[c] \in Nat => doc[c] >= Oldest(row, c)

(* The rows handed over are those of changes, and send newer values than   *)
(* the rows before them.                                                   *)
InOrder(rows) ==
  /\ \A i \in 1..Len(rows) : WellFormed(rows[i])
  /\ \A i, j \in 1..Len(rows) :
       i < j /\ rows[i].id = rows[j].id => NotBelow(rows[j].body, rows[i])

(* The document shows the i-th of the rows handed over or later ones. *)
Fresh(doc, rows, i) ==
  /\ NotBelow(doc, rows[i])
  /\ \/ rows[i].action = "delete"
     \/ DOMAIN rows[i].body \subseteq DOMAIN doc
     \/ \E j \in i + 1..Len(rows) :
          rows[j].id = rows[i].id /\ rows[j].action # "update"

(* A row is not below itself. *)
LEMMA NotBelowItself ==
  ASSUME NEW row, WellFormed(row)
  PROVE  NotBelow(row.body, row)
<1>1. CASE row.action = "delete"
  <2>1. DOMAIN row.body = {}
    BY <1>1, RowForm DEF Absent, NoValues
  <2>. QED
    BY <2>1 DEF NotBelow
<1>2. CASE row.action # "delete"
  BY <1>2 DEF NotBelow, Oldest
<1>. QED
  BY <1>1, <1>2

(* A document that a row has just written shows it, and all rows before it *)
(* if it showed them.                                                      *)
LEMMA FreshWritten ==
  ASSUME NEW rows, Len(rows) \in Nat, InOrder(rows),
         NEW k \in 1..Len(rows), NEW i \in 1..k, rows[i].id = rows[k].id,
         NEW doc \in Docs(rows[k].id), rows[k].action = "update" => doc # Absent,
         i < k => Fresh(doc, rows, i)
  PROVE  Fresh(After(doc, rows[k]), rows, i)
<1> DEFINE row == rows[k]
           after == After(doc, rows[k])
<1>1. /\ WellFormed(row) /\ row.action \in {"index", "update", "delete"}
      /\ i \in 1..Len(rows) /\ k \in Nat /\ i \in Nat
  BY RowForm DEF InOrder
<1>2. NotBelow(row.body, rows[i])
  <2>1. CASE i = k
    BY <1>1, <2>1, NotBelowItself
  <2>2. CASE i < k
    BY <1>1, <2>2 DEF InOrder
  <2>. QED
    BY <1>1, <2>1, <2>2
<1>3. CASE row.action # "update"
  <2>1. after = row.body
    BY <1>3 DEF After
  <2>2. NotBelow(after, rows[i])
    BY <1>2, <2>1
  <2>3. CASE i = k
    BY <2>1, <2>2, <2>3 DEF Fresh
  <2>4. CASE i < k
    <3>1. k \in i + 1..Len(rows)
      BY <1>1, <2>4
    <3>. QED
      BY <1>3, <2>2, <3>1 DEF Fresh
  <2>. QED
    BY <1>1, <2>3, <2>4
<1>4. CASE row.action = "update"
  <2>1. /\ DOMAIN after = DOMAIN doc \union DOMAIN row.body
        /\ \A c \in DOMAIN row.body : after[c] = row.body[c]
        /\ \A c \in DOMAIN doc \ DOMAIN row.body : after[c] = doc[c]
    BY <1>4 DEF After, Merged
  <2>2. NotBelow(after, rows[i])
    <3>1. SUFFICES ASSUME NEW c \in DOMAIN after \ {IdColumn}, after[c] \in Nat
                   PROVE  after[c] >= Oldest(rows[i], c)
      BY DEF NotBelow
    <3>. HIDE DEF after, row
    <3>2. CASE c \in DOMAIN row.body
      BY <1>2, <2>1, <3>1, <3>2 DEF NotBelow
    <3>3. CASE c \notin DOMAIN row.body /\ i < k
      BY <2>1, <3>1, <3>3 DEF Fresh, NotBelow
    <3>4. CASE c \notin DOMAIN row.body /\ i = k
      <4>1. Oldest(rows[i], c) = 0
        BY <1>4, <3>4 DEF Oldest, row
      <4>. QED
        BY <3>1, <4>1
    <3>. QED
      BY <1>1, <3>2, <3>3, <3>4
  <2>3. CASE i = k
    <3>1. DOMAIN rows[i].body \subseteq DOMAIN after
      BY <2>1, <2>3
    <3>. QED
      BY <2>2, <3>1 DEF Fresh
  <2>4. CASE i < k
    <3>1. DOMAIN doc \subseteq DOMAIN after
      BY <2>1
    <3>. QED
      BY <2>2, <2>4, <3>1 DEF Fresh
  <2>. QED
    BY <1>1, <2>3, <2>4
<1>. QED
  BY <1>3, <1>4

(* More rows do not take it back. *)
LEMMA FreshMore ==
  ASSUME NEW rows, Len(rows) \in Nat, NEW more, Len(more) \in Nat, Len(rows) <= Len(more),
         \A k \in 1..Len(rows) : more[k] = rows[k],
         NEW i \in 1..Len(rows), NEW doc, Fresh(doc, rows, i)
  PROVE  Fresh(doc, more, i)
<1>1. more[i] = rows[i]
  OBVIOUS
<1>2. ASSUME NEW j \in i + 1..Len(rows)
      PROVE  j \in i + 1..Len(more) /\ more[j] = rows[j]
  OBVIOUS
<1>. QED
  BY <1>1, <1>2 DEF Fresh

------------------------------------------------------------------------------
(* The inductive invariants. *)

(* The rows that are not delivered yet. *)
Backlog == buffer \o pending

(* Where the rows handed over are. *)
HandedLayout ==
  /\ delivered \in Seq(Row) /\ Len(delivered) \in Nat
  /\ buffer \in Seq(Row) /\ Len(buffer) \in Nat
  /\ Backlog \in Seq(Row) /\ Len(Backlog) = Len(buffer) + Len(pending)
  /\ Handed \in Seq(Row) /\ Len(Handed) = Len(delivered) + Len(Backlog)
  /\ Len(pending) \in Nat
  /\ \A i \in 1..Len(delivered) : Handed[i] = delivered[i]
  /\ \A k \in 1..Len(Backlog) : Handed[Len(delivered) + k] = Backlog[k]
  /\ \A k \in 1..Len(buffer) : Backlog[k] = buffer[k]
  /\ \A k \in 1..Len(pending) : Backlog[Len(buffer) + k] = pending[k]

(* The delivered rows come first, then the buffer, then the pending row. *)
LEMMA HandedParts == BatcherTypeOK => HandedLayout
<1>. SUFFICES ASSUME BatcherTypeOK
              PROVE  HandedLayout
  OBVIOUS
<1>1. delivered \in Seq(Row) /\ buffer \in Seq(Row)
  BY DEF BatcherTypeOK
<1>2. pending \in Seq(Row)
  <2>1. pending = <<>> \/ \E row \in Row : pending = <<row>>
    BY DEF BatcherTypeOK
  <2>2. <<>> \in Seq(Row)
    OBVIOUS
  <2>3. ASSUME NEW row \in Row, pending = <<row>>
        PROVE  pending \in Seq(Row)
    <3>1. <<row>> \in Seq(Row)
      OBVIOUS
    <3>. QED
      BY <2>3, <3>1
  <2>. QED
    BY <2>1, <2>2, <2>3
<1>3. /\ Len(delivered) \in Nat /\ Len(buffer) \in Nat /\ Len(pending) \in Nat
  BY <1>1, <1>2, LenProperties
<1>4. /\ Backlog \in Seq(Row) /\ Len(Backlog) = Len(buffer) + Len(pending)
      /\ \A k \in 1..Len(buffer) + Len(pending) :
           Backlog[k] = IF k <= Len(buffer) THEN buffer[k] ELSE pending[k - Len(buffer)]
  BY <1>1, <1>2, ConcatProperties DEF Backlog
<1>5. /\ delivered \o buffer \in Seq(Row)
      /\ Len(delivered \o buffer) = Len(delivered) + Len(buffer)
      /\ \A k \in 1..Len(delivered) + Len(buffer) :
           (delivered \o buffer)[k] =
             IF k <= Len(delivered) THEN delivered[k] ELSE buffer[k - Len(delivered)]
  BY <1>1, ConcatProperties
<1>6. /\ Handed \in Seq(Row)
      /\ Len(Handed) = Len(delivered \o buffer) + Len(pending)
      /\ \A k \in 1..Len(delivered \o buffer) + Len(pending) :
           Handed[k] = IF k <= Len(delivered \o buffer) THEN (delivered \o buffer)[k]
                       ELSE pending[k - Len(delivered \o buffer)]
  BY <1>2, <1>5, ConcatProperties DEF Handed
<1>7. Len(Handed) = Len(delivered) + Len(Backlog)
  BY <1>3, <1>4, <1>5, <1>6
<1>8. ASSUME NEW i \in 1..Len(delivered)
      PROVE  Handed[i] = delivered[i]
  <2>1. /\ i \in 1..Len(delivered) + Len(buffer) /\ i <= Len(delivered)
        /\ i \in 1..Len(delivered \o buffer) + Len(pending) /\ i <= Len(delivered \o buffer)
    BY <1>3, <1>5
  <2>. QED
    BY <1>5, <1>6, <2>1
<1>9. ASSUME NEW k \in 1..Len(Backlog)
      PROVE  Handed[Len(delivered) + k] = Backlog[k]
  <2>1. CASE k <= Len(buffer)
    <3>1. /\ Len(delivered) + k \in 1..Len(delivered) + Len(buffer)
          /\ Len(delivered) + k \in 1..Len(delivered \o buffer) + Len(pending)
          /\ Len(delivered) + k <= Len(delivered \o buffer)
          /\ ~(Len(delivered) + k <= Len(delivered))
          /\ (Len(delivered) + k) - Len(delivered) = k
      BY <1>3, <1>4, <1>5, <2>1
    <3>2. Handed[Len(delivered) + k] = (delivered \o buffer)[Len(delivered) + k]
      BY <1>6, <3>1
    <3>3. (delivered \o buffer)[Len(delivered) + k] = buffer[(Len(delivered) + k) - Len(delivered)]
      BY <1>5, <3>1
    <3>. QED
      BY <1>3, <1>4, <2>1, <3>1, <3>2, <3>3
  <2>2. CASE ~(k <= Len(buffer))
    <3>1. /\ Len(delivered) + k \in 1..Len(delivered \o buffer) + Len(pending)
          /\ ~(Len(delivered) + k <= Len(delivered \o buffer))
          /\ (Len(delivered) + k) - Len(delivered \o buffer) = k - Len(buffer)
      BY <1>3, <1>4, <1>5, <2>2
    <3>2. Handed[Len(delivered) + k] = pending[k - Len(buffer)]
      BY <1>6, <3>1
    <3>. QED
      BY <1>4, <2>2, <3>2
  <2>. QED
    BY <2>1, <2>2
<1>10. \A k \in 1..Len(buffer) : Backlog[k] = buffer[k]
  BY <1>3, <1>4
<1>11. ASSUME NEW k \in 1..Len(pending)
       PROVE  Backlog[Len(buffer) + k] = pending[k]
  <2>1. /\ Len(buffer) + k \in 1..Len(buffer) + Len(pending)
        /\ ~(Len(buffer) + k <= Len(buffer)) /\ (Len(buffer) + k) - Len(buffer) = k
    BY <1>3
  <2>. QED
    BY <1>4, <2>1
<1>. QED
  BY <1>1, <1>3, <1>4, <1>6, <1>7, <1>8, <1>9, <1>10, <1>11 DEF HandedLayout

(* For every row of the table without a dropped change, the backlog makes  *)
(* of its document what the table has, or it never had a document.         *)
WillMirror ==
  \A id \in Ids \ dropped :
    \/ Mirrors(docs[id], table[id], Backlog, 0, id)
    \/ /\ NotIndexed(docs[id], Backlog, id)
       /\ \A i \in 1..Len(delivered) : delivered[i].id # id

(* No column is newer than change n. *)
Bounded(doc, n) == \A c \in DOMAIN doc \ {IdColumn} : doc[c] \in Nat => doc[c] <= n

(* The rows handed over are those of n changes so far, and the table has   *)
(* what the last ones wrote.                                               *)
Ordered(rows, tab, n) ==
  /\ InOrder(rows)
  /\ \A i \in 1..Len(rows) : /\ rows[i].seq <= n /\ Bounded(rows[i].body, n)
                             /\ NotBelow(tab[rows[i].id], rows[i])
  /\ \A id \in Ids : Bounded(tab[id], n)

RowsHanded == Ordered(Handed, table, changes)

(* Every delivered row is still to be seen. *)
AllFresh ==
  \A i \in 1..Len(delivered) : Fresh(docs[delivered[i].id], Handed, i)

(* What holds whichever answers of the engine count as a success ... *)
RowsInv ==
  /\ BatcherInv
  /\ DeliveryTypeOK
  /\ RowsHanded

(* ... and what holds if only complete requests do. *)
IndexInv ==
  /\ RowsInv
  /\ WillMirror
  /\ AllFresh

(* What the invariant says of the rows of a request. *)
LEMMA InvRows ==
  ASSUME RowsInv
  PROVE  /\ Sendable
         /\ FlushLen \in 0..Len(buffer)
         /\ Len(buffer) <= Len(Backlog)
         /\ \A i \in 1..FlushLen : /\ i \in 1..Len(Backlog)
                                   /\ Backlog[i] = buffer[i]
                                   /\ Len(delivered) + i \in 1..Len(Handed)
                                   /\ Handed[Len(delivered) + i] = buffer[i]
                                   /\ WellFormed(buffer[i])
         /\ \A i \in 1..Len(delivered) : i \in 1..Len(Handed)
         /\ \A i \in 1..Len(Handed) : Handed[i].id \in Ids
<1>1. FlushLen \in 0..Len(buffer) /\ BatcherTypeOK
  BY FlushLenRange DEF RowsInv, BatcherInv
<1>2. \A i \in 1..Len(Handed) : WellFormed(Handed[i])
  BY DEF RowsInv, RowsHanded, Ordered, InOrder
<1>3. Len(buffer) <= Len(Backlog) /\ Len(buffer) \in Nat /\ FlushLen \in Nat
  BY <1>1, HandedParts DEF HandedLayout
<1>4. ASSUME NEW i \in 1..FlushLen
      PROVE  /\ i \in 1..Len(Backlog)
             /\ Backlog[i] = buffer[i]
             /\ Len(delivered) + i \in 1..Len(Handed)
             /\ Handed[Len(delivered) + i] = buffer[i]
             /\ WellFormed(buffer[i])
  <2>1. i \in 1..Len(buffer) /\ i \in 1..Len(Backlog)
    BY <1>1, <1>3
  <2>2. Backlog[i] = buffer[i]
    BY <1>1, <2>1, HandedParts DEF HandedLayout
  <2>3. Len(delivered) + i \in 1..Len(Handed)
    BY <1>1, <2>1, HandedParts DEF HandedLayout
  <2>4. Handed[Len(delivered) + i] = buffer[i]
    BY <1>1, <2>1, <2>2, HandedParts DEF HandedLayout
  <2>. QED
    BY <1>2, <2>1, <2>2, <2>3, <2>4
<1>5. \A i \in 1..Len(delivered) : i \in 1..Len(Handed)
  BY <1>1, HandedParts DEF HandedLayout
<1>6. \A i \in 1..Len(Handed) : Handed[i].id \in Ids
  BY <1>2, RowForm
<1>7. Sendable
  BY <1>3, <1>4 DEF Sendable, RowsInv, DeliveryTypeOK, Docs
<1>. QED
  BY <1>1, <1>3, <1>4, <1>5, <1>6, <1>7

------------------------------------------------------------------------------
(* What a request does to the index. *)

(* A request that may have failed in part: the backlog, which the batcher  *)
(* keeps, will still make of each document what the table has.             *)
LEMMA WorkKeepsMirrors ==
  ASSUME IndexInv, NEW busy, NEW id \in Ids \ dropped
  PROVE  \/ Mirrors(Work(Request, busy).index[id], table[id], Backlog, 0, id)
         \/ /\ NotIndexed(Work(Request, busy).index[id], Backlog, id)
            /\ \A i \in 1..Len(delivered) : delivered[i].id # id
<1> DEFINE P == Progress(Request, busy)
           Tracked(doc) == \/ Mirrors(doc, table[id], Backlog, 0, id)
                           \/ /\ NotIndexed(doc, Backlog, id)
                              /\ \A i \in 1..Len(delivered) : delivered[i].id # id
           S == {i \in Nat : Tracked(P[i].index[id])}
<1>0. Sendable /\ FlushLen \in Nat
  BY InvRows DEF Sendable, IndexInv
<1>1. 0 \in S
  <2>1. P[0].index = docs
    BY <1>0, ProgressOf
  <2>2. Tracked(docs[id])
    BY DEF IndexInv, WillMirror
  <2>. HIDE DEF P, Tracked
  <2>. QED
    BY <2>1, <2>2
<1>2. ASSUME NEW i \in 1..FlushLen, i - 1 \in S
      PROVE  i \in S
  <2> DEFINE row == Backlog[i]
             before == P[i - 1]
             after == P[i]
  <2>1. /\ i \in 1..Len(Backlog) /\ row = buffer[i] /\ WellFormed(row)
        /\ Len(Backlog) \in Nat /\ i \in Nat
    <3>1. RowsInv /\ BatcherTypeOK
      BY DEF IndexInv, RowsInv, BatcherInv
    <3>2. Len(Backlog) \in Nat
      BY <3>1, HandedParts, LenProperties DEF HandedLayout
    <3>. QED
      BY <1>0, <3>1, <3>2, InvRows
  <2>2. /\ IsWork(before)
        /\ after.index = before.index \/ Writes(row, before, after)
    <3>1. IsWork(before) /\ TakesUp(i, busy, before, after)
      BY <1>0, ProgressStep
    <3>. HIDE DEF P, before, after, row
    <3>. QED
      BY <3>1, <2>1 DEF TakesUp
  <2>3. Tracked(before.index[id])
    <3>. HIDE DEF P, Tracked
    <3>. QED
      BY <1>2
  <2>. HIDE DEF P, before, after
  <2>4. CASE after.index[id] = before.index[id]
    <3>. HIDE DEF Tracked
    <3>. QED
      BY <2>1, <2>3, <2>4 DEF after, P
  <2>5. CASE /\ row.id = id
             /\ row.action = "update" => before.index[id] # Absent
             /\ after.index[id] = After(before.index[id], row)
    <3>1. ~NotIndexed(before.index[id], Backlog, id)
      BY <2>1, <2>5 DEF NotIndexed
    <3>2. Mirrors(before.index[id], table[id], Backlog, 0, id)
      BY <2>3, <3>1
    <3>3. before.index[id] \in Docs(id)
      BY <2>2 DEF IsWork
    <3>4. Mirrors(After(before.index[id], row), table[id], Backlog, 0, id)
      <4>1. 0 \in 0..i - 1
        BY <2>1
      <4>. QED
        BY <2>1, <2>5, <3>2, <3>3, <4>1, MirrorsAgain
    <3>5. Tracked(after.index[id])
      BY <2>5, <3>4
    <3>. HIDE DEF Tracked
    <3>. QED
      BY <2>1, <3>5 DEF after, P
  <2>. QED
    BY <2>2, <2>4, <2>5 DEF Writes
<1>3. FlushLen \in S
  <2>. HIDE DEF S
  <2>. QED
    BY <1>0, <1>1, <1>2, RangeInduction
<1>4. Tracked(P[FlushLen].index[id])
  <2>. HIDE DEF Tracked, P
  <2>. QED
    BY <1>3
<1>. QED
  BY <1>0, <1>4, ProgressOf

(* A request without failures: the rest of the backlog will. *)
LEMMA WorkMirrors ==
  ASSUME IndexInv, NEW busy, NEW id \in Ids \ dropped, Work(Request, busy).failed = {}
  PROVE  \/ Mirrors(Work(Request, busy).index[id], table[id], Backlog, FlushLen, id)
         \/ /\ NotIndexed(Work(Request, busy).index[id], Backlog, id)
            /\ \A i \in 1..Len(delivered) : delivered[i].id # id
            /\ \A k \in 1..FlushLen : Backlog[k].id # id
<1> DEFINE P == Progress(Request, busy)
           Tracked(doc, i) == \/ Mirrors(doc, table[id], Backlog, i, id)
                              \/ /\ NotIndexed(doc, Backlog, id)
                                 /\ \A k \in 1..Len(delivered) : delivered[k].id # id
                                 /\ \A k \in 1..i : Backlog[k].id # id
           S == {i \in Nat : Tracked(P[i].index[id], i)}
<1>0. Sendable /\ FlushLen \in Nat
  BY InvRows DEF Sendable, IndexInv
<1>1. 0 \in S
  <2>1. P[0].index = docs
    BY <1>0, ProgressOf
  <2>2. Tracked(docs[id], 0)
    BY DEF IndexInv, WillMirror
  <2>. HIDE DEF P, Tracked
  <2>. QED
    BY <2>1, <2>2
<1>2. ASSUME NEW i \in 1..FlushLen, i - 1 \in S
      PROVE  i \in S
  <2> DEFINE row == Backlog[i]
             before == P[i - 1]
             after == P[i]
  <2>1. /\ i \in 1..Len(Backlog) /\ row = buffer[i] /\ WellFormed(row)
        /\ Len(Backlog) \in Nat /\ i \in Nat
    <3>1. RowsInv /\ BatcherTypeOK
      BY DEF IndexInv, RowsInv, BatcherInv
    <3>2. Len(Backlog) \in Nat
      BY <3>1, HandedParts, LenProperties DEF HandedLayout
    <3>. QED
      BY <1>0, <3>1, <3>2, InvRows
  <2>2. IsWork(before) /\ Writes(row, before, after)
    <3>1. i \in 0..FlushLen
      BY <1>0
    <3>2. after.failed = {}
      BY <1>0, <3>1, FailuresStay
    <3>3. IsWork(before) /\ TakesUp(i, busy, before, after)
      BY <1>0, ProgressStep
    <3>. HIDE DEF P, before, after, row
    <3>4. Writes(buffer[i], before, after)
      BY <3>2, <3>3 DEF TakesUp
    <3>5. row = buffer[i]
      BY <2>1
    <3>. QED
      BY <3>3, <3>4, <3>5, Zenon
  <2>3. Tracked(before.index[id], i - 1)
    <3>. HIDE DEF P, Tracked
    <3>. QED
      BY <1>2
  <2>. HIDE DEF P, before, after
  <2>4. CASE row.id # id
    <3>1. after.index[id] = before.index[id]
      BY <2>2, <2>4 DEF Writes
    <3>2. ASSUME Mirrors(before.index[id], table[id], Backlog, i - 1, id)
          PROVE  Mirrors(after.index[id], table[id], Backlog, i, id)
      BY <2>1, <2>4, <3>1, <3>2, MirrorsPast
    <3>3. ASSUME \A k \in 1..i - 1 : Backlog[k].id # id
          PROVE  \A k \in 1..i : Backlog[k].id # id
      <4>1. \A k \in 1..i : k = i \/ k \in 1..i - 1
        OBVIOUS
      <4>. QED
        BY <2>4, <3>3, <4>1
    <3>4. Tracked(after.index[id], i)
      BY <2>3, <3>1, <3>2, <3>3
    <3>. HIDE DEF Tracked
    <3>. QED
      BY <2>1, <3>4 DEF after, P
  <2>5. CASE row.id = id
    <3>1. ~NotIndexed(before.index[id], Backlog, id)
      BY <2>1, <2>2, <2>5 DEF Writes, NotIndexed
    <3>2. Mirrors(before.index[id], table[id], Backlog, i - 1, id)
      BY <2>3, <3>1
    <3>3. before.index[id] \in Docs(id)
      BY <2>2 DEF IsWork
    <3>4. Mirrors(After(before.index[id], row), table[id], Backlog, i, id)
      BY <2>1, <2>2, <2>5, <3>2, <3>3, MirrorsForth DEF Writes
    <3>5. Tracked(after.index[id], i)
      BY <2>2, <2>5, <3>4 DEF Writes
    <3>. HIDE DEF Tracked
    <3>. QED
      BY <2>1, <3>5 DEF after, P
  <2>. QED
    BY <2>4, <2>5
<1>3. FlushLen \in S
  <2>. HIDE DEF S
  <2>. QED
    BY <1>0, <1>1, <1>2, RangeInduction
<1>4. Tracked(P[FlushLen].index[id], FlushLen)
  <2>. HIDE DEF Tracked, P
  <2>. QED
    BY <1>3
<1>. QED
  BY <1>0, <1>4, ProgressOf

(* However it went, the delivered rows are still to be seen. *)
LEMMA WorkKeepsFresh ==
  ASSUME IndexInv, NEW busy, NEW h \in 1..Len(delivered)
  PROVE  Fresh(Work(Request, busy).index[delivered[h].id], Handed, h)
<1> DEFINE P == Progress(Request, busy)
           id == delivered[h].id
           S == {i \in Nat : Fresh(P[i].index[id], Handed, h)}
<1>0. /\ Sendable /\ FlushLen \in Nat /\ InOrder(Handed)
      /\ h \in 1..Len(Handed) /\ Handed[h].id = id /\ id \in Ids
      /\ Len(Handed) \in Nat /\ Len(delivered) \in Nat
  BY InvRows, HandedParts, LenProperties
     DEF Sendable, IndexInv, RowsInv, BatcherInv, RowsHanded, Ordered, HandedLayout
<1>1. 0 \in S
  <2>1. P[0].index = docs
    BY <1>0, ProgressOf
  <2>2. Fresh(docs[id], Handed, h)
    BY DEF IndexInv, AllFresh
  <2>. HIDE DEF P, id
  <2>. QED
    BY <2>1, <2>2
<1>2. ASSUME NEW i \in 1..FlushLen, i - 1 \in S
      PROVE  i \in S
  <2> DEFINE k == Len(delivered) + i
             row == buffer[i]
             before == P[i - 1]
             after == P[i]
  <2>1. k \in 1..Len(Handed) /\ Handed[k] = row /\ h \in 1..k /\ i \in Nat
    <3>1. k \in 1..Len(Handed) /\ Handed[k] = row
      BY InvRows DEF IndexInv
    <3>2. h \in 1..k /\ i \in Nat
      BY <1>0
    <3>. QED
      BY <3>1, <3>2
  <2>2. /\ IsWork(before)
        /\ after.index = before.index \/ Writes(row, before, after)
    <3>1. IsWork(before) /\ TakesUp(i, busy, before, after)
      BY <1>0, ProgressStep
    <3>. HIDE DEF P, before, after, row
    <3>. QED
      BY <3>1 DEF TakesUp, row
  <2>3. Fresh(before.index[id], Handed, h)
    <3>. HIDE DEF P, id
    <3>. QED
      BY <1>2
  <2>. HIDE DEF P, before, after, k, row, id
  <2>4. CASE after.index[id] = before.index[id]
    BY <2>1, <2>3, <2>4 DEF after, P
  <2>5. CASE /\ row.id = id
             /\ row.action = "update" => before.index[id] # Absent
             /\ after.index[id] = After(before.index[id], row)
    <3>1. before.index[id] \in Docs(id)
      BY <1>0, <2>2 DEF IsWork
    <3>2. Fresh(After(before.index[id], row), Handed, h)
      BY <1>0, <2>1, <2>3, <2>5, <3>1, FreshWritten
    <3>. QED
      BY <2>1, <2>5, <3>2 DEF after, P
  <2>. QED
    BY <1>0, <2>2, <2>4, <2>5 DEF Writes
<1>3. FlushLen \in S
  <2>. HIDE DEF S
  <2>1. FlushLen \in Nat
    BY <1>0
  <2>2. 0..FlushLen \subseteq S
    BY <1>1, <1>2, <2>1, RangeInduction
  <2>. QED
    BY <2>1, <2>2
<1>4. Fresh(P[FlushLen].index[id], Handed, h)
  <2>. HIDE DEF P, id
  <2>. QED
    BY <1>3
<1>. QED
  BY <1>0, <1>4, ProgressOf

(* Without failures, its own rows are too. *)
LEMMA WorkIsFresh ==
  ASSUME IndexInv, NEW busy, Work(Request, busy).failed = {},
         NEW h \in 1..Len(delivered) + FlushLen
  PROVE  Fresh(Work(Request, busy).index[Handed[h].id], Handed, h)
<1> DEFINE P == Progress(Request, busy)
           id == Handed[h].id
           S == {i \in Nat : h <= Len(delivered) + i => Fresh(P[i].index[id], Handed, h)}
<1>0. /\ Sendable /\ FlushLen \in Nat /\ InOrder(Handed)
      /\ Len(Handed) \in Nat /\ Len(delivered) \in Nat
      /\ Len(delivered) + FlushLen <= Len(Handed)
  BY InvRows, HandedParts, LenProperties
     DEF Sendable, IndexInv, RowsInv, BatcherInv, RowsHanded, Ordered, HandedLayout
<1>1. 0 \in S
  <2>1. P[0].index = docs
    BY <1>0, ProgressOf
  <2>2. ASSUME h <= Len(delivered)
        PROVE  Fresh(docs[id], Handed, h)
    <3>1. h \in 1..Len(delivered)
      BY <1>0, <2>2
    <3>2. Handed[h] = delivered[h]
      BY <3>1, HandedParts DEF IndexInv, RowsInv, BatcherInv, HandedLayout
    <3>. QED
      BY <3>1, <3>2 DEF IndexInv, AllFresh
  <2>. HIDE DEF P, id
  <2>. QED
    BY <1>0, <2>1, <2>2
<1>2. ASSUME NEW i \in 1..FlushLen, i - 1 \in S
      PROVE  i \in S
  <2> DEFINE k == Len(delivered) + i
             row == buffer[i]
             before == P[i - 1]
             after == P[i]
  <2>1. k \in 1..Len(Handed) /\ Handed[k] = row /\ i \in Nat /\ h \in 1..Len(Handed)
    BY <1>0, InvRows DEF IndexInv
  <2>2. IsWork(before) /\ Writes(row, before, after)
    <3>1. i \in 0..FlushLen
      BY <1>0
    <3>2. after.failed = {}
      BY <1>0, <3>1, FailuresStay
    <3>3. IsWork(before) /\ TakesUp(i, busy, before, after)
      BY <1>0, ProgressStep
    <3>. HIDE DEF P, before, after, row
    <3>. QED
      BY <3>2, <3>3 DEF TakesUp, row
  <2>3. id \in Ids
    BY <2>1, InvRows DEF IndexInv
  <2>4. h <= Len(delivered) + (i - 1) => Fresh(before.index[id], Handed, h)
    <3>. HIDE DEF P, id
    <3>. QED
      BY <1>2
  <2>. HIDE DEF P, before, after, row, id
  <2>5. SUFFICES ASSUME h <= k
                 PROVE  Fresh(after.index[id], Handed, h)
    BY <2>1 DEF after, P
  <2>6. CASE row.id = id
    <3>1. before.index[id] \in Docs(id)
      BY <2>2, <2>3 DEF IsWork
    <3>2. h \in 1..k /\ Handed[h].id = Handed[k].id
      BY <2>1, <2>5, <2>6 DEF id
    <3>3. h < k => Fresh(before.index[id], Handed, h)
      <4>1. h < k => h <= Len(delivered) + (i - 1)
        BY <1>0, <2>1
      <4>. QED
        BY <2>4, <4>1
    <3>. HIDE DEF k
    <3>4. Fresh(After(before.index[id], row), Handed, h)
      BY <1>0, <2>1, <2>2, <2>6, <3>1, <3>2, <3>3, FreshWritten DEF Writes
    <3>. QED
      BY <2>2, <2>6, <3>4 DEF Writes
  <2>7. CASE row.id # id
    <3>1. h # k
      BY <2>1, <2>7 DEF id
    <3>2. h <= Len(delivered) + (i - 1)
      BY <1>0, <2>5, <3>1
    <3>. QED
      BY <2>2, <2>3, <2>4, <2>7, <3>2 DEF Writes
  <2>. QED
    BY <2>6, <2>7
<1>3. FlushLen \in S
  <2>. HIDE DEF S
  <2>1. FlushLen \in Nat
    BY <1>0
  <2>2. 0..FlushLen \subseteq S
    BY <1>1, <1>2, <2>1, RangeInduction
  <2>. QED
    BY <2>1, <2>2
<1>4. h <= Len(delivered) + FlushLen
  BY <1>0
<1>5. Fresh(P[FlushLen].index[id], Handed, h)
  <2>. HIDE DEF P, id
  <2>. QED
    BY <1>3, <1>4
<1>. QED
  BY <1>0, <1>5, ProgressOf

(* The index stays one. *)
LEMMA WorkIsIndex ==
  ASSUME Sendable, NEW busy
  PROVE  /\ DOMAIN Work(Request, busy).index = Ids
         /\ \A id \in Ids : Work(Request, busy).index[id] \in Docs(id)
<1>1. FlushLen \in 0..FlushLen
  BY DEF Sendable
<1>2. IsWork(Work(Request, busy))
  BY <1>1, ProgressOf, ProgressIsWork
<1>. QED
  BY <1>2 DEF IsWork

------------------------------------------------------------------------------
(* What a change of the table hands over. *)

(* The old tuple of a message has no columns, or names the row or nothing. *)
LEMMA OldTupleKey ==
  ASSUME NEW id \in Ids, NEW old \in TableRows(id), NEW new, NEW identity
  PROVE  LET values == TupleToValues(OldTuple(identity, old, new))
         IN  \/ values = NoValues
             \/ /\ IdColumn \in DOMAIN values
                /\ values[IdColumn] = id \/ values[IdColumn] = Null
<1> DEFINE key == CASE identity = "key"   -> {IdColumn}
                    [] identity = "other" -> DataColumns \ Toasted
                    [] identity = "full"  -> Columns
           tuple == [c \in Columns |-> IF c \in key THEN old[c] ELSE Null]
<1>1. OldTuple(identity, old, new) = NoTuple \/ OldTuple(identity, old, new) = tuple
  BY Zenon DEF OldTuple
<1>. HIDE DEF key
<1>2. CASE OldTuple(identity, old, new) = NoTuple
  <2>1. {c \in Columns : NoTuple[c] \notin {Unsent, Undecodable}} = {}
    BY DEF NoTuple
  <2>2. TupleToValues(NoTuple) = NoValues
    BY <2>1 DEF TupleToValues, NoValues
  <2>. QED
    BY <1>2, <2>2
<1>3. CASE OldTuple(identity, old, new) = tuple
  <2>1. old[IdColumn] = id /\ id \in Nat
    BY TableRowForm
  <2>2. tuple[IdColumn] = id \/ tuple[IdColumn] = Null
    BY <2>1, RowsAssumption
  <2>. HIDE DEF tuple
  <2>3. tuple[IdColumn] \notin {Unsent, Undecodable}
    BY <2>1, <2>2 DEF Null, Unsent, Undecodable
  <2>4. /\ IdColumn \in DOMAIN TupleToValues(tuple)
        /\ TupleToValues(tuple)[IdColumn] = tuple[IdColumn]
    BY <2>3, RowsAssumption DEF TupleToValues
  <2>. QED
    BY <1>3, <2>2, <2>4
<1>. QED
  BY <1>1, <1>2, <1>3

(* What a change writes: its number, or a value that is not one, to the    *)
(* columns it sets, and nothing to the others.                             *)
Follows(new, old, n) ==
  \A c \in DOMAIN new \ {IdColumn} :
    \/ new[c] \in {n} \union OddValues
    \/ c \in DOMAIN old /\ new[c] = old[c]

(* The row it results in. *)
LEMMA ChangedRow ==
  ASSUME NEW id \in Ids, NEW n \in 0..MaxItems, NEW old \in TableRows(id),
         NEW set \in SUBSET DataColumns, NEW values \in Values(set, n)
  PROVE  /\ Merged(old, values) \in TableRows(id)
         /\ Follows(Merged(old, values), old, n)
         /\ \A c \in set : Merged(old, values)[c] \in {n} \union OddValues
         /\ \A c \in Columns \ set : Merged(old, values)[c] = old[c]
<1> DEFINE new == Merged(old, values)
<1>1. /\ DOMAIN old = Columns /\ old[IdColumn] = id
      /\ \A c \in DataColumns : old[c] \in 0..MaxItems \union OddValues
      /\ \A c \in DataColumns \ Odd : old[c] \in 0..MaxItems
  BY TableRowForm
<1>2. /\ DOMAIN values = set
      /\ \A c \in set : values[c] \in {n} \union OddValues
      /\ \A c \in set \ Odd : values[c] = n
  BY DEF Values
<1>3. set \subseteq Columns /\ IdColumn \in Columns /\ IdColumn \notin set
  BY RowsAssumption DEF DataColumns
<1>4. new = [c \in Columns |-> IF c \in set THEN values[c] ELSE old[c]]
  <2>1. DOMAIN old \union DOMAIN values = Columns
    BY <1>1, <1>2, <1>3
  <2>. QED
    BY <1>2, <2>1 DEF Merged
<1>. HIDE DEF new
<1>5. /\ \A c \in set : new[c] = values[c]
      /\ \A c \in Columns \ set : new[c] = old[c]
      /\ DOMAIN new = Columns
  BY <1>3, <1>4
<1>6. new[IdColumn] = id
  BY <1>1, <1>3, <1>5
<1>7. \A c \in DataColumns : new[c] \in 0..MaxItems \union OddValues
  BY <1>1, <1>2, <1>3, <1>5 DEF DataColumns
<1>8. \A c \in DataColumns \ Odd : new[c] \in 0..MaxItems
  BY <1>1, <1>2, <1>3, <1>5 DEF DataColumns
<1>9. new \in TableRows(id)
  <2>1. new \in [Columns -> {id} \union 0..MaxItems \union OddValues]
    BY <1>4, <1>5, <1>6, <1>7 DEF DataColumns
  <2>. QED
    BY <1>6, <1>7, <1>8, <2>1 DEF TableRows
<1>10. Follows(new, old, n)
  BY <1>1, <1>2, <1>5 DEF Follows
<1>. QED
  BY <1>2, <1>5, <1>9, <1>10 DEF new

(* The first version of a row. *)
LEMMA WrittenIsRow ==
  ASSUME NEW id, NEW n \in 0..MaxItems
  PROVE  /\ Written(id, n) \in TableRows(id)
         /\ Written(id, n) \in Without(id, Odd)
<1>1. Written(id, n) \in Fields(id, Columns \ {})
  BY RowsAssumption DEF Fields, Written
<1>2. {} \in SUBSET Odd
  OBVIOUS
<1>3. Written(id, n) \in Without(id, Odd)
  BY <1>1, <1>2 DEF Without
<1>. QED
  BY <1>3, RowsAssumption DEF TableRows, Written, DataColumns

(* A tuple of the row `new' without the columns `left'. *)
TupleWithout(tuple, new, left) ==
  \A c \in Columns : tuple[c] = IF c \in left THEN Unsent ELSE new[c]

(* Values sent of the row `new', of which only the columns `left' and those*)
(* that do not decode are missing.                                         *)
Sends(values, id, new, left) ==
  /\ values \in Without(id, left \union Odd)
  /\ \A c \in DOMAIN values : values[c] = new[c]
  /\ \A c \in Columns \ DOMAIN values : c \in left \/ new[c] = Undecodable

(* What becomes of such a tuple when all its values can be marshalled.     *)
LEMMA SentForm ==
  ASSUME NEW id \in Ids, NEW new \in TableRows(id), NEW left \in SUBSET Toasted,
         NEW sent, TupleWithout(sent, new, left), Marshals(TupleToValues(sent))
  PROVE  Sends(TupleToValues(sent), id, new, left)
<1> DEFINE body == TupleToValues(sent)
           T == left \union {c \in Columns : new[c] = Undecodable}
<1>1. /\ DOMAIN new = Columns /\ new[IdColumn] = id /\ id \in Nat
      /\ \A c \in Columns : new[c] \notin {Unsent, Null}
      /\ \A c \in DataColumns : new[c] \in 0..MaxItems \union OddValues
      /\ \A c \in DataColumns \ Odd : new[c] \in 0..MaxItems
  BY TableRowForm
<1>2. Undecodable \notin Nat /\ Unencodable \notin Nat /\ Unsent # Undecodable
  BY DEF Undecodable, Unencodable, Unsent
<1>3. {c \in Columns : new[c] = Undecodable} \subseteq Odd
  <2>1. ASSUME NEW c \in Columns, new[c] = Undecodable
        PROVE  c \in Odd
    <3>1. c # IdColumn
      BY <1>1, <1>2, <2>1
    <3>2. c \in DataColumns
      BY <3>1 DEF DataColumns
    <3>. QED
      BY <1>1, <1>2, <2>1, <3>2
  <2>. QED
    BY <2>1
<1>4. {c \in Columns : sent[c] \notin {Unsent, Undecodable}} = Columns \ T
  BY <1>1 DEF TupleWithout
<1>5. body = [c \in Columns \ T |-> new[c]]
  BY <1>4 DEF TupleToValues, TupleWithout
<1>6. T \in SUBSET (left \union Odd)
  BY <1>3
<1>7. IdColumn \in Columns \ T
  <2>1. T \in SUBSET (Toasted \union Odd)
    BY <1>6
  <2>. QED
    BY <2>1, IdIsSent
<1>8. ASSUME NEW c \in (Columns \ T) \ {IdColumn}
      PROVE  new[c] \in 0..MaxItems
  <2>1. c \in DOMAIN body /\ body[c] = new[c]
    BY <1>5
  <2>2. new[c] # Unencodable /\ new[c] # Undecodable
    BY <2>1 DEF Marshals
  <2>3. c \in DataColumns
    BY DEF DataColumns
  <2>. QED
    BY <1>1, <2>2, <2>3 DEF OddValues
<1>. HIDE DEF T, body
<1>9. body \in Fields(id, Columns \ T)
  BY <1>1, <1>5, <1>7, <1>8 DEF Fields
<1>10. body \in Without(id, left \union Odd)
  BY <1>6, <1>9 DEF Without
<1>. QED
  BY <1>5, <1>10 DEF Sends, T, body

(* A row that a change hands to the batcher, and the change itself.        *)
Describes(row, n, id, old, new) ==
  /\ WellFormed(row) /\ row.seq = n /\ row.id = id
  /\ row.action = "index" <=> old = Absent
  /\ row.action = "delete" <=> new = Absent
  /\ \A c \in Columns : Shown(new, c) # Undecodable =>
        IF Settles(row, c) THEN Shown(row.body, c) = Shown(new, c)
                           ELSE Shown(new, c) = Shown(old, c)
  /\ \A c \in DOMAIN row.body : c \in DOMAIN new /\ row.body[c] = new[c]

(* An insert. *)
LEMMA InsertForm ==
  ASSUME NEW id \in Ids, NEW n \in 1..MaxItems, NEW new \in TableRows(id), NEW msg,
         msg = [kind |-> "insert", old |-> NoTuple, new |-> new],
         IsUsable(msg)
  PROVE  Describes(Numbered(n, ChangeData(msg)), n, id, Absent, new)
<1> DEFINE body == TupleToValues(new)
           row == [seq |-> n, id |-> id, action |-> "index", body |-> body]
<1>1. msg.kind = "insert" /\ msg.new = new
  OBVIOUS
<1>2. DOMAIN new = Columns /\ new # Absent
  BY TableRowForm
<1>3. TupleWithout(new, new, {})
  BY DEF TupleWithout
<1>4. Marshals(body)
  BY <1>1 DEF IsUsable
<1>5. /\ body \in Without(id, Odd)
      /\ \A c \in DOMAIN body : body[c] = new[c]
      /\ \A c \in Columns \ DOMAIN body : new[c] = Undecodable
  <2>1. {} \in SUBSET Toasted /\ {} \union Odd = Odd
    OBVIOUS
  <2>2. Sends(body, id, new, {})
    BY <1>3, <1>4, <2>1, SentForm
  <2>. QED
    BY <2>1, <2>2 DEF Sends
<1>. HIDE DEF body
<1>6. /\ IdColumn \in DOMAIN body /\ body[IdColumn] = id /\ DOMAIN body \subseteq Columns
  BY <1>5, DocForm
<1>7. ChangeData(msg) = [id |-> id, action |-> "index", body |-> body]
  BY <1>1, <1>6 DEF ChangeData, ValuesToData, DocumentID, KeyValues, body
<1>8. Numbered(n, ChangeData(msg)) = row
  BY <1>7 DEF Numbered
<1>9. row \in RowsOf(n, id)
  BY <1>5 DEF RowsOf
<1>10. /\ WellFormed(row) /\ row.seq = n /\ row.id = id /\ row.action = "index"
       /\ row.body = body
  BY <1>9 DEF WellFormed
<1>11. \A c \in Columns : Shown(new, c) # Undecodable => Shown(body, c) = Shown(new, c)
  BY <1>2, <1>5 DEF Shown
<1>. HIDE DEF row
<1>. QED
  BY <1>2, <1>5, <1>6, <1>8, <1>10, <1>11 DEF Describes, Settles

(* A delete that names its row. *)
LEMMA DeleteForm ==
  ASSUME NEW id \in Ids, NEW n \in 1..MaxItems, NEW old \in TableRows(id),
         NEW identity, NEW msg,
         msg = [kind |-> "delete", old |-> OldTuple(identity, old, Absent), new |-> NoTuple],
         IsUsable(msg)
  PROVE  Describes(Numbered(n, ChangeData(msg)), n, id, old, Absent)
<1> DEFINE values == TupleToValues(OldTuple(identity, old, Absent))
<1>1. KeyValues(msg) = values
  BY DEF KeyValues
<1>2. IdColumn \in DOMAIN values /\ values[IdColumn] # Null
  BY <1>1 DEF IsUsable, HasDocumentID
<1>3. values # NoValues
  BY <1>2 DEF NoValues
<1>4. values[IdColumn] = id
  BY <1>2, <1>3, OldTupleKey
<1>5. DocumentID(KeyValues(msg)) = id
  BY <1>1, <1>4 DEF DocumentID
<1>6. ChangeData(msg) = [id |-> id, action |-> "delete", body |-> NoValues]
  BY <1>5 DEF ChangeData, DeleteData
<1> DEFINE row == [seq |-> n, id |-> id, action |-> "delete", body |-> NoValues]
<1>7. Numbered(n, ChangeData(msg)) = row
  BY <1>6 DEF Numbered
<1>8. row \in RowsOf(n, id)
  BY DEF RowsOf
<1>9. WellFormed(row)
  BY <1>8 DEF WellFormed
<1>10. /\ row.seq = n /\ row.id = id /\ row.body = Absent /\ row.action = "delete"
       /\ \A c \in Columns : Settles(row, c)
  BY DEF Settles, Absent
<1>11. old # Absent /\ DOMAIN Absent = {}
  BY TableRowForm DEF Absent, NoValues
<1>. HIDE DEF row
<1>. QED
  BY <1>7, <1>9, <1>10, <1>11 DEF Describes

(* An update: it sends the columns it sets, and may leave out others that  *)
(* are stored out of line.                                                 *)
LEMMA UpdateForm ==
  ASSUME NEW id \in Ids, NEW n \in 1..MaxItems, NEW old \in TableRows(id),
         NEW new \in TableRows(id), NEW set \in SUBSET DataColumns,
         \A c \in Columns \ set : new[c] = old[c],
         NEW omit \in BOOLEAN, NEW identity, NEW msg,
         msg.kind = "update", msg.old = OldTuple(identity, old, new),
         \A c \in Columns :
           msg.new[c] = IF c \in Toasted \ set /\ omit THEN Unsent ELSE new[c],
         IsUsable(msg)
  PROVE  Describes(Numbered(n, ChangeData(msg)), n, id, old, new)
<1> DEFINE left == IF omit THEN Toasted \ set ELSE {}
           sent == msg.new
           body == TupleToValues(sent)
           values == TupleToValues(OldTuple(identity, old, new))
           row == [seq |-> n, id |-> id, action |-> "update", body |-> body]
<1>1. msg.kind = "update" /\ msg.new = sent /\ msg.old = OldTuple(identity, old, new)
  OBVIOUS
<1>2. TupleWithout(sent, new, left)
  BY DEF TupleWithout
<1>3. left \in SUBSET Toasted /\ \A c \in left : c \notin set
  OBVIOUS
<1>. HIDE DEF sent, left
<1>4. Marshals(body)
  BY <1>1 DEF IsUsable
<1>5. /\ body \in Without(id, left \union Odd)
      /\ \A c \in DOMAIN body : body[c] = new[c]
      /\ \A c \in Columns \ DOMAIN body : c \in left \/ new[c] = Undecodable
  <2>1. Sends(body, id, new, left)
    BY <1>2, <1>3, <1>4, SentForm
  <2>. QED
    BY <2>1 DEF Sends
<1>. HIDE DEF body, values
<1>6. IdColumn \in DOMAIN body /\ body[IdColumn] = id /\ DOMAIN body \subseteq Columns
  <2>1. left \union Odd \in SUBSET (Toasted \union Odd)
    BY <1>3
  <2>. QED
    BY <1>5, <2>1, DocForm
<1>7. KeyValues(msg) = IF values = NoValues THEN body ELSE values
  BY <1>1 DEF UpdateKeyValues, KeyValues, body, values
<1>8. DocumentID(KeyValues(msg)) = id
  <2>1. KeyValues(msg)[IdColumn] # Null
    BY DEF IsUsable, HasDocumentID
  <2>2. \/ values = NoValues
        \/ values[IdColumn] = id \/ values[IdColumn] = Null
    BY OldTupleKey DEF values
  <2>. QED
    BY <1>6, <1>7, <2>1, <2>2 DEF DocumentID
<1>9. ChangeData(msg) = [id |-> id, action |-> "update", body |-> body]
  BY <1>1, <1>8 DEF ChangeData, ValuesToData, body
<1>10. Numbered(n, ChangeData(msg)) = row
  BY <1>9 DEF Numbered
<1>11. body \in Without(id, Toasted \union Odd)
  BY <1>3, <1>5 DEF Without
<1>12. row \in RowsOf(n, id)
  BY <1>11 DEF RowsOf
<1>13. /\ WellFormed(row) /\ row.seq = n /\ row.id = id /\ row.action = "update"
       /\ row.body = body
  BY <1>12 DEF WellFormed
<1>14. DOMAIN new = Columns /\ DOMAIN old = Columns /\ new # Absent /\ old # Absent
  BY TableRowForm
<1>15. ASSUME NEW c \in Columns, Shown(new, c) # Undecodable
       PROVE  IF c \in DOMAIN body THEN Shown(body, c) = Shown(new, c)
                                    ELSE Shown(new, c) = Shown(old, c)
  BY <1>3, <1>5, <1>14, <1>15 DEF Shown
<1>. HIDE DEF row
<1>16. \A c \in Columns : Settles(row, c) <=> c \in DOMAIN body
  BY <1>13 DEF Settles
<1>. QED
  BY <1>5, <1>6, <1>10, <1>13, <1>14, <1>15, <1>16 DEF Describes

(* What a change does to the row, and what its message makes of it. *)
Changed(change, n, id, old) ==
  /\ change.row \in TableDocs(id)
  /\ Follows(change.row, old, n)
  /\ IsUsable(change.msg) =>
       Describes(Numbered(n, ChangeData(change.msg)), n, id, old, change.row)

(* Every change leaves a row or none, and its message describes it. *)
LEMMA ChangeForm ==
  ASSUME NEW id \in Ids, table[id] \in TableDocs(id), NEW n \in 1..MaxItems,
         NEW change \in ChangesOf(id, n)
  PROVE  Changed(change, n, id, table[id])
<1>0. n \in 0..MaxItems
  BY DeliveryAssumption
<1>1. CASE table[id] = Absent
  <2>1. PICK values \in Values(DataColumns, n) :
               change = [row |-> Merged(Written(id, n), values),
                         msg |-> [kind |-> "insert", old |-> NoTuple,
                                  new |-> Merged(Written(id, n), values)]]
    BY <1>1 DEF ChangesOf, Inserts
  <2> DEFINE new == Merged(Written(id, n), values)
  <2>2. change.row = new /\ change.msg = [kind |-> "insert", old |-> NoTuple, new |-> new]
    BY <2>1
  <2>3. /\ new \in TableRows(id)
        /\ \A c \in DataColumns : new[c] \in {n} \union OddValues
    <3>1. Written(id, n) \in TableRows(id) /\ DataColumns \in SUBSET DataColumns
      BY <1>0, WrittenIsRow
    <3>. QED
      BY <1>0, <3>1, ChangedRow
  <2>. HIDE DEF new
  <2>4. Follows(new, table[id], n)
    <3>1. DOMAIN new = Columns
      BY <2>3, TableRowForm
    <3>. QED
      BY <2>3, <3>1 DEF Follows, DataColumns
  <2>5. IsUsable(change.msg) =>
          Describes(Numbered(n, ChangeData(change.msg)), n, id, Absent, new)
    BY <2>2, <2>3, InsertForm
  <2>. QED
    BY <1>1, <2>2, <2>3, <2>4, <2>5 DEF Changed, TableDocs
<1>2. CASE table[id] # Absent
  <2>0. table[id] \in TableRows(id)
    BY <1>2 DEF TableDocs
  <2>1. change \in Deletes(id) \/
          \E set \in (SUBSET DataColumns) \ {{}} : change \in Updates(id, set, n)
    BY <1>2 DEF ChangesOf
  <2>2. CASE change \in Deletes(id)
    <3>1. PICK i \in Identities :
                 change = [row |-> Absent,
                           msg |-> [kind |-> "delete", old |-> OldTuple(i, table[id], Absent),
                                    new |-> NoTuple]]
      BY <2>2 DEF Deletes
    <3>2. /\ change.row = Absent
          /\ change.msg = [kind |-> "delete", old |-> OldTuple(i, table[id], Absent),
                           new |-> NoTuple]
      BY <3>1
    <3>3. Follows(Absent, table[id], n)
      BY DEF Follows, Absent, NoValues
    <3>4. IsUsable(change.msg) =>
            Describes(Numbered(n, ChangeData(change.msg)), n, id, table[id], Absent)
      BY <2>0, <3>2, DeleteForm
    <3>. QED
      BY <3>2, <3>3, <3>4 DEF Changed, TableDocs
  <2>3. ASSUME NEW set \in SUBSET DataColumns, change \in Updates(id, set, n)
        PROVE  Changed(change, n, id, table[id])
    <3>1. PICK values \in Values(set, n) : \E i \in Identities, omit \in BOOLEAN :
            change = [row |-> Merged(table[id], values),
                      msg |-> [kind |-> "update",
                               old |-> OldTuple(i, table[id], Merged(table[id], values)),
                               new |-> [c \in Columns |->
                                          IF c \in Toasted \ set /\ omit THEN Unsent
                                          ELSE Merged(table[id], values)[c]]]]
      BY <2>3 DEF Updates
    <3> DEFINE new == Merged(table[id], values)
    <3>2. PICK i \in Identities, omit \in BOOLEAN :
            change = [row |-> new,
                      msg |-> [kind |-> "update", old |-> OldTuple(i, table[id], new),
                               new |-> [c \in Columns |->
                                          IF c \in Toasted \ set /\ omit THEN Unsent
                                          ELSE new[c]]]]
      BY <3>1
    <3>3. /\ new \in TableRows(id) /\ Follows(new, table[id], n)
          /\ \A c \in Columns \ set : new[c] = table[id][c]
      BY <1>0, <2>0, ChangedRow
    <3>. HIDE DEF new
    <3>4. /\ change.row = new
          /\ change.msg.kind = "update" /\ change.msg.old = OldTuple(i, table[id], new)
          /\ \A c \in Columns :
               change.msg.new[c] = IF c \in Toasted \ set /\ omit THEN Unsent ELSE new[c]
      BY <3>2
    <3>5. IsUsable(change.msg) =>
            Describes(Numbered(n, ChangeData(change.msg)), n, id, table[id], new)
      BY <2>0, <3>3, <3>4, UpdateForm
    <3>. QED
      BY <3>3, <3>4, <3>5 DEF Changed, TableDocs
  <2>. QED
    BY <2>1, <2>2, <2>3
<1>. QED
  BY <1>1, <1>2

------------------------------------------------------------------------------
(* The steps preserve the invariant. *)

(* Where the rows handed over are in the next state. *)
LEMMA HandedPartsNext == BatcherTypeOK' => HandedLayout'
BY HandedParts, PTL

(* One row more. *)
LEMMA OneMore ==
  ASSUME NEW S, NEW s \in Seq(S), NEW x \in S
  PROVE  /\ Len(s) \in Nat /\ Len(s \o <<x>>) = Len(s) + 1
         /\ \A k \in 1..Len(s) : (s \o <<x>>)[k] = s[k]
         /\ (s \o <<x>>)[Len(s) + 1] = x
<1>1. <<x>> \in Seq(S) /\ Len(<<x>>) = 1 /\ <<x>>[1] = x
  OBVIOUS
<1>2. Len(s) \in Nat
  BY LenProperties
<1>3. /\ Len(s \o <<x>>) = Len(s) + 1
      /\ \A k \in 1..Len(s) + 1 :
           (s \o <<x>>)[k] = IF k <= Len(s) THEN s[k] ELSE <<x>>[k - Len(s)]
  BY <1>1, ConcatProperties
<1>4. (Len(s) + 1) - Len(s) = 1 /\ ~(Len(s) + 1 <= Len(s)) /\ Len(s) + 1 \in 1..Len(s) + 1
  BY <1>2
<1>. QED
  BY <1>1, <1>2, <1>3, <1>4

(* Without a pending row, the rows are those delivered and those in the    *)
(* buffer.                                                                 *)
LEMMA NonePending ==
  ASSUME BatcherTypeOK, pending = <<>>
  PROVE  /\ Backlog = buffer /\ Handed = delivered \o buffer
         /\ buffer \in Seq(Row) /\ delivered \o buffer \in Seq(Row)
<1>1. buffer \in Seq(Row) /\ delivered \o buffer \in Seq(Row)
  BY ConcatProperties DEF BatcherTypeOK
<1>. QED
  BY <1>1, ConcatEmptySeq DEF Backlog, Handed

(* Add hands over one row. *)
LEMMA AddedRow ==
  ASSUME BatcherTypeOK, NEW row \in Row, Add(row)
  PROVE  /\ Len(Handed) \in Nat /\ Len(Handed') = Len(Handed) + 1
         /\ \A k \in 1..Len(Handed) : Handed'[k] = Handed[k]
         /\ Handed'[Len(Handed) + 1] = row
         /\ Len(Backlog) \in Nat /\ Len(Backlog') = Len(Backlog) + 1
         /\ \A k \in 1..Len(Backlog) : Backlog'[k] = Backlog[k]
         /\ Backlog'[Len(Backlog) + 1] = row
<1>1. /\ pending = <<>> /\ pending' = <<row>>
      /\ buffer' = buffer /\ delivered' = delivered
  BY DEF Add, Locked
<1>2. /\ Backlog = buffer /\ Handed = delivered \o buffer
      /\ buffer \in Seq(Row) /\ delivered \o buffer \in Seq(Row)
  BY <1>1, NonePending
<1>3. Backlog' = Backlog \o <<row>> /\ Handed' = Handed \o <<row>>
  BY <1>1, <1>2 DEF Backlog, Handed
<1>4. Backlog \in Seq(Row) /\ Handed \in Seq(Row)
  BY <1>2
<1>. QED
  BY <1>3, <1>4, OneMore

(* The rest of Add moves it from one place to the other. *)
LEMMA FinishAddRows ==
  ASSUME BatcherTypeOK, FinishAdd
  PROVE  Backlog' = Backlog /\ Handed' = Handed
<1>1. /\ buffer' = Backlog /\ pending' = <<>> /\ delivered' = delivered
  BY DEF FinishAdd, Backlog
<1>2. /\ delivered \in Seq(Row) /\ buffer \in Seq(Row) /\ pending \in Seq(Row)
  <2>1. pending = <<>> \/ \E row \in Row : pending = <<row>>
    BY DEF BatcherTypeOK
  <2>2. \A row \in Row : <<row>> \in Seq(Row)
    OBVIOUS
  <2>3. <<>> \in Seq(Row)
    OBVIOUS
  <2>4. pending \in Seq(Row)
    BY <2>1, <2>2, <2>3
  <2>. QED
    BY <2>4 DEF BatcherTypeOK
<1>3. Backlog \in Seq(Row) /\ delivered \o Backlog \in Seq(Row)
  BY <1>2, ConcatProperties DEF Backlog
<1>4. Backlog' = Backlog
  BY <1>1, <1>3, ConcatEmptySeq DEF Backlog
<1>5. Handed' = delivered \o Backlog
  BY <1>1, <1>3, ConcatEmptySeq DEF Handed
<1>6. Handed = delivered \o Backlog
  BY <1>2, ConcatAssociative DEF Backlog, Handed
<1>. QED
  BY <1>4, <1>5, <1>6

(* A successful request drops the committed rows, which are delivered now. *)
LEMMA BulkOkRows ==
  ASSUME BatcherInv, BulkOk
  PROVE  /\ Handed' = Handed
         /\ Len(delivered) \in Nat /\ FlushLen \in 0..Len(Backlog)
         /\ Len(delivered') = Len(delivered) + FlushLen
         /\ Len(Backlog) \in Nat /\ Len(Backlog') = Len(Backlog) - FlushLen
         /\ \A k \in 1..Len(Backlog') : Backlog'[k] = Backlog[FlushLen + k]
         /\ \A i \in 1..Len(delivered') : delivered'[i] = Handed[i]
<1>1. /\ delivered' = delivered \o Committed /\ buffer' = Uncommitted
      /\ pending' = pending
  BY DEF BulkOk
<1>2. BatcherTypeOK /\ HandedLayout
  BY HandedParts DEF BatcherInv
<1>3. delivered \in Seq(Row) /\ buffer \in Seq(Row) /\ FlushLen \in 0..Len(buffer)
  BY FlushLenRange DEF BatcherInv, BatcherTypeOK
<1>4. /\ Committed \in Seq(Row) /\ Len(Committed) = FlushLen
      /\ Uncommitted \in Seq(Row) /\ Committed \o Uncommitted = buffer
  BY <1>3, CutOfSeq DEF Committed, Uncommitted
<1>5. delivered' \o buffer' = delivered \o buffer
  <2>1. (delivered \o Committed) \o Uncommitted = delivered \o (Committed \o Uncommitted)
    <3>1. delivered \in Seq(Row) /\ Committed \in Seq(Row) /\ Uncommitted \in Seq(Row)
      BY <1>3, <1>4
    <3>. QED
      BY <3>1, ConcatAssociative
  <2>. QED
    BY <1>1, <1>4, <2>1
<1>6. Handed' = Handed
  BY <1>1, <1>5 DEF Handed
<1>7. Len(delivered') = Len(delivered) + FlushLen
  BY <1>1, <1>3, <1>4, ConcatProperties
<1>8. HandedLayout'
  BY BulkOkInv, HandedPartsNext DEF BatcherInv
<1>9. PICK handed, rest : handed = delivered' /\ rest = Backlog'
  OBVIOUS
<1>10. /\ Len(rest) \in Nat /\ Len(Handed) = Len(handed) + Len(rest)
       /\ \A i \in 1..Len(handed) : Handed[i] = handed[i]
       /\ \A k \in 1..Len(rest) : Handed[Len(handed) + k] = rest[k]
  <2>1. rest \in Seq(Row)
    BY <1>8, <1>9 DEF HandedLayout
  <2>. QED
    BY <1>6, <1>8, <1>9, <2>1, LenProperties DEF HandedLayout
<1>11. /\ Len(delivered) \in Nat /\ Len(Backlog) \in Nat
       /\ Len(Handed) = Len(delivered) + Len(Backlog) /\ FlushLen \in 0..Len(Backlog)
       /\ FlushLen \in Nat
  <2>1. /\ Len(buffer) \in Nat /\ Len(pending) \in Nat
        /\ Len(Backlog) = Len(buffer) + Len(pending)
        /\ Len(delivered) \in Nat /\ Len(Handed) = Len(delivered) + Len(Backlog)
    BY <1>2 DEF HandedLayout
  <2>. QED
    BY <1>3, <2>1
<1>12. Len(handed) = Len(delivered) + FlushLen
  BY <1>7, <1>9
<1>13. Len(rest) = Len(Backlog) - FlushLen
  BY <1>10, <1>11, <1>12
<1>14. ASSUME NEW k \in 1..Len(rest)
       PROVE  rest[k] = Backlog[FlushLen + k]
  <2>1. FlushLen + k \in 1..Len(Backlog) /\ k \in Nat
    BY <1>11, <1>13
  <2>2. Handed[Len(delivered) + (FlushLen + k)] = Backlog[FlushLen + k]
    BY <1>2, <2>1 DEF HandedLayout
  <2>3. Len(handed) + k = Len(delivered) + (FlushLen + k)
    BY <1>11, <1>12, <2>1
  <2>. QED
    BY <1>10, <2>2, <2>3
<1>. QED
  BY <1>6, <1>7, <1>9, <1>10, <1>11, <1>13, <1>14

(* A step that leaves the rows handed over and the table alone. *)
LEMMA RowsKeep ==
  ASSUME RowsInv, BatcherInv', Handed' = Handed,
         UNCHANGED <<transport, changes, table, dropped>>,
         DOMAIN docs' = Ids, \A id \in Ids : docs'[id] \in Docs(id),
         applied' \subseteq Row
  PROVE  RowsInv'
<1>1. DeliveryTypeOK'
  BY DEF RowsInv, BatcherInv, DeliveryTypeOK, Docs
<1>2. RowsHanded'
  BY DEF RowsInv, RowsHanded
<1>. QED
  BY <1>1, <1>2 DEF RowsInv

(* So does one outside the batcher's control, or of the batcher alone. *)
LEMMA OutsideKeeps ==
  ASSUME RowsInv, BatcherInv', Handed' = Handed, UNCHANGED outsideVars
  PROVE  RowsInv'
<1>1. /\ DOMAIN docs = Ids /\ \A id \in Ids : docs[id] \in Docs(id)
      /\ applied \subseteq Row
  BY DEF RowsInv, DeliveryTypeOK, Docs
<1>2. UNCHANGED <<transport, changes, table, dropped>> /\ UNCHANGED <<docs, applied>>
  BY DEF outsideVars
<1>. QED
  BY <1>1, <1>2, RowsKeep

(* A request, however it went. *)
LEMMA PerformKeeps ==
  ASSUME RowsInv, BatcherInv', Handed' = Handed,
         NEW busy, Perform(Work(Request, busy))
  PROVE  RowsInv'
<1>1. /\ DOMAIN docs' = Ids /\ \A id \in Ids : docs'[id] \in Docs(id)
  BY InvRows, WorkIsIndex DEF Perform
<1>2. applied' \subseteq Row
  <2>1. \A i \in 1..FlushLen : buffer[i] \in Row
    BY InvRows, RowForm
  <2>2. applied \subseteq Row
    BY DEF RowsInv, DeliveryTypeOK
  <2>. QED
    BY <2>1, <2>2 DEF Perform
<1>. QED
  BY <1>1, <1>2, RowsKeep DEF Perform

(* What a change does to the table, and what it hands over. *)
ChangeShape(id, new) ==
  /\ table' = [table EXCEPT ![id] = new]
  /\ Follows(new, table[id], changes + 1)
  /\ changes' = changes + 1
  /\ UNCHANGED <<transport, docs, applied>>
  /\ \/ /\ \E row \in Row : /\ Add(row)
                            /\ Describes(row, changes + 1, id, table[id], new)
        /\ dropped' = dropped
     \/ /\ dropped' = dropped \union {id}
        /\ UNCHANGED batcherVars

(* Nothing is pending when a change happens. *)
LEMMA ChangeOf ==
  ASSUME RowsInv, ChangeRow
  PROVE  /\ changes \in Nat /\ changes + 1 \in 1..MaxItems
         /\ \E id \in Ids : \E new \in TableDocs(id) : ChangeShape(id, new)
<1>1. changes \in Nat /\ changes + 1 \in 1..MaxItems
  BY DeliveryAssumption DEF RowsInv, DeliveryTypeOK, ChangeRow
<1>2. /\ changes' = changes + 1
      /\ UNCHANGED <<transport, docs, applied>>
  BY DEF ChangeRow
<1>3. PICK id \in Ids : \E change \in ChangesOf(id, changes + 1) :
              /\ table' = [table EXCEPT ![id] = change.row]
              /\ IF IsUsable(change.msg)
                 THEN /\ Add(Numbered(changes + 1, ChangeData(change.msg)))
                      /\ UNCHANGED dropped
                 ELSE /\ dropped' = dropped \union {id}
                      /\ UNCHANGED batcherVars
  BY Zenon DEF ChangeRow
<1>4. PICK change \in ChangesOf(id, changes + 1) :
             /\ table' = [table EXCEPT ![id] = change.row]
             /\ IF IsUsable(change.msg)
                THEN /\ Add(Numbered(changes + 1, ChangeData(change.msg)))
                     /\ UNCHANGED dropped
                ELSE /\ dropped' = dropped \union {id}
                     /\ UNCHANGED batcherVars
  BY <1>3
<1>5. table[id] \in TableDocs(id)
  BY DEF RowsInv, DeliveryTypeOK, TableDocs
<1> DEFINE row == Numbered(changes + 1, ChangeData(change.msg))
<1>6. Changed(change, changes + 1, id, table[id])
  BY <1>1, <1>5, ChangeForm
<1>7. /\ change.row \in TableDocs(id)
      /\ Follows(change.row, table[id], changes + 1)
      /\ IsUsable(change.msg) => Describes(row, changes + 1, id, table[id], change.row)
  BY <1>6 DEF Changed
<1>. HIDE DEF row
<1>8. CASE IsUsable(change.msg)
  <2>1. Describes(row, changes + 1, id, table[id], change.row)
    BY <1>7, <1>8
  <2>2. row \in Row
    BY <2>1, RowForm DEF Describes
  <2>3. Add(row) /\ dropped' = dropped
    BY <1>4, <1>8 DEF row
  <2>4. ChangeShape(id, change.row)
    BY <1>2, <1>4, <1>7, <2>1, <2>2, <2>3 DEF ChangeShape
  <2>. QED
    BY <1>1, <1>7, <2>4
<1>9. CASE ~IsUsable(change.msg)
  <2>1. dropped' = dropped \union {id} /\ UNCHANGED batcherVars
    BY <1>4, <1>9
  <2>2. ChangeShape(id, change.row)
    BY <1>2, <1>4, <1>7, <2>1 DEF ChangeShape
  <2>. QED
    BY <1>1, <1>7, <2>2
<1>. QED
  BY <1>8, <1>9

(* No row asks for anything newer than the last change, or the next one if *)
(* it is a delete.                                                         *)
LEMMA OldestBounded ==
  ASSUME NEW row, WellFormed(row), NEW n \in Nat, row.seq <= n, Bounded(row.body, n),
         NEW c, c # IdColumn
  PROVE  Oldest(row, c) \in Nat /\ Oldest(row, c) <= n + 1
<1>1. row.seq \in Nat
  BY RowForm, DeliveryAssumption
<1>2. CASE row.action = "delete"
  BY <1>1, <1>2 DEF Oldest
<1>3. CASE row.action # "delete" /\ c \in DOMAIN row.body
  <2>1. row.body \in Without(row.id, Toasted \union Odd) \/ row.body \in Without(row.id, Odd)
    BY <1>3, RowForm
  <2>2. row.body[c] \in 0..MaxItems
    <3>1. Odd \in SUBSET (Toasted \union Odd)
      OBVIOUS
    <3>. QED
      BY <1>3, <2>1, <3>1, DocForm
  <2>3. row.body[c] \in Nat
    BY <2>2
  <2>4. row.body[c] <= n
    BY <1>3, <2>3 DEF Bounded
  <2>. QED
    BY <1>3, <2>3, <2>4 DEF Oldest
<1>4. CASE row.action # "delete" /\ c \notin DOMAIN row.body
  BY <1>4 DEF Oldest
<1>. QED
  BY <1>2, <1>3, <1>4

(* A change of the table, which need not hand over a row. *)
LEMMA TableMoves ==
  ASSUME NEW rows, NEW tab, NEW n \in Nat, Ordered(rows, tab, n),
         NEW next, \A id \in Ids : Follows(next[id], tab[id], n + 1)
  PROVE  Ordered(rows, next, n + 1)
<1>1. ASSUME NEW id \in Ids, NEW c \in DOMAIN next[id] \ {IdColumn}, next[id][c] \in Nat
      PROVE  \/ next[id][c] = n + 1
             \/ c \in DOMAIN tab[id] /\ next[id][c] = tab[id][c]
  <2>1. next[id][c] \notin OddValues
    BY <1>1 DEF OddValues, Undecodable, Unencodable
  <2>. QED
    BY <2>1 DEF Follows
<1>2. ASSUME NEW id \in Ids
      PROVE  Bounded(next[id], n + 1)
  <2>1. SUFFICES ASSUME NEW c \in DOMAIN next[id] \ {IdColumn}, next[id][c] \in Nat
                 PROVE  next[id][c] <= n + 1
    BY DEF Bounded
  <2>2. CASE next[id][c] = n + 1
    BY <2>2
  <2>3. CASE c \in DOMAIN tab[id] /\ next[id][c] = tab[id][c]
    <3>1. tab[id][c] <= n
      BY <2>1, <2>3 DEF Ordered, Bounded
    <3>. QED
      BY <2>1, <2>3, <3>1
  <2>. QED
    BY <1>1, <2>1, <2>2, <2>3
<1>3. ASSUME NEW i \in 1..Len(rows)
      PROVE  /\ rows[i].seq <= n + 1 /\ Bounded(rows[i].body, n + 1)
             /\ NotBelow(next[rows[i].id], rows[i])
  <2> DEFINE row == rows[i]
  <2>1. /\ WellFormed(row) /\ row.seq <= n /\ Bounded(row.body, n)
        /\ NotBelow(tab[row.id], row)
    BY DEF Ordered, InOrder
  <2>2. row.seq \in Nat /\ row.id \in Ids
    BY <2>1, RowForm, DeliveryAssumption
  <2>. HIDE DEF row
  <2>3. row.seq <= n + 1
    BY <2>1, <2>2
  <2>4. Bounded(row.body, n + 1)
    <3>1. SUFFICES ASSUME NEW c \in DOMAIN row.body \ {IdColumn}, row.body[c] \in Nat
                   PROVE  row.body[c] <= n + 1
      BY DEF Bounded
    <3>2. row.body[c] <= n
      BY <2>1, <3>1 DEF Bounded
    <3>. QED
      BY <3>1, <3>2
  <2>5. NotBelow(next[row.id], row)
    <3>1. SUFFICES ASSUME NEW c \in DOMAIN next[row.id] \ {IdColumn}, next[row.id][c] \in Nat
                   PROVE  next[row.id][c] >= Oldest(row, c)
      BY DEF NotBelow
    <3>2. CASE next[row.id][c] = n + 1
      <4>1. Oldest(row, c) \in Nat /\ Oldest(row, c) <= n + 1
        BY <2>1, OldestBounded
      <4>. QED
        BY <3>2, <4>1
    <3>3. CASE c \in DOMAIN tab[row.id] /\ next[row.id][c] = tab[row.id][c]
      BY <2>1, <3>1, <3>3 DEF NotBelow
    <3>. QED
      BY <1>1, <2>2, <3>1, <3>2, <3>3
  <2>. QED
    BY <2>3, <2>4, <2>5 DEF row
<1>. QED
  BY <1>2, <1>3 DEF Ordered

(* The row of the change joins those handed over. *)
LEMMA OrderGrows ==
  ASSUME NEW rows, Len(rows) \in Nat, NEW tab, NEW n \in Nat, Ordered(rows, tab, n),
         NEW more, Len(more) = Len(rows) + 1,
         \A i \in 1..Len(rows) : more[i] = rows[i],
         NEW row, more[Len(rows) + 1] = row,
         WellFormed(row), row.seq <= n,
         row.action = "delete" => tab[row.id] = Absent,
         \A c \in DOMAIN row.body : c \in DOMAIN tab[row.id] /\ row.body[c] = tab[row.id][c]
  PROVE  Ordered(more, tab, n)
<1>1. row.id \in Ids /\ Bounded(tab[row.id], n)
  BY RowForm DEF Ordered
<1>2. Bounded(row.body, n)
  BY <1>1 DEF Bounded
<1>3. NotBelow(tab[row.id], row)
  <2>1. CASE row.action = "delete"
    <3>1. DOMAIN tab[row.id] = {}
      BY <2>1 DEF Absent, NoValues
    <3>. QED
      BY <3>1 DEF NotBelow
  <2>2. CASE row.action # "delete"
    BY <2>2 DEF NotBelow, Oldest
  <2>. QED
    BY <2>1, <2>2
<1>4. ASSUME NEW i \in 1..Len(rows)
      PROVE  /\ WellFormed(more[i]) /\ more[i].seq <= n /\ Bounded(more[i].body, n)
             /\ NotBelow(tab[more[i].id], more[i])
  BY DEF Ordered, InOrder
<1>5. \A i \in 1..Len(more) : i \in 1..Len(rows) \/ i = Len(rows) + 1
  OBVIOUS
<1>6. ASSUME NEW i \in 1..Len(more), NEW j \in 1..Len(more),
             i < j, more[i].id = more[j].id
      PROVE  NotBelow(more[j].body, more[i])
  <2>1. i \in 1..Len(rows)
    BY <1>6
  <2>2. CASE j \in 1..Len(rows)
    BY <1>6, <2>1, <2>2 DEF Ordered, InOrder
  <2>3. CASE j = Len(rows) + 1
    <3>1. more[j] = row /\ NotBelow(tab[row.id], more[i])
      BY <1>4, <1>6, <2>1, <2>3
    <3>2. NotBelow(row.body, more[i])
      BY <3>1 DEF NotBelow
    <3>. QED
      BY <3>1, <3>2
  <2>. QED
    BY <1>5, <2>2, <2>3
<1>7. ASSUME NEW i \in 1..Len(more)
      PROVE  /\ WellFormed(more[i]) /\ more[i].seq <= n /\ Bounded(more[i].body, n)
             /\ NotBelow(tab[more[i].id], more[i])
  <2>1. CASE i = Len(rows) + 1
    BY <1>2, <1>3, <2>1
  <2>. QED
    BY <1>4, <1>5, <2>1
<1>. QED
  BY <1>6, <1>7 DEF Ordered, InOrder

(* A change. *)
LEMMA ChangeKeeps ==
  ASSUME RowsInv, ChangeRow
  PROVE  RowsInv'
<1>1. PICK id \in Ids : \E new \in TableDocs(id) : ChangeShape(id, new)
  BY ChangeOf
<1>2. PICK new \in TableDocs(id) : ChangeShape(id, new)
  BY <1>1
<1>3. /\ table' = [table EXCEPT ![id] = new]
      /\ Follows(new, table[id], changes + 1)
      /\ changes' = changes + 1
      /\ UNCHANGED <<transport, docs, applied>>
      /\ \/ /\ \E row \in Row : /\ Add(row)
                                /\ Describes(row, changes + 1, id, table[id], new)
            /\ dropped' = dropped
         \/ /\ dropped' = dropped \union {id}
            /\ UNCHANGED batcherVars
  BY <1>2 DEF ChangeShape
<1>4. changes \in Nat /\ changes + 1 \in 1..MaxItems
  BY ChangeOf
<1>5. DOMAIN table = Ids /\ \A other \in Ids : table[other] \in TableDocs(other)
  BY DEF RowsInv, DeliveryTypeOK, TableDocs
<1>6. /\ DOMAIN table' = Ids /\ table'[id] = new
      /\ \A other \in Ids \ {id} : table'[other] = table[other]
  BY <1>3, <1>5
<1>7. BatcherInv'
  BY <1>3, AddInv, BatcherStutterInv DEF RowsInv
<1>8. DeliveryTypeOK'
  <2>1. \A other \in Ids : table'[other] \in TableDocs(other)
    BY <1>5, <1>6
  <2>2. changes' \in 0..MaxItems
    <3>1. changes + 1 \in 0..MaxItems
      BY <1>4
    <3>. QED
      BY <1>3, <3>1
  <2>3. dropped' \subseteq Ids
    BY <1>3 DEF RowsInv, DeliveryTypeOK
  <2>. QED
    BY <1>3, <1>6, <1>7, <2>1, <2>2, <2>3
       DEF RowsInv, BatcherInv, DeliveryTypeOK, TableDocs
<1>9. RowsHanded'
  <2>1. Ordered(Handed, table, changes)
    BY DEF RowsInv, RowsHanded
  <2>2. PICK tab : tab = table'
    OBVIOUS
  <2>3. ASSUME NEW other \in Ids
        PROVE  Follows(tab[other], table[other], changes + 1)
    <3>1. CASE other = id
      BY <1>3, <1>6, <2>2, <3>1
    <3>2. CASE other # id
      BY <1>6, <2>2, <3>2 DEF Follows
    <3>. QED
      BY <3>1, <3>2
  <2>4. Ordered(Handed, tab, changes + 1)
    BY <1>4, <2>1, <2>3, TableMoves
  <2>5. CASE UNCHANGED batcherVars
    <3>1. Handed' = Handed
      BY <2>5 DEF batcherVars, Handed
    <3>. QED
      BY <1>3, <2>2, <2>4, <3>1 DEF RowsHanded
  <2>6. CASE \E row \in Row : /\ Add(row)
                              /\ Describes(row, changes + 1, id, table[id], new)
    <3>1. PICK row \in Row : Add(row) /\ Describes(row, changes + 1, id, table[id], new)
      BY <2>6
    <3>2. PICK more : more = Handed'
      OBVIOUS
    <3>3. /\ Len(Handed) \in Nat /\ Len(more) = Len(Handed) + 1
          /\ \A k \in 1..Len(Handed) : more[k] = Handed[k]
          /\ more[Len(Handed) + 1] = row
      BY <3>1, <3>2, AddedRow DEF RowsInv, BatcherInv
    <3>4. /\ WellFormed(row) /\ row.seq = changes + 1 /\ row.id = id
          /\ row.action = "delete" => tab[row.id] = Absent
          /\ \A c \in DOMAIN row.body : /\ c \in DOMAIN tab[row.id]
                                        /\ row.body[c] = tab[row.id][c]
      BY <1>6, <2>2, <3>1 DEF Describes
    <3>5. changes + 1 \in Nat /\ row.seq <= changes + 1
      BY <1>4, <3>4
    <3>6. Ordered(more, tab, changes + 1)
      BY <2>4, <3>3, <3>4, <3>5, OrderGrows
    <3>. QED
      BY <1>3, <2>2, <3>2, <3>6 DEF RowsHanded
  <2>. QED
    BY <1>3, <2>5, <2>6
<1>. QED
  BY <1>7, <1>8, <1>9 DEF RowsInv

(* TRUNCATE, of which the batcher hears nothing. *)
LEMMA TruncateKeeps ==
  ASSUME RowsInv, TruncateTable
  PROVE  RowsInv'
<1>1. /\ table' = [id \in Ids |-> Absent]
      /\ dropped' = dropped \union {id \in Ids : table[id] # Absent}
      /\ changes' = changes + 1
      /\ UNCHANGED batcherVars /\ UNCHANGED <<transport, docs, applied>>
  BY DEF TruncateTable
<1>2. changes \in Nat /\ changes + 1 \in 0..MaxItems
  BY DeliveryAssumption DEF RowsInv, DeliveryTypeOK, TruncateTable
<1>3. BatcherInv'
  BY <1>1, BatcherStutterInv DEF RowsInv
<1>4. DeliveryTypeOK'
  BY <1>1, <1>2, <1>3 DEF RowsInv, BatcherInv, DeliveryTypeOK
<1>5. RowsHanded'
  <2>1. PICK tab : tab = table'
    OBVIOUS
  <2>2. \A id \in Ids : Follows(tab[id], table[id], changes + 1)
    BY <1>1, <2>1 DEF Follows, Absent, NoValues
  <2>3. Ordered(Handed, table, changes)
    BY DEF RowsInv, RowsHanded
  <2>4. Ordered(Handed, tab, changes + 1)
    BY <1>2, <2>2, <2>3, TableMoves
  <2>5. Handed' = Handed
    BY <1>1 DEF batcherVars, Handed
  <2>. QED
    BY <1>1, <2>1, <2>4, <2>5 DEF RowsHanded
<1>. QED
  BY <1>3, <1>4, <1>5 DEF RowsInv

(* Every step keeps the rows, whichever answers count as a success. *)
LEMMA RowsNext == RowsInv /\ [DeliveryNext]_deliveryVars => RowsInv'
<1>. SUFFICES ASSUME RowsInv, [DeliveryNext]_deliveryVars
              PROVE  RowsInv'
  OBVIOUS
<1>0. BatcherInv /\ BatcherTypeOK
  BY DEF RowsInv, BatcherInv
<1>1. ASSUME BulkFail
      PROVE  BatcherInv' /\ Handed' = Handed
  BY <1>0, <1>1, BulkFailInv DEF BulkFail, Handed
<1>2. ASSUME BulkOk
      PROVE  BatcherInv' /\ Handed' = Handed
  BY <1>0, <1>2, BulkOkInv, BulkOkRows
<1>3. ASSUME NEW busy, EngineWorks(busy)
      PROVE  RowsInv'
  <2>1. Perform(Work(Request, busy)) /\ (BulkOk \/ BulkFail)
    BY <1>3 DEF EngineWorks
  <2>. QED
    BY <1>1, <1>2, <2>1, PerformKeeps
<1>4. CASE ChangeRow
  BY <1>4, ChangeKeeps
<1>5. CASE ChangeAdded
  BY <1>0, <1>5, FinishAddInv, FinishAddRows, OutsideKeeps DEF ChangeAdded
<1>6. CASE CommitChange
  <2>1. BatcherInv'
    BY <1>0, <1>6, CommitNInv DEF CommitChange
  <2>2. Handed' = Handed
    BY <1>6 DEF CommitChange, CommitN, Handed
  <2>. QED
    BY <1>6, <2>1, <2>2, OutsideKeeps DEF CommitChange
<1>7. CASE SendBatch
  <2>1. BatcherInv' /\ Handed' = Handed
    BY <1>0, <1>7, FlushInv DEF SendBatch, Flush, Handed
  <2>. QED
    BY <1>7, <2>1, OutsideKeeps DEF SendBatch
<1>8. CASE EngineReady
  BY <1>3, <1>8 DEF EngineReady
<1>9. CASE EngineBusy
  BY <1>3, <1>9 DEF EngineBusy
<1>10. CASE EngineRefuses
  BY <1>1, <1>2, <1>10, OutsideKeeps DEF EngineRefuses
<1>11. CASE NoAnswer
  BY <1>1, <1>11, OutsideKeeps, PerformKeeps DEF NoAnswer
<1>12. CASE UNCHANGED deliveryVars
  <2>1. UNCHANGED batcherVars /\ UNCHANGED outsideVars
    BY <1>12 DEF deliveryVars, outsideVars
  <2>2. BatcherInv' /\ Handed' = Handed
    BY <1>0, <2>1, BatcherStutterInv DEF batcherVars, Handed
  <2>. QED
    BY <2>1, <2>2, OutsideKeeps
<1>13. CASE TruncateTable
  BY <1>13, TruncateKeeps
<1>. QED
  BY <1>4, <1>5, <1>6, <1>7, <1>8, <1>9, <1>10, <1>11, <1>12, <1>13 DEF DeliveryNext

(* At the start no rows are handed over, and the rows and documents that   *)
(* are there have their first values.                                      *)
LEMMA RowsInit == DeliveryInit => RowsInv
<1>. SUFFICES ASSUME DeliveryInit
              PROVE  RowsInv
  OBVIOUS
<1>1. BatcherInv
  BY BatcherInitInv DEF DeliveryInit
<1>2. DOMAIN table = Ids /\ DOMAIN docs = Ids
  BY DEF DeliveryInit
<1>3. \A id \in Ids : table[id] \in TableDocs(id) /\ docs[id] \in Docs(id)
  <2>1. \A id \in Ids : Written(id, 0) \in TableDocs(id) /\ Written(id, 0) \in Docs(id)
    BY WrittenIsRow, DeliveryAssumption DEF Docs, TableDocs
  <2>2. \A id \in Ids : Absent \in Docs(id) /\ Absent \in TableDocs(id)
    BY DEF Docs, TableDocs
  <2>. QED
    BY <2>1, <2>2 DEF DeliveryInit
<1>4. DeliveryTypeOK
  <2>1. 0 \in 0..MaxItems
    BY DeliveryAssumption
  <2>. QED
    BY <1>1, <1>2, <1>3, <2>1 DEF DeliveryTypeOK, DeliveryInit, BatcherInv, Docs, TableDocs
<1>5. RowsHanded
  <2>1. buffer = <<>> /\ delivered = <<>> /\ pending = <<>> /\ changes = 0
    BY DEF DeliveryInit, BatcherInit
  <2>2. Handed = <<>>
    BY <2>1 DEF Handed
  <2>3. ASSUME NEW id \in Ids
        PROVE  Bounded(table[id], 0)
    <3>1. table[id] = Written(id, 0) \/ table[id] = Absent
      BY DEF DeliveryInit
    <3>. QED
      BY <3>1 DEF Bounded, Written, Absent, NoValues
  <2>. QED
    BY <2>1, <2>2, <2>3 DEF RowsHanded, Ordered, InOrder
<1>. QED
  BY <1>1, <1>4, <1>5 DEF RowsInv

(* The program's data have their types throughout: the batcher holds rows  *)
(* that changes make, and a document lacks none but columns whose values   *)
(* may not be decoded, whatever partial updates without unchanged TOAST    *)
(* values were merged into it, and whatever went wrong before.             *)
THEOREM DeliveryTypeCorrect == DeliverySpec => []DeliveryTypeOK
<1>1. RowsInv => DeliveryTypeOK
  BY DEF RowsInv
<1>. QED
  BY <1>1, RowsInit, RowsNext, PTL DEF DeliverySpec

------------------------------------------------------------------------------
(* The steps preserve the mirror. *)

(* A step that changes no document and no rows. *)
LEMMA IndexStays ==
  ASSUME IndexInv, RowsInv', Handed' = Handed, Backlog' = Backlog,
         delivered' = delivered, UNCHANGED <<table, docs, dropped>>
  PROVE  IndexInv'
<1>1. WillMirror'
  BY DEF IndexInv, WillMirror, Mirrors, NotIndexed
<1>2. AllFresh'
  BY DEF IndexInv, AllFresh, Fresh
<1>. QED
  BY <1>1, <1>2 DEF IndexInv

(* A request that the batcher will repeat. *)
LEMMA FailureKeeps ==
  ASSUME IndexInv, RowsInv', BulkFail, NEW busy, Perform(Work(Request, busy))
  PROVE  IndexInv'
<1> DEFINE index == Work(Request, busy).index
<1>1. /\ docs' = index /\ table' = table /\ dropped' = dropped
      /\ delivered' = delivered /\ Backlog' = Backlog /\ Handed' = Handed
  BY DEF BulkFail, Perform, Backlog, Handed
<1>2. ASSUME NEW id \in Ids \ dropped
      PROVE  \/ Mirrors(index[id], table[id], Backlog, 0, id)
             \/ /\ NotIndexed(index[id], Backlog, id)
                /\ \A i \in 1..Len(delivered) : delivered[i].id # id
  BY WorkKeepsMirrors
<1>3. ASSUME NEW h \in 1..Len(delivered)
      PROVE  Fresh(index[delivered[h].id], Handed, h)
  BY WorkKeepsFresh
<1>. HIDE DEF index
<1>4. WillMirror'
  BY <1>1, <1>2 DEF WillMirror, Mirrors, NotIndexed
<1>5. AllFresh'
  BY <1>1, <1>3 DEF AllFresh, Fresh
<1>. QED
  BY <1>4, <1>5 DEF IndexInv

(* Failures are operations of the request. *)
LEMMA FailuresInRequest ==
  ASSUME Sendable, NEW busy
  PROVE  Work(Request, busy).failed \subseteq 1..FlushLen
<1> DEFINE P == Progress(Request, busy)
           S == {i \in Nat : P[i].failed \subseteq 1..FlushLen}
<1>0. FlushLen \in Nat
  BY DEF Sendable
<1>1. 0 \in S
  <2>1. P[0].failed = {}
    BY ProgressOf
  <2>. HIDE DEF P
  <2>. QED
    BY <2>1
<1>2. ASSUME NEW i \in 1..FlushLen, i - 1 \in S
      PROVE  i \in S
  <2>1. TakesUp(i, busy, P[i - 1], P[i])
    BY ProgressStep
  <2>. HIDE DEF P
  <2>2. P[i - 1].failed \subseteq 1..FlushLen
    BY <1>2
  <2>3. P[i].failed \subseteq 1..FlushLen
    BY <2>1, <2>2 DEF TakesUp
  <2>. QED
    BY <1>0, <2>3
<1>3. FlushLen \in S
  <2>. HIDE DEF S
  <2>1. 0..FlushLen \subseteq S
    BY <1>0, <1>1, <1>2, RangeInduction
  <2>. QED
    BY <1>0, <2>1
<1>4. P[FlushLen].failed \subseteq 1..FlushLen
  <2>. HIDE DEF P
  <2>. QED
    BY <1>3
<1>. QED
  BY <1>4, ProgressOf

(* A request that Bulk counts as a success had no failures at all. *)
LEMMA SuccessHasNoFailures ==
  ASSUME Sendable, NEW busy, BulkSucceeds(Answered(Work(Request, busy), Request))
  PROVE  Work(Request, busy).failed = {}
<1>1. FlushLen \in Nat
  BY DEF Sendable
<1>2. \A i \in 1..FlushLen : i \notin Work(Request, busy).failed
  BY <1>1, SuccessIsComplete
<1>. QED
  BY <1>2, FailuresInRequest

(* A complete request, whose rows are delivered now. *)
LEMMA SuccessKeeps ==
  ASSUME IndexInv, RowsInv', BulkOk, NEW busy, Perform(Work(Request, busy)),
         Work(Request, busy).failed = {}
  PROVE  IndexInv'
<1> DEFINE index == Work(Request, busy).index
<1>1. docs' = index /\ table' = table /\ dropped' = dropped
  BY DEF Perform
<1>2. PICK done, rest : done = delivered' /\ rest = Backlog'
  OBVIOUS
<1>3. BatcherInv /\ HandedLayout
  BY HandedParts DEF IndexInv, RowsInv, BatcherInv
<1>4. /\ Handed' = Handed
      /\ Len(delivered) \in Nat /\ FlushLen \in 0..Len(Backlog)
      /\ Len(done) = Len(delivered) + FlushLen
      /\ Len(Backlog) \in Nat /\ Len(rest) = Len(Backlog) - FlushLen
      /\ \A k \in 1..Len(rest) : rest[k] = Backlog[FlushLen + k]
      /\ \A i \in 1..Len(done) : done[i] = Handed[i]
  BY <1>2, <1>3, BulkOkRows
<1>5. ASSUME NEW id \in Ids \ dropped
      PROVE  \/ Mirrors(index[id], table[id], rest, 0, id)
             \/ /\ NotIndexed(index[id], rest, id)
                /\ \A i \in 1..Len(done) : done[i].id # id
  <2>1. CASE Mirrors(index[id], table[id], Backlog, FlushLen, id)
    <3>. HIDE DEF index
    <3>. QED
      BY <1>4, <2>1, MirrorsCut
  <2>2. CASE /\ NotIndexed(index[id], Backlog, id)
             /\ \A i \in 1..Len(delivered) : delivered[i].id # id
             /\ \A k \in 1..FlushLen : Backlog[k].id # id
    <3>1. NotIndexed(index[id], rest, id)
      <4>1. \A k \in 1..Len(rest) : /\ FlushLen + k \in 1..Len(Backlog)
                                    /\ rest[k] = Backlog[FlushLen + k]
        BY <1>4
      <4>. HIDE DEF index
      <4>. QED
        BY <2>2, <4>1 DEF NotIndexed
    <3>2. ASSUME NEW i \in 1..Len(done)
          PROVE  done[i].id # id
      <4>1. CASE i \in 1..Len(delivered)
        <5>1. done[i] = delivered[i]
          BY <1>3, <1>4, <4>1 DEF HandedLayout
        <5>. QED
          BY <2>2, <4>1, <5>1
      <4>2. CASE i \notin 1..Len(delivered)
        <5>1. PICK k \in 1..FlushLen : i = Len(delivered) + k
          <6>1. i - Len(delivered) \in 1..FlushLen /\ i = Len(delivered) + (i - Len(delivered))
            BY <1>4, <4>2
          <6>. QED
            BY <6>1
        <5>2. k \in 1..Len(Backlog)
          BY <1>4
        <5>3. Handed[i] = Backlog[k]
          BY <1>3, <5>1, <5>2 DEF HandedLayout
        <5>. QED
          BY <1>4, <2>2, <5>1, <5>3
      <4>. QED
        BY <4>1, <4>2
    <3>. QED
      BY <3>1, <3>2
  <2>. QED
    BY <2>1, <2>2, WorkMirrors
<1>6. ASSUME NEW h \in 1..Len(done)
      PROVE  Fresh(index[done[h].id], Handed, h)
  <2>1. h \in 1..Len(delivered) + FlushLen /\ done[h] = Handed[h]
    BY <1>4
  <2>2. Fresh(index[Handed[h].id], Handed, h)
    BY <2>1, WorkIsFresh
  <2>. QED
    BY <2>1, <2>2
<1>. HIDE DEF index
<1>7. WillMirror'
  BY <1>1, <1>2, <1>5 DEF WillMirror, Mirrors, NotIndexed
<1>8. AllFresh'
  BY <1>1, <1>2, <1>4, <1>6 DEF AllFresh, Fresh
<1>. QED
  BY <1>7, <1>8 DEF IndexInv

(* The row of a change joins the backlog, and its document will follow it, *)
(* unless the change is an update of a row that has no document.           *)
LEMMA ChangeMirrors ==
  ASSUME NEW rows, Len(rows) \in Nat, NEW more, Len(more) = Len(rows) + 1,
         \A k \in 1..Len(rows) : more[k] = rows[k],
         NEW row, more[Len(rows) + 1] = row, NEW old, NEW new,
         Describes(row, row.seq, row.id, old, new), NEW doc,
         Mirrors(doc, old, rows, 0, row.id) \/ NotIndexed(doc, rows, row.id)
  PROVE  \/ Mirrors(doc, new, more, 0, row.id)
         \/ ~Mirrors(doc, old, rows, 0, row.id) /\ NotIndexed(doc, more, row.id)
<1>1. \A c \in Columns : Shown(new, c) # Undecodable =>
        IF Settles(row, c) THEN Shown(row.body, c) = Shown(new, c)
                           ELSE Shown(new, c) = Shown(old, c)
  BY DEF Describes
<1>2. CASE Mirrors(doc, old, rows, 0, row.id) \/ row.action # "update"
  <2>1. \A c \in Columns : Shown(new, c) # Undecodable =>
          IF Settles(row, c)
          THEN Shown(row.body, c) = Shown(new, c)
          ELSE Shown(new, c) = Shown(old, c) /\ Mirrors(doc, old, rows, 0, row.id)
    <3>1. row.action # "update" => \A c \in Columns : Settles(row, c)
      BY DEF Settles
    <3>. QED
      BY <1>1, <1>2, <3>1
  <2>2. Mirrors(doc, new, more, 0, row.id)
    BY <1>1, <2>1, MirrorsChange
  <2>. QED
    BY <2>2
<1>3. CASE ~Mirrors(doc, old, rows, 0, row.id) /\ row.action = "update"
  <2>1. \A k \in 1..Len(more) : k \in 1..Len(rows) \/ k = Len(rows) + 1
    OBVIOUS
  <2>. QED
    BY <1>3, <2>1 DEF NotIndexed
<1>. QED
  BY <1>2, <1>3

(* It leaves the documents of other rows alone. *)
LEMMA ChangeOfOther ==
  ASSUME NEW rows, Len(rows) \in Nat, NEW more, Len(more) = Len(rows) + 1,
         \A k \in 1..Len(rows) : more[k] = rows[k],
         NEW id, more[Len(rows) + 1].id # id, NEW goal, NEW doc,
         Mirrors(doc, goal, rows, 0, id) \/ NotIndexed(doc, rows, id)
  PROVE  \/ Mirrors(doc, goal, more, 0, id)
         \/ ~Mirrors(doc, goal, rows, 0, id) /\ NotIndexed(doc, more, id)
<1>1. CASE Mirrors(doc, goal, rows, 0, id)
  <2>1. Mirrors(doc, goal, more, 0, id)
    BY <1>1, MirrorsOther
  <2>. QED
    BY <2>1
<1>2. CASE ~Mirrors(doc, goal, rows, 0, id)
  <2>1. \A k \in 1..Len(more) : k \in 1..Len(rows) \/ k = Len(rows) + 1
    OBVIOUS
  <2>. QED
    BY <1>2, <2>1 DEF NotIndexed
<1>. QED
  BY <1>1, <1>2

(* A change. *)
LEMMA ChangeKeepsIndex ==
  ASSUME IndexInv, RowsInv', ChangeRow
  PROVE  IndexInv'
<1>0. PICK id \in Ids : \E new \in TableDocs(id) : ChangeShape(id, new)
  BY ChangeOf DEF IndexInv
<1>1. PICK new \in TableDocs(id) :
             /\ table' = [table EXCEPT ![id] = new]
             /\ UNCHANGED <<docs>>
             /\ \/ /\ \E row \in Row : /\ Add(row)
                                       /\ Describes(row, changes + 1, id, table[id], new)
                   /\ dropped' = dropped
                \/ /\ dropped' = dropped \union {id}
                   /\ UNCHANGED batcherVars
  BY <1>0 DEF ChangeShape
<1>2. DOMAIN table = Ids /\ BatcherTypeOK
  BY DEF IndexInv, RowsInv, BatcherInv, DeliveryTypeOK
<1>3. table'[id] = new /\ \A other \in Ids \ {id} : table'[other] = table[other]
  BY <1>1, <1>2
<1>4. ASSUME NEW other \in Ids \ dropped
      PROVE  \/ Mirrors(docs[other], table[other], Backlog, 0, other)
             \/ /\ NotIndexed(docs[other], Backlog, other)
                /\ \A i \in 1..Len(delivered) : delivered[i].id # other
  BY DEF IndexInv, WillMirror
<1>5. CASE dropped' = dropped \union {id} /\ UNCHANGED batcherVars
  <2>1. Handed' = Handed /\ Backlog' = Backlog /\ delivered' = delivered
    BY <1>5 DEF batcherVars, Handed, Backlog
  <2>2. \A other \in Ids \ dropped' : other \in Ids \ dropped /\ table'[other] = table[other]
    BY <1>3, <1>5
  <2>3. WillMirror'
    BY <1>1, <1>4, <2>1, <2>2 DEF WillMirror, Mirrors, NotIndexed
  <2>4. AllFresh'
    BY <1>1, <2>1 DEF IndexInv, AllFresh, Fresh
  <2>. QED
    BY <2>3, <2>4 DEF IndexInv
<1>6. CASE /\ \E row \in Row : /\ Add(row)
                               /\ Describes(row, changes + 1, id, table[id], new)
           /\ dropped' = dropped
  <2>1. PICK row \in Row : Add(row) /\ Describes(row, changes + 1, id, table[id], new)
    BY <1>6
  <2>2. PICK more, handed : more = Backlog' /\ handed = Handed'
    OBVIOUS
  <2>3. /\ Len(Handed) \in Nat /\ Len(handed) = Len(Handed) + 1
        /\ \A k \in 1..Len(Handed) : handed[k] = Handed[k]
        /\ Len(Backlog) \in Nat /\ Len(more) = Len(Backlog) + 1
        /\ \A k \in 1..Len(Backlog) : more[k] = Backlog[k]
        /\ more[Len(Backlog) + 1] = row
    BY <1>2, <2>1, <2>2, AddedRow
  <2>4. delivered' = delivered
    BY <2>1 DEF Add
  <2>5. ASSUME NEW other \in Ids \ dropped
        PROVE  \/ Mirrors(docs[other], table'[other], more, 0, other)
               \/ ~Mirrors(docs[other], table[other], Backlog, 0, other)
                  /\ NotIndexed(docs[other], more, other)
    <3>1. Mirrors(docs[other], table[other], Backlog, 0, other)
          \/ NotIndexed(docs[other], Backlog, other)
      BY <1>4
    <3>2. CASE other = id
      <4>1. \/ Mirrors(docs[id], new, more, 0, id)
            \/ ~Mirrors(docs[id], table[id], Backlog, 0, id) /\ NotIndexed(docs[id], more, id)
        <5>1. row.id = id /\ Describes(row, row.seq, row.id, table[id], new)
          BY <2>1 DEF Describes
        <5>2. \/ Mirrors(docs[id], new, more, 0, row.id)
              \/ /\ ~Mirrors(docs[id], table[id], Backlog, 0, row.id)
                 /\ NotIndexed(docs[id], more, row.id)
          <6>1. /\ Len(Backlog) \in Nat /\ Len(more) = Len(Backlog) + 1
                /\ \A k \in 1..Len(Backlog) : more[k] = Backlog[k]
                /\ more[Len(Backlog) + 1] = row
            BY <2>3
          <6>2. \/ Mirrors(docs[id], table[id], Backlog, 0, row.id)
                \/ NotIndexed(docs[id], Backlog, row.id)
            BY <3>1, <3>2, <5>1
          <6>3. Describes(row, row.seq, row.id, table[id], new)
            BY <5>1
          <6>. QED
            BY <6>1, <6>2, <6>3, ChangeMirrors
        <5>. QED
          BY <5>1, <5>2
      <4>. QED
        BY <1>3, <3>2, <4>1
    <3>3. CASE other # id
      <4>1. more[Len(Backlog) + 1].id # other
        BY <2>1, <2>3, <3>3 DEF Describes
      <4>2. table'[other] = table[other]
        BY <1>3, <3>3
      <4>. QED
        BY <2>3, <3>1, <4>1, <4>2, ChangeOfOther
    <3>. QED
      BY <3>2, <3>3
  <2>6. WillMirror'
    <3>1. ASSUME NEW other \in Ids \ dropped
          PROVE  \/ Mirrors(docs[other], table'[other], more, 0, other)
                 \/ /\ NotIndexed(docs[other], more, other)
                    /\ \A i \in 1..Len(delivered) : delivered[i].id # other
      BY <1>4, <2>5
    <3>. QED
      BY <1>1, <1>6, <2>2, <2>4, <3>1 DEF WillMirror, Mirrors, NotIndexed
  <2>7. ASSUME NEW i \in 1..Len(delivered)
        PROVE  Fresh(docs[delivered[i].id], handed, i)
    <3>1. i \in 1..Len(Handed)
      BY InvRows DEF IndexInv
    <3>2. Fresh(docs[delivered[i].id], Handed, i)
      BY DEF IndexInv, AllFresh
    <3>3. Len(handed) \in Nat /\ Len(Handed) <= Len(handed)
      BY <2>3
    <3>. QED
      BY <2>3, <3>1, <3>2, <3>3, FreshMore
  <2>8. AllFresh'
    BY <1>1, <2>2, <2>4, <2>7 DEF AllFresh, Fresh
  <2>. QED
    BY <2>6, <2>8 DEF IndexInv
<1>. QED
  BY <1>1, <1>5, <1>6

(* TRUNCATE: the rows that it takes away have a dropped change now, the    *)
(* others were not there.                                                  *)
LEMMA TruncateKeepsIndex ==
  ASSUME IndexInv, RowsInv', TruncateTable
  PROVE  IndexInv'
<1>1. /\ table' = [id \in Ids |-> Absent]
      /\ dropped' = dropped \union {id \in Ids : table[id] # Absent}
      /\ UNCHANGED batcherVars /\ UNCHANGED docs
  BY DEF TruncateTable
<1>2. Handed' = Handed /\ Backlog' = Backlog /\ delivered' = delivered
  BY <1>1 DEF batcherVars, Handed, Backlog
<1>3. \A id \in Ids \ dropped' : id \in Ids \ dropped /\ table'[id] = table[id]
  BY <1>1
<1>4. ASSUME NEW id \in Ids \ dropped
      PROVE  \/ Mirrors(docs[id], table[id], Backlog, 0, id)
             \/ /\ NotIndexed(docs[id], Backlog, id)
                /\ \A i \in 1..Len(delivered) : delivered[i].id # id
  BY DEF IndexInv, WillMirror
<1>5. WillMirror'
  BY <1>1, <1>2, <1>3, <1>4 DEF WillMirror, Mirrors, NotIndexed
<1>6. AllFresh'
  BY <1>1, <1>2 DEF IndexInv, AllFresh, Fresh
<1>. QED
  BY <1>5, <1>6 DEF IndexInv

(* A request that the engine works on. *)
LEMMA EngineKeepsIndex ==
  ASSUME IndexInv, RowsInv', NEW busy, EngineWorks(busy)
  PROVE  IndexInv'
<1>1. /\ Perform(Work(Request, busy))
      /\ IF BulkSucceeds(Answered(Work(Request, busy), Request)) THEN BulkOk ELSE BulkFail
  BY DEF EngineWorks
<1>2. Sendable
  BY InvRows DEF IndexInv
<1>3. CASE BulkSucceeds(Answered(Work(Request, busy), Request))
  BY <1>1, <1>2, <1>3, SuccessHasNoFailures, SuccessKeeps
<1>4. CASE ~BulkSucceeds(Answered(Work(Request, busy), Request))
  BY <1>1, <1>4, FailureKeeps
<1>. QED
  BY <1>3, <1>4

(* Every step preserves the invariant, unless a refused request counts as  *)
(* a success.                                                              *)
LEMMA IndexNext ==
  ASSUME Refusing \subseteq {"grpc"}
  PROVE  IndexInv /\ [DeliveryNext]_deliveryVars => IndexInv'
<1>. SUFFICES ASSUME IndexInv, [DeliveryNext]_deliveryVars
              PROVE  IndexInv'
  OBVIOUS
<1>0. RowsInv' /\ BatcherTypeOK
  BY RowsNext DEF IndexInv, RowsInv, BatcherInv
<1>1. ASSUME BulkFail, UNCHANGED outsideVars
      PROVE  IndexInv'
  BY <1>0, <1>1, IndexStays DEF BulkFail, Handed, Backlog, outsideVars
<1>2. CASE ChangeRow
  BY <1>0, <1>2, ChangeKeepsIndex
<1>3. CASE ChangeAdded
  <2>1. Handed' = Handed /\ Backlog' = Backlog /\ delivered' = delivered
    BY <1>0, <1>3, FinishAddRows DEF ChangeAdded, FinishAdd
  <2>. QED
    BY <1>0, <1>3, <2>1, IndexStays DEF ChangeAdded, outsideVars
<1>4. CASE CommitChange
  BY <1>0, <1>4, IndexStays DEF CommitChange, CommitN, Handed, Backlog, outsideVars
<1>5. CASE SendBatch
  BY <1>0, <1>5, IndexStays DEF SendBatch, Flush, Handed, Backlog, outsideVars
<1>6. CASE EngineReady
  BY <1>0, <1>6, EngineKeepsIndex DEF EngineReady
<1>7. CASE EngineBusy
  BY <1>0, <1>7, EngineKeepsIndex DEF EngineBusy
<1>8. CASE EngineRefuses
  <2>1. transport = "grpc"
    BY <1>8 DEF EngineRefuses
  <2>2. ~BulkSucceeds(Refused)
    BY <2>1 DEF BulkSucceeds, BulkGRPCSucceeds, Refused
  <2>. QED
    BY <1>1, <1>8, <2>2 DEF EngineRefuses
<1>9. CASE NoAnswer
  BY <1>0, <1>1, <1>9, FailureKeeps DEF NoAnswer
<1>10. CASE UNCHANGED deliveryVars
  BY <1>0, <1>10, IndexStays DEF deliveryVars, batcherVars, Handed, Backlog
<1>11. CASE TruncateTable
  BY <1>0, <1>11, TruncateKeepsIndex
<1>. QED
  BY <1>2, <1>3, <1>4, <1>5, <1>6, <1>7, <1>8, <1>9, <1>10, <1>11 DEF DeliveryNext

(* At the start the document of a row is the row, or there is none.        *)
LEMMA IndexInit == DeliveryInit => IndexInv
<1>. SUFFICES ASSUME DeliveryInit
              PROVE  IndexInv
  OBVIOUS
<1>1. RowsInv
  BY RowsInit
<1>2. buffer = <<>> /\ delivered = <<>> /\ pending = <<>>
  BY DEF DeliveryInit, BatcherInit
<1>3. Backlog = <<>> /\ Len(Backlog) = 0 /\ Len(delivered) = 0
  BY <1>2 DEF Backlog
<1>4. ASSUME NEW id \in Ids
      PROVE  \/ Mirrors(docs[id], table[id], Backlog, 0, id)
             \/ NotIndexed(docs[id], Backlog, id)
  <2>1. docs[id] = table[id] \/ (docs[id] = Absent /\ id \in Unindexed)
    BY DEF DeliveryInit
  <2>2. CASE docs[id] = table[id]
    <3>1. \A k \in 0 + 1..Len(Backlog) : FALSE
      BY <1>3
    <3>. QED
      BY <2>2, <3>1 DEF Mirrors
  <2>3. CASE docs[id] = Absent /\ id \in Unindexed
    BY <1>3, <2>3 DEF NotIndexed
  <2>. QED
    BY <2>1, <2>2, <2>3
<1>5. WillMirror
  BY <1>3, <1>4 DEF WillMirror
<1>6. AllFresh
  BY <1>3 DEF AllFresh
<1>. QED
  BY <1>1, <1>5, <1>6 DEF IndexInv

------------------------------------------------------------------------------
(* What the invariant promises. *)

(* Every row of the table without a dropped change is mirrored, or will be *)
(* by the rows the batcher still has, or has never had a document; and     *)
(* every delivered row is still to be seen in the index.                   *)
THEOREM IndexInvariant ==
  ASSUME Refusing \subseteq {"grpc"}
  PROVE  DeliverySpec => []IndexInv
<1>1. IndexInv /\ [DeliveryNext]_deliveryVars => IndexInv'
  BY IndexNext
<1>. QED
  BY <1>1, IndexInit, PTL DEF DeliverySpec

(* Sending a batch again after a failure of a part or of all of it never   *)
(* takes a document back behind the delivered changes: no column shows     *)
(* anything older than the last delivered change sent of it, and none that *)
(* was sent is missing without a later delete or insert.  Columns whose    *)
(* values cannot be decoded are not sent.                                  *)
THEOREM DocumentsNotStale ==
  ASSUME Refusing \subseteq {"grpc"}
  PROVE  DeliverySpec => []NoStaleDocument
<1>1. ASSUME IndexInv
      PROVE  NoStaleDocument
  <2>1. SUFFICES ASSUME NEW i \in 1..Len(delivered)
                 PROVE  LET row == delivered[i]
                            doc == docs[row.id]
                        IN  /\ \A c \in DOMAIN doc \ {IdColumn} : doc[c] >= Oldest(row, c)
                            /\ \/ row.action = "delete"
                               \/ DOMAIN row.body \subseteq DOMAIN doc
                               \/ \E j \in i + 1..Len(Handed) :
                                     Handed[j].id = row.id /\ Handed[j].action # "update"
    BY DEF NoStaleDocument
  <2>2. Handed[i] = delivered[i] /\ Handed[i].id \in Ids
    BY <1>1, HandedParts, InvRows DEF IndexInv, RowsInv, BatcherInv, HandedLayout
  <2>3. Fresh(docs[delivered[i].id], Handed, i)
    BY <1>1 DEF IndexInv, AllFresh
  <2>4. docs[delivered[i].id] \in Docs(delivered[i].id)
    BY <1>1, <2>2 DEF IndexInv, RowsInv, DeliveryTypeOK, Docs
  <2>5. \A c \in DOMAIN docs[delivered[i].id] \ {IdColumn} : docs[delivered[i].id][c] \in Nat
    <3>1. CASE docs[delivered[i].id] = Absent
      <4>1. DOMAIN Absent = {}
        BY DEF Absent, NoValues
      <4>. QED
        BY <3>1, <4>1
    <3>2. CASE docs[delivered[i].id] \in Without(delivered[i].id, Odd)
      <4>1. \A c \in DOMAIN docs[delivered[i].id] \ {IdColumn} :
              docs[delivered[i].id][c] \in 0..MaxItems
        BY <3>2, DocForm
      <4>. QED
        BY <4>1
    <3>. QED
      BY <2>4, <3>1, <3>2 DEF Docs
  <2>. QED
    BY <2>2, <2>3, <2>5 DEF Fresh, NotBelow
<1>. QED
  BY <1>1, IndexInvariant, PTL

(* Once the changes of a row are delivered, its document is there if the   *)
(* row is, and has every value of it that can be decoded, although updates *)
(* come as partial documents without the unchanged TOAST values, and       *)
(* requests may have been repeated after any part of them was carried out; *)
(* rows with a dropped change are excepted.                                *)
THEOREM DocumentsMirrorRows ==
  ASSUME Refusing \subseteq {"grpc"}
  PROVE  DeliverySpec => []DocumentMirrorsRow
<1>1. ASSUME IndexInv
      PROVE  DocumentMirrorsRow
  <2>1. SUFFICES ASSUME NEW id \in Ids \ dropped,
                        \E i \in 1..Len(delivered) : delivered[i].id = id,
                        \A k \in 1..Len(Backlog) : Backlog[k].id # id
                 PROVE  /\ docs[id] = Absent <=> table[id] = Absent
                        /\ \A c \in DOMAIN table[id] :
                             table[id][c] # Undecodable =>
                               c \in DOMAIN docs[id] /\ docs[id][c] = table[id][c]
    BY DEF DocumentMirrorsRow, Backlog
  <2>2. Mirrors(docs[id], table[id], Backlog, 0, id)
    BY <1>1, <2>1 DEF IndexInv, WillMirror
  <2>3. docs[id] \in Docs(id) /\ table[id] \in TableDocs(id)
    BY <1>1 DEF IndexInv, RowsInv, DeliveryTypeOK, Docs, TableDocs
  <2>. QED
    BY <2>1, <2>2, <2>3, MirrorsDone
<1>. QED
  BY <1>1, IndexInvariant, PTL
==============================================================================
