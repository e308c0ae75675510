------------------------ MODULE OutboxPublisherProofs ------------------------
(***************************************************************************)
(* The publisher keeps what OutboxChannel promises, for any number of      *)
(* publishers, cases and rows, any batch limit and any number of troubles: *)
(* what it marks was handed over, repetitions have a trouble each, and no  *)
(* row is passed by; and what a consumer therefore sees of a case.         *)
(***************************************************************************)
EXTENDS OutboxPublisher, TLAPS, FiniteSetTheorems

(* What is in the variables. *)
RowTypes ==
  /\ deployed \in Deployments
  /\ Rows \subseteq RowId /\ \A i \in Rows : caseOf[i] \in CaseId
  /\ drawn \in [CaseId -> RowId \cup {NoId}]
  /\ nextId \in 1..(MaxRows + 1)

PublisherTypes ==
  /\ pc \in [Publisher -> PC]
  /\ batch \in [Publisher -> Seq(RowId)] /\ handed \in [Publisher -> Nat]
  /\ buffer \in [Publisher -> Seq(RowId)] /\ bus \in Seq(RowId)
  /\ cancelled \subseteq Publisher
  /\ troubles \in 0..deployed.maxTroubles

Types == RowTypes /\ PublisherTypes

(* Ids are drawn once, and for a case after every row of the case. *)
IdsDrawn ==
  /\ \A i \in Rows : i < nextId
  /\ \A c \in CaseId : drawn[c] # NoId =>
       /\ drawn[c] < nextId /\ drawn[c] \notin Rows
       /\ \A i \in Rows : caseOf[i] = c => i < drawn[c]
       /\ \A d \in CaseId \ {c} : drawn[d] # drawn[c]

(* Only rows travel. *)
OnlyRows == marked \cup Locked \cup Delivered \cup InBuffers \cup lost \subseteq Rows

(* Where a publisher is in its transaction.  One that was stopped or died had its
   trouble, and one that is not deployed does nothing. *)
Progress(p) ==
  /\ handed[p] \in 0..Len(batch[p])
  /\ pc[p] \notin {"publish", "mark", "commit"} => batch[p] = <<>>
  /\ pc[p] = "publish" => handed[p] < Len(batch[p])
  /\ pc[p] \in {"mark", "commit"} => handed[p] = Len(batch[p])
  /\ p \in cancelled => troubles > 0
  /\ p \notin deployed.publishers => batch[p] = <<>> /\ buffer[p] = <<>>

(* The row locks: a batch has unpublished rows of its own, in ascending order. *)
BatchLocked(p) ==
  /\ \A m, n \in DOMAIN batch[p] : m < n => batch[p][m] < batch[p][n]
  /\ ToSet(batch[p]) \cap marked = {}
  /\ \A q \in Publisher \ {p} : ToSet(batch[p]) \cap ToSet(batch[q]) = {}

Sent == Delivered \cup InBuffers \cup lost
HandedRows(p) == {batch[p][n] : n \in 1..handed[p]}

HandedWasSent == \A p \in Publisher : HandedRows(p) \subseteq Sent

LossIsTrouble == troubles = 0 => lost = {}

(* The copies of a row on the bus and in the buffers. *)
Places(i) == {x \in Publisher \X Nat : x[2] \in DOMAIN buffer[x[1]] /\ buffer[x[1]][x[2]] = i}
Copies(i) == Times(bus, i) + Cardinality(Places(i))

Taken(i) == i \in marked \/ \E p \in Publisher : i \in HandedRows(p)
Doomed(i) == \E p \in cancelled : i \in ToSet(batch[p])

(* A row that waits in the table may come once more, so every copy of it had a
   trouble of its own; a publisher that was stopped has used its trouble up. *)
CopiesExplained(i) ==
  /\ IsFiniteSet(Places(i))
  /\ Copies(i) + (IF Doomed(i) THEN 1 ELSE 0) <= troubles + (IF Taken(i) THEN 1 ELSE 0)

Earlier(i) == {k \in Rows : k < i /\ caseOf[k] = caseOf[i]}

(* While nothing fails, what goes before a row on its way is on its way too. *)
NonePassed == troubles = 0 => \A j \in Delivered \cup InHand : Earlier(j) \subseteq Delivered \cup InHand

(* A publisher that runs alone has the rows of a case in their order, in its buffer
   and in its batch. *)
Alone == Cardinality(deployed.publishers) = 1

InOrder(p) ==
  Alone /\ p \in deployed.publishers =>
    /\ \A n \in DOMAIN buffer[p] :
         Earlier(buffer[p][n]) \subseteq Delivered \cup lost \cup {buffer[p][m] : m \in 1..(n - 1)}
    /\ \A n \in DOMAIN batch[p] :
         Earlier(batch[p][n]) \subseteq Sent \cup {batch[p][m] : m \in 1..(n - 1)}

Inv ==
  /\ Types /\ IdsDrawn /\ OnlyRows
  /\ \A p \in Publisher : Progress(p) /\ BatchLocked(p)
  /\ marked \subseteq Sent /\ HandedWasSent /\ LossIsTrouble
  /\ \A i \in RowId : CopiesExplained(i)
  /\ NonePassed
  /\ \A p \in Publisher : InOrder(p)

-----------------------------------------------------------------------------
(* The listing: the free rows, smallest id first, up to the limit. *)

Position(ids, i) == Cardinality({k \in ids : k <= i})

LEMMA PositionType ==
  ASSUME NEW ids \in SUBSET Nat, IsFiniteSet(ids), NEW i \in ids
  PROVE  Position(ids, i) \in 1..Cardinality(ids)
<1> DEFINE upTo == {k \in ids : k <= i}
<1>1. IsFiniteSet(upTo) /\ Cardinality(upTo) <= Cardinality(ids)
  BY FS_Subset
<1>2. Cardinality(upTo) # 0
  <2>1. i \in upTo
    OBVIOUS
  <2> QED
    BY <1>1, <2>1, FS_EmptySet
<1>3. Cardinality(upTo) \in Nat /\ Cardinality(ids) \in Nat
  BY <1>1, FS_CardinalityType
<1> QED
  BY <1>1, <1>2, <1>3 DEF Position

LEMMA PositionGrows ==
  ASSUME NEW ids \in SUBSET Nat, IsFiniteSet(ids), NEW i \in ids, NEW j \in ids, i < j
  PROVE  Position(ids, i) < Position(ids, j)
<1> DEFINE upTo(n) == {k \in ids : k <= n}
<1>0. i \in Nat /\ j \in Nat /\ \A k \in ids : k \in Nat
  OBVIOUS
<1>1. IsFiniteSet(upTo(j)) /\ upTo(i) \subseteq upTo(j) /\ upTo(i) # upTo(j)
  <2>1. upTo(j) \in SUBSET ids
    OBVIOUS
  <2>2. IsFiniteSet(upTo(j))
    BY <2>1, FS_Subset
  <2>3. upTo(i) \subseteq upTo(j)
    <3>1. \A k \in ids : k <= i => k <= j
      BY <1>0
    <3> QED
      BY <3>1
  <2>4. j \in upTo(j) /\ j \notin upTo(i)
    BY <1>0
  <2> QED
    BY <2>2, <2>3, <2>4
<1>2. IsFiniteSet(upTo(i)) /\ Cardinality(upTo(i)) <= Cardinality(upTo(j))
      /\ Cardinality(upTo(i)) # Cardinality(upTo(j))
  BY <1>1, FS_Subset
<1>3. Cardinality(upTo(i)) \in Nat /\ Cardinality(upTo(j)) \in Nat
  BY <1>1, <1>2, FS_CardinalityType
<1> QED
  BY <1>2, <1>3 DEF Position

(* Every position is taken: as many ids as positions, and no two on one. *)
LEMMA PositionTaken ==
  ASSUME NEW ids \in SUBSET Nat, IsFiniteSet(ids), NEW n \in 1..Cardinality(ids)
  PROVE  \E i \in ids : Position(ids, i) = n
<1> DEFINE all == 1..Cardinality(ids)
           f == [i \in ids |-> Position(ids, i)]
<1>1. Cardinality(ids) \in Nat
  BY FS_CardinalityType
<1>2. IsFiniteSet(all) /\ Cardinality(all) = Cardinality(ids)
  BY <1>1, FS_Interval
<1>3. f \in [ids -> all]
  BY PositionType
<1>4. \A i, j \in ids : f[i] = f[j] => i = j
  <2> SUFFICES ASSUME NEW i \in ids, NEW j \in ids, f[i] = f[j], i # j PROVE FALSE
    OBVIOUS
  <2>1. f[i] \in Nat /\ f[j] \in Nat
    BY <1>1, <1>3
  <2>2. CASE i < j
    BY <2>1, <2>2, PositionGrows
  <2>3. CASE j < i
    BY <2>1, <2>3, PositionGrows
  <2> QED
    BY <2>2, <2>3
<1>5. f \in Injection(ids, all)
  BY <1>3, <1>4 DEF Injection, IsInjective
<1>6. f \in Surjection(ids, all)
  BY <1>2, <1>5, FS_Injection
<1> QED
  BY <1>6 DEF Surjection

LEMMA AscendingIs ==
  ASSUME NEW ids \in SUBSET Nat, IsFiniteSet(ids)
  PROVE  LET s == Ascending(ids) IN
         /\ s \in Seq(ids) /\ Len(s) = Cardinality(ids)
         /\ \A m, n \in 1..Len(s) : m < n => s[m] < s[n]
         /\ \A i \in ids : \E n \in 1..Len(s) : s[n] = i
<1> DEFINE s == Ascending(ids)
           all == 1..Cardinality(ids)
<1>1. Cardinality(ids) \in Nat
  BY FS_CardinalityType
<1>2. \A n \in all : s[n] \in ids /\ Position(ids, s[n]) = n
  BY PositionTaken DEF Ascending, Position
<1>3. s = [n \in all |-> s[n]]
  BY DEF Ascending
<1> HIDE DEF s
<1>4. s \in [all -> ids]
  BY <1>2, <1>3
<1>5. s \in Seq(ids) /\ Len(s) = Cardinality(ids)
  BY <1>1, <1>4
<1>6. ASSUME NEW m \in all, NEW n \in all, m < n PROVE s[m] < s[n]
  <2>1. /\ s[m] \in ids /\ s[n] \in ids /\ m \in Nat /\ n \in Nat
        /\ Position(ids, s[m]) = m /\ Position(ids, s[n]) = n
    BY <1>1, <1>2, <1>6
  <2>2. CASE s[n] < s[m]
    <3>1. Position(ids, s[n]) < Position(ids, s[m])
      BY <2>1, <2>2, PositionGrows
    <3> QED
      BY <1>6, <2>1, <3>1
  <2>3. s[m] # s[n]
    BY <1>6, <2>1
  <2>4. s[m] \in Nat /\ s[n] \in Nat
    BY <2>1
  <2> QED
    BY <2>2, <2>3, <2>4
<1>7. ASSUME NEW i \in ids PROVE \E n \in all : s[n] = i
  <2>1. Position(ids, i) \in all
    BY PositionType
  <2> PICK n : n = Position(ids, i)
    OBVIOUS
  <2>2. s[n] \in ids /\ Position(ids, s[n]) = n
    BY <1>2, <2>1
  <2>3. n \in Nat /\ s[n] \in Nat /\ i \in Nat
    <3>1. s[n] \in Nat /\ i \in Nat
      BY <2>2
    <3> QED
      BY <1>1, <2>1, <3>1
  <2>4. CASE s[n] < i
    <3>1. Position(ids, s[n]) < Position(ids, i)
      BY <2>2, <2>4, PositionGrows
    <3> QED
      BY <2>2, <2>3, <3>1
  <2>5. CASE i < s[n]
    <3>1. Position(ids, i) < Position(ids, s[n])
      BY <2>2, <2>5, PositionGrows
    <3> QED
      BY <2>2, <2>3, <3>1
  <2> QED
    BY <2>1, <2>3, <2>4, <2>5
<1> QED
  BY <1>5, <1>6, <1>7 DEF s

Free == (Rows \ marked) \ Locked

(* The listing starts with the smallest free row and leaves none out before its end. *)
LEMMA UnpublishedIs ==
  ASSUME Types
  PROVE  /\ Unpublished \in Seq(RowId)
         /\ \A n \in DOMAIN Unpublished : Unpublished[n] \in Free
         /\ \A m, n \in DOMAIN Unpublished : m < n => Unpublished[m] < Unpublished[n]
         /\ \A n \in DOMAIN Unpublished : \A k \in Free :
              k < Unpublished[n] => \E m \in 1..(n - 1) : Unpublished[m] = k
<1> PICK s : s = Ascending(Free)
  OBVIOUS
<1> DEFINE top == IF Len(s) < BatchLimit THEN Len(s) ELSE BatchLimit
<1>1. Free \subseteq RowId /\ Free \subseteq Nat /\ IsFiniteSet(RowId)
  <2>1. MaxRows \in Nat
    BY WritersAssumption DEF WritersAssumption
  <2>2. IsFiniteSet(RowId) /\ RowId \subseteq Nat
    BY <2>1, FS_Interval DEF RowId
  <2> QED
    BY <2>2 DEF Types, RowTypes, PublisherTypes, Free
<1>2. IsFiniteSet(Free)
  BY <1>1, FS_Subset
<1>3. /\ s \in Seq(Free) /\ Len(s) \in Nat
      /\ \A m, n \in 1..Len(s) : m < n => s[m] < s[n]
      /\ \A i \in Free : \E n \in 1..Len(s) : s[n] = i
  BY <1>1, <1>2, AscendingIs
<1>4. top \in 0..Len(s)
  BY <1>3, PublisherAssumption
<1>5. Unpublished = SubSeq(s, 1, top)
  BY DEF Unpublished, Free
<1>6. /\ Unpublished \in Seq(Free) /\ DOMAIN Unpublished = 1..top
      /\ \A n \in 1..top : Unpublished[n] = s[n]
  BY <1>3, <1>4, <1>5
<1> HIDE DEF top
<1>9. top \in Nat /\ \A n \in 1..top : n \in 1..Len(s)
  BY <1>3, <1>4
<1>10. \A n \in 1..top : Unpublished[n] = s[n] /\ s[n] \in Free
  BY <1>3, <1>6, <1>9
<1>7. Unpublished \in Seq(RowId)
  <2>1. top \in Nat /\ \A n \in 1..top : Unpublished[n] \in RowId
    BY <1>1, <1>9, <1>10
  <2>2. Unpublished = [n \in 1..top |-> Unpublished[n]]
    BY <1>6
  <2> QED
    BY <2>1, <2>2
<1>8. ASSUME NEW n \in 1..top, NEW k \in Free, k < s[n]
      PROVE  \E m \in 1..(n - 1) : s[m] = k /\ m \in 1..top
  <2>1. PICK m \in 1..Len(s) : s[m] = k
    BY <1>3
  <2>2. n \in 1..Len(s)
    BY <1>3, <1>4
  <2>4. s[m] \in Free /\ s[n] \in Free
    BY <1>3, <2>2
  <2>5. s[m] \in Nat /\ s[n] \in Nat
    BY <1>1, <2>4
  <2>3. m < n
    BY <1>3, <1>8, <2>1, <2>2, <2>5
  <2> QED
    BY <1>4, <2>1, <2>2, <2>3
<1>11. \A m, n \in 1..top : m < n => s[m] < s[n]
  BY <1>3, <1>9
<1>12. ASSUME NEW n \in 1..top, NEW k \in Free, k < Unpublished[n]
       PROVE  \E m \in 1..(n - 1) : Unpublished[m] = k
  BY <1>8, <1>10, <1>12
<1>13. DOMAIN Unpublished = 1..top
  BY <1>6
<1> QED
  BY <1>7, <1>10, <1>11, <1>12, <1>13

-----------------------------------------------------------------------------
(* Types, and where each publisher is. *)

LEMMA Deployed == Types => deployed.publishers \subseteq Publisher /\ deployed.cases \subseteq CaseId
                           /\ deployed.maxTroubles \in Nat
BY PublisherAssumption DEF Types, RowTypes, PublisherTypes

(* A publisher is not disturbed by the steps of another. *)
LEMMA ProgressKept ==
  ASSUME NEW q \in Publisher, Progress(q), troubles \in Nat, troubles' \in {troubles, troubles + 1},
         batch'[q] = batch[q], handed'[q] = handed[q], pc'[q] = pc[q], buffer'[q] = buffer[q],
         deployed' = deployed, q \in cancelled' => q \in cancelled
  PROVE  Progress(q)'
BY DEF Progress

LEMMA InitInv == Init => Inv
<1> SUFFICES ASSUME Init PROVE Inv
  OBVIOUS
<1>1. /\ Rows = {} /\ drawn = [c \in CaseId |-> NoId] /\ nextId = 1 /\ deployed \in Deployments
      /\ marked = {} /\ pc = [p \in Publisher |-> "idle"]
      /\ batch = [p \in Publisher |-> <<>>] /\ handed = [p \in Publisher |-> 0]
      /\ cancelled = {} /\ buffer = [p \in Publisher |-> <<>>]
      /\ bus = <<>> /\ lost = {} /\ troubles = 0
  BY DEF Init, InitWriters, Rows
<1>2. Types
  <2>1. 0 \in 0..deployed.maxTroubles /\ 1 \in 1..(MaxRows + 1)
    BY <1>1, PublisherAssumption, WritersAssumption
  <2> QED
    BY <1>1, <2>1 DEF Types, RowTypes, PublisherTypes, PC
<1>3. IdsDrawn /\ \A p \in Publisher : Progress(p) /\ BatchLocked(p) /\ HandedRows(p) = {}
  BY <1>1 DEF IdsDrawn, Progress, BatchLocked, ToSet, HandedRows
<1>4. Locked = {} /\ Delivered = {} /\ InBuffers = {} /\ InHand = {}
  BY <1>1 DEF Locked, Delivered, InBuffers, InHand, ToSet
<1>5. ASSUME NEW i \in RowId PROVE CopiesExplained(i)
  <2>1. Places(i) = {} /\ {n \in DOMAIN bus : bus[n] = i} = {}
    BY <1>1 DEF Places
  <2>2. IsFiniteSet(Places(i)) /\ Cardinality(Places(i)) = 0 /\ Times(bus, i) = 0
    BY <2>1, FS_EmptySet DEF Times
  <2>3. ~Doomed(i)
    BY <1>1 DEF Doomed
  <2> QED
    BY <1>1, <2>2, <2>3 DEF CopiesExplained, Copies
<1>6. \A p \in Publisher : InOrder(p)
  BY <1>1 DEF InOrder
<1> QED
  BY <1>1, <1>2, <1>3, <1>4, <1>5, <1>6 DEF Inv, OnlyRows, HandedWasSent, LossIsTrouble, NonePassed

(* What writers do to the rows. *)
LEMMA WritersTypes ==
  ASSUME Inv, Writers
  PROVE  /\ Types' /\ \A p \in Publisher : Progress(p)'
<1> Types
  BY DEF Inv
<1>1. UNCHANGED <<deployed, marked, pc, batch, handed, cancelled, buffer, bus, lost, troubles>>
  BY DEF Writers, nats
<1>2. \A p \in Publisher : Progress(p)'
  BY <1>1 DEF Inv, Progress
<1>3. /\ Rows' \subseteq RowId /\ \A i \in Rows' : caseOf'[i] \in CaseId
      /\ drawn' \in [CaseId -> RowId \cup {NoId}]
      /\ nextId' \in 1..(MaxRows + 1)
  <2>1. ASSUME NEW c \in CaseId, InsertOutbox(c)
        PROVE  drawn' \in [CaseId -> RowId \cup {NoId}] /\ nextId' \in 1..(MaxRows + 1)
               /\ caseOf' = caseOf
    BY <2>1, WritersAssumption DEF InsertOutbox, Types, RowTypes, PublisherTypes, RowId
  <2>2. ASSUME NEW c \in CaseId, WriterEnds(c)
        PROVE  drawn' \in [CaseId -> RowId \cup {NoId}] /\ nextId' = nextId
    BY <2>2 DEF WriterEnds, Types, RowTypes, PublisherTypes
  <2>3. ASSUME NEW c \in CaseId, WriterCommits(c)
        PROVE  Rows' \subseteq RowId /\ \A i \in Rows' : caseOf'[i] \in CaseId
    <3>1. drawn[c] \in RowId
      BY <2>3 DEF WriterCommits, WriterEnds, Types, RowTypes, PublisherTypes
    <3>2. caseOf' = [i \in Rows \cup {drawn[c]} |-> IF i \in Rows THEN caseOf[i] ELSE c]
      BY <2>3 DEF WriterCommits
    <3> QED
      BY <3>1, <3>2 DEF Types, RowTypes, PublisherTypes, Rows
  <2>4. ASSUME WritersDie
        PROVE  drawn' \in [CaseId -> RowId \cup {NoId}] /\ nextId' = nextId /\ caseOf' = caseOf
    BY <2>4 DEF WritersDie
  <2>5. PICK c \in CaseId : Write(c) \/ WritersDie
    BY Deployed DEF Writers, WritersDie
  <2> QED
    BY <2>1, <2>2, <2>3, <2>4, <2>5 DEF Write, WriterCommits, WriterRollsBack, Types, RowTypes, PublisherTypes, Rows
<1> QED
  BY <1>1, <1>2, <1>3 DEF Types, RowTypes, PublisherTypes

-----------------------------------------------------------------------------
(* What a publisher's step does.  It lists, hands a row over or sends one, or it is
   calm: its transaction goes on or ends, its buffer is kept or lost. *)

Others(p) ==
  \A q \in Publisher \ {p} :
    batch'[q] = batch[q] /\ handed'[q] = handed[q] /\ buffer'[q] = buffer[q] /\ pc'[q] = pc[q]

KeepsBatch(p) == batch'[p] = batch[p] /\ handed'[p] = handed[p] /\ marked' = marked
Empties(p) == batch'[p] = <<>> /\ handed'[p] = 0
GivesUp(p) ==
  /\ Empties(p) /\ marked' = marked
  /\ troubles' = troubles + 1 \/ p \in cancelled \/ batch[p] = <<>>
Marks(p) == Empties(p) /\ marked' = marked \cup ToSet(batch[p]) /\ handed[p] = Len(batch[p])

KeepsBuffer(p) == buffer'[p] = buffer[p] /\ lost' = lost
LosesBuffer(p) == buffer'[p] = <<>> /\ lost' = lost \cup ToSet(buffer[p]) /\ troubles' > 0

Calm(p) ==
  /\ UNCHANGED <<writers, deployed, bus>> /\ Others(p)
  /\ troubles' \in {troubles, troubles + 1}
  /\ KeepsBatch(p) \/ GivesUp(p) \/ Marks(p)
  /\ KeepsBuffer(p) \/ LosesBuffer(p)
  /\ \/ cancelled' \subseteq cancelled
     \/ cancelled' = cancelled \cup {p} /\ troubles' = troubles + 1 /\ KeepsBatch(p)

Lists(p) ==
  /\ UNCHANGED <<writers, deployed, marked, handed, cancelled, nats, troubles>> /\ Others(p)
  /\ batch[p] = <<>> /\ batch'[p] = Unpublished /\ p \notin cancelled

HandsOver(p) ==
  /\ UNCHANGED <<writers, deployed, marked, batch, cancelled, bus, lost, troubles>> /\ Others(p)
  /\ handed[p] < Len(batch[p]) /\ handed'[p] = handed[p] + 1
  /\ buffer'[p] = Append(buffer[p], batch[p][handed[p] + 1])

Sends(p) ==
  /\ UNCHANGED <<writers, deployed, marked, batch, handed, cancelled, lost, troubles>> /\ Others(p)
  /\ buffer[p] # <<>> /\ buffer'[p] = Tail(buffer[p]) /\ bus' = Append(bus, Head(buffer[p]))

LEMMA EndTxDoes ==
  ASSUME PublisherTypes, NEW p \in Publisher, NEW label \in PC, EndTx(p, label)
  PROVE  /\ pc' \in [Publisher -> PC] /\ pc'[p] = label
         /\ batch' \in [Publisher -> Seq(RowId)] /\ handed' \in [Publisher -> Nat] /\ Empties(p)
         /\ \A q \in Publisher \ {p} :
              batch'[q] = batch[q] /\ handed'[q] = handed[q] /\ pc'[q] = pc[q]
BY DEF EndTx, Goto, PublisherTypes, Empties

LEMMA TroubleDoes ==
  ASSUME Types, Trouble
  PROVE  troubles' = troubles + 1 /\ troubles' \in 0..deployed.maxTroubles
BY Deployed DEF Trouble, Types, PublisherTypes

LEMMA LoseBufferDoes ==
  ASSUME Types, NEW p \in Publisher, LoseBuffer(p)
  PROVE  /\ buffer' \in [Publisher -> Seq(RowId)] /\ LosesBuffer(p)
         /\ \A q \in Publisher \ {p} : buffer'[q] = buffer[q]
         /\ troubles' = troubles + 1 /\ troubles' \in 0..deployed.maxTroubles
         /\ UNCHANGED <<table, bus>>
<1>1. troubles' = troubles + 1 /\ troubles' \in 0..deployed.maxTroubles /\ troubles \in Nat
  BY TroubleDoes DEF LoseBuffer, Types, PublisherTypes
<1> QED
  BY <1>1 DEF LoseBuffer, LosesBuffer, Types, PublisherTypes

Acts(p) ==
  /\ Calm(p) \/ Lists(p) \/ HandsOver(p) \/ Sends(p)
  /\ PublisherTypes' /\ Progress(p)'

LEMMA MovesOn ==
  ASSUME Inv, NEW p \in deployed.publishers, p \in Publisher,
         BeginTx(p) \/ MarkOutboxPublished(p) \/ Flush(p) \/ FlushTimeout(p) \/ Restart(p) \/ Cancel(p)
  PROVE  Acts(p)
<1> Types /\ Progress(p) /\ troubles \in Nat
  BY DEF Inv, Types, PublisherTypes
<1>1. /\ UNCHANGED <<table, batch, handed, nats>>
      /\ pc' \in [Publisher -> PC] /\ \A q \in Publisher \ {p} : pc'[q] = pc[q]
  BY DEF BeginTx, MarkOutboxPublished, Flush, FlushTimeout, Restart, Cancel, Goto, Types, PublisherTypes,
         PC
<1>2. CASE Cancel(p)
  <2>1. /\ troubles' = troubles + 1 /\ troubles' \in 0..deployed.maxTroubles
        /\ pc' = pc /\ cancelled' = cancelled \cup {p}
    BY <1>2, TroubleDoes DEF Cancel
  <2>2. Calm(p)
    BY <1>1, <2>1 DEF Calm, Others, KeepsBatch, KeepsBuffer, table, nats, writers
  <2>3. PublisherTypes'
    BY <1>1, <2>1 DEF table, nats, Types, PublisherTypes
  <2>4. Progress(p)'
    BY <1>1, <2>1 DEF table, nats, Progress
  <2> QED
    BY <2>2, <2>3, <2>4 DEF Acts
<1>3. CASE BeginTx(p) \/ MarkOutboxPublished(p) \/ Flush(p) \/ FlushTimeout(p) \/ Restart(p)
  <2>1. troubles' = troubles /\ cancelled' \subseteq cancelled
    BY <1>3 DEF BeginTx, MarkOutboxPublished, Flush, FlushTimeout, Restart
  <2>2. Calm(p)
    BY <1>1, <2>1 DEF Calm, Others, KeepsBatch, KeepsBuffer, table, nats, writers
  <2>3. PublisherTypes'
    BY <1>1, <2>1 DEF table, nats, Types, PublisherTypes
  <2>4. /\ pc[p] \in {"idle", "mark", "flush", "down"}
        /\ pc'[p] \in {"list", "commit", "idle"} /\ (pc'[p] = "commit" <=> pc[p] = "mark")
    BY <1>3 DEF BeginTx, MarkOutboxPublished, Flush, FlushTimeout, Restart, Goto, Types, PublisherTypes
  <2>5. Progress(p)'
    BY <1>1, <2>1, <2>4 DEF table, nats, Progress
  <2> QED
    BY <2>2, <2>3, <2>5 DEF Acts
<1> QED
  BY <1>2, <1>3

LEMMA EmptyProgress ==
  ASSUME NEW p \in Publisher, Empties(p), pc'[p] \in {"idle", "flush", "down"}, p \in deployed'.publishers,
         p \in cancelled' => troubles' > 0
  PROVE  Progress(p)'
BY DEF Empties, Progress

LEMMA TransactionEnds ==
  ASSUME Inv, NEW p \in deployed.publishers, p \in Publisher,
         \/ ListUnpublishedOutbox(p) /\ Unpublished = <<>>
         \/ StatementError(p) \/ PublishError(p) \/ ContextDone(p) \/ CommitError(p) \/ Commit(p)
  PROVE  Acts(p)
<1> Types /\ PublisherTypes /\ Progress(p) /\ troubles \in Nat
  BY DEF Inv, Types, PublisherTypes
<1>1. PICK label \in {"idle", "flush"} : EndTx(p, label)
  BY DEF ListUnpublishedOutbox, StatementError, PublishError, ContextDone, CommitError, Commit
<1>2. /\ pc' \in [Publisher -> PC] /\ pc'[p] = label
      /\ batch' \in [Publisher -> Seq(RowId)] /\ handed' \in [Publisher -> Nat] /\ Empties(p)
      /\ \A q \in Publisher \ {p} :
           batch'[q] = batch[q] /\ handed'[q] = handed[q] /\ pc'[q] = pc[q]
  BY <1>1, EndTxDoes DEF PC
<1>3. UNCHANGED <<writers, deployed, cancelled, nats>>
  BY DEF ListUnpublishedOutbox, StatementError, PublishError, ContextDone, CommitError, Commit, table
<1>4. /\ troubles' \in {troubles, troubles + 1} /\ troubles' \in 0..deployed.maxTroubles
      /\ GivesUp(p) \/ Marks(p)
  <2>1. CASE ListUnpublishedOutbox(p) /\ Unpublished = <<>>
    BY <1>2, <2>1 DEF ListUnpublishedOutbox, GivesUp, table, PublisherTypes, Progress
  <2>2. CASE StatementError(p) \/ PublishError(p)
    BY <1>2, <2>2, TroubleDoes DEF StatementError, PublishError, GivesUp, table
  <2>3. CASE ContextDone(p)
    BY <1>2, <2>3 DEF ContextDone, GivesUp, table, PublisherTypes
  <2>4. CASE CommitError(p)
    BY <1>2, <2>4, TroubleDoes DEF CommitError, GivesUp, Marks, Progress
  <2>5. CASE Commit(p)
    BY <1>2, <2>5 DEF Commit, Marks, Progress, PublisherTypes
  <2> QED
    BY <2>1, <2>2, <2>3, <2>4, <2>5
<1>5. Calm(p)
  BY <1>2, <1>3, <1>4 DEF Calm, Others, KeepsBuffer, nats
<1>6. PublisherTypes'
  BY <1>2, <1>3, <1>4 DEF PublisherTypes, nats
<1>7. Progress(p)'
  BY <1>2, <1>3, <1>4, EmptyProgress DEF Progress
<1> QED
  BY <1>5, <1>6, <1>7 DEF Acts

LEMMA BufferLost ==
  ASSUME Inv, NEW p \in deployed.publishers, p \in Publisher,
         Disconnect(p) \/ Crash(p) \/ RunReturns(p)
  PROVE  Acts(p)
<1> Types /\ PublisherTypes /\ Progress(p) /\ troubles \in Nat
  BY DEF Inv, Types, PublisherTypes
<1>1. CASE Disconnect(p)
  <2>1. /\ LoseBuffer(p) /\ UNCHANGED <<pc, batch, handed, cancelled>>
    BY <1>1 DEF Disconnect
  <2>2. Calm(p)
    BY <2>1, LoseBufferDoes DEF Calm, Others, KeepsBatch, table
  <2>3. PublisherTypes' /\ Progress(p)'
    BY <2>1, LoseBufferDoes DEF PublisherTypes, Progress, table
  <2> QED
    BY <2>2, <2>3 DEF Acts
<1>2. CASE Crash(p)
  <2>1. LoseBuffer(p) /\ EndTx(p, "down") /\ cancelled' = cancelled
    BY <1>2 DEF Crash
  <2>2. /\ pc' \in [Publisher -> PC] /\ pc'[p] = "down"
        /\ batch' \in [Publisher -> Seq(RowId)] /\ handed' \in [Publisher -> Nat] /\ Empties(p)
        /\ \A q \in Publisher \ {p} :
             batch'[q] = batch[q] /\ handed'[q] = handed[q] /\ pc'[q] = pc[q]
    BY <2>1, EndTxDoes DEF PC
  <2>3. GivesUp(p) /\ Calm(p)
    BY <2>1, <2>2, LoseBufferDoes DEF Calm, Others, GivesUp, table
  <2>4. PublisherTypes'
    BY <2>1, <2>2, LoseBufferDoes DEF PublisherTypes, table
  <2>5. Progress(p)'
    BY <2>1, <2>2, LoseBufferDoes, EmptyProgress DEF table
  <2> QED
    BY <2>3, <2>4, <2>5 DEF Acts
<1>3. CASE RunReturns(p)
  <2>1. /\ pc[p] = "idle" /\ p \in cancelled /\ troubles > 0
        /\ UNCHANGED <<table, batch, handed, cancelled, bus, troubles>>
        /\ lost' = lost \cup ToSet(buffer[p]) /\ buffer' = [buffer EXCEPT ![p] = <<>>]
        /\ pc' = [pc EXCEPT ![p] = "down"]
    BY <1>3 DEF RunReturns, Goto, Progress
  <2>2. Calm(p)
    BY <2>1 DEF Calm, Others, KeepsBatch, LosesBuffer, table, PublisherTypes, writers
  <2>3. PublisherTypes'
    BY <2>1 DEF PublisherTypes, PC, table
  <2>4. Progress(p)'
    BY <2>1 DEF PublisherTypes, Progress, table
  <2> QED
    BY <2>2, <2>3, <2>4 DEF Acts
<1> QED
  BY <1>1, <1>2, <1>3

LEMMA RowsMove ==
  ASSUME Inv, NEW p \in deployed.publishers, p \in Publisher,
         (ListUnpublishedOutbox(p) /\ Unpublished # <<>>) \/ Publish(p) \/ Send(p)
  PROVE  Acts(p)
<1> Types /\ PublisherTypes /\ Progress(p) /\ troubles \in Nat
  BY DEF Inv, Types, PublisherTypes
<1>1. CASE ListUnpublishedOutbox(p) /\ Unpublished # <<>>
  <2>1. /\ pc[p] = "list" /\ batch' = [batch EXCEPT ![p] = Unpublished]
        /\ pc' = [pc EXCEPT ![p] = "publish"] /\ handed' = handed
        /\ UNCHANGED <<table, cancelled, nats, troubles>> /\ batch[p] = <<>> /\ p \notin cancelled
    BY <1>1 DEF ListUnpublishedOutbox, Goto, Progress
  <2>2. Lists(p)
    BY <2>1 DEF Lists, Others, table, nats, PublisherTypes
  <2>3. PublisherTypes'
    BY <2>1, UnpublishedIs DEF PublisherTypes, PC, table, nats
  <2>4. Progress(p)'
    <3>1. handed[p] = 0 /\ Len(Unpublished) \in Nat /\ Len(Unpublished) # 0
      BY <1>1, <2>1, UnpublishedIs DEF Progress
    <3>2. pc'[p] = "publish" /\ batch'[p] = Unpublished /\ handed'[p] = 0
      BY <2>1, <3>1 DEF PublisherTypes
    <3> QED
      BY <2>1, <3>1, <3>2 DEF Progress, table
  <2> QED
    BY <2>2, <2>3, <2>4 DEF Acts
<1>2. CASE Publish(p)
  <2>1. /\ pc[p] = "publish" /\ handed[p] < Len(batch[p])
        /\ handed' = [handed EXCEPT ![p] = handed[p] + 1]
        /\ buffer' = [buffer EXCEPT ![p] = Append(buffer[p], batch[p][handed[p] + 1])]
        /\ pc' = [pc EXCEPT ![p] = IF handed[p] + 1 = Len(batch[p]) THEN "mark" ELSE "publish"]
        /\ UNCHANGED <<table, batch, cancelled, bus, lost, troubles>>
    BY <1>2 DEF Publish, Goto
  <2>2. /\ handed[p] + 1 \in 1..Len(batch[p]) /\ handed[p] \in Nat /\ Len(batch[p]) \in Nat
        /\ batch[p][handed[p] + 1] \in RowId
    BY <2>1 DEF PublisherTypes
  <2>3. HandsOver(p)
    BY <2>1 DEF HandsOver, Others, table, PublisherTypes, writers
  <2>4. PublisherTypes'
    BY <2>1, <2>2 DEF PublisherTypes, PC, table
  <2>5. Progress(p)'
    BY <2>1, <2>2 DEF PublisherTypes, Progress, table
  <2> QED
    BY <2>3, <2>4, <2>5 DEF Acts
<1>3. CASE Send(p)
  <2>1. /\ buffer[p] # <<>> /\ bus' = Append(bus, Head(buffer[p]))
        /\ buffer' = [buffer EXCEPT ![p] = Tail(buffer[p])]
        /\ UNCHANGED <<table, pc, batch, handed, cancelled, lost, troubles>>
    BY <1>3 DEF Send
  <2>2. buffer[p] \in Seq(RowId) /\ Head(buffer[p]) \in RowId /\ Tail(buffer[p]) \in Seq(RowId)
    BY <2>1 DEF PublisherTypes
  <2>3. Sends(p)
    BY <2>1 DEF Sends, Others, table, PublisherTypes, writers
  <2>4. PublisherTypes'
    BY <2>1, <2>2 DEF PublisherTypes, table
  <2>5. Progress(p)'
    BY <2>1, <2>2 DEF PublisherTypes, Progress, table
  <2> QED
    BY <2>3, <2>4, <2>5 DEF Acts
<1> QED
  BY <1>1, <1>2, <1>3

LEMMA SomeoneActs ==
  ASSUME Inv, Next
  PROVE  Writers \/ \E p \in Publisher : p \in deployed.publishers /\ Acts(p)
<1>1. deployed.publishers \subseteq Publisher
  BY Deployed DEF Inv
<1>2. ASSUME NEW p \in deployed.publishers, Run(p) \/ Send(p) \/ Fault(p) \/ Restart(p) PROVE Acts(p)
  BY <1>1, <1>2, MovesOn, TransactionEnds, BufferLost, RowsMove DEF Run, Fault
<1> QED
  BY <1>1, <1>2 DEF Next

(* What an action of a publisher leaves behind. *)
LEMMA ActsTypes ==
  ASSUME Inv, NEW p \in Publisher, p \in deployed.publishers, Acts(p)
  PROVE  /\ Types' /\ \A q \in Publisher : Progress(q)'
         /\ UNCHANGED <<writers, deployed>> /\ Others(p)
         /\ troubles' \in {troubles, troubles + 1} /\ troubles \in Nat
<1>1. /\ UNCHANGED <<writers, deployed>> /\ Others(p) /\ troubles' \in {troubles, troubles + 1}
      /\ \A q \in Publisher \ {p} : q \in cancelled' => q \in cancelled
  BY DEF Acts, Calm, Lists, HandsOver, Sends
<1>2. Types'
  BY <1>1 DEF Acts, Inv, Types, RowTypes, writers, Rows
<1>3. troubles \in Nat
  BY DEF Inv, Types, PublisherTypes
<1>4. ASSUME NEW q \in Publisher \ {p} PROVE Progress(q)'
  BY <1>1, <1>3, ProgressKept DEF Others, Inv
<1> QED
  BY <1>1, <1>2, <1>3, <1>4 DEF Acts

-----------------------------------------------------------------------------
(* Where the rows are after a step. *)

LEMMA SequenceSets ==
  /\ ToSet(<<>>) = {}
  /\ \A s \in Seq(RowId), e \in RowId : ToSet(Append(s, e)) = ToSet(s) \cup {e}
  /\ \A s \in Seq(RowId) : s # <<>> => ToSet(s) = ToSet(Tail(s)) \cup {Head(s)}
<1>1. ToSet(<<>>) = {}
  BY DEF ToSet
<1>2. ASSUME NEW s \in Seq(RowId), NEW e \in RowId PROVE ToSet(Append(s, e)) = ToSet(s) \cup {e}
  <2>1. /\ DOMAIN s = 1..Len(s) /\ DOMAIN Append(s, e) = 1..(Len(s) + 1) /\ Len(s) \in Nat
        /\ \A n \in 1..(Len(s) + 1) : Append(s, e)[n] = IF n = Len(s) + 1 THEN e ELSE s[n]
    OBVIOUS
  <2>2. ASSUME NEW i \in ToSet(Append(s, e)) PROVE i \in ToSet(s) \cup {e}
    BY <2>1, <2>2 DEF ToSet
  <2>3. ASSUME NEW i \in ToSet(s) \cup {e} PROVE i \in ToSet(Append(s, e))
    <3>1. CASE i = e
      BY <2>1, <3>1 DEF ToSet
    <3>2. CASE i \in ToSet(s)
      <4>1. PICK n \in 1..Len(s) : s[n] = i
        BY <2>1, <3>2 DEF ToSet
      <4>2. n \in 1..(Len(s) + 1) /\ Append(s, e)[n] = i
        BY <2>1, <4>1
      <4> QED
        BY <2>1, <4>2 DEF ToSet
    <3> QED
      BY <2>3, <3>1, <3>2
  <2> QED
    BY <2>2, <2>3
<1>3. ASSUME NEW s \in Seq(RowId), s # <<>> PROVE ToSet(s) = ToSet(Tail(s)) \cup {Head(s)}
  <2>1. /\ DOMAIN s = 1..Len(s) /\ DOMAIN Tail(s) = 1..(Len(s) - 1) /\ Len(s) \in Nat \ {0}
        /\ \A n \in 1..(Len(s) - 1) : Tail(s)[n] = s[n + 1]
        /\ Head(s) = s[1]
    BY <1>3
  <2>2. ASSUME NEW i \in ToSet(s) PROVE i \in ToSet(Tail(s)) \cup {Head(s)}
    <3>1. PICK n \in 1..Len(s) : s[n] = i
      BY <2>1, <2>2 DEF ToSet
    <3>2. CASE n # 1
      <4>1. n - 1 \in 1..(Len(s) - 1) /\ (n - 1) + 1 = n
        BY <2>1, <3>2
      <4>2. Tail(s)[n - 1] = i
        BY <2>1, <3>1, <4>1
      <4> QED
        BY <2>1, <4>1, <4>2 DEF ToSet
    <3> QED
      BY <2>1, <3>1, <3>2
  <2>3. ASSUME NEW i \in ToSet(Tail(s)) \cup {Head(s)} PROVE i \in ToSet(s)
    <3>1. CASE i = Head(s)
      BY <2>1, <3>1 DEF ToSet
    <3>2. CASE i \in ToSet(Tail(s))
      <4>1. PICK n \in 1..(Len(s) - 1) : Tail(s)[n] = i
        BY <2>1, <3>2 DEF ToSet
      <4>2. n + 1 \in 1..Len(s) /\ s[n + 1] = i
        BY <2>1, <4>1
      <4> QED
        BY <2>1, <4>2 DEF ToSet
    <3> QED
      BY <2>3, <3>1, <3>2
  <2> QED
    BY <2>2, <2>3
<1> QED
  BY <1>1, <1>2, <1>3

Item(p) == batch[p][handed[p] + 1]

LEMMA ItemIs ==
  ASSUME Inv, NEW p \in Publisher, HandsOver(p)
  PROVE  /\ handed[p] + 1 \in DOMAIN batch[p] /\ Item(p) \in ToSet(batch[p]) /\ Item(p) \in RowId
         /\ Item(p) \notin marked /\ \A q \in Publisher : Item(p) \notin HandedRows(q)
<1> batch[p] \in Seq(RowId) /\ handed[p] \in Nat
  BY DEF Inv, Types, PublisherTypes
<1>1. handed[p] + 1 \in 1..Len(batch[p]) /\ DOMAIN batch[p] = 1..Len(batch[p])
  BY DEF HandsOver
<1>2. Item(p) \in ToSet(batch[p]) /\ Item(p) \in RowId
  BY <1>1 DEF Item, ToSet
<1>3. BatchLocked(p)
  BY DEF Inv
<1>4. Item(p) \notin marked
  BY <1>2, <1>3 DEF BatchLocked
<1>5. ASSUME NEW q \in Publisher PROVE Item(p) \notin HandedRows(q)
  <2>0. /\ batch[q] \in Seq(RowId) /\ handed[q] \in 0..Len(batch[q]) /\ handed[q] \in Nat
    BY DEF Inv, Types, PublisherTypes, Progress
  <2>1. CASE q = p
    <3> SUFFICES ASSUME NEW n \in 1..handed[p], batch[p][n] = Item(p) PROVE FALSE
      BY <2>1 DEF HandedRows
    <3>1. n \in DOMAIN batch[p] /\ n < handed[p] + 1
      BY <1>1
    <3>2. batch[p][n] < batch[p][handed[p] + 1] /\ batch[p][n] \in RowId
      BY <1>1, <1>3, <3>1 DEF BatchLocked
    <3> QED
      BY <3>2, <1>2 DEF Item, RowId
  <2>2. CASE q # p
    <3>1. HandedRows(q) \subseteq ToSet(batch[q])
      BY <2>0 DEF HandedRows, ToSet
    <3> QED
      BY <1>2, <1>3, <2>2, <3>1 DEF BatchLocked
  <2> QED
    BY <2>1, <2>2
<1> QED
  BY <1>1, <1>2, <1>4, <1>5

LEMMA SentAfter ==
  ASSUME Inv, NEW p \in Publisher
  PROVE  /\ Calm(p) \/ Lists(p) \/ Sends(p) => Sent' = Sent
         /\ HandsOver(p) => Sent' = Sent \cup {Item(p)}
         /\ Calm(p) \/ Lists(p) \/ Sends(p) \/ HandsOver(p) => (Delivered \cup lost) \subseteq (Delivered \cup lost)'
<1> buffer[p] \in Seq(RowId) /\ bus \in Seq(RowId)
  BY DEF Inv, Types, PublisherTypes
<1>1. ASSUME Calm(p) PROVE Sent' = Sent /\ (Delivered \cup lost) \subseteq (Delivered \cup lost)'
  <2>1. Delivered' = Delivered
    BY <1>1 DEF Calm, Delivered
  <2>2. CASE KeepsBuffer(p)
    <3>1. InBuffers' = InBuffers /\ lost' = lost
      BY <1>1, <2>2 DEF Calm, Others, KeepsBuffer, InBuffers
    <3> QED
      BY <2>1, <3>1 DEF Sent
  <2>3. CASE LosesBuffer(p)
    <3>1. InBuffers = InBuffers' \cup ToSet(buffer[p]) /\ lost' = lost \cup ToSet(buffer[p])
      BY <1>1, <2>3, SequenceSets DEF Calm, Others, LosesBuffer, InBuffers
    <3> QED
      BY <2>1, <3>1 DEF Sent
  <2> QED
    BY <1>1, <2>1, <2>2, <2>3 DEF Calm, KeepsBuffer, LosesBuffer
<1>2. ASSUME Lists(p) PROVE Sent' = Sent /\ (Delivered \cup lost) \subseteq (Delivered \cup lost)'
  BY <1>2 DEF Lists, nats, Sent, Delivered, InBuffers
<1>3. ASSUME Sends(p) PROVE Sent' = Sent /\ (Delivered \cup lost) \subseteq (Delivered \cup lost)'
  <2>1. Head(buffer[p]) \in RowId
    BY <1>3 DEF Sends
  <2>2. Delivered' = Delivered \cup {Head(buffer[p])}
    BY <1>3, <2>1, SequenceSets DEF Sends, Delivered
  <2>3. ToSet(buffer[p]) = ToSet(buffer'[p]) \cup {Head(buffer[p])}
    BY <1>3, SequenceSets DEF Sends
  <2>4. InBuffers = InBuffers' \cup {Head(buffer[p])}
    BY <1>3, <2>3 DEF Sends, Others, InBuffers
  <2>5. lost' = lost
    BY <1>3 DEF Sends
  <2> QED
    BY <2>2, <2>4, <2>5 DEF Sent
<1>4. ASSUME HandsOver(p) PROVE Sent' = Sent \cup {Item(p)} /\ (Delivered \cup lost) \subseteq (Delivered \cup lost)'
  <2>1. Item(p) \in RowId
    BY <1>4, ItemIs
  <2>2. ToSet(buffer'[p]) = ToSet(buffer[p]) \cup {Item(p)}
    BY <1>4, <2>1, SequenceSets DEF HandsOver, Item
  <2>3. InBuffers' = InBuffers \cup {Item(p)}
    BY <1>4, <2>2 DEF HandsOver, Others, InBuffers
  <2>4. Delivered' = Delivered /\ lost' = lost
    BY <1>4 DEF HandsOver, Delivered
  <2> QED
    BY <2>3, <2>4 DEF Sent
<1> QED
  BY <1>1, <1>2, <1>3, <1>4

LEMMA LockedAfter ==
  ASSUME Inv, NEW p \in Publisher
  PROVE  /\ Calm(p) \/ HandsOver(p) \/ Sends(p) => Locked' \subseteq Locked
         /\ Lists(p) => Locked' = Locked \cup ToSet(Unpublished)
<1>1. ASSUME Calm(p) \/ HandsOver(p) \/ Sends(p) PROVE Locked' \subseteq Locked
  <2>1. ASSUME NEW q \in Publisher PROVE ToSet(batch'[q]) \subseteq ToSet(batch[q])
    BY <1>1, SequenceSets
       DEF Calm, HandsOver, Sends, Others, KeepsBatch, GivesUp, Marks, Empties
  <2> QED
    BY <2>1 DEF Locked
<1>2. ASSUME Lists(p) PROVE Locked' = Locked \cup ToSet(Unpublished)
  <2>1. batch[p] = <<>> /\ batch'[p] = Unpublished /\ \A q \in Publisher \ {p} : batch'[q] = batch[q]
    BY <1>2 DEF Lists, Others
  <2> QED
    BY <2>1, SequenceSets DEF Locked
<1> QED
  BY <1>1, <1>2

LEMMA HandedAreLocked ==
  ASSUME Inv, NEW p \in Publisher
  PROVE  /\ HandedRows(p) \subseteq ToSet(batch[p]) /\ ToSet(batch[p]) \subseteq Locked
         /\ handed[p] = Len(batch[p]) => HandedRows(p) = ToSet(batch[p])
<1>1. batch[p] \in Seq(RowId) /\ handed[p] \in 0..Len(batch[p])
  BY DEF Inv, Types, PublisherTypes, Progress
<1> QED
  BY <1>1 DEF HandedRows, ToSet, Locked

LEMMA FreeIs ==
  ASSUME Inv, NEW i \in ToSet(Unpublished)
  PROVE  i \in Rows /\ i \notin marked /\ i \notin Locked
BY UnpublishedIs DEF Inv, ToSet, Free

LEMMA OnlyRowsKept ==
  ASSUME Inv, NEW p \in Publisher, Acts(p)
  PROVE  OnlyRows'
<1>1. Rows' = Rows
  BY DEF Acts, Calm, Lists, HandsOver, Sends, writers, Rows
<1>2. Sent \subseteq Rows /\ marked \subseteq Rows /\ Locked \subseteq Rows
  BY DEF Inv, OnlyRows, Sent
<1>3. Locked' \subseteq Rows
  BY <1>2, LockedAfter, FreeIs DEF Acts
<1>4. Sent' \subseteq Rows
  BY <1>2, SentAfter, ItemIs, HandedAreLocked DEF Acts
<1>5. marked' \subseteq Rows
  BY <1>2, HandedAreLocked DEF Acts, Calm, Lists, HandsOver, Sends, KeepsBatch, GivesUp, Marks
<1> QED
  BY <1>1, <1>3, <1>4, <1>5 DEF OnlyRows, Sent

LEMMA LocksKept ==
  ASSUME Inv, NEW p \in Publisher, Acts(p)
  PROVE  \A q \in Publisher : BatchLocked(q)'
<1> \A q \in Publisher : BatchLocked(q)
  BY DEF Inv
<1>1. ASSUME Lists(p) PROVE \A q \in Publisher : BatchLocked(q)'
  <2>1. /\ batch'[p] = Unpublished /\ marked' = marked
        /\ \A q \in Publisher \ {p} : batch'[q] = batch[q]
    BY <1>1 DEF Lists, Others
  <2>2. \A i \in ToSet(Unpublished) : i \notin marked /\ \A q \in Publisher : i \notin ToSet(batch[q])
    BY FreeIs DEF Locked
  <2>3. \A m, n \in DOMAIN Unpublished : m < n => Unpublished[m] < Unpublished[n]
    BY UnpublishedIs DEF Inv
  <2>4. BatchLocked(p)'
    BY <2>1, <2>2, <2>3 DEF BatchLocked
  <2>5. ASSUME NEW q \in Publisher \ {p} PROVE BatchLocked(q)'
    BY <2>1, <2>2 DEF BatchLocked
  <2> QED
    BY <2>4, <2>5
<1>2. ASSUME HandsOver(p) \/ Sends(p) PROVE \A q \in Publisher : BatchLocked(q)'
  BY <1>2 DEF HandsOver, Sends, BatchLocked
<1>3. ASSUME Calm(p) PROVE \A q \in Publisher : BatchLocked(q)'
  <2>1. \A q \in Publisher \ {p} : batch'[q] = batch[q]
    BY <1>3 DEF Calm, Others
  <2>2. CASE KeepsBatch(p)
    BY <2>1, <2>2 DEF KeepsBatch, BatchLocked
  <2>3. CASE GivesUp(p) \/ Marks(p)
    <3>1. batch'[p] = <<>> /\ marked' \in {marked, marked \cup ToSet(batch[p])}
      BY <2>3 DEF GivesUp, Marks, Empties
    <3>2. BatchLocked(p)'
      BY <3>1, SequenceSets DEF BatchLocked
    <3>3. ASSUME NEW q \in Publisher \ {p} PROVE BatchLocked(q)'
      <4>1. ToSet(batch[q]) \cap marked' = {}
        BY <3>1 DEF BatchLocked
      <4>2. \A o \in Publisher \ {q} : ToSet(batch[q]) \cap ToSet(batch'[o]) = {}
        BY <2>1, <3>1, SequenceSets DEF BatchLocked
      <4> QED
        BY <2>1, <4>1, <4>2 DEF BatchLocked
    <3> QED
      BY <3>2, <3>3
  <2> QED
    BY <1>3, <2>2, <2>3 DEF Calm
<1> QED
  BY <1>1, <1>2, <1>3 DEF Acts

(* A row is marked by the transaction that handed it over. *)
LEMMA SentKept ==
  ASSUME Inv, NEW p \in Publisher, Acts(p)
  PROVE  (marked \subseteq Sent)' /\ HandedWasSent' /\ LossIsTrouble'
<1> marked \subseteq Sent /\ \A q \in Publisher : HandedRows(q) \subseteq Sent
  BY DEF Inv, HandedWasSent
<1>1. Sent \subseteq Sent'
  BY SentAfter DEF Acts
<1>2. marked' \subseteq Sent'
  BY <1>1, HandedAreLocked DEF Acts, Calm, Lists, HandsOver, Sends, KeepsBatch, GivesUp, Marks
<1>3. ASSUME NEW q \in Publisher PROVE HandedRows(q)' \subseteq Sent'
  <2>1. CASE batch'[q] = batch[q] /\ handed'[q] = handed[q]
    BY <1>1, <2>1 DEF HandedRows
  <2>2. CASE Empties(q)
    BY <2>2 DEF Empties, HandedRows
  <2>3. CASE HandsOver(p) /\ q = p
    <3>1. handed[p] \in Nat /\ handed'[p] = handed[p] + 1 /\ batch'[p] = batch[p]
      BY <2>3 DEF HandsOver, Inv, Types, PublisherTypes
    <3>2. HandedRows(p)' = HandedRows(p) \cup {Item(p)}
      BY <3>1 DEF HandedRows, Item
    <3> QED
      BY <1>1, <2>3, <3>2, SentAfter
  <2>4. CASE Lists(p) /\ q = p
    <3>1. handed'[p] = 0
      BY <2>4 DEF Lists, Inv, Progress
    <3> QED
      BY <2>4, <3>1 DEF HandedRows
  <2> QED
    BY <2>1, <2>2, <2>3, <2>4
       DEF Acts, Calm, Lists, HandsOver, Sends, Others, KeepsBatch, GivesUp, Marks
<1>4. LossIsTrouble'
  <2>1. troubles \in Nat /\ LossIsTrouble
    BY DEF Inv, Types, PublisherTypes
  <2> QED
    BY <2>1 DEF Acts, Calm, Lists, HandsOver, Sends, nats, KeepsBuffer, LosesBuffer, LossIsTrouble
<1> QED
  BY <1>2, <1>3, <1>4 DEF HandedWasSent

-----------------------------------------------------------------------------
(* The copies of a row: handing it over adds one, sending it moves one, and a step that
   is calm makes none. *)

LEMMA TimesType ==
  ASSUME NEW s \in Seq(RowId), NEW i
  PROVE  IsFiniteSet({n \in DOMAIN s : s[n] = i}) /\ Times(s, i) \in Nat
<1>1. DOMAIN s = 1..Len(s) /\ Len(s) \in Nat
  OBVIOUS
<1>2. IsFiniteSet(DOMAIN s)
  BY <1>1, FS_Interval
<1>3. IsFiniteSet({n \in DOMAIN s : s[n] = i})
  BY <1>2, FS_Subset
<1> QED
  BY <1>3, FS_CardinalityType DEF Times

LEMMA TimesAppend ==
  ASSUME NEW s \in Seq(RowId), NEW e \in RowId, NEW i
  PROVE  Times(Append(s, e), i) = Times(s, i) + (IF i = e THEN 1 ELSE 0)
<1> PICK t : t = Append(s, e)
  OBVIOUS
<1> PICK top : top = Len(s) + 1
  OBVIOUS
<1>1. /\ DOMAIN s = 1..Len(s) /\ Len(s) \in Nat /\ DOMAIN t = 1..top
      /\ \A n \in 1..top : t[n] = IF n = top THEN e ELSE s[n]
  OBVIOUS
<1> DEFINE Old == {n \in DOMAIN s : s[n] = i}
           Fresh == {n \in DOMAIN t : t[n] = i}
<1>2. IsFiniteSet(Old) /\ Times(s, i) \in Nat
  BY TimesType
<1>5. Times(s, i) = Cardinality(Old) /\ Times(t, i) = Cardinality(Fresh)
  BY DEF Times
<1>6. top \notin Old
  BY <1>1
<1>3. CASE i = e
  <2>1. Fresh = Old \cup {top}
    BY <1>1, <1>3
  <2>2. Cardinality(Fresh) = Cardinality(Old) + 1
    BY <1>2, <1>6, <2>1, FS_AddElement
  <2> QED
    BY <1>3, <1>5, <2>2
<1>4. CASE i # e
  <2>1. Fresh = Old
    BY <1>1, <1>4
  <2>2. Times(t, i) = Times(s, i)
    BY <1>5, <2>1
  <2> QED
    BY <1>2, <1>4, <2>2
<1> QED
  BY <1>3, <1>4

LEMMA CopiesType ==
  ASSUME Inv, NEW i \in RowId
  PROVE  /\ IsFiniteSet(Places(i)) /\ Cardinality(Places(i)) \in Nat
         /\ Times(bus, i) \in Nat /\ Copies(i) \in Nat /\ troubles \in Nat
<1>1. IsFiniteSet(Places(i))
  BY DEF Inv, CopiesExplained
<1>2. Cardinality(Places(i)) \in Nat
  BY <1>1, FS_CardinalityType
<1>3. bus \in Seq(RowId) /\ troubles \in Nat
  BY DEF Inv, Types, PublisherTypes
<1>4. Times(bus, i) \in Nat
  BY <1>3, TimesType
<1> QED
  BY <1>1, <1>2, <1>3, <1>4 DEF Copies

LEMMA CalmCopies ==
  ASSUME Inv, NEW p \in Publisher, Calm(p) \/ Lists(p), NEW i \in RowId
  PROVE  IsFiniteSet(Places(i)') /\ Copies(i)' <= Copies(i) /\ Copies(i)' \in Nat
<1>1. Places(i)' \subseteq Places(i)
  BY DEF Calm, Lists, nats, Others, KeepsBuffer, LosesBuffer, Places
<1>2. IsFiniteSet(Places(i)) /\ Cardinality(Places(i)) \in Nat /\ Times(bus, i) \in Nat
  BY CopiesType
<1>3. IsFiniteSet(Places(i)') /\ Cardinality(Places(i)') <= Cardinality(Places(i))
  BY <1>1, <1>2, FS_Subset
<1>4. Cardinality(Places(i)') \in Nat
  BY <1>3, FS_CardinalityType
<1>5. Times(bus, i)' = Times(bus, i)
  BY DEF Calm, Lists, nats, Times
<1> QED
  BY <1>2, <1>3, <1>4, <1>5 DEF Copies

LEMMA HandsOverCopies ==
  ASSUME Inv, NEW p \in Publisher, HandsOver(p), NEW i \in RowId
  PROVE  /\ IsFiniteSet(Places(i)')
         /\ Copies(i)' = Copies(i) + (IF i = Item(p) THEN 1 ELSE 0)
<1> PICK top : top = Len(buffer[p]) + 1
  OBVIOUS
<1> PICK item : item = Item(p)
  OBVIOUS
<1>1. /\ buffer[p] \in Seq(RowId) /\ item \in RowId /\ buffer'[p] = Append(buffer[p], item)
      /\ \A q \in Publisher \ {p} : buffer'[q] = buffer[q]
  BY ItemIs DEF HandsOver, Item, Others, Inv, Types, PublisherTypes
<1>2. /\ DOMAIN buffer[p] = 1..(top - 1) /\ DOMAIN buffer'[p] = 1..top /\ top \in Nat \ {0}
      /\ \A n \in 1..top : buffer'[p][n] = IF n = top THEN item ELSE buffer[p][n]
  BY <1>1
<1>3. /\ IsFiniteSet(Places(i)) /\ Cardinality(Places(i)) \in Nat /\ Times(bus, i) \in Nat
  BY CopiesType
<1>4. Times(bus, i)' = Times(bus, i)
  BY DEF HandsOver, Times
<1>5. <<p, top>> \notin Places(i) /\ <<p, top>> \in Publisher \X Nat
  BY <1>2 DEF Places
<1>6. CASE i = item
  <2>1. Places(i)' = Places(i) \cup {<<p, top>>}
    <3>1. ASSUME NEW x \in Publisher \X Nat
          PROVE  x \in Places(i)' <=> x \in Places(i) \/ x = <<p, top>>
      <4>1. x[1] \in Publisher /\ x[2] \in Nat /\ x = <<x[1], x[2]>>
        OBVIOUS
      <4>2. CASE x[1] = p
        BY <1>1, <1>2, <1>6, <4>1, <4>2 DEF Places
      <4>3. CASE x[1] # p
        BY <1>1, <4>1, <4>3 DEF Places
      <4> QED
        BY <4>2, <4>3
    <3>2. Places(i)' \subseteq Publisher \X Nat /\ Places(i) \subseteq Publisher \X Nat
      BY DEF Places
    <3> QED
      BY <1>5, <3>1, <3>2
  <2>3. IsFiniteSet(Places(i)) /\ <<p, top>> \notin Places(i)
    BY <1>3, <1>5
  <2>2. IsFiniteSet(Places(i)') /\ Cardinality(Places(i)') = Cardinality(Places(i)) + 1
    BY ZenonT(60), <2>1, <2>3, FS_AddElement
  <2> QED
    BY <1>3, <1>4, <1>6, <2>2 DEF Copies
<1>7. CASE i # item
  <2>1. Places(i)' = Places(i)
    BY <1>1, <1>2, <1>7 DEF Places
  <2> QED
    BY <1>3, <1>4, <1>7, <2>1 DEF Copies
<1> QED
  BY <1>6, <1>7

(* The client sends the head of its buffer: the others move up. *)
LEMMA SendsCopies ==
  ASSUME Inv, NEW p \in Publisher, Sends(p), NEW i \in RowId
  PROVE  IsFiniteSet(Places(i)') /\ Copies(i)' = Copies(i)
<1> PICK head : head = Head(buffer[p])
  OBVIOUS
<1> PICK top : top = Len(buffer[p])
  OBVIOUS
<1> DEFINE Rest == Places(i) \ {<<p, 1>>}
           f == [x \in Rest |-> IF x[1] = p THEN <<p, x[2] - 1>> ELSE x]
<1>1. /\ buffer[p] \in Seq(RowId) /\ buffer[p] # <<>> /\ buffer'[p] = Tail(buffer[p])
      /\ \A q \in Publisher \ {p} : buffer'[q] = buffer[q]
      /\ bus' = Append(bus, head) /\ bus \in Seq(RowId)
  BY DEF Sends, Others, Inv, Types, PublisherTypes
<1>2. /\ top \in Nat \ {0} /\ DOMAIN buffer[p] = 1..top /\ DOMAIN buffer'[p] = 1..(top - 1)
      /\ \A n \in 1..(top - 1) : buffer'[p][n] = buffer[p][n + 1]
      /\ head = buffer[p][1] /\ head \in RowId
  BY <1>1
<1>3. /\ IsFiniteSet(Places(i)) /\ Cardinality(Places(i)) \in Nat /\ Times(bus, i) \in Nat
  BY CopiesType
<1>4. Times(bus, i)' = Times(bus, i) + (IF i = head THEN 1 ELSE 0)
  <2>1. Times(Append(bus, head), i) = Times(bus, i) + (IF i = head THEN 1 ELSE 0)
    BY <1>1, <1>2, TimesAppend
  <2> QED
    BY <1>1, <2>1 DEF Times
<1>5. /\ IsFiniteSet(Rest)
      /\ Cardinality(Rest) = Cardinality(Places(i)) - (IF i = head THEN 1 ELSE 0)
  <2>1. <<p, 1>> \in Places(i) <=> i = head
    BY <1>2 DEF Places
  <2>2. PICK first : first = <<p, 1>>
    OBVIOUS
  <2>3. IsFiniteSet(Places(i) \ {first}) /\ Cardinality(Places(i) \ {first}) =
          IF first \in Places(i) THEN Cardinality(Places(i)) - 1 ELSE Cardinality(Places(i))
    BY <1>3, FS_RemoveElement
  <2> QED
    BY <1>3, <2>1, <2>2, <2>3
<1>6. f \in Bijection(Rest, Places(i)')
  <2>1. ASSUME NEW x \in Rest PROVE f[x] \in Places(i)'
    <3>1. x[1] \in Publisher /\ x[2] \in Nat /\ x = <<x[1], x[2]>>
      BY DEF Places
    <3>2. CASE x[1] = p
      <4>1. x[2] \in 1..top /\ x[2] # 1 /\ buffer[p][x[2]] = i
        BY <1>2, <3>1, <3>2 DEF Places
      <4>2. x[2] - 1 \in 1..(top - 1) /\ x[2] - 1 \in Nat /\ (x[2] - 1) + 1 = x[2]
        BY <1>2, <4>1
      <4>3. buffer'[p][x[2] - 1] = i
        BY <1>2, <4>1, <4>2
      <4> QED
        BY <1>2, <3>2, <4>2, <4>3 DEF Places
    <3>3. CASE x[1] # p
      BY <1>1, <3>1, <3>3 DEF Places
    <3> QED
      BY <3>2, <3>3
  <2>2. ASSUME NEW x \in Rest, NEW y \in Rest, f[x] = f[y] PROVE x = y
    <3>1. /\ x[1] \in Publisher /\ x[2] \in Nat /\ x = <<x[1], x[2]>>
          /\ y[1] \in Publisher /\ y[2] \in Nat /\ y = <<y[1], y[2]>>
      BY DEF Places
    <3>2. /\ f[x] = IF x[1] = p THEN <<p, x[2] - 1>> ELSE <<x[1], x[2]>>
          /\ f[y] = IF y[1] = p THEN <<p, y[2] - 1>> ELSE <<y[1], y[2]>>
      BY <3>1
    <3>3. x[1] = y[1]
      BY <2>2, <3>2
    <3>4. x[2] = y[2]
      BY <2>2, <3>1, <3>2, <3>3
    <3> QED
      BY <3>1, <3>3, <3>4
  <2>3. ASSUME NEW y \in Places(i)' PROVE \E x \in Rest : f[x] = y
    <3>1. y[1] \in Publisher /\ y[2] \in Nat /\ y = <<y[1], y[2]>>
      BY DEF Places
    <3>2. CASE y[1] = p
      <4>1. y[2] \in 1..(top - 1) /\ buffer'[p][y[2]] = i
        BY <1>2, <3>2 DEF Places
      <4>2. y[2] + 1 \in 1..top /\ y[2] + 1 # 1 /\ y[2] + 1 \in Nat /\ (y[2] + 1) - 1 = y[2]
        BY <1>2, <4>1
      <4>3. <<p, y[2] + 1>> \in Rest
        BY <1>2, <4>1, <4>2 DEF Places
      <4>4. f[<<p, y[2] + 1>>] = y
        BY <3>1, <3>2, <4>2, <4>3
      <4> QED
        BY <4>3, <4>4
    <3>3. CASE y[1] # p
      <4>1. y \in Rest /\ f[y] = y
        BY <1>1, <3>1, <3>3 DEF Places
      <4> QED
        BY <4>1
    <3> QED
      BY <3>2, <3>3
  <2>4. f \in [Rest -> Places(i)']
    BY <2>1
  <2> QED
    BY <2>2, <2>3, <2>4 DEF Bijection, Injection, Surjection, IsInjective
<1>7. IsFiniteSet(Places(i)') /\ Cardinality(Places(i)') = Cardinality(Rest)
  BY <1>5, <1>6, FS_Bijection DEF ExistsBijection
<1> QED
  BY <1>3, <1>4, <1>5, <1>7 DEF Copies

(* Rows that a calm transaction gives back, or that its stop dooms, have a trouble. *)
LEMMA CalmDebts ==
  ASSUME Inv, NEW p \in Publisher, Calm(p) \/ Lists(p), NEW i \in RowId
  PROVE  \/ (Taken(i) => Taken(i)') /\ (Doomed(i)' => Doomed(i))
         \/ troubles' = troubles + 1 /\ ((Taken(i) => Taken(i)') \/ (Doomed(i)' => Doomed(i)))
         \/ Doomed(i) /\ ~Doomed(i)'
<1>1. \A q \in Publisher \ {p} : batch'[q] = batch[q] /\ handed'[q] = handed[q]
  BY DEF Calm, Lists, Others
<1>2. marked \subseteq marked'
  BY DEF Calm, Lists, KeepsBatch, GivesUp, Marks
<1>3. ASSUME NEW q \in Publisher \ {p} PROVE HandedRows(q)' = HandedRows(q)
  BY <1>1 DEF HandedRows
<1>4. (i \in HandedRows(p) => Taken(i)') => (Taken(i) => Taken(i)')
  BY <1>2, <1>3 DEF Taken
<1>6. cancelled \subseteq Publisher
  BY DEF Inv, Types, PublisherTypes
<1>7. CASE Lists(p)
  <2>1. handed[p] = 0 /\ p \notin cancelled /\ cancelled' = cancelled
    BY <1>7 DEF Lists, Inv, Progress
  <2>2. HandedRows(p) = {}
    BY <2>1 DEF HandedRows
  <2>3. Doomed(i)' => Doomed(i)
    BY <1>1, <1>6, <2>1 DEF Doomed
  <2> QED
    BY <1>4, <2>2, <2>3
<1>8. CASE Calm(p) /\ KeepsBatch(p)
  <2>1. HandedRows(p)' = HandedRows(p)
    BY <1>8 DEF KeepsBatch, HandedRows
  <2>2. Taken(i) => Taken(i)'
    BY <1>4, <2>1 DEF Taken
  <2>3. cancelled' \subseteq cancelled \/ troubles' = troubles + 1
    BY <1>8 DEF Calm
  <2>4. cancelled' \subseteq cancelled => (Doomed(i)' => Doomed(i))
    BY <1>1, <1>6, <1>8 DEF KeepsBatch, Doomed
  <2> QED
    BY <2>2, <2>3, <2>4
<1>9. CASE Calm(p) /\ ~KeepsBatch(p)
  <2>1. batch'[p] = <<>> /\ cancelled' \subseteq cancelled /\ (GivesUp(p) \/ Marks(p))
    BY <1>9 DEF Calm, GivesUp, Marks, Empties
  <2>2. Doomed(i)' => \E q \in cancelled \ {p} : i \in ToSet(batch[q])
    BY <1>1, <1>6, <2>1, SequenceSets DEF Doomed
  <2>3. Doomed(i)' => Doomed(i)
    BY <2>2 DEF Doomed
  <2>4. CASE Marks(p)
    <3>1. i \in HandedRows(p) => i \in marked'
      BY <2>4, HandedAreLocked DEF Marks
    <3> QED
      BY <1>4, <2>3, <3>1 DEF Taken
  <2>5. CASE GivesUp(p)
    <3>1. CASE troubles' = troubles + 1
      BY <2>3, <3>1
    <3>2. CASE batch[p] = <<>>
      <4>1. i \notin HandedRows(p)
        BY <3>2, HandedAreLocked, SequenceSets
      <4> QED
        BY <1>4, <2>3, <4>1
    <3>3. CASE p \in cancelled
      <4>1. CASE i \in ToSet(batch[p])
        <5>1. Doomed(i)
          BY <3>3, <4>1 DEF Doomed
        <5>2. \A q \in Publisher \ {p} : i \notin ToSet(batch[q])
          BY <4>1 DEF Inv, BatchLocked
        <5>3. ~Doomed(i)'
          BY <1>6, <2>2, <5>2
        <5> QED
          BY <5>1, <5>3
      <4>2. CASE i \notin ToSet(batch[p])
        <5>1. i \notin HandedRows(p)
          BY <4>2, HandedAreLocked
        <5> QED
          BY <1>4, <2>3, <5>1
      <4> QED
        BY <4>1, <4>2
    <3> QED
      BY <2>5, <3>1, <3>2, <3>3 DEF GivesUp
  <2> QED
    BY <2>1, <2>4, <2>5
<1> QED
  BY <1>7, <1>8, <1>9

LEMMA CopiesKept ==
  ASSUME Inv, NEW p \in Publisher, Acts(p), NEW i \in RowId
  PROVE  CopiesExplained(i)'
<1>1. /\ Copies(i) \in Nat /\ troubles \in Nat
      /\ Copies(i) + (IF Doomed(i) THEN 1 ELSE 0) <= troubles + (IF Taken(i) THEN 1 ELSE 0)
  BY CopiesType DEF Inv, CopiesExplained
<1>2. CASE Calm(p) \/ Lists(p)
  <2>1. IsFiniteSet(Places(i)') /\ Copies(i)' <= Copies(i) /\ Copies(i)' \in Nat
    BY <1>2, CalmCopies
  <2>2. troubles' \in {troubles, troubles + 1}
    BY <1>1, <1>2 DEF Calm, Lists
  <2>3. \/ (Taken(i) => Taken(i)') /\ (Doomed(i)' => Doomed(i))
        \/ troubles' = troubles + 1 /\ ((Taken(i) => Taken(i)') \/ (Doomed(i)' => Doomed(i)))
        \/ Doomed(i) /\ ~Doomed(i)'
    BY <1>2, CalmDebts
  <2>4. Copies(i)' + (IF Doomed(i)' THEN 1 ELSE 0) <= troubles' + (IF Taken(i)' THEN 1 ELSE 0)
    BY <1>1, <2>1, <2>2, <2>3
  <2> QED
    BY <2>1, <2>4 DEF CopiesExplained
<1>3. CASE HandsOver(p) \/ Sends(p)
  <2>1. /\ UNCHANGED <<marked, batch, cancelled, troubles>>
        /\ \A q \in Publisher \ {p} : handed'[q] = handed[q]
        /\ handed[p] \in Nat /\ handed'[p] \in {handed[p], handed[p] + 1}
    BY <1>3 DEF HandsOver, Sends, Others, Inv, Types, PublisherTypes
  <2>2. Doomed(i)' = Doomed(i)
    BY <2>1 DEF Doomed
  <2>3. \A q \in Publisher : HandedRows(q) \subseteq HandedRows(q)'
    BY <2>1 DEF HandedRows
  <2>4. Taken(i) => Taken(i)'
    BY <2>1, <2>3 DEF Taken
  <2>5. CASE Sends(p)
    <3>1. IsFiniteSet(Places(i)') /\ Copies(i)' = Copies(i)
      BY <2>5, SendsCopies
    <3>2. Copies(i)' + (IF Doomed(i)' THEN 1 ELSE 0) <= troubles' + (IF Taken(i)' THEN 1 ELSE 0)
      BY <1>1, <2>1, <2>2, <2>4, <3>1
    <3> QED
      BY <3>1, <3>2 DEF CopiesExplained
  <2>6. CASE HandsOver(p)
    <3>1. IsFiniteSet(Places(i)') /\ Copies(i)' = Copies(i) + (IF i = Item(p) THEN 1 ELSE 0)
      BY <2>6, HandsOverCopies
    <3>2. ASSUME i = Item(p) PROVE ~Taken(i) /\ Taken(i)'
      <4>1. handed'[p] = handed[p] + 1 /\ batch' = batch
        BY <2>6 DEF HandsOver
      <4>2. Item(p) \in HandedRows(p)'
        BY <2>1, <4>1 DEF HandedRows, Item
      <4> QED
        BY <2>6, <3>2, <4>2, ItemIs DEF Taken
    <3>3. Copies(i)' + (IF Doomed(i)' THEN 1 ELSE 0) <= troubles' + (IF Taken(i)' THEN 1 ELSE 0)
      BY <1>1, <2>1, <2>2, <2>4, <3>1, <3>2
    <3> QED
      BY <3>1, <3>3 DEF CopiesExplained
  <2> QED
    BY <1>3, <2>5, <2>6
<1> QED
  BY <1>2, <1>3 DEF Acts

-----------------------------------------------------------------------------
(* The rows on their way. *)

LEMMA InHandIs == InHand = Locked \cup InBuffers
BY DEF InHand, Locked, InBuffers

LEMMA EarlierSame == UNCHANGED writers => \A j : Earlier(j)' = Earlier(j)
BY DEF writers, Earlier, Rows

(* While nothing fails, only a commit ends a transaction that has rows. *)
LEMMA NonePassedKept ==
  ASSUME Inv, NEW p \in Publisher, p \in deployed.publishers, Acts(p)
  PROVE  NonePassed'
<1> SUFFICES ASSUME troubles' = 0, NEW j \in (Delivered \cup InHand)', NEW k \in Earlier(j)'
             PROVE  k \in (Delivered \cup InHand)'
  BY DEF NonePassed
<1>1. /\ UNCHANGED writers /\ Others(p) /\ troubles = 0
  BY ActsTypes
<1>2. lost = {} /\ lost' = {}
  BY <1>1, SentKept DEF Inv, LossIsTrouble
<1>3. p \notin cancelled
  BY <1>1 DEF Inv, Progress
<1>4. Delivered \cup InHand = Sent \cup Locked
  BY <1>2, InHandIs DEF Sent
<1>5. (Delivered \cup InHand)' = Sent' \cup Locked'
  <2>1. InHand' = Locked' \cup InBuffers'
    BY DEF InHand, Locked, InBuffers
  <2> QED
    BY <1>2, <2>1 DEF Sent
<1>6. k \in Earlier(j)
  BY <1>1, EarlierSame
<1>7. j \in Sent \cup Locked => k \in Sent \cup Locked
  BY <1>1, <1>4, <1>6 DEF Inv, NonePassed
<1>8. CASE Calm(p)
  <2>1. ASSUME NEW i \in Locked PROVE i \in Sent' \cup Locked'
    <3>1. PICK q \in Publisher : i \in ToSet(batch[q])
      BY DEF Locked
    <3>2. CASE batch'[q] = batch[q]
      BY <3>1, <3>2 DEF Locked
    <3>3. CASE q = p /\ ~KeepsBatch(p)
      <4>1. batch[p] # <<>>
        BY <3>1, <3>3, SequenceSets
      <4>2. Marks(p)
        BY <1>1, <1>3, <1>8, <3>3, <4>1 DEF Calm, GivesUp
      <4>3. i \in HandedRows(p)
        BY <3>1, <3>3, <4>2, HandedAreLocked DEF Marks
      <4>4. i \in Sent
        BY <4>3 DEF Inv, HandedWasSent
      <4> QED
        BY <1>8, <4>4, SentAfter
    <3> QED
      BY <1>1, <3>2, <3>3 DEF Others, KeepsBatch
  <2>2. Sent' = Sent /\ Locked' \subseteq Locked
    BY <1>8, SentAfter, LockedAfter
  <2> QED
    BY <1>5, <1>7, <2>1, <2>2
<1>9. CASE Lists(p)
  <2>1. Sent' = Sent /\ Locked' = Locked \cup ToSet(Unpublished)
    BY <1>9, SentAfter, LockedAfter
  <2>2. CASE j \in ToSet(Unpublished)
    <3>1. PICK n \in DOMAIN Unpublished : Unpublished[n] = j
      BY <2>2 DEF ToSet
    <3>2. k \in Rows /\ k < j
      BY <1>6 DEF Earlier
    <3>3. k \in marked => k \in Sent
      BY DEF Inv
    <3>4. CASE k \in Free
      <4>1. Unpublished \in Seq(RowId)
        BY UnpublishedIs DEF Inv
      <4>2. PICK m \in 1..(n - 1) : Unpublished[m] = k
        BY <3>1, <3>2, <3>4, UnpublishedIs DEF Inv
      <4>3. m \in DOMAIN Unpublished
        BY <4>1
      <4> QED
        BY <1>5, <2>1, <4>2, <4>3 DEF ToSet
    <3> QED
      BY <1>5, <2>1, <3>2, <3>3, <3>4 DEF Free
  <2> QED
    BY <1>5, <1>7, <2>1, <2>2
<1>10. CASE HandsOver(p) \/ Sends(p)
  <2>1. batch' = batch
    BY <1>10 DEF HandsOver, Sends
  <2>2. Locked' = Locked
    BY <2>1 DEF Locked
  <2>3. HandsOver(p) => Item(p) \in Locked
    BY ItemIs, HandedAreLocked
  <2>4. Sent' \cup Locked' = Sent \cup Locked
    BY <1>10, <2>2, <2>3, SentAfter
  <2> QED
    BY <1>5, <1>7, <2>4
<1> QED
  BY <1>8, <1>9, <1>10 DEF Acts

(* Where rows are when one publisher runs. *)
LEMMA AloneHasAll ==
  ASSUME Inv, NEW p \in Publisher, p \in deployed.publishers, Alone
  PROVE  /\ deployed.publishers = {p}
         /\ Locked = ToSet(batch[p]) /\ InBuffers = ToSet(buffer[p])
<1>1. IsFiniteSet(deployed.publishers)
  BY Deployed, PublisherAssumption, FS_Subset DEF Inv
<1>2. deployed.publishers = {p}
  BY <1>1, FS_Singleton DEF Alone
<1>3. \A q \in Publisher \ {p} : batch[q] = <<>> /\ buffer[q] = <<>>
  BY <1>2 DEF Inv, Progress
<1> QED
  BY <1>2, <1>3, SequenceSets DEF Locked, InBuffers

LEMMA InOrderKept ==
  ASSUME Inv, NEW p \in Publisher, p \in deployed.publishers, Acts(p), NEW q \in Publisher
  PROVE  InOrder(q)'
<1>1. /\ UNCHANGED <<writers, deployed>> /\ Types'
  BY ActsTypes
<1> SUFFICES ASSUME Alone, q \in deployed.publishers
             PROVE  InOrder(q)'
  BY <1>1 DEF InOrder, Alone
<1>2. q = p /\ Locked = ToSet(batch[p]) /\ InBuffers = ToSet(buffer[p])
  BY AloneHasAll
<1>3. ASSUME \A n \in DOMAIN buffer'[p] :
               Earlier(buffer'[p][n]) \subseteq (Delivered \cup lost)' \cup {buffer'[p][m] : m \in 1..(n - 1)},
             \A n \in DOMAIN batch'[p] :
               Earlier(batch'[p][n]) \subseteq Sent' \cup {batch'[p][m] : m \in 1..(n - 1)}
      PROVE  InOrder(q)'
  BY <1>1, <1>2, <1>3 DEF InOrder, Earlier, writers, Rows
<1>4. /\ \A n \in DOMAIN buffer[p] :
           Earlier(buffer[p][n]) \subseteq Delivered \cup lost \cup {buffer[p][m] : m \in 1..(n - 1)}
      /\ \A n \in DOMAIN batch[p] :
           Earlier(batch[p][n]) \subseteq Sent \cup {batch[p][m] : m \in 1..(n - 1)}
  BY <1>2 DEF Inv, InOrder
<1>5. /\ buffer[p] \in Seq(RowId) /\ batch[p] \in Seq(RowId) /\ handed[p] \in Nat
  BY DEF Inv, Types, PublisherTypes
<1>6. /\ Sent \subseteq Sent' /\ (Delivered \cup lost) \subseteq (Delivered \cup lost)'
  BY SentAfter DEF Acts
<1>7. ASSUME buffer'[p] = buffer[p] \/ buffer'[p] = <<>>, NEW n \in DOMAIN buffer'[p]
      PROVE  Earlier(buffer'[p][n]) \subseteq (Delivered \cup lost)' \cup {buffer'[p][m] : m \in 1..(n - 1)}
  BY <1>4, <1>6, <1>7
<1>8. ASSUME batch'[p] = batch[p] \/ batch'[p] = <<>>, NEW n \in DOMAIN batch'[p]
      PROVE  Earlier(batch'[p][n]) \subseteq Sent' \cup {batch'[p][m] : m \in 1..(n - 1)}
  BY <1>4, <1>6, <1>8
<1>9. CASE Calm(p)
  <2>1. /\ buffer'[p] = buffer[p] \/ buffer'[p] = <<>>
        /\ batch'[p] = batch[p] \/ batch'[p] = <<>>
    BY <1>9 DEF Calm, KeepsBatch, GivesUp, Marks, Empties, KeepsBuffer, LosesBuffer
  <2> QED
    BY <1>3, <1>7, <1>8, <2>1
<1>10. CASE Lists(p)
  <2>1. batch[p] = <<>> /\ batch'[p] = Unpublished /\ buffer' = buffer /\ marked \subseteq Sent
    BY <1>10 DEF Lists, nats, Inv
  <2>2. ASSUME NEW n \in DOMAIN Unpublished, NEW k \in Earlier(Unpublished[n])
        PROVE  k \in Sent \cup {Unpublished[m] : m \in 1..(n - 1)}
    <3>1. k \in Rows /\ k < Unpublished[n]
      BY DEF Earlier
    <3>2. Locked = {}
      BY <1>2, <2>1, SequenceSets
    <3>3. k \in marked \/ k \in Free
      BY <3>1, <3>2 DEF Free
    <3> QED
      BY <2>1, <3>1, <3>3, UnpublishedIs DEF Inv
  <2>3. ASSUME NEW n \in DOMAIN batch'[p]
        PROVE  Earlier(batch'[p][n]) \subseteq Sent' \cup {batch'[p][m] : m \in 1..(n - 1)}
    BY <1>6, <2>1, <2>2
  <2> QED
    BY <1>3, <1>7, <2>1, <2>3
<1>11. CASE HandsOver(p)
  <2> PICK top : top = Len(buffer[p]) + 1
    OBVIOUS
  <2>1. /\ buffer'[p] = Append(buffer[p], Item(p)) /\ batch' = batch /\ Delivered' = Delivered /\ lost' = lost
        /\ handed[p] + 1 \in DOMAIN batch[p] /\ Item(p) \in RowId
    BY <1>11, ItemIs DEF HandsOver, Item, Delivered
  <2>2. /\ DOMAIN buffer[p] = 1..(top - 1) /\ DOMAIN buffer'[p] = 1..top /\ top \in Nat \ {0}
        /\ \A n \in 1..(top - 1) : buffer'[p][n] = buffer[p][n]
        /\ buffer'[p][top] = Item(p)
    BY <1>5, <2>1
  <2>3. ASSUME NEW k \in Earlier(Item(p)) PROVE k \in Delivered \cup lost \cup ToSet(buffer[p])
    <3>1. k \in Sent \cup {batch[p][m] : m \in 1..((handed[p] + 1) - 1)}
      BY <1>4, <2>1 DEF Item
    <3>2. (handed[p] + 1) - 1 = handed[p]
      BY <1>5
    <3>3. k \in Sent
      BY <3>1, <3>2 DEF HandedRows, Inv, HandedWasSent
    <3> QED
      BY <1>2, <3>3 DEF Sent
  <2>4. ToSet(buffer[p]) = {buffer'[p][m] : m \in 1..(top - 1)}
    BY <2>2 DEF ToSet
  <2>5. ASSUME NEW n \in DOMAIN buffer'[p]
        PROVE  Earlier(buffer'[p][n]) \subseteq Delivered \cup lost \cup {buffer'[p][m] : m \in 1..(n - 1)}
    <3>1. CASE n = top
      BY <2>2, <2>3, <2>4, <3>1
    <3>2. CASE n # top
      <4>1. n \in 1..(top - 1) /\ n \in DOMAIN buffer[p]
        BY <2>2, <3>2
      <4>2. \A m \in 1..(n - 1) : m \in 1..(top - 1)
        BY <2>2, <4>1
      <4>3. {buffer'[p][m] : m \in 1..(n - 1)} = {buffer[p][m] : m \in 1..(n - 1)}
        BY <2>2, <4>2
      <4> QED
        BY <1>4, <2>2, <4>1, <4>3
    <3> QED
      BY <3>1, <3>2
  <2> QED
    BY <1>3, <1>8, <2>1, <2>5
<1>12. CASE Sends(p)
  <2> PICK top : top = Len(buffer[p])
    OBVIOUS
  <2>1. /\ buffer[p] # <<>> /\ buffer'[p] = Tail(buffer[p]) /\ bus' = Append(bus, Head(buffer[p]))
        /\ batch' = batch /\ lost' = lost /\ bus \in Seq(RowId)
    BY <1>12 DEF Sends, Inv, Types, PublisherTypes
  <2>2. /\ DOMAIN buffer[p] = 1..top /\ DOMAIN buffer'[p] = 1..(top - 1) /\ top \in Nat \ {0}
        /\ \A n \in 1..(top - 1) : buffer'[p][n] = buffer[p][n + 1]
        /\ Head(buffer[p]) = buffer[p][1] /\ Head(buffer[p]) \in RowId
    BY <1>5, <2>1
  <2>3. Delivered' = Delivered \cup {Head(buffer[p])}
    BY <2>1, <2>2, SequenceSets DEF Delivered
  <2>4. ASSUME NEW n \in DOMAIN buffer'[p], NEW k \in Earlier(buffer'[p][n])
        PROVE  k \in (Delivered \cup lost)' \cup {buffer'[p][m] : m \in 1..(n - 1)}
    <3>1. n \in 1..(top - 1) /\ n + 1 \in 1..top /\ (n + 1) - 1 = n /\ buffer'[p][n] = buffer[p][n + 1]
      BY <2>2
    <3>2. k \in Delivered \cup lost \cup {buffer[p][m] : m \in 1..n}
      BY <1>4, <2>2, <3>1
    <3>3. CASE k \in Delivered \cup lost
      BY <2>1, <2>3, <3>3
    <3>4. ASSUME NEW m \in 1..n, k = buffer[p][m]
          PROVE  k \in (Delivered \cup lost)' \cup {buffer'[p][x] : x \in 1..(n - 1)}
      <4>1. CASE m = 1
        BY <2>2, <2>3, <3>4, <4>1
      <4>2. CASE m # 1
        <5>1. m - 1 \in 1..(n - 1) /\ m - 1 \in 1..(top - 1) /\ (m - 1) + 1 = m
          BY <2>2, <3>1, <4>2
        <5>2. buffer'[p][m - 1] = k
          BY <2>2, <3>4, <5>1
        <5> QED
          BY <5>1, <5>2
      <4> QED
        BY <4>1, <4>2
    <3> QED
      BY <3>2, <3>3, <3>4
  <2> QED
    BY <1>3, <1>8, <2>1, <2>4
<1> QED
  BY <1>9, <1>10, <1>11, <1>12 DEF Acts

-----------------------------------------------------------------------------
(* The writers add rows behind the rows of their case, and touch nothing else. *)

LEMMA WritersDo ==
  ASSUME Inv, Writers
  PROVE  \/ \E c \in CaseId : InsertOutbox(c)
         \/ \E c \in CaseId : WriterCommits(c)
         \/ /\ UNCHANGED <<caseOf, nextId>>
            /\ \A c \in CaseId : drawn'[c] \in {drawn[c], NoId}
<1> drawn \in [CaseId -> RowId \cup {NoId}]
  BY DEF Inv, Types, RowTypes
<1>1. PICK c \in CaseId : Write(c) \/ WritersDie
  BY Deployed DEF Writers, WritersDie, Inv
<1>2. CASE WritersDie
  BY <1>2 DEF WritersDie
<1>3. CASE WriterRollsBack(c)
  BY <1>3 DEF WriterRollsBack, WriterEnds
<1> QED
  BY <1>1, <1>2, <1>3 DEF Write

LEMMA IdsDrawnKept ==
  ASSUME Inv, Writers
  PROVE  IdsDrawn'
<1>1. /\ drawn \in [CaseId -> RowId \cup {NoId}] /\ nextId \in Nat /\ NoId \notin RowId /\ RowId \subseteq Nat
      /\ Rows \subseteq RowId /\ IdsDrawn
  BY WritersAssumption DEF Inv, Types, RowTypes, RowId, NoId
<1>2. ASSUME NEW c \in CaseId, InsertOutbox(c) PROVE IdsDrawn'
  <2>1. /\ drawn' = [drawn EXCEPT ![c] = nextId] /\ nextId' = nextId + 1 /\ caseOf' = caseOf
        /\ nextId \in RowId
    BY <1>2 DEF InsertOutbox
  <2>2. Rows' = Rows
    BY <2>1 DEF Rows
  <2>3. ASSUME NEW i \in Rows PROVE i < nextId' /\ i < nextId
    BY <1>1, <2>1 DEF IdsDrawn
  <2>4. ASSUME NEW d \in CaseId, drawn'[d] # NoId
        PROVE  /\ drawn'[d] < nextId' /\ drawn'[d] \notin Rows
               /\ \A i \in Rows : caseOf[i] = d => i < drawn'[d]
               /\ \A e \in CaseId \ {d} : drawn'[e] # drawn'[d]
    <3>1. CASE d = c
      <4>1. drawn'[d] = nextId
        BY <1>1, <2>1, <3>1
      <4>2. \A e \in CaseId \ {d} : drawn'[e] = drawn[e] /\ (drawn[e] # NoId => drawn[e] < nextId)
        BY <1>1, <2>1, <3>1 DEF IdsDrawn
      <4>3. \A e \in CaseId \ {d} : drawn'[e] # nextId
        BY <1>1, <2>1, <4>2
      <4> QED
        BY <1>1, <2>1, <2>3, <4>1, <4>3
    <3>2. CASE d # c
      <4>1. drawn'[d] = drawn[d] /\ drawn[d] \in RowId /\ drawn[d] < nextId
        BY <1>1, <2>1, <2>4, <3>2 DEF IdsDrawn
      <4>2. \A e \in CaseId \ {d} : drawn'[e] # drawn[d]
        BY <1>1, <2>1, <4>1 DEF IdsDrawn
      <4>5. drawn[d] \in Nat /\ nextId \in Nat /\ drawn[d] < nextId /\ nextId' = nextId + 1
        BY <1>1, <2>1, <4>1
      <4>3. drawn[d] < nextId'
        BY <4>5
      <4>4. drawn[d] \notin Rows /\ \A i \in Rows : caseOf[i] = d => i < drawn[d]
        BY <1>1, <2>4, <4>1 DEF IdsDrawn
      <4> QED
        BY <4>1, <4>2, <4>3, <4>4
    <3> QED
      BY <3>1, <3>2
  <2> QED
    BY <2>1, <2>2, <2>3, <2>4 DEF IdsDrawn
<1>3. ASSUME NEW c \in CaseId, WriterCommits(c) PROVE IdsDrawn'
  <2>1. /\ drawn[c] \in RowId /\ drawn' = [drawn EXCEPT ![c] = NoId] /\ nextId' = nextId
        /\ caseOf' = [i \in Rows \cup {drawn[c]} |-> IF i \in Rows THEN caseOf[i] ELSE c]
    BY <1>1, <1>3 DEF WriterCommits, WriterEnds
  <2>2. Rows' = Rows \cup {drawn[c]} /\ drawn[c] < nextId
    BY <1>1, <2>1 DEF Rows, IdsDrawn
  <2>3. ASSUME NEW d \in CaseId, drawn'[d] # NoId
        PROVE  /\ d # c /\ drawn'[d] = drawn[d] /\ drawn[d] < nextId /\ drawn[d] \notin Rows'
               /\ \A i \in Rows' : caseOf'[i] = d => i < drawn[d]
               /\ \A e \in CaseId \ {d} : drawn'[e] # drawn[d]
    <3>1. d # c /\ drawn'[d] = drawn[d]
      BY <1>1, <2>1, <2>3
    <3>2. drawn[d] # drawn[c] /\ drawn[d] \notin Rows /\ drawn[d] < nextId
      BY <1>1, <2>3, <3>1 DEF IdsDrawn
    <3>3. ASSUME NEW i \in Rows', caseOf'[i] = d PROVE i \in Rows /\ caseOf[i] = d
      BY <2>1, <2>2, <3>1, <3>3
    <3>4. \A e \in CaseId \ {d} : drawn'[e] # drawn[d]
      BY <1>1, <2>1, <2>3, <3>1 DEF IdsDrawn
    <3> QED
      BY <1>1, <2>2, <2>3, <3>1, <3>2, <3>3, <3>4 DEF IdsDrawn
  <2> QED
    BY <1>1, <2>1, <2>2, <2>3 DEF IdsDrawn
<1>4. CASE UNCHANGED <<caseOf, nextId>> /\ \A c \in CaseId : drawn'[c] \in {drawn[c], NoId}
  BY <1>1, <1>4 DEF IdsDrawn, Rows
<1> QED
  BY <1>2, <1>3, <1>4, WritersDo

LEMMA RowsGrow ==
  ASSUME Inv, Writers
  PROVE  Rows \subseteq Rows' /\ \A j \in Rows : Earlier(j)' = Earlier(j)
<1>1. CASE \E c \in CaseId : WriterCommits(c)
  <2>1. PICK c \in CaseId : WriterCommits(c)
    BY <1>1
  <2>2. /\ drawn[c] \in RowId /\ drawn[c] # NoId
        /\ caseOf' = [i \in Rows \cup {drawn[c]} |-> IF i \in Rows THEN caseOf[i] ELSE c]
    BY <2>1 DEF WriterCommits, WriterEnds, Inv, Types, RowTypes
  <2>3. /\ Rows' = Rows \cup {drawn[c]} /\ drawn[c] \notin Rows
        /\ \A i \in Rows : caseOf'[i] = caseOf[i] /\ (caseOf[i] = c => i < drawn[c])
        /\ caseOf'[drawn[c]] = c
    BY <2>2 DEF Rows, Inv, IdsDrawn
  <2>4. RowId \subseteq Nat /\ Rows \subseteq RowId
    BY DEF RowId, Inv, Types, RowTypes
  <2>5. ASSUME NEW j \in Rows, NEW k PROVE k \in Earlier(j)' <=> k \in Earlier(j)
    <3>1. CASE k = drawn[c]
      <4>1. k \notin Earlier(j)
        BY <2>3, <3>1 DEF Earlier
      <4>2. ASSUME k \in Earlier(j)' PROVE FALSE
        <5>1. k < j /\ caseOf'[k] = caseOf'[j]
          BY <4>2 DEF Earlier
        <5>2. j < k
          BY <2>3, <3>1, <5>1
        <5>3. k \in Nat /\ j \in Nat
          BY <2>2, <2>4, <3>1
        <5> QED
          BY <5>1, <5>2, <5>3
      <4> QED
        BY <4>1, <4>2
    <3>2. CASE k # drawn[c]
      BY <2>3, <3>2 DEF Earlier
    <3> QED
      BY <3>1, <3>2
  <2> QED
    BY <2>3, <2>5
<1>2. CASE caseOf' = caseOf
  BY <1>2 DEF Earlier, Rows
<1> QED
  BY <1>1, <1>2, WritersDo DEF InsertOutbox

LEMMA WritersKeepInv ==
  ASSUME Inv, Writers
  PROVE  Inv'
<1>1. UNCHANGED <<deployed, marked, pc, batch, handed, cancelled, buffer, bus, lost, troubles>>
  BY DEF Writers, nats
<1>2. Types' /\ IdsDrawn' /\ \A p \in Publisher : Progress(p)'
  BY WritersTypes, IdsDrawnKept
<1>3. /\ Delivered' = Delivered /\ InBuffers' = InBuffers /\ Locked' = Locked /\ InHand' = InHand
      /\ Sent' = Sent /\ \A p \in Publisher : HandedRows(p)' = HandedRows(p)
  BY <1>1 DEF Delivered, InBuffers, Locked, InHand, Sent, HandedRows
<1>4. OnlyRows'
  BY <1>1, <1>3, RowsGrow DEF Inv, OnlyRows
<1>5. ASSUME NEW p \in Publisher PROVE BatchLocked(p)'
  BY <1>1 DEF Inv, BatchLocked
<1>6. (marked \subseteq Sent)' /\ HandedWasSent' /\ LossIsTrouble'
  BY <1>1, <1>3 DEF Inv, HandedWasSent, LossIsTrouble
<1>7. ASSUME NEW i \in RowId PROVE CopiesExplained(i)'
  <2>1. /\ Places(i)' = Places(i) /\ Times(bus, i)' = Times(bus, i)
        /\ Doomed(i)' = Doomed(i) /\ Taken(i)' = Taken(i)
    BY <1>1 DEF Places, Times, Doomed, Taken, HandedRows
  <2> QED
    BY <1>1, <2>1 DEF Inv, CopiesExplained, Copies
<1>8. NonePassed'
  <2>1. Delivered \cup InHand \subseteq Rows
    BY InHandIs DEF Inv, OnlyRows
  <2>2. ASSUME NEW j \in Delivered \cup InHand PROVE Earlier(j)' = Earlier(j)
    BY <2>1, RowsGrow
  <2> QED
    BY <1>1, <1>3, <2>2 DEF Inv, NonePassed
<1>9. ASSUME NEW p \in Publisher PROVE InOrder(p)'
  <2> SUFFICES ASSUME Alone, p \in deployed.publishers PROVE InOrder(p)'
    BY <1>1 DEF InOrder, Alone
  <2>1. ASSUME NEW n \in DOMAIN buffer[p] PROVE buffer[p][n] \in Rows
    BY DEF Inv, OnlyRows, InBuffers, ToSet
  <2>2. ASSUME NEW n \in DOMAIN batch[p] PROVE batch[p][n] \in Rows
    BY DEF Inv, OnlyRows, Locked, ToSet
  <2>3. /\ \A n \in DOMAIN buffer[p] : Earlier(buffer[p][n])' = Earlier(buffer[p][n])
        /\ \A n \in DOMAIN batch[p] : Earlier(batch[p][n])' = Earlier(batch[p][n])
    <3>1. \A j \in Rows : {k \in Rows' : k < j /\ caseOf'[k] = caseOf'[j]} = Earlier(j)
      BY RowsGrow DEF Earlier
    <3> QED
      BY <1>1, <2>1, <2>2, <3>1 DEF Earlier
  <2> QED
    BY <1>1, <1>3, <2>3 DEF Inv, InOrder
<1> QED
  BY <1>2, <1>4, <1>5, <1>6, <1>7, <1>8, <1>9 DEF Inv

LEMMA ActsKeepsInv ==
  ASSUME Inv, NEW p \in Publisher, p \in deployed.publishers, Acts(p)
  PROVE  Inv'
<1>1. Types' /\ (\A q \in Publisher : Progress(q)') /\ UNCHANGED writers
  BY ActsTypes
<1>2. IdsDrawn'
  BY <1>1 DEF Inv, IdsDrawn, writers, Rows
<1>3. OnlyRows' /\ \A q \in Publisher : BatchLocked(q)'
  BY OnlyRowsKept, LocksKept
<1>4. (marked \subseteq Sent)' /\ HandedWasSent' /\ LossIsTrouble'
  BY SentKept
<1>5. \A i \in RowId : CopiesExplained(i)'
  BY CopiesKept
<1>6. NonePassed' /\ \A q \in Publisher : InOrder(q)'
  BY NonePassedKept, InOrderKept
<1> QED
  BY <1>1, <1>2, <1>3, <1>4, <1>5, <1>6 DEF Inv

LEMMA StutterKeepsInv ==
  ASSUME Inv, UNCHANGED vars
  PROVE  Inv'
<1>1. UNCHANGED <<writers, deployed, marked, pc, batch, handed, cancelled, buffer, bus, lost, troubles>>
  BY DEF vars, writers
<1>2. \A p \in Publisher : Progress(p)' /\ BatchLocked(p)'
  BY <1>1 DEF Inv, Progress, BatchLocked
<1>3. Types' /\ IdsDrawn'
  BY <1>1 DEF Inv, Types, RowTypes, PublisherTypes, IdsDrawn, writers, Rows
<1>6. OnlyRows' /\ (marked \subseteq Sent)' /\ HandedWasSent' /\ LossIsTrouble'
  BY <1>1 DEF Inv, OnlyRows, HandedWasSent, LossIsTrouble,
              Sent, Delivered, InBuffers, Locked, HandedRows, writers, Rows
<1>4. \A i \in RowId : CopiesExplained(i)'
  BY <1>1 DEF Inv, CopiesExplained, Copies, Places, Times, Doomed, Taken, HandedRows
<1>5. NonePassed' /\ \A p \in Publisher : InOrder(p)'
  BY <1>1 DEF Inv, NonePassed, InOrder, Alone, Earlier, InHand, Sent, Delivered, InBuffers, writers, Rows
<1> QED
  BY <1>2, <1>3, <1>4, <1>5, <1>6 DEF Inv

(* Whatever writers, publishers and clients do, ids, locks, copies and orders stay as the
   invariant says. *)
THEOREM PublisherInvariant == Spec => []Inv
<1>1. ASSUME Inv, [Next]_vars PROVE Inv'
  BY <1>1, SomeoneActs, WritersKeepInv, ActsKeepsInv, StutterKeepsInv
<1> QED
  BY InitInv, <1>1, PTL DEF Spec

-----------------------------------------------------------------------------
(* What follows from it. *)

(* Every variable keeps its type and every publisher its place in flush: a batch and its
   counter exist only inside a transaction, and a transaction reaches its UPDATE with the
   whole batch handed over. *)
THEOREM PublisherTypeCorrect == Spec => []TypeOK
<1>1. ASSUME Inv PROVE TypeOK
  <2>1. ASSUME NEW p \in Publisher
        PROVE  /\ pc[p] \notin InTx => batch[p] = <<>>
               /\ handed[p] \in 0..Len(batch[p])
               /\ pc[p] \in {"mark", "commit"} => handed[p] = Len(batch[p])
    BY <1>1 DEF Inv, Progress, InTx
  <2> QED
    BY <1>1, <2>1 DEF TypeOK, Inv, Types, RowTypes, PublisherTypes
<1> QED
  BY <1>1, PublisherInvariant, PTL

(* published = TRUE is only set on a row that a client was given, and nothing travels that
   is not a committed row. *)
THEOREM MarksOnlyHanded == Spec => []MarkedWasHanded
<1>1. Inv => MarkedWasHanded
  BY DEF Inv, MarkedWasHanded, OnlyRows, Sent
<1> QED
  BY <1>1, PublisherInvariant, PTL

(* A publisher that has a row in its buffer has it at a place of its own. *)
LEMMA HoldersHavePlaces ==
  ASSUME Inv, NEW i \in RowId
  PROVE  /\ IsFiniteSet({p \in Publisher : i \in ToSet(buffer[p])})
         /\ Cardinality({p \in Publisher : i \in ToSet(buffer[p])}) <= Cardinality(Places(i))
<1> DEFINE Holders == {p \in Publisher : i \in ToSet(buffer[p])}
           At(p, n) == n \in DOMAIN buffer[p] /\ buffer[p][n] = i
           f == [p \in Holders |-> <<p, CHOOSE n \in Nat : At(p, n)>>]
<1>1. ASSUME NEW p \in Holders PROVE f[p] \in Places(i) /\ f[p][1] = p
  <2>1. buffer[p] \in Seq(RowId)
    BY DEF Inv, Types, PublisherTypes
  <2>2. \E n \in Nat : At(p, n)
    BY <2>1 DEF ToSet
  <2> QED
    BY <2>2 DEF Places
<1>2. f \in Injection(Holders, Places(i))
  <2>1. f \in [Holders -> Places(i)]
    BY <1>1
  <2>2. \A p, q \in Holders : f[p] = f[q] => p = q
    BY <1>1
  <2> HIDE DEF f
  <2> QED
    BY <2>1, <2>2 DEF Injection, IsInjective
<1>3. IsFiniteSet(Places(i))
  BY CopiesType
<1> QED
  BY <1>2, <1>3, FS_Injection

(* Every repetition of a row, sent or still in a buffer, has a trouble of its own: also with
   publishers side by side, crashes between the hand-over and the commit, and stops. *)
THEOREM TroublesExplainRepetitions == Spec => []RepetitionsExplained
<1>1. ASSUME Inv PROVE RepetitionsExplained
  <2> SUFFICES ASSUME NEW i \in RowId
               PROVE  Times(bus, i) + Cardinality({p \in Publisher : i \in ToSet(buffer[p])}) <= 1 + troubles
    BY DEF RepetitionsExplained
  <2> PICK holders : holders = Cardinality({p \in Publisher : i \in ToSet(buffer[p])})
    OBVIOUS
  <2>1. holders \in Nat /\ holders <= Cardinality(Places(i))
    BY <1>1, HoldersHavePlaces, FS_CardinalityType
  <2>2. Cardinality(Places(i)) \in Nat /\ Times(bus, i) \in Nat /\ troubles \in Nat
    BY <1>1, CopiesType
  <2>3. Times(bus, i) + Cardinality(Places(i)) <= troubles + 1
    BY <1>1, <2>2 DEF Inv, CopiesExplained, Copies
  <2>4. Times(bus, i) + holders <= 1 + troubles
    BY <2>1, <2>2, <2>3
  <2> QED
    BY <2>4
<1> QED
  BY <1>1, PublisherInvariant, PTL

(* While nothing fails, SKIP LOCKED and the batch limit never let a row overtake an earlier
   one of its case that waits in the table. *)
THEOREM NoRowIsPassedBy == Spec => []OvertakenIsInHand
<1>1. ASSUME Inv PROVE OvertakenIsInHand
  <2> SUFFICES ASSUME troubles = 0, NEW j \in Delivered, NEW i \in Rows, i < j, caseOf[i] = caseOf[j]
               PROVE  i \in Delivered \cup InHand
    BY DEF OvertakenIsInHand
  <2>1. i \in Earlier(j)
    BY DEF Earlier
  <2> QED
    BY <1>1, <2>1 DEF Inv, NonePassed
<1> QED
  BY <1>1, PublisherInvariant, PTL

-----------------------------------------------------------------------------
(* The table and its publishers implement the channel. *)

LEMMA WritersAddRows ==
  ASSUME Inv, Writers
  PROVE  [Channel!NextChannel]_(Channel!channel)
<1>1. UNCHANGED <<deployed, bus, lost, troubles>>
  BY DEF Writers, nats
<1>2. CASE caseOf' = caseOf
  BY <1>1, <1>2 DEF Channel!channel
<1>3. CASE \E c \in CaseId : WriterCommits(c)
  <2>1. PICK c \in CaseId : WriterCommits(c)
    BY <1>3
  <2>2. /\ drawn[c] \in RowId /\ drawn[c] # NoId
        /\ caseOf' = [i \in Rows \cup {drawn[c]} |-> IF i \in Rows THEN caseOf[i] ELSE c]
    BY <2>1 DEF WriterCommits, WriterEnds, Inv, Types, RowTypes
  <2>3. drawn[c] \notin Rows /\ \A k \in Rows : caseOf[k] = c => k < drawn[c]
    BY <2>2 DEF Inv, IdsDrawn
  <2>4. Channel!AddRow(c, drawn[c])
    BY <1>1, <2>2, <2>3 DEF Channel!AddRow, Channel!Rows, Rows
  <2>5. drawn[c] \in Channel!RowId
    BY <2>2 DEF Channel!RowId, RowId
  <2> QED
    BY <2>4, <2>5 DEF Channel!NextChannel
<1> QED
  BY <1>2, <1>3, WritersDo DEF InsertOutbox

LEMMA SendDelivers ==
  ASSUME Inv, NEW p \in Publisher, p \in deployed.publishers, Sends(p)
  PROVE  \E i \in Channel!RowId : Channel!Deliver(i)
<1> PICK i : i = Head(buffer[p])
  OBVIOUS
<1>1. /\ UNCHANGED <<caseOf, deployed, lost, troubles>> /\ bus' = Append(bus, i) /\ buffer[p] # <<>>
      /\ buffer[p] \in Seq(RowId)
  BY DEF Sends, writers, Inv, Types, PublisherTypes
<1>2. i \in RowId /\ 1 \in DOMAIN buffer[p] /\ buffer[p][1] = i
  BY <1>1
<1>3. i \in Rows
  BY <1>2 DEF Inv, OnlyRows, InBuffers, ToSet
<1>4. Times(bus, i) <= troubles
  <2>1. /\ IsFiniteSet(Places(i)) /\ Cardinality(Places(i)) \in Nat
        /\ Times(bus, i) \in Nat /\ troubles \in Nat
    BY <1>2, CopiesType
  <2>2. <<p, 1>> \in Places(i)
    BY <1>2 DEF Places
  <2>3. Cardinality(Places(i)) # 0
    BY <2>1, <2>2, FS_EmptySet
  <2>4. Times(bus, i) + Cardinality(Places(i)) <= troubles + 1
    BY <1>2, <2>1 DEF Inv, CopiesExplained, Copies
  <2> QED
    BY <2>1, <2>3, <2>4
<1>5. ASSUME Alone PROVE Earlier(i) \subseteq Delivered \cup lost
  <2>1. Earlier(buffer[p][1]) \subseteq Delivered \cup lost \cup {buffer[p][m] : m \in 1..(1 - 1)}
    BY <1>2, <1>5 DEF Inv, InOrder
  <2>2. {buffer[p][m] : m \in 1..(1 - 1)} = {}
    OBVIOUS
  <2> QED
    BY <1>2, <2>1, <2>2
<1>6. /\ Channel!Times(i) = Times(bus, i) /\ Channel!Rows = Rows /\ Channel!Delivered = Delivered
      /\ Channel!Before(i) = Earlier(i) /\ Channel!RowId = RowId
  <2>1. Channel!Times(i) = Times(bus, i)
    <3> DEFINE At == {n \in DOMAIN bus : bus[n] = i}
    <3>1. Channel!Times(i) = Cardinality(At)
      BY DEF Channel!Times, Channel!Cardinality, Cardinality
    <3>2. Times(bus, i) = Cardinality(At)
      BY DEF Times
    <3> QED
      BY <3>1, <3>2
  <2>2. Channel!Rows = Rows /\ Channel!RowId = RowId
    BY DEF Channel!Rows, Rows, Channel!RowId, RowId
  <2>3. Channel!Delivered = Delivered
    BY DEF Channel!Delivered, Delivered, ToSet
  <2>4. Channel!Before(i) = Earlier(i)
    BY DEF Channel!Before, Earlier, Channel!Rows, Rows
  <2> QED
    BY <2>1, <2>2, <2>3, <2>4
<1>7. Channel!Deliver(i)
  BY <1>1, <1>3, <1>4, <1>5, <1>6 DEF Channel!Deliver, Alone
<1> QED
  BY <1>2, <1>6, <1>7

LEMMA ActsAreOfTheChannel ==
  ASSUME Inv, NEW p \in Publisher, p \in deployed.publishers, Acts(p)
  PROVE  [Channel!NextChannel]_(Channel!channel)
<1>1. CASE Lists(p) \/ HandsOver(p)
  BY <1>1 DEF Lists, HandsOver, writers, nats, Channel!channel
<1>2. CASE Sends(p)
  BY <1>2, SendDelivers DEF Channel!NextChannel
<1>3. CASE Calm(p)
  <2>1. /\ UNCHANGED <<caseOf, deployed, bus>> /\ troubles' \in {troubles, troubles + 1} /\ troubles \in Nat
        /\ KeepsBuffer(p) \/ LosesBuffer(p)
    BY <1>3 DEF Calm, writers, Inv, Types, PublisherTypes
  <2>2. CASE troubles' = troubles /\ lost' = lost
    BY <2>1, <2>2 DEF Channel!channel
  <2>3. CASE troubles' > 0
    <3>1. ToSet(buffer[p]) \in SUBSET Rows /\ {} \in SUBSET Rows
      BY DEF Inv, OnlyRows, InBuffers
    <3>2. \E S \in SUBSET Rows : lost' = lost \cup S
      BY <2>1, <3>1 DEF KeepsBuffer, LosesBuffer
    <3>3. Channel!Trouble
      BY <2>1, <2>3, <3>2 DEF Channel!Trouble, Channel!Rows, Rows
    <3> QED
      BY <3>3 DEF Channel!NextChannel
  <2> QED
    BY <2>1, <2>2, <2>3 DEF KeepsBuffer, LosesBuffer
<1> QED
  BY <1>1, <1>2, <1>3 DEF Acts

(* Batches, row locks, buffers, crashes and stops stay inside: seen from a consumer, the
   outbox is a channel that repeats and loses rows only for a trouble and that keeps the
   order of a case when one publisher runs. *)
THEOREM PublisherImplementsChannel == Spec => ImplementsChannel
<1>1. ASSUME Init PROVE Channel!InitChannel
  BY <1>1 DEF Init, InitWriters, Channel!InitChannel
<1>2. ASSUME Inv, [Next]_vars PROVE [Channel!NextChannel]_(Channel!channel)
  <2>1. CASE Next
    BY <1>2, <2>1, SomeoneActs, WritersAddRows, ActsAreOfTheChannel
  <2>2. CASE UNCHANGED vars
    BY <2>2 DEF vars, Channel!channel
  <2> QED
    BY <1>2, <2>1, <2>2
<1> QED
  BY <1>1, <1>2, PublisherInvariant, PTL DEF Spec, ImplementsChannel, Channel!ChannelSpec

-----------------------------------------------------------------------------
(* What a consumer may rely on. *)

ChannelInv ==
  /\ Rows \subseteq RowId /\ bus \in Seq(Rows)
  /\ Channel!InOrderUnlessLost

LEMMA ChannelTerms ==
  /\ Channel!Rows = Rows /\ Channel!RowId = RowId /\ Channel!Delivered = Delivered
  /\ \A i : Channel!Before(i) = Earlier(i)
  BY DEF Channel!Rows, Rows, Channel!RowId, RowId, Channel!Delivered, Delivered, ToSet,
         Channel!Before, Earlier

(* A row that appears goes behind the rows of its case, so it comes before no row that
   was delivered. *)
LEMMA AddRowKeepsOrder ==
  ASSUME ChannelInv, NEW c \in CaseId, NEW i \in RowId, Channel!AddRow(c, i)
  PROVE  ChannelInv'
<1> USE DEF Rows
<1>1. /\ Rows' = Rows \cup {i} /\ i \notin Rows
      /\ caseOf'[i] = c /\ \A k \in Rows : caseOf'[k] = caseOf[k]
      /\ \A k \in Rows : caseOf[k] = c => k < i
      /\ bus' = bus /\ lost' = lost /\ Alone' = Alone
  BY DEF Channel!AddRow, Channel!Rows, Alone
<1>2. Rows' \subseteq RowId /\ bus' \in Seq(Rows')
  BY <1>1 DEF ChannelInv
<1>3. \A k \in Rows : Earlier(k)' = Earlier(k)
  BY <1>1 DEF Earlier, ChannelInv, RowId
<1>4. \A n \in DOMAIN bus : bus[n] \in Rows
  BY DEF ChannelInv
<1>5. Channel!InOrderUnlessLost'
  BY <1>1, <1>3, <1>4, ChannelTerms DEF Channel!InOrderUnlessLost, ChannelInv, Alone,
     Channel!Before, Earlier, Channel!Rows
<1> QED
  BY <1>2, <1>5 DEF ChannelInv

LEMMA DeliverKeepsOrder ==
  ASSUME ChannelInv, NEW i \in RowId, Channel!Deliver(i)
  PROVE  ChannelInv'
<1>1. /\ i \in Rows
      /\ Alone => Earlier(i) \subseteq Delivered \cup lost
      /\ bus' = Append(bus, i)
      /\ caseOf' = caseOf /\ lost' = lost /\ Alone' = Alone
  BY ChannelTerms DEF Channel!Deliver, Alone
<1>2. Rows' \subseteq RowId /\ bus' \in Seq(Rows')
  BY <1>1 DEF ChannelInv, Rows
<1>3. /\ Len(bus) \in Nat /\ DOMAIN bus = 1..Len(bus)
      /\ DOMAIN bus' = 1..(Len(bus) + 1)
      /\ bus'[Len(bus) + 1] = i
      /\ \A m \in DOMAIN bus : bus'[m] = bus[m]
  BY <1>1 DEF ChannelInv
<1>4. ASSUME Alone, NEW n \in DOMAIN bus'
      PROVE  Earlier(bus'[n]) \subseteq lost \cup {bus'[m] : m \in 1..(n - 1)}
  <2>1. CASE n \in DOMAIN bus
    <3>1. Earlier(bus[n]) \subseteq lost \cup {bus[m] : m \in 1..(n - 1)}
      BY <1>4, <2>1, ChannelTerms DEF ChannelInv, Channel!InOrderUnlessLost, Alone
    <3>2. \A m \in 1..(n - 1) : m \in DOMAIN bus
      BY <1>3, <2>1
    <3> QED
      BY <1>3, <2>1, <3>1, <3>2
  <2>2. CASE n = Len(bus) + 1
    BY <1>1, <1>3, <1>4, <2>2 DEF Delivered, ToSet
  <2> QED
    BY <1>3, <1>4, <2>1, <2>2
<1>5. \A k : Channel!Before(k)' = Earlier(k)
  BY <1>1 DEF Channel!Before, Earlier, Channel!Rows, Rows
<1>6. Channel!InOrderUnlessLost'
  BY <1>1, <1>4, <1>5 DEF Channel!InOrderUnlessLost, Alone
<1> QED
  BY <1>2, <1>6 DEF ChannelInv

(* Whatever implements the channel with a single publisher: a consumer sees the rows of a
   case in their order, but for those that were lost. *)
THEOREM ChannelKeepsOrder == Channel!ChannelSpec => []Channel!InOrderUnlessLost
<1>1. Channel!InitChannel => ChannelInv
  BY DEF Channel!InitChannel, ChannelInv, Channel!InOrderUnlessLost, Rows
<1>2. ASSUME ChannelInv, [Channel!NextChannel]_(Channel!channel)
      PROVE  ChannelInv'
  <2>1. CASE \E c \in CaseId, i \in RowId : Channel!AddRow(c, i)
    BY <1>2, <2>1, AddRowKeepsOrder
  <2>2. CASE \E i \in RowId : Channel!Deliver(i)
    BY <1>2, <2>2, DeliverKeepsOrder
  <2>3. CASE Channel!Trouble \/ UNCHANGED Channel!channel
    <3>1. caseOf' = caseOf /\ bus' = bus /\ lost \subseteq lost' /\ Alone' = Alone
      BY <2>3 DEF Channel!Trouble, Channel!channel, Alone
    <3> QED
      BY <1>2, <3>1 DEF ChannelInv, Rows, Channel!InOrderUnlessLost, Alone, Channel!Before,
         Channel!Rows
  <2> QED
    BY <1>2, <2>1, <2>2, <2>3, ChannelTerms DEF Channel!NextChannel
<1>3. ChannelInv => Channel!InOrderUnlessLost
  BY DEF ChannelInv
<1> QED
  BY <1>1, <1>2, <1>3, PTL DEF Channel!ChannelSpec

(* So it is with this outbox: as long as one publisher is deployed, its batches, retries and
   restarts (publisher.go:45) show a consumer no row of a case before an earlier one that
   was not lost. *)
THEOREM ConsumersSeeOrder == Spec => []Channel!InOrderUnlessLost
  BY PublisherImplementsChannel, ChannelKeepsOrder DEF ImplementsChannel

(* And a row comes once more than there were troubles at most, with any number of
   publishers (publisher.go:58). *)
THEOREM ConsumersSeeFewRepetitions == Spec => []Channel!RepetitionsExplained
<1>1. ASSUME Inv PROVE Channel!RepetitionsExplained
  <2> SUFFICES ASSUME NEW i \in Rows PROVE Channel!Times(i) <= 1 + troubles
    BY DEF Channel!RepetitionsExplained, Channel!Rows, Rows
  <2>1. i \in RowId
    BY <1>1 DEF Inv, Types, RowTypes
  <2>2. /\ Cardinality(Places(i)) \in Nat /\ Times(bus, i) \in Nat /\ troubles \in Nat
        /\ Times(bus, i) + Cardinality(Places(i)) <= troubles + 1
    BY <1>1, <2>1, CopiesType DEF Inv, CopiesExplained, Copies
  <2>3. Channel!Times(i) = Times(bus, i)
    <3> DEFINE At == {n \in DOMAIN bus : bus[n] = i}
    <3>1. Channel!Times(i) = Cardinality(At)
      BY DEF Channel!Times, Channel!Cardinality, Cardinality
    <3>2. Times(bus, i) = Cardinality(At)
      BY DEF Times
    <3> QED
      BY <3>1, <3>2
  <2> QED
    BY <2>2, <2>3
<1> QED
  BY <1>1, PublisherInvariant, PTL
=============================================================================
