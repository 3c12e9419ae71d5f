---------------------------- MODULE Feeds_proof ----------------------------
(***************************************************************************)
(* Proofs about the feeds, for any number of organizations and generators, *)
(* any batch size and interruptions anywhere.  Everything rests on who     *)
(* holds a row: a row is handed out once, and stays PROCESSING until its   *)
(* holder closes it.                                                       *)
(***************************************************************************)
EXTENDS Feeds, FiniteSetTheorems, TLAPS

-----------------------------------------------------------------------------
(* Types.                                                                  *)

\* A row that waits has been tried less often than the limit.
AttemptsInv ==
  \A o \in Organizations :
    /\ row[o].status = "PENDING" => row[o].attempts < AttemptLimit
    /\ row[o].status = "PROCESSING" => row[o].attempts <= AttemptLimit

\* The generator i-th in line for its batch still has that row to close.
Holds(g, i) == i \in 1..Len(batch[g]) /\ ~(i = 1 /\ phase[g] = "closed")

Claimed ==
  \A g \in Generators : \A i \in 1..Len(batch[g]) :
    Holds(g, i) => row[batch[g][i]].status = "PROCESSING"

\* No row is held twice.
Alone ==
  \A g, h \in Generators : \A i \in 1..Len(batch[g]), j \in 1..Len(batch[h]) :
    Holds(g, i) /\ Holds(h, j) /\ batch[g][i] = batch[h][j] => g = h /\ i = j

HoldInv == TypeOK /\ AttemptsInv /\ Claimed /\ Alone

LEMMA RowType ==
  ASSUME NEW s \in Statuses, NEW n \in 0..(AttemptLimit + 1)
  PROVE  [status |-> s, attempts |-> n] \in Rows
BY DEF Rows

\* The task a generator is at.
LEMMA FeedIs ==
  ASSUME TypeOK, NEW g \in Generators, batch[g] # <<>>
  PROVE  /\ Feed(g) = batch[g][1] /\ Feed(g) \in Organizations
         /\ Len(batch[g]) \in Nat /\ 1 \in 1..Len(batch[g])
         /\ Tail(batch[g]) \in Seq(Organizations)
         /\ Len(Tail(batch[g])) = Len(batch[g]) - 1
         /\ \A i \in 1..(Len(batch[g]) - 1) : Tail(batch[g])[i] = batch[g][i + 1]
BY DEF TypeOK, Feed

\* What a step that goes on with the same task leaves as it is.
LEMMA SameHolders ==
  ASSUME HoldInv, TypeOK', UNCHANGED <<row, batch>>,
         \A g \in Generators : phase[g] = "closed" => phase'[g] = "closed" \/ batch[g] = <<>>
  PROVE  HoldInv'
<1>1. AttemptsInv'
  BY DEF HoldInv, AttemptsInv
<1>2. \A g \in Generators : \A i \in 1..Len(batch[g]) : Holds(g, i)' => Holds(g, i)
  BY DEF Holds, HoldInv, TypeOK
<1>3. Claimed' /\ Alone'
  BY <1>2 DEF HoldInv, Claimed, Alone
<1>. QED
  BY <1>1, <1>3 DEF HoldInv

LEMMA HoldStart == Init => HoldInv
<1> SUFFICES ASSUME Init PROVE HoldInv
  OBVIOUS
<1>1. [status |-> "NONE", attempts |-> 0] \in Rows
  BY RowType DEF Statuses, AttemptLimit
<1>2. TypeOK
  BY <1>1, FeedsAssumption DEF Init, TypeOK, Phases
<1>3. \A g \in Generators : Len(batch[g]) = 0
  BY DEF Init
<1>. QED
  BY <1>2, <1>3 DEF Init, HoldInv, AttemptsInv, Claimed, Alone

LEMMA ScheduleHolds ==
  ASSUME HoldInv, NEW o \in Organizations, Schedule(o)
  PROVE  HoldInv'
<1> DEFINE fresh == [status |-> "PENDING", attempts |-> 0]
<1>1. fresh \in Rows
  BY RowType DEF Statuses, AttemptLimit
<1>2. row' = [row EXCEPT ![o] = fresh] /\ ~Active(o) /\ UNCHANGED <<batch, phase>>
  BY DEF Schedule, MayInsert
<1>3. turn' \in [Organizations -> Nat]
  <2>1. IsFiniteSet({u \in Organizations : Active(u)})
    BY FeedsAssumption, FS_Subset
  <2>2. Cardinality({u \in Organizations : Active(u)}) \in Nat
    BY <2>1, FS_CardinalityType
  <2>. QED
    BY <2>2 DEF Schedule, HoldInv, TypeOK
<1>4. TypeOK'
  BY <1>1, <1>2, <1>3 DEF Schedule, HoldInv, TypeOK
<1>5. AttemptsInv'
  BY <1>2 DEF HoldInv, AttemptsInv, TypeOK, AttemptLimit
<1>6. \A g \in Generators : \A i \in 1..Len(batch[g]) : Holds(g, i)' => Holds(g, i) /\ batch[g][i] # o
  BY <1>2 DEF Holds, HoldInv, Claimed, Active, ActiveStatuses
<1>7. Claimed'
  <2> SUFFICES ASSUME NEW g \in Generators, NEW i \in 1..Len(batch[g]), Holds(g, i)'
               PROVE  row'[batch[g][i]].status = "PROCESSING"
    BY <1>2 DEF Claimed
  <2>1. batch[g][i] \in Organizations /\ batch[g][i] # o /\ Holds(g, i)
    BY <1>6 DEF HoldInv, TypeOK
  <2>. QED
    BY <1>2, <2>1 DEF HoldInv, Claimed, TypeOK
<1>8. Alone'
  BY <1>2, <1>6 DEF HoldInv, Alone
<1>. QED
  BY <1>4, <1>5, <1>7, <1>8 DEF HoldInv

LEMMA FetchHolds ==
  ASSUME HoldInv, NEW g \in Generators, Fetch(g)
  PROVE  HoldInv'
<1>1. PICK n \in 1..BatchSize : \E taken \in [1..n -> Claimable] :
        /\ batch[g] = <<>>
        /\ Oldest(taken)
        /\ row' = [o \in Organizations |->
                     IF o \in Elements(taken)
                       THEN [row[o] EXCEPT !.status = "PROCESSING", !.attempts = @ + 1]
                       ELSE row[o]]
        /\ batch' = [batch EXCEPT ![g] = taken]
        /\ phase' = [phase EXCEPT ![g] = "generate"]
        /\ UNCHANGED <<published, turn, content, xml, json, since, interrupted>>
  BY DEF Fetch
<1>2. PICK taken \in [1..n -> Claimable] :
        /\ batch[g] = <<>>
        /\ Oldest(taken)
        /\ row' = [o \in Organizations |->
                     IF o \in Elements(taken)
                       THEN [row[o] EXCEPT !.status = "PROCESSING", !.attempts = @ + 1]
                       ELSE row[o]]
        /\ batch' = [batch EXCEPT ![g] = taken]
        /\ phase' = [phase EXCEPT ![g] = "generate"]
        /\ UNCHANGED <<published, turn, content, xml, json, since, interrupted>>
  BY <1>1
<1>3. n \in Nat /\ DOMAIN taken = 1..n /\ taken \in Seq(Organizations) /\ Len(taken) = n
  BY FeedsAssumption DEF Claimable
<1>4. \A i \in 1..n : taken[i] \in Organizations /\ row[taken[i]].status = "PENDING"
  BY DEF Claimable
<1>5. \A i, j \in 1..n : taken[i] = taken[j] => i = j
  <2> SUFFICES ASSUME NEW i \in 1..n, NEW j \in 1..n, taken[i] = taken[j], i # j PROVE FALSE
    OBVIOUS
  <2>1. turn[taken[i]] \in Nat
    BY <1>4 DEF HoldInv, TypeOK
  <2>2. i < j \/ j < i
    BY <1>3
  <2>3. \A k, l \in 1..n : k < l => turn[taken[k]] < turn[taken[l]]
    BY <1>2, <1>3 DEF Oldest
  <2>4. turn[taken[i]] < turn[taken[j]] \/ turn[taken[j]] < turn[taken[i]]
    BY <2>2, <2>3
  <2>. QED
    BY <2>1, <2>4
<1>6. ASSUME NEW o \in Organizations
      PROVE  /\ row'[o] \in Rows
             /\ o \in Elements(taken) => row[o].status = "PENDING" /\ row'[o].status = "PROCESSING"
                                         /\ row'[o].attempts <= AttemptLimit
             /\ o \notin Elements(taken) => row'[o] = row[o]
  <2>1. CASE o \in Elements(taken)
    <3>1. row[o].status = "PENDING"
      BY <1>3, <1>4, <2>1 DEF Elements
    <3>2. row[o] \in Rows /\ row[o].attempts \in 0..2
      BY <3>1 DEF HoldInv, AttemptsInv, TypeOK, AttemptLimit, Rows
    <3>3. row'[o] = [row[o] EXCEPT !.status = "PROCESSING", !.attempts = @ + 1]
      BY <1>2, <2>1
    <3>4. row'[o] = [status |-> "PROCESSING", attempts |-> row[o].attempts + 1]
      BY <3>2, <3>3 DEF Rows
    <3>5. row[o].attempts + 1 \in 0..(AttemptLimit + 1) /\ row[o].attempts + 1 <= AttemptLimit
      BY <3>2 DEF AttemptLimit
    <3>6. row'[o] \in Rows
      BY <3>4, <3>5, RowType DEF Statuses
    <3>. QED
      BY <2>1, <3>1, <3>4, <3>5, <3>6
  <2>2. CASE o \notin Elements(taken)
    BY <1>2, <2>2 DEF HoldInv, TypeOK
  <2>. QED
    BY <2>1, <2>2
<1>7. TypeOK'
  <2>1. row' \in [Organizations -> Rows]
    BY <1>2, <1>6
  <2>. QED
    BY <1>2, <1>3, <2>1 DEF HoldInv, TypeOK, Phases
<1>8. AttemptsInv'
  BY <1>6 DEF HoldInv, AttemptsInv
<1>9. /\ batch'[g] = taken /\ \A h \in Generators \ {g} : batch'[h] = batch[h] /\ phase'[h] = phase[h]
      /\ \A i \in 1..n : taken[i] \in Elements(taken)
  BY <1>2, <1>3 DEF HoldInv, TypeOK, Elements
<1>10. ASSUME NEW h \in Generators \ {g}, NEW i \in 1..Len(batch[h]), Holds(h, i)'
       PROVE  /\ Holds(h, i) /\ row[batch[h][i]].status = "PROCESSING"
              /\ batch[h][i] \in Organizations /\ batch[h][i] \notin Elements(taken)
  <2>0. batch[h] \in Seq(Organizations) /\ batch'[h] = batch[h] /\ phase'[h] = phase[h]
    BY <1>9 DEF HoldInv, TypeOK
  <2>1. Holds(h, i) /\ batch[h][i] \in Organizations
    <3>1. batch[h][i] \in Organizations
      BY <2>0
    <3>. QED
      BY <1>10, <2>0, <3>1 DEF Holds
  <2>2. row[batch[h][i]].status = "PROCESSING"
    BY <2>1 DEF HoldInv, Claimed
  <2>. QED
    BY <1>6, <2>1, <2>2
<1>11. Claimed'
  <2> SUFFICES ASSUME NEW h \in Generators, NEW i \in 1..Len(batch'[h]), Holds(h, i)'
               PROVE  row'[batch'[h][i]].status = "PROCESSING"
    BY DEF Claimed
  <2>1. CASE h = g
    BY <1>3, <1>4, <1>6, <1>9, <2>1
  <2>2. CASE h # g
    BY <1>6, <1>9, <1>10, <2>2
  <2>. QED
    BY <2>1, <2>2
<1>12. Alone'
  <2> SUFFICES ASSUME NEW h \in Generators, NEW k \in Generators,
                      NEW i \in 1..Len(batch'[h]), NEW j \in 1..Len(batch'[k]),
                      Holds(h, i)', Holds(k, j)', batch'[h][i] = batch'[k][j]
               PROVE  h = k /\ i = j
    BY DEF Alone
  <2>1. CASE h = g /\ k = g
    BY <1>3, <1>5, <1>9, <2>1
  <2>2. CASE h # g /\ k # g
    BY <1>9, <1>10, <2>2 DEF HoldInv, Alone
  <2>3. CASE h = g /\ k # g
    BY <1>3, <1>9, <1>10, <2>3
  <2>4. CASE h # g /\ k = g
    BY <1>3, <1>9, <1>10, <2>4
  <2>. QED
    BY <2>1, <2>2, <2>3, <2>4
<1>. QED
  BY <1>7, <1>8, <1>11, <1>12 DEF HoldInv

\* A generator goes on to the next task of its batch, or lets go of its row and
\* keeps the others.
LEMMA LetsGo ==
  ASSUME HoldInv, NEW g \in Generators, batch[g] # <<>>, TypeOK', AttemptsInv',
         NextTask(g) \/ GiveUp(g, "closed"),
         \A o \in Organizations : o # Feed(g) \/ phase[g] = "closed" => row'[o] = row[o]
  PROVE  HoldInv'
<1>1. \A h \in Generators \ {g} : batch'[h] = batch[h] /\ phase'[h] = phase[h]
  BY DEF NextTask, GiveUp, HoldInv, TypeOK
<1>2. ASSUME NEW h \in Generators \ {g}, NEW i \in 1..Len(batch[h]), Holds(h, i)'
      PROVE  /\ Holds(h, i) /\ batch[h][i] \in Organizations
             /\ row'[batch[h][i]].status = "PROCESSING"
  <2>0. batch[h] \in Seq(Organizations) /\ batch'[h] = batch[h] /\ phase'[h] = phase[h]
    BY <1>1 DEF HoldInv, TypeOK
  <2>1. Holds(h, i) /\ batch[h][i] \in Organizations
    <3>1. batch[h][i] \in Organizations
      BY <2>0
    <3>. QED
      BY <1>2, <2>0, <3>1 DEF Holds
  <2>2. row[batch[h][i]].status = "PROCESSING"
    BY <2>1 DEF HoldInv, Claimed
  <2>3. phase[g] # "closed" => batch[h][i] # Feed(g)
    <3>1. phase[g] # "closed" => Holds(g, 1)
      BY FeedIs DEF Holds, HoldInv
    <3>. QED
      BY <2>1, <3>1, FeedIs DEF HoldInv, Alone
  <2>. QED
    BY <2>1, <2>2, <2>3
\* What g holds afterwards it held before, in the same place or one further.
<1>3. ASSUME NEW i \in 1..Len(batch'[g]), Holds(g, i)'
      PROVE  \E k \in 1..Len(batch[g]) :
               /\ batch'[g][i] = batch[g][k] /\ Holds(g, k)
               /\ k = IF batch'[g] = batch[g] THEN i ELSE i + 1
               /\ row'[batch[g][k]].status = "PROCESSING"
  <2> DEFINE k == IF batch'[g] = batch[g] THEN i ELSE i + 1
  <2>1. k \in 1..Len(batch[g]) /\ batch'[g][i] = batch[g][k] /\ k # 1
    <3>1. CASE NextTask(g)
      <4>1. batch'[g] = Tail(batch[g])
        BY <3>1 DEF NextTask, HoldInv, TypeOK
      <4>2. Len(batch'[g]) = Len(batch[g]) - 1 /\ Len(batch[g]) \in Nat
        BY <4>1, FeedIs DEF HoldInv
      <4>3. Len(batch'[g]) # Len(batch[g])
        BY <4>2
      <4>4. batch'[g] # batch[g]
        BY <4>3
      <4>. QED
        BY <4>1, <4>2, <4>4, FeedIs DEF HoldInv
    <3>2. CASE ~NextTask(g)
      <4>1. batch'[g] = batch[g] /\ phase'[g] = "closed"
        BY <3>2 DEF GiveUp, HoldInv, TypeOK
      <4>. QED
        BY <1>3, <4>1 DEF Holds
    <3>. QED
      BY <3>1, <3>2
  <2>2. Holds(g, k) /\ batch[g][k] \in Organizations
    <3>1. batch[g] \in Seq(Organizations)
      BY DEF HoldInv, TypeOK
    <3>2. batch[g][k] \in Organizations
      BY <2>1, <3>1
    <3>. QED
      BY <2>1, <3>2 DEF Holds
  <2>3. row[batch[g][k]].status = "PROCESSING"
    BY <2>1, <2>2 DEF HoldInv, Claimed
  <2>4. phase[g] # "closed" => batch[g][k] # Feed(g)
    <3>1. phase[g] # "closed" => Holds(g, 1)
      BY FeedIs DEF Holds, HoldInv
    <3>. QED
      BY <2>1, <2>2, <3>1, FeedIs DEF HoldInv, Alone
  <2>5. row'[batch[g][k]] = row[batch[g][k]]
    BY <2>2, <2>4
  <2>. QED
    BY <2>1, <2>2, <2>3, <2>5
<1>4. Claimed'
  <2> SUFFICES ASSUME NEW h \in Generators, NEW i \in 1..Len(batch'[h]), Holds(h, i)'
               PROVE  row'[batch'[h][i]].status = "PROCESSING"
    BY DEF Claimed
  <2>1. CASE h = g
    BY <1>3, <2>1
  <2>2. CASE h # g
    BY <1>1, <1>2, <2>2
  <2>. QED
    BY <2>1, <2>2
<1>5. Alone'
  <2> SUFFICES ASSUME NEW h \in Generators, NEW k \in Generators,
                      NEW i \in 1..Len(batch'[h]), NEW j \in 1..Len(batch'[k]),
                      Holds(h, i)', Holds(k, j)', batch'[h][i] = batch'[k][j]
               PROVE  h = k /\ i = j
    BY DEF Alone
  <2>0. Len(batch'[h]) \in Nat /\ Len(batch'[k]) \in Nat
    <3>1. batch' \in [Generators -> Seq(Organizations)]
      BY DEF TypeOK
    <3>. QED
      BY <3>1
  <2>1. CASE h = g /\ k = g
    <3>1. PICK a \in 1..Len(batch[g]) :
            /\ batch'[g][i] = batch[g][a] /\ Holds(g, a)
            /\ a = IF batch'[g] = batch[g] THEN i ELSE i + 1
      BY <1>3, <2>1
    <3>2. PICK b \in 1..Len(batch[g]) :
            /\ batch'[g][j] = batch[g][b] /\ Holds(g, b)
            /\ b = IF batch'[g] = batch[g] THEN j ELSE j + 1
      BY <1>3, <2>1
    <3>3. a = b
      BY <2>1, <3>1, <3>2 DEF HoldInv, Alone
    <3>. QED
      BY <2>0, <2>1, <3>1, <3>2, <3>3
  <2>2. CASE h # g /\ k # g
    BY <1>1, <1>2, <2>2 DEF HoldInv, Alone
  <2>3. CASE h = g /\ k # g
    <3>1. PICK a \in 1..Len(batch[g]) : batch'[g][i] = batch[g][a] /\ Holds(g, a)
      BY <1>3, <2>3
    <3>. QED
      BY <1>1, <1>2, <2>3, <3>1 DEF HoldInv, Alone
  <2>4. CASE h # g /\ k = g
    <3>1. PICK b \in 1..Len(batch[g]) : batch'[g][j] = batch[g][b] /\ Holds(g, b)
      BY <1>3, <2>4
    <3>. QED
      BY <1>1, <1>2, <2>4, <3>1 DEF HoldInv, Alone
  <2>. QED
    BY <2>1, <2>2, <2>3, <2>4
<1>. QED
  BY <1>4, <1>5 DEF HoldInv

\* The end of an attempt changes the row of its task and nobody else's.
LEMMA CloseRow ==
  ASSUME TypeOK, NEW o \in Organizations, NEW s \in Statuses, NEW n \in 0..(AttemptLimit + 1),
         Close(o, s, n)
  PROVE  /\ row' \in [Organizations -> Rows] /\ turn' \in [Organizations -> Nat]
         /\ row'[o] = [status |-> s, attempts |-> n]
         /\ \A u \in Organizations : u # o => row'[u] = row[u]
<1>1. [status |-> s, attempts |-> n] \in Rows
  BY RowType
<1>2. /\ row' \in [Organizations -> Rows] /\ row'[o] = [status |-> s, attempts |-> n]
      /\ \A u \in Organizations : u # o => row'[u] = row[u]
  BY <1>1 DEF Close, TypeOK
<1>3. \A u \in Organizations : turn[u] \in Nat /\ (turn[u] > turn[o] => turn[u] - 1 \in Nat)
  BY DEF TypeOK
<1>4. turn' \in [Organizations -> Nat]
  <2>1. CASE s = "PENDING"
    BY <2>1 DEF Close, TypeOK
  <2>2. CASE s # "PENDING"
    BY <1>3, <2>2 DEF Close
  <2>. QED
    BY <2>1, <2>2
<1>. QED
  BY <1>2, <1>4

LEMMA EditHolds ==
  ASSUME HoldInv, NEW o \in Organizations, Edit(o)
  PROVE  HoldInv'
<1>1. published' \in [Organizations -> 0..MaxEdits]
  BY FeedsAssumption DEF Edit, HoldInv, TypeOK
<1>2. TypeOK' /\ UNCHANGED <<row, batch, phase>>
  BY <1>1 DEF Edit, HoldInv, TypeOK
<1>. QED
  BY <1>2, SameHolders

LEMMA GenerateHolds ==
  ASSUME HoldInv, NEW g \in Generators, Generate(g)
  PROVE  HoldInv'
<1>1. Feed(g) \in Organizations /\ phase[g] = "generate"
  BY FeedIs DEF Generate, Doing, HoldInv
<1>2. TypeOK' /\ UNCHANGED <<row, batch>>
  BY <1>1 DEF Generate, HoldInv, TypeOK, Phases
<1>3. \A h \in Generators : phase[h] = "closed" => phase'[h] = "closed"
  BY <1>1 DEF Generate, HoldInv, TypeOK
<1>. QED
  BY <1>2, <1>3, SameHolders

LEMMA StoreXmlHolds ==
  ASSUME HoldInv, NEW g \in Generators, StoreXml(g)
  PROVE  HoldInv'
<1>1. Feed(g) \in Organizations /\ phase[g] = "xml"
  BY FeedIs DEF StoreXml, Doing, HoldInv
<1>2. TypeOK' /\ UNCHANGED <<row, batch>>
  BY <1>1 DEF StoreXml, HoldInv, TypeOK, Phases
<1>3. \A h \in Generators : phase[h] = "closed" => phase'[h] = "closed"
  BY <1>1 DEF StoreXml, HoldInv, TypeOK
<1>. QED
  BY <1>2, <1>3, SameHolders

LEMMA StoreJsonHolds ==
  ASSUME HoldInv, NEW g \in Generators, StoreJson(g)
  PROVE  HoldInv'
<1>1. Feed(g) \in Organizations /\ phase[g] = "json"
  BY FeedIs DEF StoreJson, Doing, HoldInv
<1>2. TypeOK' /\ UNCHANGED <<row, batch>>
  BY <1>1 DEF StoreJson, HoldInv, TypeOK, Phases
<1>3. \A h \in Generators : phase[h] = "closed" => phase'[h] = "closed"
  BY <1>1 DEF StoreJson, HoldInv, TypeOK
<1>. QED
  BY <1>2, <1>3, SameHolders

LEMMA FailHolds ==
  ASSUME HoldInv, NEW g \in Generators, Fail(g)
  PROVE  HoldInv'
<1>1. TypeOK' /\ UNCHANGED <<row, batch>>
  BY FeedsAssumption DEF Fail, GiveUp, HoldInv, TypeOK, Phases
<1>2. \A h \in Generators : phase[h] = "closed" => phase'[h] = "closed"
  BY DEF Fail, GiveUp, HoldInv, TypeOK
<1>. QED
  BY <1>1, <1>2, SameHolders

\* The types of what a generator has when it is done with a task.
LEMMA DoneTypes ==
  ASSUME TypeOK, NEW g \in Generators, batch[g] # <<>>,
         NextTask(g) \/ GiveUp(g, "closed")
  PROVE  /\ batch' \in [Generators -> Seq(Organizations)]
         /\ phase' \in [Generators -> Phases]
         /\ content' \in [Generators -> 0..MaxEdits]
<1>1. 0 \in 0..MaxEdits /\ {"generate", "closed"} \subseteq Phases
  BY FeedsAssumption DEF Phases
<1>2. Tail(batch[g]) \in Seq(Organizations)
  BY FeedIs
<1>3. CASE NextTask(g)
  BY <1>1, <1>2, <1>3 DEF NextTask, TypeOK
<1>4. CASE GiveUp(g, "closed")
  BY <1>1, <1>4 DEF GiveUp, TypeOK
<1>. QED
  BY <1>3, <1>4

LEMMA MarkCompletedHolds ==
  ASSUME HoldInv, NEW g \in Generators, MarkCompleted(g)
  PROVE  HoldInv'
<1> DEFINE o == Feed(g)
<1>1. batch[g] # <<>> /\ phase[g] = "complete" /\ o \in Organizations
  BY FeedIs DEF MarkCompleted, Doing, HoldInv
<1>2. row[o].attempts \in 0..(AttemptLimit + 1) /\ "COMPLETED" \in Statuses
  BY <1>1 DEF HoldInv, TypeOK, Rows, Statuses
<1>3. /\ row' \in [Organizations -> Rows] /\ turn' \in [Organizations -> Nat]
      /\ row'[o] = [status |-> "COMPLETED", attempts |-> row[o].attempts]
      /\ \A u \in Organizations : u # o => row'[u] = row[u]
  <2>1. Close(o, "COMPLETED", row[o].attempts) /\ TypeOK
    BY DEF MarkCompleted, HoldInv
  <2>. QED
    BY <1>1, <1>2, <2>1, CloseRow
<1>4. TypeOK'
  BY <1>1, <1>3, DoneTypes DEF MarkCompleted, HoldInv, TypeOK
<1>5. AttemptsInv'
  BY <1>3 DEF HoldInv, AttemptsInv
<1>. QED
  BY <1>1, <1>3, <1>4, <1>5, LetsGo DEF MarkCompleted

LEMMA MarkFailedHolds ==
  ASSUME HoldInv, NEW g \in Generators, MarkFailed(g)
  PROVE  HoldInv'
<1> DEFINE o == Feed(g)
           n == row[o].attempts
<1>1. batch[g] # <<>> /\ phase[g] = "failed" /\ o \in Organizations
  BY FeedIs DEF MarkFailed, Doing, HoldInv
<1>2. row[o].status = "PROCESSING"
  BY <1>1, FeedIs DEF HoldInv, Claimed, Holds
<1>3. n \in 0..AttemptLimit /\ n + 1 \in 0..(AttemptLimit + 1)
  BY <1>1, <1>2 DEF HoldInv, AttemptsInv, TypeOK, Rows, AttemptLimit
<1>4. AfterFailure(n) \in Statuses /\ (AfterFailure(n) = "PENDING" => n + 1 < AttemptLimit)
      /\ AfterFailure(n) # "PROCESSING"
  BY <1>3 DEF AfterFailure, Statuses, AttemptLimit
<1>5. Close(o, AfterFailure(n), n + 1) /\ NextTask(g)
  BY DEF MarkFailed
<1>6. /\ row' \in [Organizations -> Rows] /\ turn' \in [Organizations -> Nat]
      /\ row'[o] = [status |-> AfterFailure(n), attempts |-> n + 1]
      /\ \A u \in Organizations : u # o => row'[u] = row[u]
  BY <1>1, <1>3, <1>4, <1>5, CloseRow DEF HoldInv
<1>7. TypeOK'
  BY <1>1, <1>5, <1>6, DoneTypes DEF MarkFailed, HoldInv, TypeOK
<1>8. AttemptsInv'
  BY <1>4, <1>6 DEF HoldInv, AttemptsInv
<1>. QED
  BY <1>1, <1>5, <1>6, <1>7, <1>8, LetsGo

LEMMA MarkFailedTooLateHolds ==
  ASSUME HoldInv, NEW g \in Generators, MarkFailedTooLate(g)
  PROVE  HoldInv'
<1>1. batch[g] # <<>> /\ NextTask(g) /\ row' = row
  BY DEF MarkFailedTooLate, Doing
<1>2. TypeOK'
  BY <1>1, DoneTypes DEF MarkFailedTooLate, HoldInv, TypeOK
<1>3. AttemptsInv'
  BY <1>1 DEF HoldInv, AttemptsInv
<1>. QED
  BY <1>1, <1>2, <1>3, LetsGo

LEMMA InterruptHolds ==
  ASSUME HoldInv, NEW g \in Generators, Interrupt(g)
  PROVE  HoldInv'
<1>1. batch[g] # <<>> /\ batch[g] \in Seq(Organizations) /\ Tail(batch[g]) \in Seq(Organizations)
  BY FeedIs DEF Interrupt, HoldInv, TypeOK
<1>2. \A s \in Seq(Organizations) : Elements(s) \subseteq Organizations
  BY DEF Elements
<1>3. interrupted' \subseteq Organizations
  BY <1>1, <1>2 DEF Interrupt, HoldInv, TypeOK
<1>4. TypeOK'
  BY <1>3, FeedsAssumption DEF Interrupt, HoldInv, TypeOK, Phases
<1>5. AttemptsInv'
  BY DEF Interrupt, HoldInv, AttemptsInv
<1>6. ASSUME NEW h \in Generators, NEW i \in 1..Len(batch'[h])
      PROVE  h # g /\ batch'[h] = batch[h] /\ phase'[h] = phase[h]
  <2>1. batch'[g] = <<>> /\ (h # g => batch'[h] = batch[h] /\ phase'[h] = phase[h])
    BY DEF Interrupt, HoldInv, TypeOK
  <2>2. h # g
    BY <2>1
  <2>. QED
    BY <2>1, <2>2
<1>7. \A h \in Generators : \A i \in 1..Len(batch'[h]) : Holds(h, i)' => Holds(h, i)
  BY <1>6 DEF Holds
<1>8. Claimed' /\ Alone'
  BY <1>6, <1>7 DEF Interrupt, HoldInv, Claimed, Alone
<1>. QED
  BY <1>4, <1>5, <1>8 DEF HoldInv

LEMMA HoldStep == HoldInv /\ [Next]_vars => HoldInv'
<1> SUFFICES ASSUME HoldInv, [Next]_vars PROVE HoldInv'
  OBVIOUS
<1>1. CASE \E o \in Organizations : Edit(o) \/ Schedule(o)
  BY <1>1, EditHolds, ScheduleHolds
<1>2. CASE \E g \in Generators : Fetch(g) \/ Interrupt(g)
  BY <1>2, FetchHolds, InterruptHolds
<1>3. CASE \E g \in Generators : Advance(g)
  BY <1>3, GenerateHolds, StoreXmlHolds, StoreJsonHolds, MarkCompletedHolds, FailHolds,
     MarkFailedHolds, MarkFailedTooLateHolds DEF Advance
<1>4. CASE UNCHANGED vars
  <2>1. TypeOK' /\ UNCHANGED <<row, batch, phase>>
    BY <1>4 DEF vars, HoldInv, TypeOK
  <2>. QED
    BY <2>1, SameHolders
<1>. QED
  BY <1>1, <1>2, <1>3, <1>4 DEF Next

\* The rows of the queue, its order and the batches keep their types, and no row
\* is tried more often than the limit allows.
THEOREM TypeCorrect == Spec => []TypeOK
<1>1. HoldInv => TypeOK
  BY DEF HoldInv
<1>. QED
  BY <1>1, HoldStart, HoldStep, PTL DEF Spec

\* Two generators that write have different tasks in hand, so different feeds:
\* the first row of a batch is held as long as its files are being written.
THEOREM OneWriterAlways == Spec => []OneWriterPerFeed
<1>1. HoldInv => OneWriterPerFeed
  <2> SUFFICES ASSUME HoldInv, NEW g \in Generators, NEW h \in Generators,
                      g # h, Writing(g), Writing(h), Feed(g) = Feed(h)
               PROVE  FALSE
    BY DEF OneWriterPerFeed
  <2>1. Holds(g, 1) /\ Holds(h, 1) /\ batch[g][1] = batch[h][1]
    BY FeedIs DEF Writing, Holds, HoldInv
  <2>. QED
    BY <2>1 DEF HoldInv, Alone, Holds
<1>. QED
  BY <1>1, HoldStart, HoldStep, PTL DEF Spec

-----------------------------------------------------------------------------
(* What the files show.                                                    *)

InHand(g) == batch[g] # <<>> /\ phase[g] \in {"xml", "json", "complete"}

\* What was read for a task shows all that was published when the task was asked
\* for, and all that the files it has still to replace show.
ReadWell(g) ==
  LET o == Feed(g) IN
  /\ since[o] <= content[g] /\ content[g] <= published[o]
  /\ xml[o] <= content[g] /\ json[o] <= content[g]
  /\ phase[g] \in {"json", "complete"} => xml[o] = content[g]
  /\ phase[g] = "complete" => json[o] = content[g]

\* Nothing shows what was not published yet.
Shown(o) == since[o] <= published[o] /\ xml[o] <= published[o] /\ json[o] <= published[o]

WriteInv ==
  /\ \A o \in Organizations : Shown(o)
  /\ \A g \in Generators : InHand(g) => ReadWell(g)
  /\ FilesAgree
  /\ FeedIsFresh

\* The types of the numbers, in a form the solver uses as it stands.
LEMMA Numbers ==
  ASSUME TypeOK
  PROVE  /\ \A o \in Organizations : published[o] \in Nat /\ xml[o] \in Nat /\ json[o] \in Nat
                                     /\ since[o] \in Nat
         /\ \A g \in Generators : content[g] \in Nat
BY FeedsAssumption DEF TypeOK

\* The row of a task in hand is PROCESSING, and nobody else has it in hand.
LEMMA InHandAlone ==
  ASSUME HoldInv, NEW g \in Generators, InHand(g)
  PROVE  /\ Feed(g) \in Organizations /\ row[Feed(g)].status = "PROCESSING" /\ Active(Feed(g))
         /\ \A h \in Generators : InHand(h) /\ h # g => Feed(h) # Feed(g)
<1>1. Feed(g) = batch[g][1] /\ Feed(g) \in Organizations /\ Holds(g, 1)
  BY FeedIs DEF InHand, Holds, HoldInv
<1>2. row[Feed(g)].status = "PROCESSING"
  BY <1>1 DEF HoldInv, Claimed, Holds
<1>3. ASSUME NEW h \in Generators, InHand(h), h # g PROVE Feed(h) # Feed(g)
  <2>1. Feed(h) = batch[h][1] /\ Holds(h, 1)
    BY <1>3, FeedIs DEF InHand, Holds, HoldInv
  <2>. QED
    BY <1>1, <1>3, <2>1 DEF HoldInv, Alone, Holds
<1>. QED
  BY <1>1, <1>2, <1>3 DEF Active, ActiveStatuses

\* A step that stores nothing and reads nothing keeps what the files show, when
\* what comes in hand was in hand and the rows that change do not claim too much.
LEMMA StoresNothing ==
  ASSUME HoldInv, WriteInv, UNCHANGED <<published, xml, json>>,
         \A o \in Organizations :
           since'[o] = since[o] \/ (since'[o] = published[o] /\ ~Active(o)
                                    /\ row'[o].status \notin {"NONE", "COMPLETED"}),
         \A g \in Generators :
           InHand(g)' => InHand(g) /\ Feed(g)' = Feed(g) /\ content'[g] = content[g]
                         /\ phase'[g] = phase[g],
         \A o \in Organizations :
           row'[o].status = "COMPLETED" =>
             row[o].status = "COMPLETED"
             \/ (xml[o] = json[o] /\ xml[o] >= since[o]),
         \A o \in Organizations :
           Active(o)' \/ row'[o].status = "FAILED" \/ row'[o].status = row[o].status
           \/ row'[o].status = "COMPLETED"
  PROVE  WriteInv'
<1>1. ASSUME NEW o \in Organizations PROVE Shown(o)'
  BY Numbers DEF HoldInv, WriteInv, Shown
<1>2. ASSUME NEW g \in Generators, InHand(g)' PROVE ReadWell(g)'
  <2>1. InHand(g) /\ Feed(g)' = Feed(g) /\ content'[g] = content[g] /\ phase'[g] = phase[g]
    BY <1>2
  <2>2. Feed(g) \in Organizations /\ Active(Feed(g))
    BY <2>1, InHandAlone
  <2>3. since'[Feed(g)] = since[Feed(g)] /\ ReadWell(g)
    BY <2>1, <2>2 DEF WriteInv
  <2>. QED
    BY <2>1, <2>3 DEF ReadWell
<1>3. FilesAgree'
  <2> SUFFICES ASSUME NEW o \in Organizations, xml[o] # json[o], ~Active(o)',
                      row'[o].status # "FAILED"
               PROVE  FALSE
    BY DEF FilesAgree
  <2>1. row'[o].status = row[o].status \/ row'[o].status = "COMPLETED"
    OBVIOUS
  <2>2. row'[o].status = row[o].status
    BY <2>1
  <2>. QED
    BY <2>2 DEF WriteInv, FilesAgree, Active
<1>4. FeedIsFresh'
  <2> SUFFICES ASSUME NEW o \in Organizations, row'[o].status = "COMPLETED"
               PROVE  xml[o] >= since'[o] /\ json[o] >= since'[o]
    BY DEF FeedIsFresh
  <2>1. since'[o] = since[o]
    OBVIOUS
  <2>2. CASE row[o].status = "COMPLETED"
    BY <2>1, <2>2 DEF WriteInv, FeedIsFresh
  <2>3. CASE xml[o] = json[o] /\ xml[o] >= since[o]
    BY <2>1, <2>3
  <2>. QED
    BY <2>2, <2>3
<1>. QED
  BY <1>1, <1>2, <1>3, <1>4 DEF WriteInv

\* Another generator's step leaves what a generator has in hand.
LEMMA Apart ==
  ASSUME HoldInv, NEW g \in Generators,
         \A h \in Generators \ {g} :
           batch'[h] = batch[h] /\ phase'[h] = phase[h] /\ content'[h] = content[h],
         phase'[g] \notin {"xml", "json", "complete"},
         NEW h \in Generators, InHand(h)'
  PROVE  InHand(h) /\ Feed(h)' = Feed(h) /\ content'[h] = content[h] /\ phase'[h] = phase[h]
BY DEF InHand, Feed

LEMMA ScheduleShows ==
  ASSUME HoldInv, WriteInv, NEW o \in Organizations, Schedule(o)
  PROVE  WriteInv'
<1>1. /\ row'[o].status = "PENDING" /\ ~Active(o) /\ since'[o] = published[o]
      /\ \A u \in Organizations : u # o => row'[u] = row[u] /\ since'[u] = since[u]
      /\ UNCHANGED <<published, xml, json, batch, phase, content>>
  BY DEF Schedule, MayInsert, HoldInv, TypeOK
<1>2. \A g \in Generators :
        InHand(g)' => InHand(g) /\ Feed(g)' = Feed(g) /\ content'[g] = content[g]
                      /\ phase'[g] = phase[g]
  BY <1>1 DEF InHand, Feed
<1>3. \A u \in Organizations :
        since'[u] = since[u] \/ (since'[u] = published[u] /\ ~Active(u)
                                 /\ row'[u].status \notin {"NONE", "COMPLETED"})
  BY <1>1
<1>4. \A u \in Organizations :
        row'[u].status = "COMPLETED" => row[u].status = "COMPLETED"
                                        \/ (xml[u] = json[u] /\ xml[u] >= since[u])
  BY <1>1
<1>5. \A u \in Organizations :
        Active(u)' \/ row'[u].status = "FAILED" \/ row'[u].status = row[u].status
        \/ row'[u].status = "COMPLETED"
  BY <1>1 DEF Active, ActiveStatuses
<1>. QED
  BY <1>1, <1>2, <1>3, <1>4, <1>5, StoresNothing

LEMMA FetchShows ==
  ASSUME HoldInv, WriteInv, NEW g \in Generators, Fetch(g)
  PROVE  WriteInv'
<1>1. /\ \A u \in Organizations : row'[u].status = "PROCESSING" \/ row'[u] = row[u]
      /\ phase'[g] = "generate"
      /\ \A h \in Generators \ {g} :
           batch'[h] = batch[h] /\ phase'[h] = phase[h] /\ content'[h] = content[h]
      /\ UNCHANGED <<published, xml, json, since>>
  <2>1. PICK n \in 1..BatchSize : \E taken \in [1..n -> Claimable] :
          /\ row' = [o \in Organizations |->
                       IF o \in Elements(taken)
                         THEN [row[o] EXCEPT !.status = "PROCESSING", !.attempts = @ + 1]
                         ELSE row[o]]
          /\ batch' = [batch EXCEPT ![g] = taken]
          /\ phase' = [phase EXCEPT ![g] = "generate"]
          /\ UNCHANGED <<published, turn, content, xml, json, since, interrupted>>
    BY DEF Fetch
  <2>2. PICK taken \in [1..n -> Claimable] :
          /\ row' = [o \in Organizations |->
                       IF o \in Elements(taken)
                         THEN [row[o] EXCEPT !.status = "PROCESSING", !.attempts = @ + 1]
                         ELSE row[o]]
          /\ batch' = [batch EXCEPT ![g] = taken]
          /\ phase' = [phase EXCEPT ![g] = "generate"]
          /\ UNCHANGED <<published, turn, content, xml, json, since, interrupted>>
    BY <2>1
  <2>3. ASSUME NEW u \in Organizations PROVE row'[u].status = "PROCESSING" \/ row'[u] = row[u]
    <3>1. row[u] \in Rows
      BY DEF HoldInv, TypeOK
    <3>. QED
      BY <2>2, <3>1 DEF Rows
  <2>. QED
    BY <2>2, <2>3 DEF HoldInv, TypeOK
<1>2. \A h \in Generators :
        InHand(h)' => InHand(h) /\ Feed(h)' = Feed(h) /\ content'[h] = content[h]
                      /\ phase'[h] = phase[h]
  BY <1>1, Apart
<1>3. \A u \in Organizations :
        Active(u)' \/ row'[u].status = "FAILED" \/ row'[u].status = row[u].status
        \/ row'[u].status = "COMPLETED"
  BY <1>1 DEF Active, ActiveStatuses
<1>4. \A u \in Organizations :
        row'[u].status = "COMPLETED" => row[u].status = "COMPLETED"
                                        \/ (xml[u] = json[u] /\ xml[u] >= since[u])
  BY <1>1
<1>. QED
  BY <1>1, <1>2, <1>3, <1>4, StoresNothing

\* The ends of an attempt: the task is completed with both files written, failed,
\* or has been dealt with before.
LEMMA DoneShows ==
  ASSUME HoldInv, WriteInv, NEW g \in Generators,
         MarkCompleted(g) \/ MarkFailed(g) \/ MarkFailedTooLate(g)
  PROVE  WriteInv'
<1> DEFINE o == Feed(g)
<1>1. batch[g] # <<>> /\ o \in Organizations /\ phase[g] \in Phases
  BY FeedIs DEF MarkCompleted, MarkFailed, MarkFailedTooLate, Doing, HoldInv, TypeOK
<1>2. /\ \A h \in Generators \ {g} :
           batch'[h] = batch[h] /\ phase'[h] = phase[h] /\ content'[h] = content[h]
      /\ phase'[g] \in {"generate", "closed"}
      /\ UNCHANGED <<published, xml, json, since>>
  BY DEF MarkCompleted, MarkFailed, MarkFailedTooLate, NextTask, GiveUp, HoldInv, TypeOK
<1>3. \A h \in Generators :
        InHand(h)' => InHand(h) /\ Feed(h)' = Feed(h) /\ content'[h] = content[h]
                      /\ phase'[h] = phase[h]
  BY <1>2, Apart
<1>4. \A u \in Organizations : u # o => row'[u] = row[u]
  BY <1>1 DEF MarkCompleted, MarkFailed, MarkFailedTooLate, Close, HoldInv, TypeOK
<1>5. \/ row'[o].status = "COMPLETED" /\ xml[o] = json[o] /\ xml[o] >= since[o]
      \/ row'[o].status \in {"PENDING", "FAILED"}
      \/ row'[o] = row[o]
  <2>1. CASE MarkCompleted(g)
    <3>1. row'[o].status = "COMPLETED"
      BY <1>1, <2>1 DEF MarkCompleted, Close, HoldInv, TypeOK
    <3>2. ReadWell(g) /\ phase[g] = "complete"
      BY <2>1 DEF MarkCompleted, Doing, InHand, WriteInv
    <3>. QED
      BY <1>1, <3>1, <3>2, Numbers DEF ReadWell, HoldInv
  <2>2. CASE MarkFailed(g)
    <3>1. row'[o].status = AfterFailure(row[o].attempts)
      BY <1>1, <2>2 DEF MarkFailed, Close, HoldInv, TypeOK
    <3>. QED
      BY <3>1 DEF AfterFailure
  <2>3. CASE MarkFailedTooLate(g)
    BY <2>3 DEF MarkFailedTooLate
  <2>. QED
    BY <2>1, <2>2, <2>3
<1>6. \A u \in Organizations :
        row'[u].status = "COMPLETED" => row[u].status = "COMPLETED"
                                        \/ (xml[u] = json[u] /\ xml[u] >= since[u])
  BY <1>4, <1>5
<1>7. \A u \in Organizations :
        Active(u)' \/ row'[u].status = "FAILED" \/ row'[u].status = row[u].status
        \/ row'[u].status = "COMPLETED"
  BY <1>4, <1>5 DEF Active, ActiveStatuses
<1>. QED
  BY <1>2, <1>3, <1>6, <1>7, StoresNothing

\* A failure or an interruption touches the table no more than a stuttering step.
LEMMA QuietShows ==
  ASSUME HoldInv, WriteInv,
         (\E g \in Generators : Fail(g) \/ Interrupt(g)) \/ UNCHANGED vars
  PROVE  WriteInv'
<1>1. UNCHANGED <<published, xml, json, since, row>>
  BY DEF Fail, Interrupt, vars
<1>2. \A h \in Generators :
        InHand(h)' => InHand(h) /\ Feed(h)' = Feed(h) /\ content'[h] = content[h]
                      /\ phase'[h] = phase[h]
  <2>1. CASE UNCHANGED vars
    BY <2>1 DEF vars, InHand, Feed
  <2>2. ASSUME NEW g \in Generators, Fail(g) \/ Interrupt(g)
        PROVE  /\ \A h \in Generators \ {g} :
                    batch'[h] = batch[h] /\ phase'[h] = phase[h] /\ content'[h] = content[h]
               /\ phase'[g] \notin {"xml", "json", "complete"}
    BY <2>2 DEF Fail, GiveUp, Interrupt, HoldInv, TypeOK
  <2>. QED
    BY <2>1, <2>2, Apart
<1>3. \A u \in Organizations : row'[u].status = row[u].status /\ since'[u] = since[u]
  BY <1>1
<1>. QED
  BY <1>1, <1>2, <1>3, StoresNothing

LEMMA EditShows ==
  ASSUME HoldInv, WriteInv, NEW o \in Organizations, Edit(o)
  PROVE  WriteInv'
<1>1. /\ \A u \in Organizations : published'[u] \in Nat /\ published[u] <= published'[u]
      /\ UNCHANGED <<row, batch, phase, content, xml, json, since>>
  <2>1. published' = [published EXCEPT ![o] = @ + 1] /\ published \in [Organizations -> 0..MaxEdits]
    BY DEF Edit, HoldInv, TypeOK
  <2>2. \A u \in Organizations : published'[u] = published[u] \/ published'[u] = published[u] + 1
    BY <2>1
  <2>. QED
    BY <2>2, Numbers DEF Edit, HoldInv
<1>2. \A u \in Organizations : Shown(u)'
  <2> SUFFICES ASSUME NEW u \in Organizations PROVE Shown(u)'
    OBVIOUS
  <2>1. Shown(u) /\ since[u] \in Nat /\ xml[u] \in Nat /\ json[u] \in Nat /\ published[u] \in Nat
    BY Numbers DEF WriteInv, HoldInv
  <2>. QED
    BY <1>1, <2>1 DEF Shown
<1>3. ASSUME NEW g \in Generators, InHand(g)' PROVE ReadWell(g)'
  <2>1. InHand(g) /\ Feed(g)' = Feed(g)
    BY <1>1, <1>3 DEF InHand, Feed
  <2>2. ReadWell(g) /\ Feed(g) \in Organizations
    BY <2>1, InHandAlone DEF WriteInv
  <2>3. content[g] \in Nat /\ published[Feed(g)] \in Nat
    BY <2>2, Numbers DEF HoldInv
  <2>. QED
    BY <1>1, <2>1, <2>2, <2>3 DEF ReadWell
<1>4. FilesAgree' /\ FeedIsFresh'
  BY <1>1 DEF WriteInv, FilesAgree, FeedIsFresh, Active
<1>. QED
  BY <1>2, <1>3, <1>4 DEF WriteInv

LEMMA GenerateShows ==
  ASSUME HoldInv, WriteInv, NEW g \in Generators, Generate(g)
  PROVE  WriteInv'
<1> DEFINE o == Feed(g)
<1>1. o \in Organizations
  BY FeedIs DEF Generate, Doing, HoldInv
<1>2. /\ content'[g] = published[o] /\ phase'[g] = "xml"
      /\ \A h \in Generators \ {g} : content'[h] = content[h] /\ phase'[h] = phase[h]
      /\ UNCHANGED <<published, row, batch, xml, json, since>>
  BY DEF Generate, HoldInv, TypeOK
<1>3. ASSUME NEW h \in Generators, InHand(h)' PROVE ReadWell(h)'
  <2>1. CASE h = g
    <3>1. Shown(o)
      BY <1>1 DEF WriteInv
    <3>. QED
      BY <1>1, <1>2, <2>1, <3>1, Numbers DEF ReadWell, Shown, Feed, HoldInv
  <2>2. CASE h # g
    <3>1. InHand(h)
      BY <1>2, <1>3, <2>2 DEF InHand
    <3>2. ReadWell(h)
      BY <3>1 DEF WriteInv
    <3>. QED
      BY <1>2, <2>2, <3>2 DEF ReadWell, Feed
  <2>. QED
    BY <2>1, <2>2
<1>4. (\A u \in Organizations : Shown(u)') /\ FilesAgree' /\ FeedIsFresh'
  BY <1>2 DEF WriteInv, Shown, FilesAgree, FeedIsFresh, Active
<1>. QED
  BY <1>3, <1>4 DEF WriteInv

\* A file is written for a task in hand: its row is PROCESSING, so neither file
\* has to agree yet, and no other generator counts on what the file showed.
LEMMA StoreXmlShows ==
  ASSUME HoldInv, WriteInv, NEW g \in Generators, StoreXml(g)
  PROVE  WriteInv' /\ NotOlder
<1> DEFINE o == Feed(g)
<1>1. InHand(g) /\ phase[g] = "xml"
  BY DEF StoreXml, Doing, InHand
<1>2. o \in Organizations /\ row[o].status = "PROCESSING" /\ ReadWell(g)
      /\ \A h \in Generators : InHand(h) /\ h # g => Feed(h) # o
  BY <1>1, InHandAlone DEF WriteInv
<1>3. /\ xml'[o] = content[g] /\ phase'[g] = "json"
      /\ \A u \in Organizations : u # o => xml'[u] = xml[u]
      /\ \A h \in Generators \ {g} : phase'[h] = phase[h]
      /\ UNCHANGED <<published, row, batch, content, json, since>>
  BY <1>2 DEF StoreXml, HoldInv, TypeOK
<1>4. ASSUME NEW h \in Generators, InHand(h)' PROVE ReadWell(h)'
  <2>1. CASE h = g
    BY <1>2, <1>3, <2>1, Numbers DEF ReadWell, Feed, HoldInv
  <2>2. CASE h # g
    <3>1. InHand(h)
      BY <1>3, <1>4, <2>2 DEF InHand
    <3>2. ReadWell(h) /\ Feed(h) # o /\ Feed(h) \in Organizations
      BY <1>2, <2>2, <3>1, InHandAlone DEF WriteInv
    <3>. QED
      BY <1>3, <2>2, <3>2 DEF ReadWell, Feed
  <2>. QED
    BY <2>1, <2>2
<1>5. ASSUME NEW u \in Organizations PROVE Shown(u)'
  <2>1. CASE u = o
    BY <1>2, <1>3, <2>1, Numbers DEF WriteInv, Shown, ReadWell, HoldInv
  <2>2. CASE u # o
    BY <1>3, <2>2 DEF WriteInv, Shown
  <2>. QED
    BY <2>1, <2>2
<1>6. FilesAgree' /\ FeedIsFresh'
  BY <1>2, <1>3 DEF WriteInv, FilesAgree, FeedIsFresh, Active, ActiveStatuses
<1>7. NotOlder
  BY <1>2, <1>3, Numbers DEF NotOlder, ReadWell, HoldInv
<1>. QED
  BY <1>4, <1>5, <1>6, <1>7 DEF WriteInv

LEMMA StoreJsonShows ==
  ASSUME HoldInv, WriteInv, NEW g \in Generators, StoreJson(g)
  PROVE  WriteInv' /\ NotOlder
<1> DEFINE o == Feed(g)
<1>1. InHand(g) /\ phase[g] = "json"
  BY DEF StoreJson, Doing, InHand
<1>2. o \in Organizations /\ row[o].status = "PROCESSING" /\ ReadWell(g)
      /\ \A h \in Generators : InHand(h) /\ h # g => Feed(h) # o
  BY <1>1, InHandAlone DEF WriteInv
<1>3. /\ json'[o] = content[g] /\ phase'[g] = "complete"
      /\ \A u \in Organizations : u # o => json'[u] = json[u]
      /\ \A h \in Generators \ {g} : phase'[h] = phase[h]
      /\ UNCHANGED <<published, row, batch, content, xml, since>>
  BY <1>2 DEF StoreJson, HoldInv, TypeOK
<1>4. ASSUME NEW h \in Generators, InHand(h)' PROVE ReadWell(h)'
  <2>1. CASE h = g
    BY <1>1, <1>2, <1>3, <2>1, Numbers DEF ReadWell, Feed, HoldInv
  <2>2. CASE h # g
    <3>1. InHand(h)
      BY <1>3, <1>4, <2>2 DEF InHand
    <3>2. ReadWell(h) /\ Feed(h) # o /\ Feed(h) \in Organizations
      BY <1>2, <2>2, <3>1, InHandAlone DEF WriteInv
    <3>. QED
      BY <1>3, <2>2, <3>2 DEF ReadWell, Feed
  <2>. QED
    BY <2>1, <2>2
<1>5. ASSUME NEW u \in Organizations PROVE Shown(u)'
  <2>1. CASE u = o
    BY <1>2, <1>3, <2>1, Numbers DEF WriteInv, Shown, ReadWell, HoldInv
  <2>2. CASE u # o
    BY <1>3, <2>2 DEF WriteInv, Shown
  <2>. QED
    BY <2>1, <2>2
<1>6. FilesAgree' /\ FeedIsFresh'
  BY <1>2, <1>3 DEF WriteInv, FilesAgree, FeedIsFresh, Active, ActiveStatuses
<1>7. NotOlder
  BY <1>2, <1>3, Numbers DEF NotOlder, ReadWell, HoldInv
<1>. QED
  BY <1>4, <1>5, <1>6, <1>7 DEF WriteInv

LEMMA StartShows == Init => WriteInv
<1> SUFFICES ASSUME Init PROVE WriteInv
  OBVIOUS
<1>1. \A g \in Generators : ~InHand(g)
  BY DEF Init, InHand
<1>. QED
  BY <1>1 DEF Init, WriteInv, Shown, FilesAgree, FeedIsFresh

LEMMA ShowStep == HoldInv /\ WriteInv /\ [Next]_vars => WriteInv' /\ [NotOlder]_vars
<1> SUFFICES ASSUME HoldInv, WriteInv, [Next]_vars PROVE WriteInv' /\ [NotOlder]_vars
  OBVIOUS
<1>1. ASSUME UNCHANGED <<xml, json>> PROVE NotOlder
  BY <1>1, Numbers DEF NotOlder, HoldInv
<1>2. CASE \E o \in Organizations : Edit(o) \/ Schedule(o)
  BY <1>1, <1>2, EditShows, ScheduleShows DEF Edit, Schedule
<1>3. CASE \E g \in Generators : StoreXml(g) \/ StoreJson(g)
  BY <1>3, StoreXmlShows, StoreJsonShows
<1>4. CASE \E g \in Generators : Fetch(g) \/ Generate(g)
  BY <1>1, <1>4, FetchShows, GenerateShows DEF Fetch, Generate
<1>5. CASE \E g \in Generators : MarkCompleted(g) \/ MarkFailed(g) \/ MarkFailedTooLate(g)
  BY <1>1, <1>5, DoneShows DEF MarkCompleted, MarkFailed, MarkFailedTooLate
<1>6. CASE \E g \in Generators : Fail(g) \/ Interrupt(g)
  BY <1>1, <1>6, QuietShows DEF Fail, Interrupt
<1>7. CASE UNCHANGED vars
  BY <1>7, QuietShows
<1>. QED
  BY <1>2, <1>3, <1>4, <1>5, <1>6, <1>7 DEF Next, Advance

\* The two files of an organization agree whenever it has no task at work and its
\* last one did not fail: the files of a completed task are of one reading.
THEOREM FilesAlwaysAgree == Spec => []FilesAgree
<1>1. WriteInv => FilesAgree
  BY DEF WriteInv
<1>. QED
  BY <1>1, HoldStart, HoldStep, StartShows, ShowStep, PTL DEF Spec

\* A completed task shows all that was published when it was queued.
THEOREM FeedAlwaysFresh == Spec => []FeedIsFresh
<1>1. WriteInv => FeedIsFresh
  BY DEF WriteInv
<1>. QED
  BY <1>1, HoldStart, HoldStep, StartShows, ShowStep, PTL DEF Spec

\* No stored file is ever replaced by an older one, however often generators fail,
\* stop or lose an answer of the database.
THEOREM FilesGrow == Spec => NeverOlder
BY HoldStart, HoldStep, StartShows, ShowStep, PTL DEF Spec, NeverOlder

-----------------------------------------------------------------------------
(* The refinement of Publication.                                          *)

\* The task Publication sees in a row.
LEMMA TaskSeen ==
  ASSUME NEW o \in Organizations
  PROVE  /\ row[o].status \in ActiveStatuses => Task(o) = "ACTIVE"
         /\ row[o].status \notin ActiveStatuses => Task(o) = row[o].status
         /\ row'[o].status \in ActiveStatuses => Task(o)' = "ACTIVE"
         /\ row'[o].status \notin ActiveStatuses => Task(o)' = row'[o].status
         /\ row'[o].status = row[o].status => Task(o)' = Task(o)
BY DEF Task, Active, ActiveStatuses

\* A step that leaves the posts, the files and every task as it is.
LEMMA Unseen ==
  ASSUME UNCHANGED <<published, since, xml, json>>,
         \A o \in Organizations : Task(o)' = Task(o)
  PROVE  UNCHANGED Promise!view
BY DEF Promise!view

\* A step of one task that changes only where that task is.
LEMMA TaskMoves ==
  ASSUME NEW o \in Organizations, NEW s,
         Task(o)' = s, \A u \in Organizations : u # o => Task(u)' = Task(u)
  PROVE  [u \in Organizations |-> Task(u)]' = [[u \in Organizations |-> Task(u)] EXCEPT ![o] = s]
OBVIOUS

LEMMA EditMaps ==
  ASSUME HoldInv, NEW o \in Organizations, Edit(o)
  PROVE  Promise!Edit(o)
<1>1. \A u \in Organizations : Task(u)' = Task(u)
  BY DEF Edit, Task, Active
<1>. QED
  BY <1>1 DEF Edit, Promise!Edit

LEMMA ScheduleMaps ==
  ASSUME HoldInv, NEW o \in Organizations, Schedule(o)
  PROVE  Promise!Ask(o)
<1>1. row' = [row EXCEPT ![o] = [status |-> "PENDING", attempts |-> 0]] /\ ~Active(o)
  BY DEF Schedule, MayInsert
<1>2. row'[o].status = "PENDING" /\ \A u \in Organizations : u # o => row'[u] = row[u]
  BY <1>1 DEF HoldInv, TypeOK
<1>3. Task(o)' = "ACTIVE" /\ Task(o) # "ACTIVE"
  <2>1. row[o].status \in Statuses
    BY DEF HoldInv, TypeOK, Rows
  <2>. QED
    BY <1>1, <1>2, <2>1, TaskSeen DEF Active, ActiveStatuses, Statuses
<1>4. \A u \in Organizations : u # o => Task(u)' = Task(u)
  BY <1>2, TaskSeen
<1>. QED
  BY <1>3, <1>4, TaskMoves DEF Schedule, Promise!Ask, Promise!AtWork

\* What a generator reads lies between what was asked for and what is published.
LEMMA StoreXmlMaps ==
  ASSUME HoldInv, WriteInv, NEW g \in Generators, StoreXml(g)
  PROVE  \E o \in Organizations : \E posts \in since[o]..published[o] :
           Promise!StoreXml(o, posts)
<1> DEFINE o == Feed(g)
<1>1. InHand(g)
  BY DEF StoreXml, Doing, InHand
<1>2. o \in Organizations /\ Active(o) /\ ReadWell(g)
  BY <1>1, InHandAlone DEF WriteInv
<1>3. content[g] \in since[o]..published[o] /\ content[g] >= xml[o] /\ content[g] >= json[o]
  BY <1>2, Numbers DEF ReadWell, HoldInv
<1>4. Task(o) = "ACTIVE" /\ \A u \in Organizations : Task(u)' = Task(u)
  BY <1>2 DEF StoreXml, Task, Active
<1>5. Promise!StoreXml(o, content[g])
  BY <1>2, <1>3, <1>4 DEF StoreXml, Promise!StoreXml, Promise!AtWork
<1>. QED
  BY <1>2, <1>3, <1>5

LEMMA StoreJsonMaps ==
  ASSUME HoldInv, WriteInv, NEW g \in Generators, StoreJson(g)
  PROVE  \E o \in Organizations : Promise!StoreJson(o)
<1> DEFINE o == Feed(g)
<1>1. InHand(g) /\ phase[g] = "json"
  BY DEF StoreJson, Doing, InHand
<1>2. o \in Organizations /\ Active(o) /\ xml[o] = content[g]
  BY <1>1, InHandAlone DEF WriteInv, ReadWell
<1>3. Task(o) = "ACTIVE" /\ \A u \in Organizations : Task(u)' = Task(u)
  BY <1>2 DEF StoreJson, Task, Active
<1>. QED
  BY <1>2, <1>3 DEF StoreJson, Promise!StoreJson, Promise!AtWork

\* A task is completed by a generator that has written both its files.
LEMMA MarkCompletedMaps ==
  ASSUME HoldInv, WriteInv, NEW g \in Generators, MarkCompleted(g)
  PROVE  \E o \in Organizations : Promise!Complete(o)
<1>1. InHand(g) /\ phase[g] = "complete"
  BY DEF MarkCompleted, Doing, InHand
<1>2. PICK o \in Organizations :
        /\ o = Feed(g) /\ row[o].status = "PROCESSING"
        /\ xml[o] = json[o] /\ xml[o] >= since[o]
  BY <1>1, InHandAlone, Numbers DEF WriteInv, ReadWell, HoldInv
<1>3. row'[o].status = "COMPLETED" /\ \A u \in Organizations : u # o => row'[u] = row[u]
  BY <1>2 DEF MarkCompleted, Close, HoldInv, TypeOK
<1>4. Task(o) = "ACTIVE" /\ Task(o)' = "COMPLETED"
  BY <1>2, <1>3, TaskSeen DEF ActiveStatuses
<1>5. \A u \in Organizations : u # o => Task(u)' = Task(u)
  BY <1>3, TaskSeen
<1>. QED
  BY <1>2, <1>4, <1>5, TaskMoves DEF MarkCompleted, Promise!Complete, Promise!AtWork

\* A failed attempt goes back to the queue unseen, or is the end of the task.
LEMMA MarkFailedMaps ==
  ASSUME HoldInv, NEW g \in Generators, MarkFailed(g)
  PROVE  (\E o \in Organizations : Promise!GiveUp(o)) \/ UNCHANGED Promise!view
<1>1. PICK o \in Organizations : o = Feed(g) /\ Holds(g, 1)
  BY FeedIs DEF MarkFailed, Doing, Holds, HoldInv
<1>2. row[o].status = "PROCESSING"
  BY <1>1, FeedIs DEF HoldInv, Claimed, Holds, MarkFailed, Doing
<1>3. row'[o].status = AfterFailure(row[o].attempts)
      /\ \A u \in Organizations : u # o => row'[u] = row[u]
  BY <1>1 DEF MarkFailed, Close, HoldInv, TypeOK
<1>4. Task(o) = "ACTIVE" /\ \A u \in Organizations : u # o => Task(u)' = Task(u)
  BY <1>1, <1>2, <1>3, TaskSeen DEF ActiveStatuses
<1>5. CASE row'[o].status = "PENDING"
  <2>1. Task(o)' = Task(o)
    BY <1>1, <1>4, <1>5, TaskSeen DEF ActiveStatuses
  <2>. QED
    BY <1>4, <2>1, Unseen DEF MarkFailed
<1>6. CASE row'[o].status = "FAILED"
  <2>1. Task(o)' = "FAILED"
    BY <1>1, <1>6, TaskSeen DEF ActiveStatuses
  <2>2. Promise!GiveUp(o)
    BY <1>1, <1>4, <2>1, TaskMoves DEF MarkFailed, Promise!GiveUp, Promise!AtWork
  <2>. QED
    BY <1>1, <2>2
<1>. QED
  BY <1>3, <1>5, <1>6 DEF AfterFailure

\* Taking a batch, reading, failing and stopping are not seen from outside.
LEMMA FetchMaps ==
  ASSUME HoldInv, NEW g \in Generators, Fetch(g)
  PROVE  UNCHANGED Promise!view
<1>1. PICK n \in 1..BatchSize : \E taken \in [1..n -> Claimable] :
        /\ row' = [o \in Organizations |->
                     IF o \in Elements(taken)
                       THEN [row[o] EXCEPT !.status = "PROCESSING", !.attempts = @ + 1]
                       ELSE row[o]]
        /\ UNCHANGED <<published, since, xml, json>>
  BY DEF Fetch
<1>2. PICK taken \in [1..n -> Claimable] :
        /\ row' = [o \in Organizations |->
                     IF o \in Elements(taken)
                       THEN [row[o] EXCEPT !.status = "PROCESSING", !.attempts = @ + 1]
                       ELSE row[o]]
        /\ UNCHANGED <<published, since, xml, json>>
  BY <1>1
<1>3. ASSUME NEW o \in Organizations PROVE Task(o)' = Task(o)
  <2>1. CASE o \in Elements(taken)
    <3>1. row[o].status = "PENDING" /\ row[o] \in Rows
      BY <2>1 DEF Elements, Claimable, HoldInv, TypeOK
    <3>2. row'[o].status = "PROCESSING"
      BY <1>2, <2>1, <3>1 DEF Rows
    <3>. QED
      BY <3>1, <3>2, TaskSeen DEF ActiveStatuses
  <2>2. CASE o \notin Elements(taken)
    BY <1>2, <2>2, TaskSeen
  <2>. QED
    BY <2>1, <2>2
<1>. QED
  BY <1>2, <1>3, Unseen

LEMMA QuietMaps ==
  ASSUME (\E g \in Generators : \/ Generate(g) \/ Fail(g)
                               \/ MarkFailedTooLate(g) \/ Interrupt(g)) \/ UNCHANGED vars
  PROVE  UNCHANGED Promise!view
<1>1. UNCHANGED <<published, since, xml, json, row>>
  BY DEF Generate, Fail, MarkFailedTooLate, Interrupt, vars
<1>2. \A o \in Organizations : Task(o)' = Task(o)
  BY <1>1 DEF Task, Active
<1>. QED
  BY <1>1, <1>2, Unseen

LEMMA StartMaps == Init => Promise!Init
<1> SUFFICES ASSUME Init PROVE Promise!Init
  OBVIOUS
<1>1. \A o \in Organizations : Task(o) = "NONE"
  BY DEF Init, Task, Active, ActiveStatuses
<1>. QED
  BY <1>1 DEF Init, Promise!Init

LEMMA StepMaps == HoldInv /\ WriteInv /\ [Next]_vars => [Promise!Next]_(Promise!view)
<1> SUFFICES ASSUME HoldInv, WriteInv, [Next]_vars
             PROVE  Promise!Next \/ UNCHANGED Promise!view
  OBVIOUS
<1>1. CASE \E o \in Organizations : Edit(o) \/ Schedule(o)
  BY <1>1, EditMaps, ScheduleMaps DEF Promise!Next
<1>2. CASE \E g \in Generators : StoreXml(g) \/ StoreJson(g)
  BY <1>2, StoreXmlMaps, StoreJsonMaps DEF Promise!Next
<1>3. CASE \E g \in Generators : MarkCompleted(g) \/ MarkFailed(g)
  BY <1>3, MarkCompletedMaps, MarkFailedMaps DEF Promise!Next
<1>4. CASE \E g \in Generators : Fetch(g)
  BY <1>4, FetchMaps
<1>5. CASE (\E g \in Generators : \/ Generate(g) \/ Fail(g)
                                 \/ MarkFailedTooLate(g) \/ Interrupt(g)) \/ UNCHANGED vars
  BY <1>5, QuietMaps
<1>. QED
  BY <1>1, <1>2, <1>3, <1>4, <1>5 DEF Next, Advance

\* The queue and its replicas implement Publication: whatever is claimed, retried,
\* lost or stopped, what is seen from outside is one writer that never goes back.
THEOREM Implements == Spec => ImplementsPublication
BY HoldStart, HoldStep, StartShows, ShowStep, StartMaps, StepMaps, PTL
   DEF Spec, ImplementsPublication, Promise!Spec

-----------------------------------------------------------------------------
(* No task is mislaid.                                                     *)

\* How far a generator is, phase by phase, before a step and after it.
LEMMA LeftBefore ==
  ASSUME NEW g \in Generators, NEW i \in Nat
  PROVE  /\ phase[g] = "generate" => StepsLeft(g, i) = 6 * (i - 1) + 6
         /\ phase[g] = "xml" => StepsLeft(g, i) = 6 * (i - 1) + 5
         /\ phase[g] = "json" => StepsLeft(g, i) = 6 * (i - 1) + 4
         /\ phase[g] = "complete" => StepsLeft(g, i) = 6 * (i - 1) + 3
         /\ phase[g] = "failed" => StepsLeft(g, i) = 6 * (i - 1) + 2
         /\ phase[g] = "closed" => StepsLeft(g, i) = 6 * (i - 1) + 1
BY DEF StepsLeft

LEMMA LeftAfter ==
  ASSUME NEW g \in Generators, NEW i \in Nat
  PROVE  /\ phase'[g] = "generate" => StepsLeft(g, i)' = 6 * (i - 1) + 6
         /\ phase'[g] = "xml" => StepsLeft(g, i)' = 6 * (i - 1) + 5
         /\ phase'[g] = "json" => StepsLeft(g, i)' = 6 * (i - 1) + 4
         /\ phase'[g] = "complete" => StepsLeft(g, i)' = 6 * (i - 1) + 3
         /\ phase'[g] = "failed" => StepsLeft(g, i)' = 6 * (i - 1) + 2
         /\ phase'[g] = "closed" => StepsLeft(g, i)' = 6 * (i - 1) + 1
BY DEF StepsLeft

LEMMA LeftInPhases ==
  ASSUME TypeOK, NEW g \in Generators, NEW i \in Nat
  PROVE  6 * (i - 1) + 1 <= StepsLeft(g, i) /\ StepsLeft(g, i) <= 6 * (i - 1) + 6
         /\ StepsLeft(g, i) \in Int
<1>1. phase[g] \in Phases
  BY DEF TypeOK
<1>. QED
  BY <1>1, LeftBefore DEF Phases

\* A generator's own step moves it.
LEMMA AdvanceMoves ==
  ASSUME HoldInv, NEW g \in Generators, Advance(g)
  PROVE  batch'[g] # batch[g] \/ phase'[g] # phase[g]
<1>1. batch[g] # <<>>
  BY DEF Advance, Generate, StoreXml, StoreJson, MarkCompleted, Fail, MarkFailed,
         MarkFailedTooLate, Doing
<1>2. CASE NextTask(g)
  <2>1. batch'[g] = Tail(batch[g])
    BY <1>2 DEF NextTask, HoldInv, TypeOK
  <2>2. Len(batch'[g]) # Len(batch[g])
    BY <1>1, <2>1, FeedIs DEF HoldInv
  <2>. QED
    BY <2>2
<1>3. CASE ~NextTask(g)
  BY <1>3 DEF Advance, Generate, StoreXml, StoreJson, MarkCompleted, Fail, MarkFailed,
              MarkFailedTooLate, Doing, GiveUp, HoldInv, TypeOK
<1>. QED
  BY <1>2, <1>3

LEMMA Unmoved ==
  ASSUME HoldInv, NEW g \in Generators, batch'[g] = batch[g], phase'[g] = phase[g], NEW i, NEW o
  PROVE  Nearer(g, i, o)
BY AdvanceMoves DEF Nearer

\* A step within the task at hand brings all of the batch nearer.
LEMMA SameTaskNearer ==
  ASSUME HoldInv, NEW g \in Generators, NEW i \in DOMAIN batch[g], NEW o, Has(g, i, o),
         batch'[g] = batch[g], i # 1 \/ phase'[g] # "closed",
         \/ phase[g] = "generate" /\ phase'[g] = "xml"
         \/ phase[g] = "xml" /\ phase'[g] = "json"
         \/ phase[g] = "json" /\ phase'[g] = "complete"
         \/ phase[g] = "complete" /\ phase'[g] = "closed"
         \/ phase[g] \in {"generate", "xml", "json", "complete"} /\ phase'[g] = "failed"
  PROVE  Nearer(g, i, o)
<1>1. i \in Nat /\ i \in DOMAIN batch'[g]
  BY DEF HoldInv, TypeOK
<1>2. StepsLeft(g, i)' < StepsLeft(g, i)
  BY <1>1, LeftBefore, LeftAfter
<1>3. Has(g, i, o)'
  BY <1>1 DEF Has
<1>. QED
  BY <1>1, <1>2, <1>3 DEF Nearer

\* The next task brings all that comes after it nearer.
LEMMA NextTaskNearer ==
  ASSUME HoldInv, NEW g \in Generators, NEW i \in DOMAIN batch[g], NEW o, Has(g, i, o),
         i # 1, NextTask(g)
  PROVE  Nearer(g, i, o)
<1>1. batch[g] \in Seq(Organizations) /\ DOMAIN batch[g] = 1..Len(batch[g]) /\ Len(batch[g]) \in Nat
  BY DEF HoldInv, TypeOK
<1>2. batch[g] # <<>>
  BY <1>1
<1>3. /\ batch'[g] = Tail(batch[g]) /\ phase'[g] = "generate"
      /\ Len(batch'[g]) = Len(batch[g]) - 1 /\ DOMAIN batch'[g] = 1..(Len(batch[g]) - 1)
      /\ \A k \in 1..(Len(batch[g]) - 1) : batch'[g][k] = batch[g][k + 1]
  BY <1>2, FeedIs DEF NextTask, HoldInv, TypeOK
<1>4. PICK j \in 1..(Len(batch[g]) - 1) : i = j + 1
  <2>1. i - 1 \in 1..(Len(batch[g]) - 1) /\ i = (i - 1) + 1
    BY <1>1
  <2>. QED
    BY <2>1
<1>5. Has(g, j, o)'
  BY <1>3, <1>4 DEF Has
<1>6. j \in Nat /\ i \in Nat /\ StepsLeft(g, j)' = 6 * (j - 1) + 6
  BY <1>3, <1>4, LeftAfter
<1>7. StepsLeft(g, j)' < StepsLeft(g, i)
  <2>1. 6 * (i - 1) + 1 <= StepsLeft(g, i) /\ StepsLeft(g, i) \in Int
    BY <1>6, LeftInPhases DEF HoldInv
  <2>. QED
    BY <1>4, <1>6, <2>1
<1>. QED
  BY <1>3, <1>5, <1>7 DEF Nearer

\* The first of a batch is the task at hand.
LEMMA FirstIsFeed ==
  ASSUME HoldInv, NEW g \in Generators, NEW o \in Organizations,
         1 \in DOMAIN batch[g], Has(g, 1, o)
  PROVE  batch[g] # <<>> /\ o = Feed(g) /\ phase[g] # "closed" /\ row[o].status = "PROCESSING"
<1>1. batch[g] # <<>> /\ batch[g] \in Seq(Organizations)
  BY DEF HoldInv, TypeOK
<1>2. o = Feed(g) /\ phase[g] # "closed" /\ Holds(g, 1)
  BY <1>1, FeedIs DEF Has, Holds, HoldInv
<1>. QED
  BY <1>1, <1>2, FeedIs DEF HoldInv, Claimed, Has

LEMMA AdvanceNearer ==
  ASSUME HoldInv, NEW g \in Generators, Advance(g), NEW o \in Organizations,
         NEW i \in DOMAIN batch[g], Has(g, i, o)
  PROVE  Nearer(g, i, o)
<1>1. phase[g] \in Phases /\ phase \in [Generators -> Phases]
  BY DEF HoldInv, TypeOK
<1>2. CASE Generate(g) \/ StoreXml(g) \/ StoreJson(g) \/ Fail(g)
  <2>1. /\ batch'[g] = batch[g] /\ phase'[g] # "closed"
        /\ \/ phase[g] = "generate" /\ phase'[g] = "xml"
           \/ phase[g] = "xml" /\ phase'[g] = "json"
           \/ phase[g] = "json" /\ phase'[g] = "complete"
           \/ phase[g] \in {"generate", "xml", "json", "complete"} /\ phase'[g] = "failed"
    BY <1>1, <1>2 DEF Generate, StoreXml, StoreJson, Fail, GiveUp, Doing, Phases
  <2>. QED
    BY <2>1, SameTaskNearer
<1>3. CASE MarkCompleted(g)
  <2>1. CASE i = 1
    <3>1. o = Feed(g)
      BY <2>1, FirstIsFeed
    <3>2. row'[o].status = "COMPLETED"
      BY <1>3, <3>1 DEF MarkCompleted, Close, HoldInv, TypeOK
    <3>. QED
      BY <3>2 DEF Nearer
  <2>2. CASE i # 1 /\ NextTask(g)
    BY <2>2, NextTaskNearer
  <2>3. CASE i # 1 /\ GiveUp(g, "closed")
    <3>1. batch'[g] = batch[g] /\ phase[g] = "complete" /\ phase'[g] = "closed"
      BY <1>1, <1>3, <2>3 DEF GiveUp, MarkCompleted, Doing
    <3>. QED
      BY <2>3, <3>1, SameTaskNearer
  <2>. QED
    BY <1>3, <2>1, <2>2, <2>3 DEF MarkCompleted
<1>4. CASE MarkFailed(g)
  <2>1. CASE i = 1
    <3>1. o = Feed(g) /\ row[o].status = "PROCESSING"
      BY <2>1, FirstIsFeed
    <3>2. row'[o] = [status |-> AfterFailure(row[o].attempts), attempts |-> row[o].attempts + 1]
      BY <1>4, <3>1 DEF MarkFailed, Close, HoldInv, TypeOK
    <3>3. row[o].attempts \in Nat
      BY DEF HoldInv, TypeOK, Rows
    <3>. QED
      BY <3>2, <3>3 DEF Nearer, AfterFailure
  <2>2. CASE i # 1
    BY <1>4, <2>2, NextTaskNearer DEF MarkFailed
  <2>. QED
    BY <2>1, <2>2
<1>5. CASE MarkFailedTooLate(g)
  <2>1. i # 1
    BY <1>5, FirstIsFeed DEF MarkFailedTooLate, Doing
  <2>. QED
    BY <1>5, <2>1, NextTaskNearer DEF MarkFailedTooLate
<1>. QED
  BY <1>2, <1>3, <1>4, <1>5 DEF Advance

LEMMA InterruptNearer ==
  ASSUME HoldInv, NEW g \in Generators, Interrupt(g), NEW o \in Organizations,
         NEW i \in DOMAIN batch[g], Has(g, i, o)
  PROVE  Nearer(g, i, o)
<1>1. batch[g] # <<>> /\ DOMAIN batch[g] = 1..Len(batch[g]) /\ batch[g][i] = o
  BY DEF Interrupt, HoldInv, TypeOK, Has
<1>2. o \in Elements(IF phase[g] = "closed" THEN Tail(batch[g]) ELSE batch[g])
  <2>1. CASE phase[g] # "closed"
    BY <1>1, <2>1 DEF Elements
  <2>2. CASE phase[g] = "closed"
    <3>1. i # 1
      BY <2>2 DEF Has
    <3>2. i - 1 \in 1..(Len(batch[g]) - 1) /\ (i - 1) + 1 = i /\ Len(batch[g]) \in Nat
      BY <1>1, <3>1, FeedIs DEF HoldInv
    <3>3. DOMAIN Tail(batch[g]) = 1..(Len(batch[g]) - 1) /\ Tail(batch[g])[i - 1] = o
      BY <1>1, <3>2, FeedIs DEF HoldInv
    <3>. QED
      BY <2>2, <3>2, <3>3 DEF Elements
  <2>. QED
    BY <2>1, <2>2
<1>3. o \in interrupted'
  BY <1>2 DEF Interrupt
<1>. QED
  BY <1>3 DEF Nearer

\* Whose step it is, and what it leaves to the others.
LEMMA HoldersGoOn ==
  ASSUME HoldInv, [Next]_vars, NEW g \in Generators, NEW o \in Organizations,
         NEW i \in DOMAIN batch[g], Has(g, i, o)
  PROVE  Nearer(g, i, o)
<1>1. CASE (\E u \in Organizations : Edit(u) \/ Schedule(u)) \/ UNCHANGED vars
  BY <1>1, Unmoved DEF Edit, Schedule, vars
<1>2. ASSUME NEW h \in Generators, Fetch(h) \/ Advance(h) \/ Interrupt(h)
      PROVE  Nearer(g, i, o)
  <2>1. CASE h # g
    <3>1. batch'[g] = batch[g] /\ phase'[g] = phase[g]
      BY <1>2, <2>1 DEF Fetch, Advance, Generate, StoreXml, StoreJson, MarkCompleted, Fail,
         MarkFailed, MarkFailedTooLate, Interrupt, NextTask, GiveUp, HoldInv, TypeOK
    <3>. QED
      BY <3>1, Unmoved
  <2>2. CASE h = g
    <3>1. ~Fetch(g)
      <4>1. batch[g] # <<>>
        BY DEF HoldInv, TypeOK
      <4>. QED
        BY <4>1 DEF Fetch
    <3>. QED
      BY <1>2, <2>2, <3>1, AdvanceNearer, InterruptNearer
  <2>. QED
    BY <2>1, <2>2
<1>. QED
  BY <1>1, <1>2 DEF Next

\* The row that is closed is PROCESSING, so a row that waits is not closed.
LEMMA WaitersWait ==
  ASSUME HoldInv, [Next]_vars, NEW o \in Organizations, row[o].status = "PENDING"
  PROVE  Kept(o)
<1>1. CASE UNCHANGED row
  BY <1>1 DEF Kept
<1>2. ASSUME NEW u \in Organizations, Schedule(u) PROVE row'[o] = row[o]
  <2>1. u # o
    BY <1>2 DEF Schedule, MayInsert, Active, ActiveStatuses
  <2>. QED
    BY <1>2, <2>1 DEF Schedule, HoldInv, TypeOK
<1>3. ASSUME NEW g \in Generators, MarkCompleted(g) \/ MarkFailed(g) PROVE row'[o] = row[o]
  <2>1. Feed(g) # o
    <3>1. batch[g] # <<>> /\ phase[g] # "closed"
      BY <1>3 DEF MarkCompleted, MarkFailed, Doing
    <3>2. Holds(g, 1) /\ Feed(g) = batch[g][1]
      BY <3>1, FeedIs DEF Holds, HoldInv
    <3>. QED
      BY <3>1, <3>2, FeedIs DEF HoldInv, Claimed
  <2>. QED
    BY <1>3, <2>1 DEF MarkCompleted, MarkFailed, Close, HoldInv, TypeOK
<1>4. ASSUME NEW g \in Generators, Fetch(g) PROVE Kept(o)
  <2>1. PICK n \in 1..BatchSize : \E taken \in [1..n -> Claimable] :
          /\ row' = [u \in Organizations |->
                       IF u \in Elements(taken)
                         THEN [row[u] EXCEPT !.status = "PROCESSING", !.attempts = @ + 1]
                         ELSE row[u]]
          /\ batch' = [batch EXCEPT ![g] = taken]
          /\ phase' = [phase EXCEPT ![g] = "generate"]
    BY <1>4 DEF Fetch
  <2>2. PICK taken \in [1..n -> Claimable] :
          /\ row' = [u \in Organizations |->
                       IF u \in Elements(taken)
                         THEN [row[u] EXCEPT !.status = "PROCESSING", !.attempts = @ + 1]
                         ELSE row[u]]
          /\ batch'[g] = taken /\ phase'[g] = "generate"
    BY <2>1 DEF HoldInv, TypeOK
  <2>3. CASE o \notin Elements(taken)
    BY <2>2, <2>3 DEF Kept
  <2>4. CASE o \in Elements(taken)
    <3>1. PICK i \in DOMAIN batch'[g] : batch'[g][i] = o
      BY <2>2, <2>4 DEF Elements
    <3>2. Has(g, i, o)'
      BY <2>2, <3>1 DEF Has
    <3>. QED
      BY <3>1, <3>2 DEF Kept
  <2>. QED
    BY <2>3, <2>4
<1>5. CASE (\E u \in Organizations : Edit(u))
           \/ (\E g \in Generators : Generate(g) \/ StoreXml(g) \/ StoreJson(g) \/ Fail(g)
                                    \/ MarkFailedTooLate(g) \/ Interrupt(g))
           \/ UNCHANGED vars
  BY <1>1, <1>5 DEF Edit, Generate, StoreXml, StoreJson, Fail, MarkFailedTooLate, Interrupt, vars
<1>. QED
  BY <1>2, <1>3, <1>4, <1>5 DEF Next, Advance, Kept

\* A task that waits stays as it is until somebody has it, and who has it comes
\* nearer to its end with every step: to the eventual closing of a task, only the
\* fairness of the timers and the order of the queue are left to add.
THEOREM TasksGoOn == Spec => TaskGoesOn
<1> DEFINE Step == /\ \A o \in Organizations : row[o].status = "PENDING" => Kept(o)
                   /\ \A g \in Generators, o \in Organizations : \A i \in DOMAIN batch[g] :
                        Has(g, i, o) => Nearer(g, i, o)
<1>1. HoldInv /\ [Next]_vars => Step
  BY HoldersGoOn, WaitersWait
<1>. QED
  BY <1>1, HoldStart, HoldStep, PTL DEF Spec, TaskGoesOn
=============================================================================
