--------------------------- MODULE DialGateProofs ---------------------------
(***************************************************************************)
(* The dial gate for any number of callers, slots and attempts.            *)
(***************************************************************************)
EXTENDS DialGate, FiniteSetTheorems, TLAPS

\* The queue holds callers that wait, each of them once.
QueueOK ==
  /\ \A i \in 1..Len(queue) : at[queue[i]] = "queued"
  /\ \A i, j \in 1..Len(queue) : queue[i] = queue[j] => i = j

\* A slot is held by one caller, and a caller is queued only while none is free.
SlotsOK ==
  /\ Cardinality(Holding) <= Slots
  /\ NoLostSlot

\* A call that has not started its script has not run it; one that backs off may dial again.
CallsOK ==
  \A c \in Callers :
    /\ ran[c] <= 1
    /\ at[c] \in {"queued", "dialing", "backoff"} => ran[c] = 0
    /\ at[c] \in {"queued", "dialing", "running", "backoff"} => attempt[c] \in 1..Attempts
    /\ at[c] = "backoff" => attempt[c] < Attempts

IInv == TypeOK /\ QueueOK /\ SlotsOK /\ CallsOK

-----------------------------------------------------------------------------
LEMMA HoldingFinite == IsFiniteSet(Holding) /\ Cardinality(Holding) \in Nat
<1>1. IsFiniteSet(Holding)
  BY GateAssumption, FS_Subset DEF Holding
<1> QED
  BY <1>1, FS_CardinalityType

\* One caller more, and one less.
LEMMA OneMore ==
  ASSUME NEW c \in Callers, c \notin Holding, Holding' = Holding \union {c}
  PROVE  Cardinality(Holding') = Cardinality(Holding) + 1
BY HoldingFinite, FS_AddElement

LEMMA OneLess ==
  ASSUME NEW c \in Holding
  PROVE  /\ IsFiniteSet(Holding \ {c})
         /\ Cardinality(Holding \ {c}) = Cardinality(Holding) - 1
         /\ Cardinality(Holding \ {c}) \in Nat
BY HoldingFinite, FS_RemoveElement, FS_CardinalityType

LEMMA HeadWaits ==
  ASSUME IInv, queue # <<>>
  PROVE  /\ Head(queue) \in Callers /\ at[Head(queue)] = "queued"
         /\ Tail(queue) \in Seq(Callers) /\ Len(Tail(queue)) = Len(queue) - 1
         /\ \A i \in 1..Len(Tail(queue)) :
              i + 1 \in 1..Len(queue) /\ Tail(queue)[i] = queue[i + 1] /\ queue[i + 1] # Head(queue)
<1>1. queue \in Seq(Callers) /\ Len(queue) \in Nat \ {0} /\ Head(queue) = queue[1] /\ 1 \in 1..Len(queue)
  BY DEF IInv, TypeOK
<1>2. Tail(queue) \in Seq(Callers) /\ Len(Tail(queue)) = Len(queue) - 1
  BY <1>1
<1>3. ASSUME NEW i \in 1..Len(Tail(queue))
      PROVE  i + 1 \in 1..Len(queue) /\ Tail(queue)[i] = queue[i + 1] /\ queue[i + 1] # queue[1]
  <2>1. i + 1 \in 1..Len(queue) /\ Tail(queue)[i] = queue[i + 1]
    BY <1>1, <1>2
  <2> QED
    BY <1>1, <2>1 DEF IInv, QueueOK
<1> QED
  BY <1>1, <1>2, <1>3 DEF IInv, QueueOK

\* The slot is handed over, or given back to the channel when nobody waits for it.
LEMMA ReturnKeeps ==
  ASSUME IInv, NEW c \in Holding, NEW answer \in Outcomes, Return(c, answer)
  PROVE  IInv'
<1>1. c \in Callers /\ at[c] \notin {"queued", "out"} /\ TypeOK /\ QueueOK /\ SlotsOK /\ CallsOK
      /\ UNCHANGED <<attempt, cancelled, ran>>
  BY DEF IInv, Holding, Return
<1>2. CASE queue = <<>>
  <2>1. at' = [at EXCEPT ![c] = "out"] /\ queue' = <<>>
    BY <1>2 DEF Return
  <2>2. Holding' = Holding \ {c}
    BY <1>1, <2>1 DEF Holding, TypeOK
  <2>3. TypeOK'
    BY <1>1, <2>1 DEF TypeOK, Return, Places
  <2>4. QueueOK' /\ CallsOK'
    BY <1>1, <2>1 DEF QueueOK, CallsOK, TypeOK
  <2>5. SlotsOK'
    <3>1. Cardinality(Holding') = Cardinality(Holding) - 1
      BY <2>2, OneLess
    <3> QED
      BY <1>1, <2>1, <3>1, HoldingFinite, GateAssumption DEF SlotsOK, NoLostSlot
  <2> QED
    BY <2>3, <2>4, <2>5 DEF IInv
<1>3. CASE queue # <<>>
  <2> DEFINE h == Head(queue)
  <2>1. at' = [at EXCEPT ![c] = "out", ![h] = "dialing"] /\ queue' = Tail(queue)
    BY <1>3 DEF Return
  <2>2. h \in Callers /\ at[h] = "queued" /\ h # c /\ h \notin Holding
    BY <1>1, <1>3, HeadWaits DEF Holding
  <2>3. at'[c] = "out" /\ at'[h] = "dialing" /\ \A d \in Callers \ {c, h} : at'[d] = at[d]
    BY <1>1, <2>1, <2>2 DEF TypeOK
  <2>4. Holding' = (Holding \ {c}) \union {h}
    BY <1>1, <2>2, <2>3 DEF Holding
  <2>5. TypeOK'
    BY <1>1, <1>3, <2>1, HeadWaits DEF TypeOK, Return, Places
  <2>6. QueueOK'
    <3> SUFFICES ASSUME NEW i \in 1..Len(queue'), NEW j \in 1..Len(queue')
                 PROVE  at'[queue'[i]] = "queued" /\ (queue'[i] = queue'[j] => i = j)
      BY DEF QueueOK
    <3>1. i + 1 \in 1..Len(queue) /\ queue'[i] = queue[i + 1] /\ queue[i + 1] # h
          /\ j + 1 \in 1..Len(queue) /\ queue'[j] = queue[j + 1]
      BY <1>3, <2>1, HeadWaits
    <3>2. queue[i + 1] \in Callers /\ at[queue[i + 1]] = "queued"
      <4>1. \A k \in 1..Len(queue) : queue[k] \in Callers
        BY <1>1 DEF TypeOK
      <4> QED
        BY <1>1, <3>1, <4>1 DEF QueueOK
    <3>3. queue[i + 1] = queue[j + 1] => i + 1 = j + 1
      BY <1>1, <3>1 DEF QueueOK
    <3> QED
      BY <1>1, <2>3, <3>1, <3>2, <3>3
  <2>7. CallsOK'
    BY <1>1, <2>2, <2>3 DEF CallsOK
  <2>8. Cardinality(Holding') = Cardinality(Holding)
    <3>1. IsFiniteSet(Holding \ {c}) /\ Cardinality(Holding \ {c}) = Cardinality(Holding) - 1
      BY OneLess
    <3>2. Cardinality((Holding \ {c}) \union {h}) = Cardinality(Holding \ {c}) + 1
      BY <2>2, <3>1, FS_AddElement
    <3> QED
      BY <2>4, <3>1, <3>2, HoldingFinite
  <2>9. SlotsOK'
    BY <1>1, <1>3, <2>8 DEF SlotsOK, NoLostSlot
  <2> QED
    BY <2>5, <2>6, <2>7, <2>9 DEF IInv
<1> QED
  BY <1>2, <1>3

\* A step of one caller between places that neither take nor free a slot.
LEMMA MoveKeeps ==
  ASSUME IInv, NEW c \in Holding, NEW place \in {"dialing", "running", "backoff"},
         at' = [at EXCEPT ![c] = place], UNCHANGED <<queue, cancelled, outcome>>,
         TypeOK', CallsOK'
  PROVE  IInv'
<1>1. c \in Callers /\ at[c] # "queued" /\ Holding' = Holding /\ \A d \in Callers \ {c} : at'[d] = at[d]
  BY DEF IInv, TypeOK, Holding
<1>2. QueueOK'
  BY <1>1 DEF IInv, QueueOK, TypeOK
<1>3. SlotsOK'
  BY <1>1 DEF IInv, SlotsOK, NoLostSlot
<1> QED
  BY <1>2, <1>3 DEF IInv

LEMMA CallKeeps ==
  ASSUME IInv, NEW c \in Callers, Call(c)
  PROVE  IInv'
<1>1. at[c] = "out" /\ c \notin Holding /\ TypeOK /\ QueueOK /\ SlotsOK /\ CallsOK /\ queue \in Seq(Callers)
  BY DEF IInv, Call, Holding, TypeOK
<1>2. CASE Cardinality(Holding) < Slots
  <2>1. at' = [at EXCEPT ![c] = "dialing"] /\ queue' = queue
    BY <1>2 DEF Call
  <2>2. queue = <<>>
    BY <1>1, <1>2, GateAssumption, HoldingFinite DEF SlotsOK, NoLostSlot
  <2>3. Holding' = Holding \union {c}
    BY <1>1, <2>1 DEF Holding, TypeOK
  <2>4. SlotsOK'
    <3>1. Cardinality(Holding') = Cardinality(Holding) + 1
      BY <1>1, <2>3, OneMore
    <3> QED
      BY <1>2, <2>1, <2>2, <3>1, GateAssumption, HoldingFinite DEF SlotsOK, NoLostSlot
  <2>5. TypeOK' /\ CallsOK'
    BY <1>1, <2>1, GateAssumption DEF TypeOK, CallsOK, Call, Places
  <2>6. QueueOK'
    BY <2>1, <2>2 DEF QueueOK
  <2> QED
    BY <2>4, <2>5, <2>6 DEF IInv
<1>3. CASE ~(Cardinality(Holding) < Slots)
  <2>1. at' = [at EXCEPT ![c] = "queued"] /\ queue' = Append(queue, c)
    BY <1>3 DEF Call
  <2>2. Holding' = Holding
    BY <1>1, <2>1 DEF Holding, TypeOK
  <2>3. SlotsOK'
    BY <1>1, <1>3, <2>2, GateAssumption, HoldingFinite DEF SlotsOK, NoLostSlot
  <2>4. TypeOK' /\ CallsOK'
    BY <1>1, <2>1, GateAssumption DEF TypeOK, CallsOK, Call, Places
  <2>5. /\ Len(queue') = Len(queue) + 1 /\ queue'[Len(queue) + 1] = c
        /\ \A i \in 1..Len(queue) : queue'[i] = queue[i] /\ queue[i] # c /\ queue[i] \in Callers
    BY <1>1, <2>1 DEF QueueOK
  <2>6. \A i \in 1..Len(queue) : at'[queue[i]] = "queued"
    BY <1>1, <2>1, <2>5 DEF QueueOK, TypeOK
  <2>7. at'[c] = "queued"
    BY <1>1, <2>1 DEF TypeOK
  <2>8. \A i \in 1..Len(queue') : i \in 1..Len(queue) \/ i = Len(queue) + 1
    BY <1>1, <2>5
  <2>9. QueueOK'
    BY <1>1, <2>5, <2>6, <2>7, <2>8 DEF QueueOK
  <2> QED
    BY <2>3, <2>4, <2>9 DEF IInv
<1> QED
  BY <1>2, <1>3

LEMMA QueueCancelledKeeps ==
  ASSUME IInv, NEW c \in Callers, QueueCancelled(c)
  PROVE  IInv'
<1>1. at[c] = "queued" /\ c \notin Holding /\ TypeOK /\ QueueOK /\ SlotsOK /\ CallsOK /\ queue \in Seq(Callers)
      /\ at' = [at EXCEPT ![c] = "out"] /\ UNCHANGED <<attempt, cancelled, ran>>
  BY DEF IInv, QueueCancelled, Holding, TypeOK
<1> PICK i \in 1..Len(queue) : queue[i] = c /\ queue' = Dropped(i)
  BY DEF QueueCancelled
<1>2. queue' \in Seq(Callers) /\ Len(queue') = Len(queue) - 1
  BY <1>1 DEF Dropped
<1>3. \A j \in 1..Len(queue') : queue'[j] = queue[IF j < i THEN j ELSE j + 1]
  BY <1>1, <1>2 DEF Dropped
<1>4. QueueOK'
  <2> DEFINE place(j) == IF j < i THEN j ELSE j + 1
  <2>1. \A j \in 1..Len(queue') : place(j) \in 1..Len(queue) /\ place(j) # i /\ queue'[j] = queue[place(j)]
    BY <1>1, <1>2, <1>3
  <2>2. \A j, k \in 1..Len(queue') : place(j) = place(k) => j = k
    BY <1>1, <1>2
  <2>3. \A m \in 1..Len(queue) : queue[m] \in Callers /\ (m # i => queue[m] # c)
    BY <1>1 DEF QueueOK
  <2> HIDE DEF place
  <2>4. \A m \in 1..Len(queue) : m # i => at'[queue[m]] = "queued"
    BY <1>1, <2>3 DEF QueueOK, TypeOK
  <2>5. ASSUME NEW j \in 1..Len(queue'), NEW k \in 1..Len(queue'), queue'[j] = queue'[k]
        PROVE  j = k
    <3>1. queue[place(j)] = queue[place(k)]
      BY <2>1, <2>5
    <3>2. place(j) = place(k)
      BY <1>1, <2>1, <3>1 DEF QueueOK
    <3> QED
      BY <2>2, <3>2
  <2> QED
    BY <2>1, <2>4, <2>5 DEF QueueOK
<1>5. Holding' = Holding /\ queue # <<>>
  BY <1>1 DEF Holding, TypeOK
<1>6. SlotsOK'
  BY <1>1, <1>5 DEF SlotsOK, NoLostSlot
<1>7. TypeOK' /\ CallsOK'
  BY <1>1, <1>2 DEF TypeOK, CallsOK, QueueCancelled, Places, Outcomes
<1> QED
  BY <1>4, <1>6, <1>7 DEF IInv

-----------------------------------------------------------------------------
LEMMA InitHolds == Init => IInv
<1> SUFFICES ASSUME Init PROVE IInv
  OBVIOUS
<1>1. TypeOK /\ QueueOK /\ CallsOK
  BY GateAssumption DEF Init, TypeOK, QueueOK, CallsOK, Places, Outcomes
<1>2. Holding = {}
  BY DEF Init, Holding
<1>3. SlotsOK
  BY <1>2, FS_EmptySet, GateAssumption DEF Init, SlotsOK, NoLostSlot
<1> QED
  BY <1>1, <1>3 DEF IInv

LEMMA NextKeeps == IInv /\ [Next]_vars => IInv'
<1> SUFFICES ASSUME IInv, [Next]_vars PROVE IInv'
  OBVIOUS
<1>1. CASE UNCHANGED vars
  BY <1>1 DEF IInv, TypeOK, QueueOK, SlotsOK, NoLostSlot, Holding, CallsOK, vars
<1> SUFFICES ASSUME NEW c \in Callers, Call(c) \/ CallCancelled(c) \/ Cancel(c) \/ Proceed(c)
             PROVE  IInv'
  BY <1>1 DEF Next
<1>2. CASE Call(c)
  BY <1>2, CallKeeps
<1>3. CASE CallCancelled(c)
  BY <1>3 DEF CallCancelled, IInv, TypeOK, QueueOK, SlotsOK, NoLostSlot, Holding, CallsOK, Outcomes
<1>4. CASE Cancel(c)
  BY <1>4 DEF Cancel, IInv, TypeOK, QueueOK, SlotsOK, NoLostSlot, Holding, CallsOK
<1>5. CASE DialRefused(c)
  <2>1. c \in Holding /\ at[c] = "dialing"
    BY <1>5 DEF DialRefused, Holding
  <2>2. CASE attempt[c] = Attempts
    BY <1>5, <2>1, <2>2, ReturnKeeps DEF DialRefused, Outcomes
  <2>3. CASE attempt[c] # Attempts
    <3>1. at' = [at EXCEPT ![c] = "backoff"] /\ UNCHANGED <<queue, attempt, cancelled, ran, outcome>>
      BY <1>5, <2>3 DEF DialRefused
    <3>2. TypeOK' /\ CallsOK'
      BY <2>1, <2>3, <3>1, GateAssumption DEF IInv, TypeOK, CallsOK, Places
    <3> QED
      BY <2>1, <3>1, <3>2, MoveKeeps
  <2> QED
    BY <2>2, <2>3
<1>6. CASE ScriptStarts(c)
  <2>1. c \in Holding /\ at[c] = "dialing"
    BY <1>6 DEF ScriptStarts, Holding
  <2>2. TypeOK' /\ CallsOK'
    BY <1>6, <2>1 DEF ScriptStarts, IInv, TypeOK, CallsOK, Places
  <2> QED
    BY <1>6, <2>1, <2>2, MoveKeeps DEF ScriptStarts
<1>7. CASE ScriptEnds(c)
  BY <1>7, ReturnKeeps DEF ScriptEnds, Holding, Outcomes
<1>8. CASE BackoffOver(c)
  <2>1. c \in Holding /\ at[c] = "backoff"
    BY <1>8 DEF BackoffOver, Holding
  <2>2. TypeOK' /\ CallsOK'
    BY <1>8, <2>1, GateAssumption DEF BackoffOver, IInv, TypeOK, CallsOK, Places
  <2> QED
    BY <1>8, <2>1, <2>2, MoveKeeps DEF BackoffOver
<1>9. CASE BackoffCancelled(c)
  BY <1>9, ReturnKeeps DEF BackoffCancelled, Holding, Outcomes
<1>10. CASE QueueCancelled(c)
  BY <1>10, QueueCancelledKeeps
<1> QED
  BY <1>2, <1>3, <1>4, <1>5, <1>6, <1>7, <1>8, <1>9, <1>10 DEF Proceed

\* Every state the gate can reach, whatever the number of callers, slots and attempts.
THEOREM GateInvariant == Spec => []IInv
BY InitHolds, NextKeeps, PTL DEF Spec

\* Never more connections to the router than the channel has room for.
THEOREM GateSerialises == Spec => []Serialised
<1>1. ASSUME IInv PROVE Serialised
  <2>1. Connected \subseteq Holding
    BY DEF Connected, Holding
  <2>2. Cardinality(Connected) <= Cardinality(Holding) /\ IsFiniteSet(Connected)
    BY <2>1, HoldingFinite, FS_Subset
  <2> QED
    BY <1>1, <2>2, HoldingFinite, FS_CardinalityType, GateAssumption DEF IInv, SlotsOK, Serialised
<1> QED
  BY <1>1, GateInvariant, PTL

\* A script is started at most once in a call, however often the dial is retried.
THEOREM GateRunsOnce == Spec => []NothingRepeated
<1>1. IInv => NothingRepeated
  BY DEF IInv, CallsOK, NothingRepeated
<1> QED
  BY <1>1, GateInvariant, PTL

\* The channel never has room while a caller waits on it.
THEOREM GateLosesNoSlot == Spec => []NoLostSlot
<1>1. IInv => NoLostSlot
  BY DEF IInv, SlotsOK
<1> QED
  BY <1>1, GateInvariant, PTL

\* Types, for every value of the constants.
THEOREM GateTypeCorrect == Spec => []TypeOK
<1>1. IInv => TypeOK
  BY DEF IInv
<1> QED
  BY <1>1, GateInvariant, PTL
=============================================================================
