-------------------------- MODULE FairQueue_proofs --------------------------
(***************************************************************************)
(* Proofs about FairQueue, for any set of channels and bodies and any      *)
(* sizes: its invariant, the round-robin distance of every channel, and    *)
(* that it implements GroupedFifo.                                         *)
(***************************************************************************)
EXTENDS FairQueue, SequenceTheorems, TLAPS

(* The inductive invariant: the shape of the state, the groups and pointer. *)
IInv == TypeOK /\ GroupsWellFormed /\ PointerInRange

-----------------------------------------------------------------------------
(* What Vec::remove leaves: one element fewer, the later ones shifted down. *)
LEMMA RemoveProperties ==
  ASSUME NEW S, NEW s \in Seq(S), NEW i \in 1..Len(s)
  PROVE  /\ Remove(s, i) \in Seq(S)
         /\ Len(Remove(s, i)) = Len(s) - 1
         /\ \A j \in 1..(Len(s) - 1) :
              Remove(s, i)[j] = IF j < i THEN s[j] ELSE s[j + 1]
<1> DEFINE a == SubSeq(s, 1, i - 1)
           b == SubSeq(s, i + 1, Len(s))
<1>1. \A j \in 1..Len(s) : s[j] \in S
  BY ElementOfSeq
<1>2. /\ a \in Seq(S)
      /\ Len(a) = i - 1
      /\ \A j \in 1..(i - 1) : a[j] = s[j]
  BY <1>1, SubSeqProperties
<1>3. /\ b \in Seq(S)
      /\ Len(b) = Len(s) - i
      /\ \A j \in 1..(Len(s) - i) : b[j] = s[j + i]
  BY <1>1, SubSeqProperties
<1> HIDE DEF a, b
<1>4. /\ a \o b \in Seq(S)
      /\ Len(a \o b) = Len(a) + Len(b)
      /\ \A j \in 1..(Len(a) + Len(b)) :
           (a \o b)[j] = IF j <= Len(a) THEN a[j] ELSE b[j - Len(a)]
  BY <1>2, <1>3, ConcatProperties
<1>5. Remove(s, i) = a \o b
  BY DEF Remove, a, b
<1>6. \A j \in 1..(Len(s) - 1) : (a \o b)[j] = IF j < i THEN s[j] ELSE s[j + 1]
  BY <1>2, <1>3, <1>4
<1>7. Len(a \o b) = Len(s) - 1
  BY <1>2, <1>3, <1>4, LenProperties
<1> HIDE DEF Remove
<1> QED
  BY <1>4, <1>5, <1>6, <1>7

(* With no empty group and the pointer in range, pop serves `pointer`. *)
LEMMA ServedIsPointer ==
  ASSUME IInv, SomeMessage
  PROVE  Served = pointer /\ pointer + 1 \in 1..Len(groups)
<1>1. Len(groups) \in Nat /\ Len(groups) > 0 /\ groups # <<>>
  BY DEF IInv, TypeOK, SomeMessage
<1>2. pointer \in 0..(Len(groups) - 1)
  BY <1>1 DEF IInv, TypeOK, PointerInRange
<1>3. \A i \in 1..Len(groups) : groups[i] # <<>>
  <2> TAKE i \in 1..Len(groups)
  <2>1. Len(groups[i]) \in 1..MaxGroupSize
    BY DEF IInv, GroupsWellFormed
  <2> QED
    BY <2>1, EmptySeq
<1>4. Slot(0) = pointer
  BY <1>1, <1>2 DEF Slot
<1>5. Skipped = 0
  <2>1. groups[Slot(0) + 1] # <<>>
    BY <1>2, <1>3, <1>4
  <2>2. 0 \in 0..(Len(groups) - 1)
    BY <1>1
  <2>3. \A k \in 0..(Len(groups) - 1) :
          (\A j \in 0..(k - 1) : groups[Slot(j) + 1] = <<>>) => k = 0
    BY <2>1
  <2> QED
    BY <2>1, <2>2, <2>3 DEF Skipped
<1> QED
  BY <1>1, <1>2, <1>4, <1>5 DEF Served

(* A channel has one group at most, so the search finds that one. *)
LEMMA GroupIndexIs ==
  ASSUME IInv
  PROVE  /\ \A g \in Groups : HasGroup(g) <=>
              \E i \in 1..Len(groups) : groups[i][1].group = g
         /\ \A g \in Groups : \A i \in 1..Len(groups) :
              groups[i][1].group = g => GroupIndex(g) = i
         /\ \A g \in Groups : HasGroup(g) =>
              /\ GroupIndex(g) \in 1..Len(groups)
              /\ groups[GroupIndex(g)][1].group = g
<1>1. \A i \in 1..Len(groups) : groups[i] # <<>>
  <2> TAKE i \in 1..Len(groups)
  <2>1. Len(groups[i]) \in 1..MaxGroupSize
    BY DEF IInv, GroupsWellFormed
  <2> QED
    BY <2>1, EmptySeq
<1>2. \A g \in Groups : HasGroup(g) <=>
        \E i \in 1..Len(groups) : groups[i][1].group = g
  BY <1>1 DEF HasGroup, IsGroupOf
<1>3. ASSUME NEW g \in Groups, NEW i \in 1..Len(groups), groups[i][1].group = g
      PROVE  GroupIndex(g) = i
  <2>1. Len(groups) \in Nat
    BY DEF IInv, TypeOK
  <2>2. \A j \in 1..Len(groups) : IsGroupOf(j, g) => j = i
    BY <1>3 DEF IsGroupOf, IInv, GroupsWellFormed
  <2>3. IsGroupOf(i, g)
    BY <1>1, <1>3 DEF IsGroupOf
  <2>4. \A j \in 1..(i - 1) : ~ IsGroupOf(j, g)
    BY <2>1, <2>2
  <2> HIDE DEF IsGroupOf
  <2> QED
    BY <2>2, <2>3, <2>4 DEF GroupIndex
<1> QED
  BY <1>2, <1>3

(* Pushing a message on the group of its channel keeps the groups distinct. *)
LEMMA InsertIntoGroupKeepsInv ==
  ASSUME IInv, NEW m \in Message, CanInsert(m), InsertIntoGroup(m)
  PROVE  IInv'
<1> DEFINE g == m.group
           x == GroupIndex(g)
<1>1. /\ g \in Groups /\ HasGroup(g) /\ m \in DataMessage
      /\ groups' = [groups EXCEPT ![x] = Append(@, m)]
      /\ ctrl' = ctrl /\ pointer' = pointer
  BY DEF InsertIntoGroup, Message, DataMessage
<1>2. x \in 1..Len(groups) /\ groups[x][1].group = g
  BY <1>1, GroupIndexIs
<1>3. Len(groups[x]) < MaxGroupSize
  BY <1>1 DEF CanInsert
<1> HIDE DEF x
<1>4. groups \in Seq(Seq(DataMessage)) /\ groups[x] \in Seq(DataMessage)
  BY <1>2, ElementOfSeq DEF IInv, TypeOK
<1>5. /\ Append(groups[x], m) \in Seq(DataMessage)
      /\ Len(Append(groups[x], m)) = Len(groups[x]) + 1
      /\ \A k \in 1..Len(groups[x]) : Append(groups[x], m)[k] = groups[x][k]
      /\ Append(groups[x], m)[Len(groups[x]) + 1] = m
  BY <1>1, <1>4
<1>6. /\ groups' \in Seq(Seq(DataMessage))
      /\ Len(groups') = Len(groups)
      /\ \A i \in 1..Len(groups) :
           groups'[i] = IF i = x THEN Append(groups[x], m) ELSE groups[i]
  BY <1>1, <1>2, <1>4, <1>5, ExceptSeq
<1>7. Len(groups[x]) \in 1..MaxGroupSize
  BY <1>2 DEF IInv, GroupsWellFormed
<1>8. TypeOK'
  BY <1>1, <1>6 DEF IInv, TypeOK
<1>9. PointerInRange'
  <2>1. groups # <<>> /\ groups' # <<>>
    BY <1>2, <1>4, <1>6
  <2> QED
    BY <1>1, <1>6, <2>1 DEF IInv, PointerInRange
<1>10. \A i \in 1..Len(groups) : groups'[i][1].group = groups[i][1].group
  <2>1. Append(groups[x], m)[1] = groups[x][1]
    BY <1>5, <1>7
  <2> QED
    BY <1>6, <2>1
<1>11. GroupsWellFormed'
  <2>1. ASSUME NEW i \in 1..Len(groups')
        PROVE  /\ Len(groups'[i]) \in 1..MaxGroupSize
               /\ \A k \in 1..Len(groups'[i]) : groups'[i][k].group = groups'[i][1].group
    <3>1. CASE i = x
      <4>1. Len(groups'[x]) = Len(groups[x]) + 1
        BY <1>2, <1>5, <1>6
      <4>2. Len(groups'[x]) \in 1..MaxGroupSize
        BY <1>3, <1>7, <4>1, SizesAreNat
      <4>3. \A k \in 1..Len(groups[x]) : groups[x][k].group = g
        BY <1>2 DEF IInv, GroupsWellFormed
      <4>4. ASSUME NEW k \in 1..Len(groups'[x])
            PROVE  groups'[x][k].group = g
        <5>1. CASE k \in 1..Len(groups[x])
          BY <1>2, <1>5, <1>6, <4>3, <5>1
        <5>2. CASE k = Len(groups[x]) + 1
          BY <1>2, <1>5, <1>6, <5>2
        <5> QED
          BY <1>7, <4>1, <5>1, <5>2
      <4>5. groups'[x][1].group = g
        BY <1>2, <1>10
      <4> QED
        BY <3>1, <4>2, <4>4, <4>5
    <3>2. CASE i # x
      BY <1>6, <3>2 DEF IInv, GroupsWellFormed
    <3> QED
      BY <3>1, <3>2
  <2>2. ASSUME NEW i \in 1..Len(groups'), NEW j \in 1..Len(groups'),
               groups'[i][1].group = groups'[j][1].group
        PROVE  i = j
    BY <1>6, <1>10, <2>2 DEF IInv, GroupsWellFormed
  <2> QED
    BY <2>1, <2>2 DEF GroupsWellFormed
<1> QED
  BY <1>8, <1>9, <1>11 DEF IInv

(* A new group is one message, at the end, of a channel that had none. *)
LEMMA InsertNewGroupKeepsInv ==
  ASSUME IInv, NEW m \in Message, InsertNewGroup(m)
  PROVE  IInv'
<1>1. /\ m.group \in Groups /\ ~ HasGroup(m.group) /\ m \in DataMessage
      /\ groups' = Append(groups, <<m>>)
      /\ ctrl' = ctrl /\ pointer' = pointer
  BY DEF InsertNewGroup, WithNewGroup, Message, DataMessage
<1>2. groups \in Seq(Seq(DataMessage)) /\ <<m>> \in Seq(DataMessage)
  BY <1>1 DEF IInv, TypeOK
<1>3. /\ groups' \in Seq(Seq(DataMessage))
      /\ Len(groups') = Len(groups) + 1
      /\ \A i \in 1..Len(groups) : groups'[i] = groups[i]
      /\ groups'[Len(groups) + 1] = <<m>>
  BY <1>1, <1>2
<1>4. TypeOK'
  BY <1>1, <1>3 DEF IInv, TypeOK
<1>5. PointerInRange'
  <2>1. groups' # <<>>
    BY <1>2, <1>3
  <2>2. pointer < Len(groups) + 1
    BY <1>2 DEF IInv, TypeOK, PointerInRange
  <2> QED
    BY <1>1, <1>3, <2>1, <2>2 DEF PointerInRange
<1>6. \A i \in 1..Len(groups) : groups[i][1].group # m.group
  BY <1>1, GroupIndexIs
<1>7. GroupsWellFormed'
  <2>1. ASSUME NEW i \in 1..Len(groups')
        PROVE  /\ Len(groups'[i]) \in 1..MaxGroupSize
               /\ \A k \in 1..Len(groups'[i]) : groups'[i][k].group = groups'[i][1].group
    <3>1. CASE i \in 1..Len(groups)
      <4>1. /\ Len(groups[i]) \in 1..MaxGroupSize
            /\ \A k \in 1..Len(groups[i]) : groups[i][k].group = groups[i][1].group
        BY <3>1 DEF IInv, GroupsWellFormed
      <4> QED
        BY <1>3, <3>1, <4>1
    <3>2. CASE i = Len(groups) + 1
      <4>1. groups'[i] = <<m>> /\ Len(<<m>>) = 1 /\ \A k \in 1..1 : k = 1
        BY <1>3, <3>2
      <4>2. 1 \in 1..MaxGroupSize
        BY SizesAreNat
      <4> QED
        BY <4>1, <4>2
    <3> QED
      BY <1>2, <1>3, <3>1, <3>2
  <2>2. ASSUME NEW i \in 1..Len(groups'), NEW j \in 1..Len(groups'),
               groups'[i][1].group = groups'[j][1].group
        PROVE  i = j
    <3>1. CASE i \in 1..Len(groups) /\ j \in 1..Len(groups)
      BY <1>3, <2>2, <3>1 DEF IInv, GroupsWellFormed
    <3>2. CASE i = Len(groups) + 1 /\ j \in 1..Len(groups)
      BY <1>3, <1>6, <2>2, <3>2
    <3>3. CASE i \in 1..Len(groups) /\ j = Len(groups) + 1
      BY <1>3, <1>6, <2>2, <3>3
    <3> QED
      BY <1>2, <1>3, <3>1, <3>2, <3>3
  <2> QED
    BY <2>1, <2>2 DEF GroupsWellFormed
<1> QED
  BY <1>4, <1>5, <1>7 DEF IInv

(* Serving a group of several messages drops its first one. *)
LEMMA PopKeepingGroupKeepsInv ==
  ASSUME IInv, PopKeepingGroup
  PROVE  IInv'
<1> DEFINE p == pointer + 1
<1>1. Served = pointer /\ p \in 1..Len(groups)
  BY ServedIsPointer DEF PopKeepingGroup
<1>2. /\ Len(groups[p]) > 1
      /\ groups' = [groups EXCEPT ![p] = Tail(@)]
      /\ pointer' = p % Len(groups)
      /\ ctrl' = ctrl
  BY <1>1 DEF PopKeepingGroup, TurnAfterServing
<1>3. groups \in Seq(Seq(DataMessage)) /\ groups[p] \in Seq(DataMessage) /\ pointer \in Nat
  BY <1>1, ElementOfSeq DEF IInv, TypeOK
<1>4. /\ Tail(groups[p]) \in Seq(DataMessage)
      /\ Len(Tail(groups[p])) = Len(groups[p]) - 1
      /\ \A k \in 1..(Len(groups[p]) - 1) : Tail(groups[p])[k] = groups[p][k + 1]
  BY <1>2, <1>3, HeadTailProperties
<1>5. /\ groups' \in Seq(Seq(DataMessage))
      /\ Len(groups') = Len(groups)
      /\ \A i \in 1..Len(groups) :
           groups'[i] = IF i = p THEN Tail(groups[p]) ELSE groups[i]
  BY <1>1, <1>2, <1>3, <1>4, ExceptSeq
<1> HIDE DEF p
<1>6. Len(groups[p]) \in 1..MaxGroupSize
  BY <1>1 DEF IInv, GroupsWellFormed
<1>7. pointer' \in 0..(Len(groups) - 1)
  BY <1>1, <1>2, <1>3 DEF p
<1>8. TypeOK'
  BY <1>2, <1>5, <1>7 DEF IInv, TypeOK
<1>9. PointerInRange'
  BY <1>1, <1>3, <1>5, <1>7 DEF PointerInRange
<1>10. \A i \in 1..Len(groups) : groups'[i][1].group = groups[i][1].group
  <2>1. groups[p][2].group = groups[p][1].group
    BY <1>1, <1>2, <1>6 DEF IInv, GroupsWellFormed
  <2>2. groups'[p][1] = groups[p][2]
    BY <1>1, <1>2, <1>4, <1>5, <1>6
  <2> QED
    BY <1>5, <2>1, <2>2
<1>11. GroupsWellFormed'
  <2>1. ASSUME NEW i \in 1..Len(groups')
        PROVE  /\ Len(groups'[i]) \in 1..MaxGroupSize
               /\ \A k \in 1..Len(groups'[i]) : groups'[i][k].group = groups'[i][1].group
    <3>1. CASE i = p
      <4>1. Len(groups'[p]) = Len(groups[p]) - 1
        BY <1>1, <1>4, <1>5
      <4>2. Len(groups'[p]) \in 1..MaxGroupSize
        BY <1>2, <1>6, <4>1, SizesAreNat
      <4>3. \A k \in 1..Len(groups[p]) : groups[p][k].group = groups[p][1].group
        BY <1>1 DEF IInv, GroupsWellFormed
      <4>4. ASSUME NEW k \in 1..Len(groups'[p])
            PROVE  groups'[p][k].group = groups'[p][1].group
        <5>1. groups'[p] = Tail(groups[p])
          BY <1>1, <1>5
        <5>2. k \in 1..(Len(groups[p]) - 1) /\ k + 1 \in 1..Len(groups[p])
          BY <1>6, <4>1
        <5>3. groups'[p][k] = groups[p][k + 1]
          BY <1>4, <5>1, <5>2
        <5> QED
          BY <1>1, <1>10, <4>3, <5>2, <5>3
      <4> QED
        BY <3>1, <4>2, <4>4
    <3>2. CASE i # p
      BY <1>5, <3>2 DEF IInv, GroupsWellFormed
    <3> QED
      BY <3>1, <3>2
  <2>2. ASSUME NEW i \in 1..Len(groups'), NEW j \in 1..Len(groups'),
               groups'[i][1].group = groups'[j][1].group
        PROVE  i = j
    BY <1>5, <1>10, <2>2 DEF IInv, GroupsWellFormed
  <2> QED
    BY <2>1, <2>2 DEF GroupsWellFormed
<1> QED
  BY <1>8, <1>9, <1>11 DEF IInv

(* What serving the last message of a group does to the vector. *)
LEMMA PopEmptyingGroupShift ==
  ASSUME IInv, PopEmptyingGroup
  PROVE  /\ pointer + 1 \in 1..Len(groups)
         /\ Len(groups) \in Nat /\ pointer \in Nat
         /\ Len(groups[pointer + 1]) = 1
         /\ groups' \in Seq(Seq(DataMessage))
         /\ Len(groups') = Len(groups) - 1
         /\ \A j \in 1..(Len(groups) - 1) :
              groups'[j] = IF j < pointer + 1 THEN groups[j] ELSE groups[j + 1]
         /\ pointer' = IF pointer < Len(groups) - 1 THEN pointer ELSE 0
         /\ ctrl' = ctrl
<1>1. Served = pointer /\ pointer + 1 \in 1..Len(groups)
  BY ServedIsPointer DEF PopEmptyingGroup
<1>2. /\ groups' = Remove(groups, pointer + 1)
      /\ Len(groups[pointer + 1]) = 1
      /\ pointer' = IF pointer < Len(groups) - 1 THEN pointer ELSE 0
      /\ ctrl' = ctrl
  BY <1>1 DEF PopEmptyingGroup, TurnAfterRemoval
<1>3. groups \in Seq(Seq(DataMessage)) /\ pointer \in Nat
  BY DEF IInv, TypeOK
<1> DEFINE T == Seq(DataMessage)
<1> HIDE DEF T
<1>4. groups \in Seq(T)
  BY <1>3 DEF T
<1>5. /\ Remove(groups, pointer + 1) \in Seq(T)
      /\ Len(Remove(groups, pointer + 1)) = Len(groups) - 1
      /\ \A j \in 1..(Len(groups) - 1) :
           Remove(groups, pointer + 1)[j]
             = IF j < pointer + 1 THEN groups[j] ELSE groups[j + 1]
  BY <1>1, <1>4, RemoveProperties
<1>6. Len(groups) \in Nat
  BY <1>3
<1> HIDE DEF Remove
<1> QED
  BY <1>1, <1>2, <1>3, <1>5, <1>6 DEF T

(* Removing the served group keeps the others whole and the pointer inside. *)
LEMMA PopEmptyingGroupKeepsInv ==
  ASSUME IInv, PopEmptyingGroup
  PROVE  IInv'
<1> DEFINE p == pointer + 1
           old(i) == IF i < p THEN i ELSE i + 1
<1>1. /\ p \in 1..Len(groups)
      /\ Len(groups) \in Nat /\ pointer \in Nat
      /\ groups' \in Seq(Seq(DataMessage))
      /\ Len(groups') = Len(groups) - 1
      /\ \A j \in 1..(Len(groups) - 1) : groups'[j] = groups[old(j)]
      /\ pointer' = IF pointer < Len(groups) - 1 THEN pointer ELSE 0
      /\ ctrl' = ctrl
  BY PopEmptyingGroupShift
<1>2. TypeOK'
  BY <1>1 DEF IInv, TypeOK
<1>3. PointerInRange'
  BY <1>1, EmptySeq DEF PointerInRange
<1>4. \A j \in 1..Len(groups') : old(j) \in 1..Len(groups)
  BY <1>1
<1>5. GroupsWellFormed'
  <2>1. ASSUME NEW i \in 1..Len(groups')
        PROVE  /\ Len(groups'[i]) \in 1..MaxGroupSize
               /\ \A k \in 1..Len(groups'[i]) : groups'[i][k].group = groups'[i][1].group
    <3>1. groups'[i] = groups[old(i)] /\ old(i) \in 1..Len(groups)
      BY <1>1, <1>4
    <3> HIDE DEF old
    <3> QED
      BY <3>1 DEF IInv, GroupsWellFormed
  <2>2. ASSUME NEW i \in 1..Len(groups'), NEW j \in 1..Len(groups'),
               groups'[i][1].group = groups'[j][1].group
        PROVE  i = j
    <3>1. groups'[i] = groups[old(i)] /\ groups'[j] = groups[old(j)]
      BY <1>1
    <3>2. old(i) = old(j)
      BY <1>4, <2>2, <3>1 DEF IInv, GroupsWellFormed
    <3> QED
      BY <1>1, <3>2
  <2> QED
    BY <2>1, <2>2 DEF GroupsWellFormed
<1> QED
  BY <1>2, <1>3, <1>5 DEF IInv

(* Control messages come and go without touching the groups. *)
LEMMA ControlKeepsInv ==
  ASSUME IInv, PopControl \/ \E m \in Message : InsertControl(m)
  PROVE  IInv'
<1>1. groups' = groups /\ pointer' = pointer
  BY DEF PopControl, InsertControl
<1>2. ctrl' \in Seq(ControlMessage)
  <2>1. CASE PopControl
    BY <2>1, HeadTailProperties DEF PopControl, IInv, TypeOK
  <2>2. ASSUME NEW m \in Message, InsertControl(m)
        PROVE  ctrl' \in Seq(ControlMessage)
    <3>1. m \in ControlMessage
      BY <2>2 DEF InsertControl, Message, ControlMessage
    <3> QED
      BY <2>2, <3>1 DEF InsertControl, IInv, TypeOK
  <2> QED
    BY <2>1, <2>2
<1>3. TypeOK'
  BY <1>1, <1>2 DEF IInv, TypeOK
<1>4. GroupsWellFormed' /\ PointerInRange'
  BY <1>1 DEF IInv, GroupsWellFormed, PointerInRange
<1> QED
  BY <1>3, <1>4 DEF IInv

(* Every step of the queue keeps the invariant. *)
LEMMA NextKeepsInv ==
  ASSUME IInv, [Next]_queueVars
  PROVE  IInv'
<1>1. ASSUME NEW m \in Message, Insert(m)
      PROVE  IInv'
  BY <1>1, ControlKeepsInv, InsertIntoGroupKeepsInv, InsertNewGroupKeepsInv DEF Insert
<1>2. CASE Pop
  BY <1>2, ControlKeepsInv, PopKeepingGroupKeepsInv, PopEmptyingGroupKeepsInv DEF Pop
<1>3. CASE UNCHANGED queueVars
  BY <1>3 DEF queueVars, IInv, TypeOK, GroupsWellFormed, PointerInRange
<1> QED
  BY <1>1, <1>2, <1>3 DEF Next

(* The invariant holds in every reachable state. *)
LEMMA InvHolds == Spec => []IInv
<1>1. Init => IInv
  BY SizesAreNat DEF Init, IInv, TypeOK, GroupsWellFormed, PointerInRange
<1>2. IInv /\ [Next]_queueVars => IInv'
  BY NextKeepsInv
<1> QED
  BY <1>1, <1>2, PTL DEF Spec

(* The state of the queue always has its shape. *)
THEOREM TypeCorrect == Spec => []TypeOK
<1>1. IInv => TypeOK
  BY DEF IInv
<1> QED
  BY <1>1, InvHolds, PTL

(* Groups are never empty, mixed, overfull or duplicated. *)
THEOREM GroupsStayWellFormed == Spec => []GroupsWellFormed
<1>1. IInv => GroupsWellFormed
  BY DEF IInv
<1> QED
  BY <1>1, InvHolds, PTL

(* Indexing the vector with the pointer never panics. *)
THEOREM PointerStaysInRange == Spec => []PointerInRange
<1>1. IInv => PointerInRange
  BY DEF IInv
<1> QED
  BY <1>1, InvHolds, PTL

-----------------------------------------------------------------------------
(* The waiting messages of every channel, and how each operation changes them. *)

PendingByGroup ==
  /\ \A g \in Groups : \A i \in 1..Len(groups) :
       groups[i][1].group = g =>
         HasGroup(g) /\ GroupIndex(g) = i /\ Pending(g) = groups[i]
  /\ \A g \in Groups :
       (\A i \in 1..Len(groups) : groups[i][1].group # g) =>
         ~ HasGroup(g) /\ Pending(g) = <<>>
  /\ Pending(Control) = ctrl

(* What waits of a channel is its one group, or nothing. *)
LEMMA PendingIs == IInv => PendingByGroup
<1> SUFFICES ASSUME IInv
             PROVE  PendingByGroup
  OBVIOUS
<1>1. \A g \in Groups : g # Control
  BY ControlIsNoGroup
<1>2. ASSUME NEW g \in Groups, NEW i \in 1..Len(groups), groups[i][1].group = g
      PROVE  HasGroup(g) /\ GroupIndex(g) = i
  BY <1>2, GroupIndexIs
<1>3. ASSUME NEW g \in Groups, \A i \in 1..Len(groups) : groups[i][1].group # g
      PROVE  ~ HasGroup(g)
  BY <1>3, GroupIndexIs
<1> HIDE DEF HasGroup, GroupIndex
<1> QED
  BY <1>1, <1>2, <1>3 DEF Pending, PendingByGroup

(* The same after a step. *)
LEMMA PendingIsNext == IInv' => PendingByGroup'
  BY PendingIs, PTL

(* A step changes the waiting messages of one class, at its end or front. *)
Appends(c, m) == Pending(c)' = Append(Pending(c), m)
Drops(c) == Pending(c) # <<>> /\ Pending(c)' = Tail(Pending(c))
Keeps(c) == Pending(c)' = Pending(c)

(* An insertion appends to one class and leaves what waits of the others. *)
LEMMA InsertAppends ==
  ASSUME IInv, IInv', NEW m \in Message, Insert(m)
  PROVE  /\ Appends(m.group, m)
         /\ \A c \in Classes \ {m.group} : Keeps(c)
<1> USE DEF Appends, Keeps
<1>1. PendingByGroup /\ PendingByGroup'
  BY PendingIs, PendingIsNext
<1>2. CASE InsertControl(m)
  <2>1. Appends(m.group, m)
    BY <1>1, <1>2 DEF InsertControl, PendingByGroup
  <2>2. ASSUME NEW c \in Groups
        PROVE  Keeps(c)
    <3>1. groups' = groups
      BY <1>2 DEF InsertControl
    <3> QED
      BY <1>1, <3>1 DEF PendingByGroup
  <2> QED
    BY <1>2, <2>1, <2>2 DEF InsertControl, Classes
<1>3. CASE InsertIntoGroup(m)
  <2> DEFINE x == GroupIndex(m.group)
  <2>1. m.group \in Groups /\ x \in 1..Len(groups) /\ groups[x][1].group = m.group
    BY <1>3, GroupIndexIs DEF InsertIntoGroup
  <2>2. groups' = [groups EXCEPT ![x] = Append(groups[x], m)] /\ ctrl' = ctrl
    BY <1>3 DEF InsertIntoGroup
  <2> HIDE DEF x
  <2>3. groups \in Seq(Seq(DataMessage)) /\ groups[x] \in Seq(DataMessage)
    BY <2>1, ElementOfSeq DEF IInv, TypeOK
  <2>4. Append(groups[x], m)[1] = groups[x][1]
    <3>1. Len(groups[x]) \in 1..MaxGroupSize
      BY <2>1 DEF IInv, GroupsWellFormed
    <3>2. m \in DataMessage
      BY <2>1 DEF Message, DataMessage
    <3> QED
      BY <2>3, <3>1, <3>2
  <2>5. /\ Len(groups') = Len(groups)
        /\ groups'[x] = Append(groups[x], m)
        /\ \A i \in 1..Len(groups) : i # x => groups'[i] = groups[i]
        /\ \A i \in 1..Len(groups) : groups'[i][1].group = groups[i][1].group
    BY <2>1, <2>2, <2>3, <2>4
  <2>6. Appends(m.group, m)
    <3>1. Pending(m.group) = groups[x]
      BY <1>1, <2>1 DEF PendingByGroup
    <3>2. Pending(m.group)' = groups'[x]
      BY <1>1, <2>1, <2>5 DEF PendingByGroup
    <3> QED
      BY <2>5, <3>1, <3>2
  <2>7. ASSUME NEW c \in Groups, c # m.group
        PROVE  Keeps(c)
    <3>1. CASE \E i \in 1..Len(groups) : groups[i][1].group = c
      <4>1. PICK i \in 1..Len(groups) : groups[i][1].group = c
        BY <3>1
      <4>2. i # x /\ groups'[i] = groups[i] /\ i \in 1..Len(groups')
        BY <2>1, <2>5, <2>7, <4>1
      <4>3. Pending(c) = groups[i] /\ Pending(c)' = groups'[i]
        BY <1>1, <2>5, <4>1, <4>2 DEF PendingByGroup
      <4> QED
        BY <4>2, <4>3
    <3>2. CASE \A i \in 1..Len(groups) : groups[i][1].group # c
      BY <1>1, <2>5, <3>2 DEF PendingByGroup
    <3> QED
      BY <3>1, <3>2
  <2>8. Keeps(Control)
    BY <1>1, <2>2 DEF PendingByGroup
  <2> QED
    BY <2>6, <2>7, <2>8 DEF Classes
<1>4. CASE InsertNewGroup(m)
  <2>1. /\ m.group \in Groups /\ ~ HasGroup(m.group)
        /\ groups' = Append(groups, <<m>>) /\ ctrl' = ctrl
    BY <1>4 DEF InsertNewGroup, WithNewGroup
  <2>2. groups \in Seq(Seq(DataMessage)) /\ <<m>> \in Seq(DataMessage)
    BY <2>1 DEF IInv, TypeOK, Message, DataMessage
  <2>3. /\ Len(groups) \in Nat
        /\ Len(groups') = Len(groups) + 1
        /\ \A i \in 1..Len(groups) : groups'[i] = groups[i]
        /\ groups'[Len(groups) + 1] = <<m>>
    BY <2>1, <2>2
  <2>4. \A i \in 1..Len(groups) : groups[i][1].group # m.group
    BY <2>1, GroupIndexIs
  <2>5. Appends(m.group, m)
    <3>1. Pending(m.group) = <<>>
      BY <1>1, <2>1, <2>4 DEF PendingByGroup
    <3>2. Len(groups) + 1 \in 1..Len(groups')
      BY <2>3
    <3>3. groups'[Len(groups) + 1][1].group = m.group
      BY <2>3
    <3>4. Pending(m.group)' = <<m>>
      BY <1>1, <2>1, <2>3, <3>2, <3>3 DEF PendingByGroup
    <3> QED
      BY <3>1, <3>4
  <2>6. ASSUME NEW c \in Groups, c # m.group
        PROVE  Keeps(c)
    <3>1. CASE \E i \in 1..Len(groups) : groups[i][1].group = c
      <4>1. PICK i \in 1..Len(groups) : groups[i][1].group = c
        BY <3>1
      <4>2. i \in 1..Len(groups') /\ groups'[i] = groups[i]
        BY <2>3, <4>1
      <4>3. Pending(c) = groups[i] /\ Pending(c)' = groups'[i]
        BY <1>1, <4>1, <4>2 DEF PendingByGroup
      <4> QED
        BY <4>2, <4>3
    <3>2. CASE \A i \in 1..Len(groups) : groups[i][1].group # c
      <4>1. \A i \in 1..Len(groups') : groups'[i][1].group # c
        <5> TAKE i \in 1..Len(groups')
        <5>1. CASE i \in 1..Len(groups)
          BY <2>3, <3>2, <5>1
        <5>2. CASE i = Len(groups) + 1
          BY <2>3, <2>6, <5>2
        <5> QED
          BY <2>3, <5>1, <5>2
      <4> QED
        BY <1>1, <3>2, <4>1 DEF PendingByGroup
    <3> QED
      BY <3>1, <3>2
  <2>7. Keeps(Control)
    BY <1>1, <2>1 DEF PendingByGroup
  <2> QED
    BY <2>5, <2>6, <2>7 DEF Classes
<1> QED
  BY <1>2, <1>3, <1>4 DEF Insert

(* A data pop takes the oldest message of one channel and nothing else. *)
LEMMA PopDrops ==
  ASSUME IInv, IInv', PopKeepingGroup \/ PopEmptyingGroup
  PROVE  /\ pointer + 1 \in 1..Len(groups)
         /\ \E s \in Groups :
              /\ groups[pointer + 1][1].group = s
              /\ Drops(s)
              /\ \A c \in Classes \ {s} : Keeps(c)
<1> DEFINE p == pointer + 1
<1>1. PendingByGroup /\ PendingByGroup'
  BY PendingIs, PendingIsNext
<1>2. p \in 1..Len(groups) /\ Served = pointer /\ pointer \in Nat /\ ctrl' = ctrl
  BY ServedIsPointer DEF PopKeepingGroup, PopEmptyingGroup, IInv, TypeOK
<1>3. groups \in Seq(Seq(DataMessage)) /\ groups[p] \in Seq(DataMessage)
  BY <1>2, ElementOfSeq DEF IInv, TypeOK
<1>4. Len(groups[p]) \in Nat /\ Len(groups[p]) > 0 /\ groups[p] # <<>>
  BY <1>2, <1>3, EmptySeq DEF IInv, GroupsWellFormed
<1>5. PICK s \in Groups : s = groups[p][1].group
  <2>1. groups[p][1] \in DataMessage
    BY <1>3, <1>4, ElementOfSeq
  <2> QED
    BY <2>1 DEF DataMessage
<1>6. Pending(s) = groups[p]
  BY <1>1, <1>2, <1>5 DEF PendingByGroup
<1>7. \A i \in 1..Len(groups) : groups[i][1].group = s => i = p
  BY <1>2, <1>5 DEF IInv, GroupsWellFormed
<1>8. Keeps(Control)
  BY <1>1, <1>2 DEF PendingByGroup, Keeps
<1>9. CASE PopKeepingGroup
  <2>1. groups' = [groups EXCEPT ![p] = Tail(groups[p])] /\ Len(groups[p]) > 1
    BY <1>2, <1>9 DEF PopKeepingGroup
  <2>2. /\ Len(groups') = Len(groups)
        /\ groups'[p] = Tail(groups[p])
        /\ \A i \in 1..Len(groups) : i # p => groups'[i] = groups[i]
    BY <1>2, <1>3, <2>1
  <2>3. groups'[p][1].group = s
    <3>1. Tail(groups[p])[1] = groups[p][2]
      BY <1>3, <2>1, HeadTailProperties
    <3>2. groups[p][2].group = s
      BY <1>2, <1>3, <2>1, <1>5 DEF IInv, GroupsWellFormed
    <3> QED
      BY <2>2, <3>1, <3>2
  <2>4. Drops(s)
    <3>1. Pending(s)' = groups'[p]
      BY <1>1, <1>2, <1>5, <2>2, <2>3 DEF PendingByGroup
    <3> QED
      BY <1>4, <1>6, <2>2, <3>1 DEF Drops
  <2>5. ASSUME NEW c \in Groups, c # s
        PROVE  Keeps(c)
    <3>1. CASE \E i \in 1..Len(groups) : groups[i][1].group = c
      <4>1. PICK i \in 1..Len(groups) : groups[i][1].group = c
        BY <3>1
      <4>2. i # p
        BY <1>5, <2>5, <4>1
      <4>3. i \in 1..Len(groups') /\ groups'[i] = groups[i]
        BY <2>2, <4>2
      <4>4. Pending(c) = groups[i] /\ Pending(c)' = groups'[i]
        BY <1>1, <4>1, <4>3 DEF PendingByGroup
      <4> QED
        BY <4>3, <4>4 DEF Keeps
    <3>2. CASE \A i \in 1..Len(groups) : groups[i][1].group # c
      <4>1. \A i \in 1..Len(groups') : groups'[i][1].group # c
        BY <2>2, <2>3, <2>5, <3>2
      <4> QED
        BY <1>1, <3>2, <4>1 DEF PendingByGroup, Keeps
    <3> QED
      BY <3>1, <3>2
  <2> QED
    BY <1>2, <1>5, <1>8, <2>4, <2>5 DEF Classes
<1>10. CASE PopEmptyingGroup
  <2>1. /\ Len(groups) \in Nat /\ Len(groups[p]) = 1
        /\ Len(groups') = Len(groups) - 1
        /\ \A j \in 1..(Len(groups) - 1) :
             groups'[j] = IF j < p THEN groups[j] ELSE groups[j + 1]
    BY <1>10, PopEmptyingGroupShift
  <2>2. \A j \in 1..Len(groups') : groups'[j][1].group # s
    <3> TAKE j \in 1..Len(groups')
    <3>1. CASE j < p
      BY <1>2, <1>7, <2>1, <3>1
    <3>2. CASE j >= p
      BY <1>2, <1>7, <2>1, <3>2
    <3> QED
      BY <1>2, <3>1, <3>2
  <2>3. Drops(s)
    <3>1. Pending(s)' = <<>>
      BY <1>1, <1>5, <2>2 DEF PendingByGroup
    <3>2. Tail(groups[p]) = <<>>
      <4>1. Tail(groups[p]) \in Seq(DataMessage) /\ Len(Tail(groups[p])) = 0
        BY <1>3, <1>4, <2>1, HeadTailProperties
      <4> QED
        BY <4>1, EmptySeq
    <3> QED
      BY <1>4, <1>6, <3>1, <3>2 DEF Drops
  <2>4. ASSUME NEW c \in Groups, c # s
        PROVE  Keeps(c)
    <3>1. CASE \E i \in 1..Len(groups) : groups[i][1].group = c
      <4>1. PICK i \in 1..Len(groups) : groups[i][1].group = c
        BY <3>1
      <4>2. i # p
        BY <1>5, <2>4, <4>1
      <4>3. \E j \in 1..Len(groups') : groups'[j] = groups[i]
        <5>1. CASE i < p
          BY <1>2, <2>1, <5>1
        <5>2. CASE i > p
          <6>1. i - 1 \in 1..Len(groups')
            BY <1>2, <2>1, <5>2
          <6>2. groups'[i - 1] = groups[i]
            BY <1>2, <2>1, <5>2, <6>1
          <6> QED
            BY <6>1, <6>2
        <5> QED
          BY <1>2, <4>2, <5>1, <5>2
      <4>4. PICK j \in 1..Len(groups') : groups'[j] = groups[i]
        BY <4>3
      <4>5. Pending(c) = groups[i] /\ Pending(c)' = groups'[j]
        BY <1>1, <4>1, <4>4 DEF PendingByGroup
      <4> QED
        BY <4>4, <4>5 DEF Keeps
    <3>2. CASE \A i \in 1..Len(groups) : groups[i][1].group # c
      <4>1. \A j \in 1..Len(groups') : groups'[j][1].group # c
        <5> TAKE j \in 1..Len(groups')
        <5>1. j \in 1..Len(groups) /\ j + 1 \in 1..Len(groups) /\ j \in 1..(Len(groups) - 1)
          BY <2>1
        <5> QED
          BY <2>1, <3>2, <5>1
      <4> QED
        BY <1>1, <3>2, <4>1 DEF PendingByGroup, Keeps
    <3> QED
      BY <3>1, <3>2
  <2> QED
    BY <1>2, <1>5, <1>8, <2>3, <2>4 DEF Classes
<1> QED
  BY <1>9, <1>10

(* A control pop takes the oldest control message and nothing else. *)
LEMMA PopControlDrops ==
  ASSUME IInv, IInv', PopControl
  PROVE  Drops(Control) /\ \A g \in Groups : Keeps(g)
<1>1. PendingByGroup /\ PendingByGroup'
  BY PendingIs, PendingIsNext
<1>2. groups' = groups /\ ctrl # <<>> /\ ctrl' = Tail(ctrl)
  BY DEF PopControl
<1> QED
  BY <1>1, <1>2 DEF PendingByGroup, Drops, Keeps

(* There is room for a message when its channel has less than a group waiting. *)
RoomByPending ==
  \A m \in Message :
    CanInsert(m) <=> (m.group \in Groups => Len(Pending(m.group)) < MaxGroupSize)

LEMMA RoomIs == IInv => RoomByPending
<1> SUFFICES ASSUME NEW m \in Message
             PROVE  CanInsert(m) <=>
                      (m.group \in Groups => Len(Pending(m.group)) < MaxGroupSize)
  BY DEF RoomByPending
<1>1. CASE m.group \in Groups /\ HasGroup(m.group)
  BY <1>1, ControlIsNoGroup DEF CanInsert, Pending
<1>2. CASE m.group \in Groups /\ ~ HasGroup(m.group)
  <2>1. Pending(m.group) = <<>> /\ Len(<<>>) = 0
    BY <1>2, ControlIsNoGroup DEF Pending
  <2> QED
    BY <1>2, <2>1, SizesAreNat DEF CanInsert
<1>3. CASE m.group \notin Groups
  BY <1>3 DEF CanInsert
<1> QED
  BY <1>1, <1>2, <1>3

(* The same after a step. *)
LEMMA RoomIsNext == IInv' => RoomByPending'
  BY RoomIs, PTL

(* An insertion makes no room: a message refused before it is refused after it. *)
LEMMA InsertMakesNoRoom ==
  ASSUME IInv, IInv', NEW m \in Message, Insert(m), NEW k \in Message, ~ CanInsert(k)
  PROVE  ~ CanInsert(k)'
<1>1. RoomByPending /\ RoomByPending' /\ PendingByGroup
  BY RoomIs, RoomIsNext, PendingIs
<1>2. k.group \in Groups /\ ~ (Len(Pending(k.group)) < MaxGroupSize)
  BY <1>1 DEF RoomByPending
<1>3. Pending(k.group) \in Seq(DataMessage)
  <2>1. CASE \E i \in 1..Len(groups) : groups[i][1].group = k.group
    BY <1>1, <1>2, <2>1, ElementOfSeq DEF PendingByGroup, IInv, TypeOK
  <2>2. CASE \A i \in 1..Len(groups) : groups[i][1].group # k.group
    <3>1. Pending(k.group) = <<>>
      BY <1>1, <1>2, <2>2 DEF PendingByGroup
    <3> QED
      BY <3>1, EmptySeq
  <2> QED
    BY <2>1, <2>2
<1>4. CASE k.group = m.group
  <2>1. m \in DataMessage
    BY <1>2, <1>4 DEF Message, DataMessage
  <2>2. Pending(k.group)' = Append(Pending(k.group), m)
    BY <1>4, InsertAppends DEF Appends
  <2>3. Len(Pending(k.group)') = Len(Pending(k.group)) + 1
    BY <1>3, <2>1, <2>2
  <2>4. Len(Pending(k.group)) \in Nat
    BY <1>3
  <2>5. ~ (Len(Pending(k.group)') < MaxGroupSize)
    BY <1>2, <2>3, <2>4, SizesAreNat
  <2> QED
    BY <1>1, <1>2, <2>5 DEF RoomByPending
<1>5. CASE k.group # m.group
  <2>1. Pending(k.group)' = Pending(k.group)
    BY <1>2, <1>5, InsertAppends DEF Keeps, Classes
  <2> QED
    BY <1>1, <1>2, <2>1 DEF RoomByPending
<1> QED
  BY <1>4, <1>5

-----------------------------------------------------------------------------
(* The queue implements per-class FIFO queues: each operation is one step of  *)
(* GroupedFifo on the waiting messages.                                       *)
PendingMap == [c \in Classes |-> Pending(c)]

THEOREM RefinesGroupedFifo == Spec => ImplementsFifo
<1>1. Init => Fifo!Init
  <2> SUFFICES ASSUME Init
               PROVE  Fifo!Init
    OBVIOUS
  <2>1. \A c \in Classes : Pending(c) = <<>>
    BY DEF Init, Pending, HasGroup
  <2> QED
    BY <2>1 DEF Fifo!Init, Fifo!Classes, Classes
<1>2. IInv /\ IInv' /\ [Next]_queueVars => [Fifo!Next]_PendingMap
  <2> SUFFICES ASSUME IInv, IInv', [Next]_queueVars
               PROVE  Fifo!Next \/ UNCHANGED PendingMap
    OBVIOUS
  <2> USE DEF PendingMap
  <2>1. ASSUME NEW m \in Message, Insert(m)
        PROVE  Fifo!Next
    <3>1. Appends(m.group, m) /\ \A c \in Classes \ {m.group} : Keeps(c)
      BY <2>1, InsertAppends
    <3>2. m.group \in Classes
      BY DEF Message
    <3>3. m.group \in Groups => Len(Pending(m.group)) < MaxGroupSize
      <4> SUFFICES ASSUME m.group \in Groups
                   PROVE  Len(Pending(m.group)) < MaxGroupSize
        OBVIOUS
      <4>1. m.group # Control
        BY ControlIsNoGroup
      <4>2. CASE HasGroup(m.group)
        BY <2>1, <4>1, <4>2 DEF Insert, CanInsert, Pending
      <4>3. CASE ~ HasGroup(m.group)
        BY <4>1, <4>3, SizesAreNat DEF Pending
      <4> QED
        BY <4>2, <4>3
    <3>4. Fifo!Accept(m)
      BY <3>1, <3>2, <3>3 DEF Fifo!Accept, Appends, Keeps, Classes
    <3> QED
      BY <3>4 DEF Fifo!Next, Fifo!Message, Fifo!Classes, Message, Classes
  <2>2. ASSUME PopControl
        PROVE  Fifo!Next
    <3>1. Drops(Control) /\ \A g \in Groups : Keeps(g)
      BY <2>2, PopControlDrops
    <3>2. Fifo!Deliver(Control)
      BY <3>1, ControlIsNoGroup DEF Fifo!Deliver, Drops, Keeps, Classes
    <3> QED
      BY <3>2 DEF Fifo!Next, Fifo!Classes
  <2>3. ASSUME PopKeepingGroup \/ PopEmptyingGroup
        PROVE  Fifo!Next
    <3>1. PICK s \in Groups : Drops(s) /\ \A c \in Classes \ {s} : Keeps(c)
      BY <2>3, PopDrops
    <3>2. Pending(Control) = <<>>
      BY <2>3 DEF Pending, PopKeepingGroup, PopEmptyingGroup
    <3>3. Fifo!Deliver(s)
      BY <3>1, <3>2 DEF Fifo!Deliver, Drops, Keeps, Classes
    <3> QED
      BY <3>3 DEF Fifo!Next, Fifo!Classes
  <2>4. CASE UNCHANGED queueVars
    BY <2>4 DEF queueVars, Pending, HasGroup, GroupIndex, IsGroupOf
  <2> QED
    BY <2>1, <2>2, <2>3, <2>4 DEF Next, Pop
<1> QED
  BY <1>1, <1>2, InvHolds, PTL DEF Spec, ImplementsFifo, Fifo!Spec, PendingMap

-----------------------------------------------------------------------------
(* Round robin. *)

(* The turns before the group at place i, with the turn at p and n groups. *)
Turns(i, p, n) == IF i - 1 >= p THEN i - 1 - p ELSE i - 1 - p + n

DistanceByPlace ==
  \A g \in Groups : \A i \in 1..Len(groups) :
    groups[i][1].group = g => Distance(g) = Turns(i, pointer, Len(groups))

(* A channel's distance is counted from the pointer to its one group. *)
LEMMA DistanceIs == IInv => DistanceByPlace
<1> SUFFICES ASSUME IInv
             PROVE  DistanceByPlace
  OBVIOUS
<1>1. \A g \in Groups : \A i \in 1..Len(groups) :
        groups[i][1].group = g => GroupIndex(g) = i
  BY GroupIndexIs
<1> QED
  BY <1>1 DEF DistanceByPlace, Distance, Turns

(* The same after a step. *)
LEMMA DistanceIsNext == IInv' => DistanceByPlace'
  BY DistanceIs, PTL

(* Serving a channel brings every other one a turn closer, whether the served *)
(* group stays (the turn moves on) or goes (the vector closes up).            *)
LEMMA PopTurns ==
  ASSUME IInv, IInv', PopKeepingGroup \/ PopEmptyingGroup,
         NEW g \in Groups, HasGroup(g), g # groups[pointer + 1][1].group
  PROVE  Distance(g)' = Distance(g) - 1
<1>1. DistanceByPlace /\ DistanceByPlace'
  BY DistanceIs, DistanceIsNext
<1>2. PICK i \in 1..Len(groups) : groups[i][1].group = g
  BY GroupIndexIs
<1>3. /\ pointer + 1 \in 1..Len(groups) /\ pointer \in Nat
      /\ Len(groups) \in Nat /\ Served = pointer
  BY ServedIsPointer DEF PopKeepingGroup, PopEmptyingGroup, IInv, TypeOK
<1>4. i # pointer + 1
  BY <1>2
<1>5. Distance(g) = Turns(i, pointer, Len(groups))
  BY <1>1, <1>2 DEF DistanceByPlace
<1>6. CASE PopKeepingGroup
  <2>1. Len(groups') = Len(groups) /\ groups'[i] = groups[i]
    <3>1. groups' = [groups EXCEPT ![pointer + 1] = Tail(@)] /\ groups \in Seq(Seq(DataMessage))
      BY <1>3, <1>6 DEF PopKeepingGroup, IInv, TypeOK
    <3> QED
      BY <1>2, <1>3, <1>4, <3>1
  <2>2. pointer' = (pointer + 1) % Len(groups)
    BY <1>3, <1>6 DEF PopKeepingGroup, TurnAfterServing
  <2>3. pointer' = IF pointer + 1 = Len(groups) THEN 0 ELSE pointer + 1
    BY <1>3, <2>2
  <2>4. Distance(g)' = Turns(i, pointer', Len(groups))
    BY <1>1, <1>2, <2>1 DEF DistanceByPlace
  <2> QED
    BY <1>2, <1>3, <1>4, <1>5, <2>3, <2>4 DEF Turns
<1>7. CASE PopEmptyingGroup
  <2> DEFINE j == IF i < pointer + 1 THEN i ELSE i - 1
  <2>1. /\ Len(groups') = Len(groups) - 1
        /\ \A k \in 1..(Len(groups) - 1) :
             groups'[k] = IF k < pointer + 1 THEN groups[k] ELSE groups[k + 1]
        /\ pointer' = IF pointer < Len(groups) - 1 THEN pointer ELSE 0
    BY <1>7, PopEmptyingGroupShift
  <2>2. j \in 1..Len(groups')
    BY <1>2, <1>3, <1>4, <2>1
  <2>3. groups'[j] = groups[i]
    <3>1. CASE i < pointer + 1
      BY <1>2, <1>3, <2>1, <2>2, <3>1
    <3>2. CASE i > pointer + 1
      BY <1>2, <1>3, <2>1, <2>2, <3>2
    <3> QED
      BY <1>2, <1>3, <1>4, <3>1, <3>2
  <2>4. PICK q \in 1..Len(groups') : q = j
    BY <2>2
  <2> HIDE DEF j
  <2>5. groups'[q][1].group = g
    BY <1>2, <2>3, <2>4
  <2>6. Distance(g)' = Turns(q, pointer', Len(groups) - 1)
    BY <1>1, <2>1, <2>5 DEF DistanceByPlace
  <2>7. Turns(q, pointer', Len(groups) - 1) = Turns(i, pointer, Len(groups)) - 1
    <3>1. CASE i < pointer + 1 /\ pointer < Len(groups) - 1
      BY <1>2, <1>3, <2>1, <2>4, <3>1 DEF Turns, j
    <3>2. CASE i < pointer + 1 /\ pointer = Len(groups) - 1
      <4>1. pointer' = 0 /\ q = i /\ pointer = Len(groups) - 1
        BY <1>3, <2>1, <2>4, <3>2 DEF j
      <4>2. Turns(q, 0, Len(groups) - 1) = i - 1 /\ Turns(i, pointer, Len(groups)) = i
        BY <1>2, <1>3, <3>2, <4>1 DEF Turns
      <4> QED
        BY <4>1, <4>2
    <3>3. CASE i > pointer + 1 /\ pointer < Len(groups) - 1
      BY <1>2, <1>3, <2>1, <2>4, <3>3 DEF Turns, j
    <3> QED
      BY <1>2, <1>3, <1>4, <3>1, <3>2, <3>3
  <2> QED
    BY <1>5, <2>6, <2>7
<1> QED
  BY <1>6, <1>7

(* A step in which no data channel loses a message is no data pop. *)
LEMMA LosingIsPopping ==
  ASSUME IInv, IInv', [Next]_queueVars
  PROVE  /\ \A h \in Groups : LosesMessage(h) =>
              /\ PopKeepingGroup \/ PopEmptyingGroup
              /\ h = groups[pointer + 1][1].group
         /\ PopKeepingGroup \/ PopEmptyingGroup => \E h \in Groups : LosesMessage(h)
<1>1. \A c \in Groups : Pending(c) \in Seq(DataMessage)
  <2> TAKE c \in Groups
  <2>1. PendingByGroup
    BY PendingIs
  <2>2. CASE \E i \in 1..Len(groups) : groups[i][1].group = c
    BY <2>1, <2>2, ElementOfSeq DEF PendingByGroup, IInv, TypeOK
  <2>3. CASE \A i \in 1..Len(groups) : groups[i][1].group # c
    <3>1. Pending(c) = <<>>
      BY <2>1, <2>3 DEF PendingByGroup
    <3> QED
      BY <3>1, EmptySeq
  <2> QED
    BY <2>2, <2>3
<1>2. ASSUME NEW h \in Groups, Keeps(h)
      PROVE  ~ LosesMessage(h)
  BY <1>1, <1>2 DEF Keeps, LosesMessage
<1>3. ASSUME NEW h \in Groups, NEW m \in Message, Appends(h, m), m.group = h
      PROVE  ~ LosesMessage(h)
  <2>1. m \in DataMessage
    BY <1>3 DEF Message, DataMessage
  <2> QED
    BY <1>1, <1>3, <2>1 DEF Appends, LosesMessage
<1>4. ASSUME NEW m \in Message, Insert(m), NEW h \in Groups
      PROVE  ~ LosesMessage(h)
  BY <1>2, <1>3, <1>4, InsertAppends DEF Classes
<1>5. ASSUME PopControl, NEW h \in Groups
      PROVE  ~ LosesMessage(h)
  BY <1>2, <1>5, PopControlDrops
<1>6. ASSUME PopKeepingGroup \/ PopEmptyingGroup
      PROVE  \E s \in Groups :
               /\ s = groups[pointer + 1][1].group
               /\ LosesMessage(s)
               /\ \A h \in Groups \ {s} : ~ LosesMessage(h)
  <2>1. PICK s \in Groups : /\ groups[pointer + 1][1].group = s
                            /\ Drops(s)
                            /\ \A c \in Classes \ {s} : Keeps(c)
    BY <1>6, PopDrops
  <2>2. LosesMessage(s)
    BY <1>1, <2>1, HeadTailProperties DEF Drops, LosesMessage
  <2>3. \A h \in Groups \ {s} : ~ LosesMessage(h)
    BY <1>2, <2>1 DEF Classes
  <2> QED
    BY <2>1, <2>2, <2>3
<1>7. ASSUME UNCHANGED queueVars, NEW h \in Groups
      PROVE  ~ LosesMessage(h)
  <2>1. Keeps(h)
    BY <1>7 DEF queueVars, Keeps, Pending, HasGroup, GroupIndex, IsGroupOf
  <2> QED
    BY <1>2, <2>1
<1> HIDE DEF LosesMessage
<1>8. CASE PopKeepingGroup \/ PopEmptyingGroup
  BY <1>6, <1>8
<1>9. CASE ~ (PopKeepingGroup \/ PopEmptyingGroup)
  BY <1>4, <1>5, <1>7, <1>9 DEF Next, Pop
<1> QED
  BY <1>8, <1>9

(* Every data pop brings every other waiting channel one turn closer. *)
THEOREM RoundRobin == Spec => PopBringsOthersCloser
<1>1. ASSUME IInv, [Next]_queueVars
      PROVE  \A g, h \in Groups :
               g # h /\ HasGroup(g) /\ LosesMessage(h) => Distance(g)' = Distance(g) - 1
  <2>1. IInv'
    BY <1>1, NextKeepsInv
  <2> TAKE g, h \in Groups
  <2> HAVE g # h /\ HasGroup(g) /\ LosesMessage(h)
  <2>2. PopKeepingGroup \/ PopEmptyingGroup
    BY <1>1, <2>1, LosingIsPopping
  <2>3. h = groups[pointer + 1][1].group
    BY <1>1, <2>1, LosingIsPopping
  <2> QED
    BY <1>1, <2>1, <2>2, <2>3, PopTurns
<1> QED
  BY <1>1, InvHolds, PTL DEF Spec, PopBringsOthersCloser

(* A step that serves no data channel moves no waiting channel in the vector; *)
(* it may lengthen the vector by the group it opens.                          *)
LEMMA OtherStepsKeepPlaces ==
  ASSUME IInv, IInv', [Next]_queueVars, ~ (PopKeepingGroup \/ PopEmptyingGroup)
  PROVE  /\ pointer' = pointer
         /\ Len(groups) \in Nat
         /\ Len(groups') \in {Len(groups), Len(groups) + 1}
         /\ \A i \in 1..Len(groups) : groups'[i][1].group = groups[i][1].group
<1>1. groups \in Seq(Seq(DataMessage)) /\ Len(groups) \in Nat
  BY DEF IInv, TypeOK
<1>2. ASSUME NEW m \in Message, InsertIntoGroup(m)
      PROVE  /\ pointer' = pointer
             /\ Len(groups') = Len(groups)
             /\ \A i \in 1..Len(groups) : groups'[i][1].group = groups[i][1].group
  <2> DEFINE x == GroupIndex(m.group)
  <2>1. x \in 1..Len(groups) /\ m \in DataMessage
    BY <1>2, GroupIndexIs DEF InsertIntoGroup, Message, DataMessage
  <2>2. groups' = [groups EXCEPT ![x] = Append(groups[x], m)] /\ pointer' = pointer
    BY <1>2 DEF InsertIntoGroup
  <2> HIDE DEF x
  <2>3. groups[x] \in Seq(DataMessage) /\ Len(groups[x]) \in 1..MaxGroupSize
    BY <1>1, <2>1, ElementOfSeq DEF IInv, GroupsWellFormed
  <2>4. Append(groups[x], m)[1] = groups[x][1]
    BY <2>1, <2>3
  <2> QED
    BY <1>1, <2>1, <2>2, <2>4
<1>3. ASSUME NEW m \in Message, InsertNewGroup(m)
      PROVE  /\ pointer' = pointer
             /\ Len(groups') = Len(groups) + 1
             /\ \A i \in 1..Len(groups) : groups'[i][1].group = groups[i][1].group
  <2>1. <<m>> \in Seq(DataMessage)
    BY <1>3 DEF InsertNewGroup, Message, DataMessage
  <2> QED
    BY <1>1, <1>3, <2>1 DEF InsertNewGroup, WithNewGroup
<1>4. ASSUME NEW m \in Message, InsertControl(m)
      PROVE  groups' = groups /\ pointer' = pointer
  BY <1>4 DEF InsertControl
<1>5. ASSUME PopControl \/ UNCHANGED queueVars
      PROVE  groups' = groups /\ pointer' = pointer
  BY <1>5 DEF PopControl, queueVars
<1> QED
  BY <1>1, <1>2, <1>3, <1>4, <1>5 DEF Next, Insert, Pop

(* Only a step that opens a group delays a waiting channel, by one turn. *)
THEOREM InsertionDelay == Spec => InsertCostsOneTurn
<1>1. ASSUME IInv, [Next]_queueVars
      PROVE  \A g \in Groups :
               HasGroup(g) /\ (\A h \in Groups : ~ LosesMessage(h))
                 => /\ HasGroup(g)'
                    /\ Distance(g)' - Distance(g)
                         \in (IF Len(groups') > Len(groups) THEN {0, 1} ELSE {0})
  <2>1. IInv'
    BY <1>1, NextKeepsInv
  <2> TAKE g \in Groups
  <2> HAVE HasGroup(g) /\ (\A h \in Groups : ~ LosesMessage(h))
  <2>2. ~ (PopKeepingGroup \/ PopEmptyingGroup)
    <3> HIDE DEF LosesMessage
    <3> QED
      BY <1>1, <2>1, LosingIsPopping
  <2>3. /\ pointer' = pointer
        /\ Len(groups) \in Nat
        /\ Len(groups') \in {Len(groups), Len(groups) + 1}
        /\ \A i \in 1..Len(groups) : groups'[i][1].group = groups[i][1].group
    BY <1>1, <2>1, <2>2, OtherStepsKeepPlaces
  <2>4. PICK i \in 1..Len(groups) : groups[i][1].group = g
    BY <1>1, GroupIndexIs
  <2>5. i \in 1..Len(groups') /\ groups'[i][1].group = g
    BY <2>3, <2>4
  <2>6. HasGroup(g)'
    BY <2>1, <2>5, PendingIsNext DEF PendingByGroup
  <2>7. /\ Distance(g) = Turns(i, pointer, Len(groups))
        /\ Distance(g)' = Turns(i, pointer, Len(groups'))
    BY <1>1, <2>1, <2>3, <2>4, <2>5, DistanceIs, DistanceIsNext DEF DistanceByPlace
  <2>8. pointer \in Nat
    BY <1>1 DEF IInv, TypeOK
  <2>9. CASE Len(groups') = Len(groups)
    <3>1. Distance(g)' - Distance(g) = 0
      BY <2>3, <2>4, <2>7, <2>8, <2>9 DEF Turns
    <3> QED
      BY <2>3, <2>6, <2>9, <3>1
  <2>10. CASE Len(groups') = Len(groups) + 1
    <3>1. Distance(g)' - Distance(g) \in {0, 1}
      BY <2>3, <2>4, <2>7, <2>8, <2>10 DEF Turns
    <3> QED
      BY <2>3, <2>6, <2>10, <3>1
  <2> QED
    BY <2>3, <2>9, <2>10
<1> QED
  BY <1>1, InvHolds, PTL DEF Spec, InsertCostsOneTurn
=============================================================================
