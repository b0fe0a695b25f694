----------------------------- MODULE FairQueue -----------------------------
(***************************************************************************)
(* The fair queue of common/src/fair_channel.rs: one FIFO of control       *)
(* messages and a vector of data groups, one per data channel with         *)
(* messages waiting, served round robin from `pointer`.  A group is        *)
(* created at the end of the vector by its first message and removed when  *)
(* its last message is popped.                                             *)
(*                                                                         *)
(* As in the code, `pointer` counts from 0; the group it denotes is        *)
(* groups[pointer + 1].                                                    *)
(***************************************************************************)
EXTENDS Integers, Sequences

CONSTANTS
  Groups,         (* data channel ids, the `Some(u32)` of FairGroup::group_id *)
  Control,        (* the control class, the `None` of FairGroup::group_id     *)
  Data,           (* message bodies                                           *)
  MaxGroupSize,   (* the argument of FairQueue::new                           *)
  MaxControl      (* bound of the model: the code does not bound ctrl_group   *)

ASSUME ControlIsNoGroup == Control \notin Groups

ASSUME SizesAreNat == MaxGroupSize \in Nat \ {0} /\ MaxControl \in Nat

Classes == Groups \cup {Control}

Message == [group : Classes, data : Data]
ControlMessage == [group : {Control}, data : Data]
DataMessage == [group : Groups, data : Data]

VARIABLES
  ctrl,           (* FairQueue::ctrl_group *)
  groups,         (* FairQueue::groups     *)
  pointer         (* FairQueue::pointer    *)

queueVars == <<ctrl, groups, pointer>>

-----------------------------------------------------------------------------

(* The group found by `find(|group| group.front().group_id() == g)`. *)
IsGroupOf(i, g) == groups[i] # <<>> /\ groups[i][1].group = g

HasGroup(g) == \E i \in 1..Len(groups) : IsGroupOf(i, g)

GroupIndex(g) ==
  CHOOSE i \in 1..Len(groups) :
    IsGroupOf(i, g) /\ \A j \in 1..(i - 1) : ~ IsGroupOf(j, g)

Slot(k) == (pointer + k) % Len(groups)

(* The loop of FairQueue::pop stops at the first group from `pointer` on    *)
(* that yields a message, trying each group once.                           *)
Skipped ==
  CHOOSE k \in 0..(Len(groups) - 1) :
    /\ groups[Slot(k) + 1] # <<>>
    /\ \A j \in 0..(k - 1) : groups[Slot(j) + 1] = <<>>

Served == Slot(Skipped)

SomeMessage == \E i \in 1..Len(groups) : groups[i] # <<>>

(* Vec::remove of the group that yielded its last message. *)
Remove(s, i) == SubSeq(s, 1, i - 1) \o SubSeq(s, i + 1, Len(s))

(* The turn after a pop that leaves messages in the served group. *)
TurnNotPassed == Served                                             \* faulty variant
TurnAfterServing == (Served + 1) % Len(groups)

(* The turn after a pop that removes the served group: the group that slides *)
(* into its place, or the first one.                                         *)
TurnSteppedBack == Served - 1                                       \* faulty variant
TurnSkipping == IF Served + 1 < Len(groups) - 1 THEN Served + 1 ELSE 0  \* faulty variant
TurnAfterRemoval == IF Served < Len(groups) - 1 THEN Served ELSE 0

-----------------------------------------------------------------------------
(* Operations *)

CanInsertOneMore(m) ==                                              \* faulty variant
  m.group \in Groups /\ HasGroup(m.group)
    => Len(groups[GroupIndex(m.group)]) <= MaxGroupSize
CanInsert(m) ==
  m.group \in Groups /\ HasGroup(m.group)
    => Len(groups[GroupIndex(m.group)]) < MaxGroupSize

InsertControl(m) ==
  /\ m.group = Control
  /\ ctrl' = Append(ctrl, m)
  /\ UNCHANGED <<groups, pointer>>

InsertIntoGroup(m) ==
  /\ m.group \in Groups
  /\ HasGroup(m.group)
  /\ groups' = [groups EXCEPT ![GroupIndex(m.group)] = Append(@, m)]
  /\ UNCHANGED <<ctrl, pointer>>

WithNewGroup(m) == Append(groups, <<m>>)

InsertNewGroup(m) ==
  /\ m.group \in Groups
  /\ ~ HasGroup(m.group)
  /\ groups' = WithNewGroup(m)
  /\ UNCHANGED <<ctrl, pointer>>

(* FairQueue::insert, for a message that can_insert accepts. *)
Insert(m) ==
  /\ CanInsert(m)
  /\ InsertControl(m) \/ InsertIntoGroup(m) \/ InsertNewGroup(m)

PopControl ==
  /\ ctrl # <<>>
  /\ ctrl' = Tail(ctrl)
  /\ UNCHANGED <<groups, pointer>>

PopKeepingGroup ==
  /\ ctrl = <<>>
  /\ SomeMessage
  /\ Len(groups[Served + 1]) > 1
  /\ groups' = [groups EXCEPT ![Served + 1] = Tail(@)]
  /\ pointer' = TurnAfterServing
  /\ UNCHANGED ctrl

PopEmptyingGroup ==
  /\ ctrl = <<>>
  /\ SomeMessage
  /\ Len(groups[Served + 1]) = 1
  /\ groups' = Remove(groups, Served + 1)
  /\ pointer' = TurnAfterRemoval
  /\ UNCHANGED ctrl

(* FairQueue::pop when it returns Some; when it returns None it changes nothing *)
(* because `pointer` has gone round the vector once.                           *)
Pop == PopControl \/ PopKeepingGroup \/ PopEmptyingGroup

QueueEmpty == ctrl = <<>> /\ ~ SomeMessage

-----------------------------------------------------------------------------

Init ==
  /\ ctrl = <<>>
  /\ groups = <<>>
  /\ pointer = 0

Next ==
  \/ \E m \in Message : Insert(m) /\ (m.group = Control => Len(ctrl) < MaxControl)
  \/ Pop

Spec == Init /\ [][Next]_queueVars

(* Somebody keeps popping: the receiver loop of fair_channel. *)
FairSpec == Spec /\ WF_queueVars(Pop)

-----------------------------------------------------------------------------
(* Properties *)

(* The queue's state is of the right shape: sequences of messages of the    *)
(* right class, and a natural pointer.                                      *)
TypeOK ==
  /\ ctrl \in Seq(ControlMessage)
  /\ groups \in Seq(Seq(DataMessage))
  /\ pointer \in Nat

(* Every group in the vector has messages, all of one channel, no more than *)
(* max_group_size of them, and no channel has two groups: this is what lets *)
(* can_insert and insert find a group by the channel of its front message   *)
(* and what keeps the messages of one channel in order.                     *)
GroupsWellFormed ==
  /\ \A i \in 1..Len(groups) :
       /\ Len(groups[i]) \in 1..MaxGroupSize
       /\ \A k \in 1..Len(groups[i]) : groups[i][k].group = groups[i][1].group
  /\ \A i, j \in 1..Len(groups) :
       groups[i][1].group = groups[j][1].group => i = j

(* `pointer` denotes a group of the vector whenever there is one, whatever  *)
(* was removed since it was set: `self.groups[pointer]` in pop never panics *)
(* on an index out of bounds.                                               *)
PointerInRange == IF groups = <<>> THEN pointer = 0 ELSE pointer < Len(groups)

(* How many data pops are served before the turn of channel g. *)
Distance(g) ==
  LET i == GroupIndex(g) - 1
  IN  IF i >= pointer THEN i - pointer ELSE i - pointer + Len(groups)

Pending(c) ==
  IF c = Control THEN ctrl ELSE IF HasGroup(c) THEN groups[GroupIndex(c)] ELSE <<>>

LosesMessage(c) == Len(Pending(c)') < Len(Pending(c))

(* Round robin: when pop serves one channel, every other waiting channel    *)
(* comes exactly one turn closer, also when the served group disappears and *)
(* the vector and the pointer shift under the ones that stay.               *)
PopBringsOthersCloser ==
  [][\A g, h \in Groups :
       g # h /\ HasGroup(g) /\ LosesMessage(h) => Distance(g)' = Distance(g) - 1]_queueVars

(* A message put in the queue costs a waiting channel at most one turn, and *)
(* only if it opens a group; a control pop costs it none.  This is a price, *)
(* not a bound: a channel may have to pay it again and again, as            *)
(* EveryChannelIsServed shows.                                              *)
InsertCostsOneTurn ==
  [][\A g \in Groups :
       HasGroup(g) /\ (\A h \in Groups : ~ LosesMessage(h))
         => /\ HasGroup(g)'
            /\ Distance(g)' - Distance(g)
                 \in (IF Len(groups') > Len(groups) THEN {0, 1} ELSE {0})]_queueVars

(* The queue implements per-channel FIFO queues with control first. *)
Fifo == INSTANCE GroupedFifo WITH pending <- [c \in Classes |-> Pending(c)]

ImplementsFifo == Fifo!Spec

OpensGroup == \E m \in Message : InsertNewGroup(m)

AddsControl == \E m \in Message : InsertControl(m)

(* A channel that waits is served again and again. *)
IsServed(g) ==
  <>[]HasGroup(g) => []<><<LosesMessage(g)>>_queueVars

(* Once no group is opened and no control message arrives any more, every   *)
(* channel with waiting messages gets its turn, however fast the others     *)
(* refill their own groups.  That the hypothesis is needed is               *)
(* EveryChannelIsServed.                                                    *)
ServedWhileGroupsStay ==
  <>[][~ OpensGroup /\ ~ AddsControl]_queueVars => \A g \in Groups : IsServed(g)

(* Fair queuing as it is announced: every channel with waiting messages is  *)
(* served, whatever the others want to send.  The code does not keep this:  *)
(* a channel whose group a pop empties comes back at the end of the vector  *)
(* with its next message, before the pointer has gone round, and a second   *)
(* one after it; the two then take turns and the pointer never wraps.       *)
EveryChannelIsServed == \A g \in Groups : IsServed(g)
=============================================================================
