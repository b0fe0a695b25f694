------------------------- MODULE FairChannel_proofs -------------------------
(***************************************************************************)
(* Proofs about FairChannel, for any number of senders and watchers: its   *)
(* type invariant with the lock discipline, where a wakeup can get lost,   *)
(* and that the tasks drive the queue only through legal operations.  What *)
(* is known of the queue itself is cited from FairQueue_proofs.            *)
(***************************************************************************)
EXTENDS FairChannel, FiniteSetTheorems, TLAPS

QP == INSTANCE FairQueue_proofs

(* The tasks, the lock and the history have their shape, and the lock is held *)
(* by the task in a critical section.                                         *)
Critical == {"locked", "trying", "closing"}

Shape ==
  /\ closed \in BOOLEAN
  /\ pc \in [Tasks -> Places]
  /\ missed \subseteq Tasks
  /\ lock \in Tasks \cup {Free}
  /\ \A t \in Tasks : pc[t] \in Critical <=> lock = t

(* A control message always finds room, within the model's bound: its sender  *)
(* never waits, and nobody can use up the room it was admitted with.          *)
ControlGoesThrough ==
  \A s \in Senders : MessageOf[s].group = Control =>
    /\ pc[s] \notin {"gap", "waiting", "ready"}
    /\ pc[s] \in {"locked", "trying"} => Len(ctrl) < MaxControl

(* The inductive invariant. *)
IInv == Shape /\ QP!IInv /\ ControlGoesThrough

-----------------------------------------------------------------------------
LEMMA TaskFacts ==
  /\ Senders \subseteq Tasks /\ Watchers \subseteq Tasks /\ Receiver \in Tasks
  /\ Free \notin Tasks
  /\ Receiver \notin Senders /\ Receiver \notin Watchers
  /\ Senders \cap Watchers = {}
  /\ \A s \in Senders : MessageOf[s] \in Q!Message
BY TasksAreDistinct, SendersHaveMessages DEF Tasks, Q!Message, Q!Classes

(* The two instances of the queue are the same queue. *)
LEMMA SameState ==
  /\ Q!TypeOK <=> QP!TypeOK
  /\ Q!QueueEmpty <=> QP!QueueEmpty
  /\ Q!Init <=> QP!Init
  /\ Q!Message = QP!Message
  /\ \A m \in Q!Message : Q!CanInsert(m) <=> QP!CanInsert(m)
  /\ QP!queueVars = queueVars
BY DEF Q!TypeOK, QP!TypeOK, Q!ControlMessage, QP!ControlMessage,
       Q!DataMessage, QP!DataMessage, Q!QueueEmpty, QP!QueueEmpty,
       Q!SomeMessage, QP!SomeMessage, Q!Init, QP!Init, Q!Message, QP!Message,
       Q!Classes, QP!Classes, Q!CanInsert, QP!CanInsert, Q!HasGroup, QP!HasGroup,
       Q!GroupIndex, QP!GroupIndex, Q!IsGroupOf, QP!IsGroupOf,
       QP!queueVars, queueVars

LEMMA SameInsert ==
  ASSUME NEW m \in Q!Message
  PROVE  Q!Insert(m) <=> QP!Insert(m)
<1>1. Q!InsertControl(m) <=> QP!InsertControl(m)
  BY DEF Q!InsertControl, QP!InsertControl
<1>2. Q!InsertIntoGroup(m) <=> QP!InsertIntoGroup(m)
  BY DEF Q!InsertIntoGroup, QP!InsertIntoGroup, Q!HasGroup, QP!HasGroup,
         Q!GroupIndex, QP!GroupIndex, Q!IsGroupOf, QP!IsGroupOf
<1>3. Q!InsertNewGroup(m) <=> QP!InsertNewGroup(m)
  BY DEF Q!InsertNewGroup, QP!InsertNewGroup, Q!HasGroup, QP!HasGroup,
         Q!IsGroupOf, QP!IsGroupOf, Q!WithNewGroup, QP!WithNewGroup
<1> QED
  BY <1>1, <1>2, <1>3, SameState DEF Q!Insert, QP!Insert

LEMMA SamePop == Q!Pop <=> QP!Pop
<1>1. Q!Served = QP!Served
  BY DEF Q!Served, QP!Served, Q!Skipped, QP!Skipped, Q!Slot, QP!Slot
<1>2. Q!SomeMessage <=> QP!SomeMessage
  BY DEF Q!SomeMessage, QP!SomeMessage
<1>3. Q!PopControl <=> QP!PopControl
  BY DEF Q!PopControl, QP!PopControl
<1>4. Q!PopKeepingGroup <=> QP!PopKeepingGroup
  BY <1>1, <1>2 DEF Q!PopKeepingGroup, QP!PopKeepingGroup,
                    Q!TurnAfterServing, QP!TurnAfterServing
<1>5. Q!PopEmptyingGroup <=> QP!PopEmptyingGroup
  BY <1>1, <1>2 DEF Q!PopEmptyingGroup, QP!PopEmptyingGroup, Q!Remove, QP!Remove,
                    Q!TurnAfterRemoval, QP!TurnAfterRemoval
<1> QED
  BY <1>3, <1>4, <1>5 DEF Q!Pop, QP!Pop

(* The queue keeps its invariant under its own steps. *)
LEMMA QueueKeepsInv ==
  ASSUME QP!IInv, [Q!Next]_queueVars
  PROVE  QP!IInv'
<1>1. ASSUME NEW m \in Q!Message, Q!Insert(m), m.group = Control => Len(ctrl) < MaxControl
      PROVE  QP!Next
  BY <1>1, SameState, SameInsert DEF QP!Next
<1>2. ASSUME Q!Pop
      PROVE  QP!Next
  <2>1. QP!Pop
    BY <1>2, SamePop
  <2> QED
    BY <2>1 DEF QP!Next
<1>3. QP!Next \/ UNCHANGED queueVars
  BY <1>1, <1>2 DEF Q!Next
<1>4. UNCHANGED queueVars => UNCHANGED QP!queueVars
  BY DEF queueVars, QP!queueVars
<1>5. [QP!Next]_(QP!queueVars)
  BY <1>3, <1>4
<1> QED
  BY <1>5, QP!NextKeepsInv, QueueParameters

-----------------------------------------------------------------------------
(* The shape and the lock *)

(* A step that takes the lock, one that gives it back, and one that neither   *)
(* needs nor changes it.                                                      *)
LEMMA TakingKeepsShape ==
  ASSUME Shape, NEW t \in Tasks, NEW place \in Critical,
         Acquire(t), Goto(t, place), missed' \subseteq missed, closed' = closed
  PROVE  Shape'
BY TaskFacts DEF Shape, Acquire, Goto, Critical, Places

LEMMA ReleasingKeepsShape ==
  ASSUME Shape, NEW t \in Tasks, NEW place \in Places \ Critical,
         pc[t] \in Critical, Release, Goto(t, place),
         missed' = missed, closed' \in BOOLEAN
  PROVE  Shape'
BY TaskFacts DEF Shape, Release, Goto, Critical

LEMMA WalkingKeepsShape ==
  ASSUME Shape, NEW t \in Tasks, NEW place \in Places \ Critical,
         pc[t] \notin Critical, Goto(t, place), lock' = lock,
         missed' = missed, closed' \in BOOLEAN
  PROVE  Shape'
BY TaskFacts DEF Shape, Goto, Critical

LEMMA NotifyingKeepsShape ==
  ASSUME Shape, NEW t \in Tasks, NEW place \in Places \ Critical, NEW S \in SUBSET Tasks,
         pc[t] \notin Critical, NotifyWaiters(S, t, place),
         lock' = lock, closed' = closed
  PROVE  Shape'
<1>1. missed' \subseteq Tasks
  BY DEF Shape, NotifyWaiters
<1>2. pc' \in [Tasks -> Places]
  BY DEF Shape, NotifyWaiters, Places
<1>3. \A u \in Tasks : pc'[u] \in Critical <=> pc[u] \in Critical
  BY DEF Shape, NotifyWaiters, Critical
<1> QED
  BY <1>1, <1>2, <1>3 DEF Shape

LEMMA NextKeepsShape ==
  ASSUME Shape, [Next]_vars
  PROVE  Shape'
<1> USE TaskFacts DEF Critical, Places
<1>1. ASSUME NEW t \in Tasks, Begin(t) \/ Retry(t) \/ Try(t)
      PROVE  Shape'
  BY <1>1, TakingKeepsShape DEF Begin, Retry, Try
<1>2. CASE CloseBegin
  BY <1>2, TakingKeepsShape DEF CloseBegin
<1>3. ASSUME NEW s \in Senders, SendInsert(s) \/ SendFull(s) \/ SendClosed(s)
      PROVE  Shape'
  BY <1>3, ReleasingKeepsShape DEF SendInsert, SendFull, SendClosed, Shape
<1>4. ASSUME NEW w \in Watchers, WatchCheck(w)
      PROVE  Shape'
  BY <1>4, ReleasingKeepsShape DEF WatchCheck, Shape
<1>5. CASE RecvPop \/ RecvNothing \/ Close
  BY <1>5, ReleasingKeepsShape DEF RecvPop, RecvNothing, Close, Shape
<1>6. ASSUME NEW t \in Tasks, Register(t)
      PROVE  Shape'
  BY <1>6, WalkingKeepsShape DEF Register, Shape
<1>7. CASE RecvCancelled \/ Drop
  BY <1>7, WalkingKeepsShape DEF RecvCancelled, Drop, Shape
<1>8. ASSUME NEW s \in Senders, SendNotify(s)
      PROVE  Shape'
  BY <1>8, NotifyingKeepsShape DEF SendNotify, WaitersOfRecv
<1>9. CASE RecvNotify \/ DropNotify
  BY <1>9, NotifyingKeepsShape DEF RecvNotify, DropNotify, WaitersOfSend
<1>10. CASE UNCHANGED vars
  BY <1>10 DEF vars, Shape
<1> QED
  BY <1>1, <1>2, <1>3, <1>4, <1>5, <1>6, <1>7, <1>8, <1>9, <1>10
     DEF Next, SendStep, RecvStep

-----------------------------------------------------------------------------
(* The queue *)

LEMMA InsertIsAStepOfTheQueue ==
  ASSUME IInv, NEW s \in Senders, SendInsert(s)
  PROVE  /\ Q!Insert(MessageOf[s])
         /\ MessageOf[s].group = Control => Len(ctrl) < MaxControl
BY DEF IInv, ControlGoesThrough, SendInsert

(* Whatever a task does is a step of the queue, or leaves it alone. *)
LEMMA StepsOfTheQueue ==
  ASSUME IInv, [Next]_vars
  PROVE  [Q!Next]_queueVars
<1>1. ASSUME NEW s \in Senders, SendInsert(s)
      PROVE  Q!Next
  BY <1>1, InsertIsAStepOfTheQueue, TaskFacts DEF Q!Next
<1>2. ASSUME RecvPop
      PROVE  Q!Next
  BY <1>2 DEF RecvPop, Q!Next
<1>3. ASSUME [Next]_vars, ~ RecvPop, \A s \in Senders : ~ SendInsert(s)
      PROVE  UNCHANGED queueVars
  <2> USE DEF queueVars
  <2>1. ASSUME NEW t \in Tasks, Begin(t) \/ Retry(t) \/ Try(t) \/ Register(t)
        PROVE  UNCHANGED queueVars
    BY <2>1 DEF Begin, Retry, Try, Register
  <2>2. ASSUME NEW s \in Senders, SendFull(s) \/ SendClosed(s) \/ SendNotify(s)
        PROVE  UNCHANGED queueVars
    BY <2>2 DEF SendFull, SendClosed, SendNotify
  <2>3. ASSUME NEW w \in Watchers, WatchCheck(w)
        PROVE  UNCHANGED queueVars
    BY <2>3 DEF WatchCheck
  <2>4. ASSUME CloseBegin \/ RecvNothing \/ RecvNotify \/ Close \/ RecvCancelled
                 \/ Drop \/ DropNotify
        PROVE  UNCHANGED queueVars
    BY <2>4 DEF CloseBegin, RecvNothing, RecvNotify, Close, RecvCancelled, Drop, DropNotify
  <2>5. ASSUME UNCHANGED vars
        PROVE  UNCHANGED queueVars
    BY <2>5 DEF vars
  <2> QED
    BY <1>3, <2>1, <2>2, <2>3, <2>4, <2>5, TaskFacts DEF Next, SendStep, RecvStep
<1> QED
  BY <1>1, <1>2, <1>3

(* Nobody is in a critical section while the lock is free, so a control        *)
(* message is admitted by the room in the queue alone.                        *)
LEMMA AdmittedByRoom ==
  ASSUME Shape, lock = Free, NEW s \in Senders, MessageOf[s].group = Control, CanBegin(s),
         Len(ctrl) \in Nat
  PROVE  Len(ctrl) < MaxControl
<1> DEFINE others == {r \in Senders \ {s} :
                        MessageOf[r].group = Control /\ pc[r] \in {"locked", "trying"}}
<1>1. others = {}
  BY TaskFacts DEF Shape, Critical
<1>2. Cardinality(others) = 0
  BY <1>1, FS_EmptySet
<1>3. Len(ctrl) + Cardinality(others) < MaxControl
  BY DEF CanBegin
<1> QED
  BY <1>2, <1>3, QueueParameters

LEMMA NextKeepsControlGoing ==
  ASSUME IInv, [Next]_vars
  PROVE  ControlGoesThrough'
<1> SUFFICES ASSUME NEW s \in Senders, MessageOf[s].group = Control
             PROVE  /\ pc'[s] \notin {"gap", "waiting", "ready"}
                    /\ pc'[s] \in {"locked", "trying"} => Len(ctrl') < MaxControl
  BY DEF ControlGoesThrough
<1> DEFINE Goes(f, c) == /\ f[s] \notin {"gap", "waiting", "ready"}
                         /\ f[s] \in {"locked", "trying"} => Len(c) < MaxControl
<1>1. Goes(pc, ctrl)
  BY DEF IInv, ControlGoesThrough
<1>2. /\ Shape
      /\ s \in Tasks /\ pc \in [Tasks -> Places]
      /\ \A t \in Tasks : pc[t] \in {"locked", "trying"} => lock = t
  BY TaskFacts DEF IInv, Shape, Critical
<1>3. Len(ctrl) \in Nat
  BY DEF IInv, QP!IInv, QP!TypeOK
<1>4. \A m \in Q!Message : m.group = Control => Q!CanInsert(m)
  BY QueueParameters DEF Q!CanInsert
<1>5. ASSUME NEW t \in Tasks, Begin(t) \/ Try(t)
      PROVE  Goes(pc', ctrl')
  <2>1. CASE t = s
    <3>1. Len(ctrl) < MaxControl
      BY <1>2, <1>3, <1>5, <2>1, AdmittedByRoom DEF Begin, Try, Acquire
    <3> QED
      BY <1>2, <1>5, <2>1, <3>1 DEF Begin, Try, Goto, queueVars
  <2>2. CASE t # s
    BY <1>1, <1>2, <1>5, <2>2 DEF Begin, Try, Goto, queueVars
  <2> QED
    BY <2>1, <2>2
<1>6. ASSUME NEW t \in Tasks, Retry(t) \/ Register(t)
      PROVE  Goes(pc', ctrl')
  BY <1>1, <1>2, <1>6 DEF Retry, Register, Goto, queueVars
<1>7. ASSUME NEW r \in Senders, SendInsert(r)
      PROVE  Goes(pc', ctrl')
  <2>1. r = s => pc'[s] = "notify"
    BY <1>2, <1>7 DEF SendInsert, Goto
  <2>2. r # s => pc'[s] = pc[s] /\ pc[s] \notin {"locked", "trying"}
    BY <1>2, <1>7, TaskFacts DEF SendInsert, Goto
  <2> QED
    BY <1>1, <2>1, <2>2
<1>8. ASSUME NEW r \in Senders, SendFull(r) \/ SendClosed(r)
      PROVE  Goes(pc', ctrl')
  <2>1. r = s => ~ SendFull(r)
    BY <1>4, TaskFacts DEF SendFull
  <2> QED
    BY <1>1, <1>2, <1>8, <2>1, TaskFacts DEF SendFull, SendClosed, Goto, queueVars
<1>9. ASSUME NEW w \in Watchers, WatchCheck(w)
      PROVE  Goes(pc', ctrl')
  BY <1>1, <1>2, <1>9, TaskFacts DEF WatchCheck, Goto, queueVars
<1>10. ASSUME NEW S \in SUBSET Tasks, NEW t \in Tasks, NEW place \in {"idle", "gone"},
              NotifyWaiters(S, t, place), UNCHANGED queueVars
       PROVE  Goes(pc', ctrl')
  BY <1>1, <1>2, <1>10 DEF NotifyWaiters, queueVars
<1>11. ASSUME (\E r \in Senders : SendNotify(r)) \/ RecvNotify \/ DropNotify
       PROVE  Goes(pc', ctrl')
  BY <1>10, <1>11, TaskFacts
     DEF SendNotify, RecvNotify, DropNotify, WaitersOfSend, WaitersOfRecv
<1>12. ASSUME RecvPop
       PROVE  Goes(pc', ctrl')
  <2>1. pc'[s] = pc[s] /\ pc[s] \notin {"locked", "trying"}
    BY <1>2, <1>12, TaskFacts DEF RecvPop, Goto
  <2> QED
    BY <1>1, <2>1
<1>13. ASSUME CloseBegin \/ RecvNothing \/ Close \/ RecvCancelled \/ Drop
       PROVE  Goes(pc', ctrl')
  <2>1. pc'[s] = pc[s]
    BY <1>2, <1>13, TaskFacts DEF CloseBegin, RecvNothing, Close, RecvCancelled, Drop, Goto
  <2>2. ctrl' = ctrl
    BY <1>13 DEF CloseBegin, RecvNothing, Close, RecvCancelled, Drop, queueVars
  <2> QED
    BY <1>1, <2>1, <2>2
<1>14. ASSUME UNCHANGED vars
       PROVE  Goes(pc', ctrl')
  BY <1>1, <1>14 DEF vars
<1> HIDE DEF Goes
<1>15. Goes(pc', ctrl')
  BY <1>5, <1>6, <1>7, <1>8, <1>9, <1>11, <1>12, <1>13, <1>14, TaskFacts
     DEF Next, SendStep, RecvStep
<1> QED
  BY <1>15 DEF Goes

-----------------------------------------------------------------------------
(* The invariant *)

LEMMA InitHasInv == Init => IInv
<1> SUFFICES ASSUME Init
             PROVE  IInv
  OBVIOUS
<1>1. Shape
  BY TaskFacts DEF Init, Shape, Places, Critical
<1>2. QP!IInv
  BY QueueParameters
     DEF Init, Q!Init, QP!IInv, QP!TypeOK, QP!GroupsWellFormed, QP!PointerInRange
<1>3. ControlGoesThrough
  BY TaskFacts DEF Init, ControlGoesThrough
<1> QED
  BY <1>1, <1>2, <1>3 DEF IInv

LEMMA NextKeepsInv ==
  ASSUME IInv, [Next]_vars
  PROVE  IInv'
<1>1. Shape'
  BY NextKeepsShape DEF IInv
<1>2. QP!IInv'
  BY StepsOfTheQueue, QueueKeepsInv DEF IInv
<1>3. ControlGoesThrough'
  BY NextKeepsControlGoing
<1> QED
  BY <1>1, <1>2, <1>3 DEF IInv

LEMMA InvHolds == Spec => []IInv
BY InitHasInv, NextKeepsInv, PTL DEF Spec

(* The state has its shape, and the lock is held by exactly the task that is  *)
(* between taking it and releasing it.                                        *)
THEOREM TypeCorrect == Spec => []TypeOK
<1>1. IInv => TypeOK
  BY SameState DEF IInv, QP!IInv, Shape, TypeOK, Critical
<1> QED
  BY <1>1, InvHolds, PTL

(* Any interleaving of the tasks is a history of the sequential queue: the    *)
(* lock and the order of the checks under it are enough.                      *)
THEOREM ChannelImplementsQueue == Spec => ImplementsQueue
<1>1. Init => Q!Init
  BY DEF Init
<1>2. IInv /\ [Next]_vars => [Q!Next]_queueVars
  BY StepsOfTheQueue
<1>3. UNCHANGED queueVars <=> UNCHANGED Q!queueVars
  BY DEF queueVars, Q!queueVars
<1> QED
  BY <1>1, <1>2, <1>3, InvHolds, PTL DEF Spec, ImplementsQueue, Q!Spec

(* What is known of the queue is thus known of the channel. *)
LEMMA ChannelIsAQueue == Spec => QP!Spec
<1>1. Init => QP!Init
  BY SameState DEF Init
<1>2. IInv /\ [Next]_vars => [QP!Next]_(QP!queueVars)
  <2> SUFFICES ASSUME IInv, [Next]_vars
               PROVE  [QP!Next]_(QP!queueVars)
    OBVIOUS
  <2>1. [Q!Next]_queueVars
    BY StepsOfTheQueue
  <2>2. ASSUME NEW m \in Q!Message, Q!Insert(m), m.group = Control => Len(ctrl) < MaxControl
        PROVE  QP!Next
    BY <2>2, SameState, SameInsert DEF QP!Next
  <2>3. Q!Pop => QP!Next
    BY SamePop DEF QP!Next
  <2>4. UNCHANGED queueVars => UNCHANGED QP!queueVars
    BY DEF queueVars, QP!queueVars
  <2> QED
    BY <2>1, <2>2, <2>3, <2>4 DEF Q!Next
<1> QED
  BY <1>1, <1>2, InvHolds, PTL DEF Spec, QP!Spec

(* Between senders and the receiver the messages of a channel keep their      *)
(* order, none is lost or made, no channel has more than its group holds, and *)
(* control messages go first: the fair channel is the GroupedFifo that Tunnel *)
(* has in its place.                                                          *)
THEOREM ChannelKeepsOrder == Spec => QP!ImplementsFifo
BY ChannelIsAQueue, QP!RefinesGroupedFifo, QueueParameters, PTL

(* Round robin reaches the receiver: each message it takes brings every other *)
(* channel that has messages waiting one turn closer, whoever sends meanwhile. *)
THEOREM ChannelIsFair == Spec => QP!PopBringsOthersCloser
BY ChannelIsAQueue, QP!RoundRobin, QueueParameters, PTL

-----------------------------------------------------------------------------
(* Wakeups *)

(* WakeupsAreLostOnlyInTheGap, said already of a task in the gap: that is     *)
(* what makes it inductive.                                                   *)
Asleep == {"gap", "waiting"}

ReceiverIsCalled ==
  pc[Receiver] \in Asleep /\ ~ Q!QueueEmpty
    => AboutToNotifyReceiver \/ Receiver \in missed

SendersAreCalled ==
  \A s \in Senders :
    pc[s] \in Asleep /\ (closed \/ Q!CanInsert(MessageOf[s]))
      => AboutToNotifySenders \/ s \in missed

WatchersAreCalled ==
  \A w \in Watchers :
    pc[w] \in Asleep /\ closed => AboutToNotifySenders \/ w \in missed

Called == ReceiverIsCalled /\ SendersAreCalled /\ WatchersAreCalled

(* What a sleeper waits for is only a matter of the queue. *)
LEMMA QueueUnchanged ==
  ASSUME UNCHANGED queueVars
  PROVE  /\ Q!QueueEmpty' <=> Q!QueueEmpty
         /\ \A m \in Q!Message : Q!CanInsert(m)' <=> Q!CanInsert(m)
BY DEF queueVars, Q!QueueEmpty, Q!SomeMessage, Q!CanInsert, Q!HasGroup, Q!GroupIndex,
       Q!IsGroupOf

(* The steps of the senders and watchers that only concern themselves. *)
LEMMA OwnStepsKeepCalled ==
  ASSUME Shape, Called, NEW t \in Senders \cup Watchers,
         \/ Begin(t) \/ Retry(t) \/ Try(t) \/ Register(t)
         \/ t \in Senders /\ (SendFull(t) \/ SendClosed(t))
         \/ t \in Watchers /\ WatchCheck(t)
  PROVE  Called'
<1> USE DEF Asleep
<1>1. /\ t \in Tasks /\ t # Receiver /\ pc \in [Tasks -> Places]
      /\ Receiver \in Tasks /\ pc[t] # "notify"
      /\ Senders \subseteq Tasks /\ Watchers \subseteq Tasks
      /\ \A s \in Senders : MessageOf[s] \in Q!Message
  BY TaskFacts DEF Shape, Begin, Retry, Try, Register, SendFull, SendClosed, WatchCheck
<1>2. /\ closed' = closed /\ UNCHANGED queueVars
      /\ missed \ {t} \subseteq missed'
      /\ \A u \in Tasks \ {t} : pc'[u] = pc[u]
      /\ pc'[t] # "notify"
      /\ missed' = missed \/ pc'[t] = "locked"
  BY <1>1 DEF Begin, Retry, Try, Register, SendFull, SendClosed, WatchCheck, Goto
<1>3. /\ Q!QueueEmpty' <=> Q!QueueEmpty
      /\ \A s \in Senders : Q!CanInsert(MessageOf[s])' <=> Q!CanInsert(MessageOf[s])
  BY <1>1, <1>2, QueueUnchanged
<1>4. AboutToNotifyReceiver' <=> AboutToNotifyReceiver
  BY <1>1, <1>2 DEF AboutToNotifyReceiver
<1>5. AboutToNotifySenders' <=> AboutToNotifySenders
  BY <1>1, <1>2 DEF AboutToNotifySenders
<1> HIDE DEF AboutToNotifyReceiver, AboutToNotifySenders
<1>6. ReceiverIsCalled'
  BY <1>1, <1>2, <1>3, <1>4 DEF Called, ReceiverIsCalled
<1>7. SendersAreCalled'
  <2> SUFFICES ASSUME NEW s \in Senders,
                      pc'[s] \in Asleep, closed' \/ Q!CanInsert(MessageOf[s])'
               PROVE  AboutToNotifySenders' \/ s \in missed'
    BY DEF SendersAreCalled
  <2>1. CASE s # t
    BY <1>1, <1>2, <1>3, <1>5, <2>1 DEF Called, SendersAreCalled
  <2>2. CASE s = t
    <3>1. Register(t) \/ SendFull(t)
      BY <1>1, <2>2, TaskFacts DEF Begin, Retry, Try, SendClosed, WatchCheck, Goto
    <3>2. CASE Register(t)
      BY <1>1, <1>2, <1>3, <1>5, <2>2, <3>2 DEF Called, SendersAreCalled, Register
    <3>3. CASE SendFull(t)
      BY <1>2, <1>3, <2>2, <3>3 DEF SendFull
    <3> QED
      BY <3>1, <3>2, <3>3
  <2> QED
    BY <2>1, <2>2
<1>8. WatchersAreCalled'
  <2> SUFFICES ASSUME NEW w \in Watchers, pc'[w] \in Asleep, closed'
               PROVE  AboutToNotifySenders' \/ w \in missed'
    BY DEF WatchersAreCalled
  <2>1. CASE w # t
    BY <1>1, <1>2, <1>5, <2>1 DEF Called, WatchersAreCalled
  <2>2. CASE w = t
    <3>1. Register(t)
      BY <1>1, <1>2, <2>2, TaskFacts
         DEF Begin, Retry, Try, SendFull, SendClosed, WatchCheck, Goto
    <3> QED
      BY <1>1, <1>2, <1>5, <2>2, <3>1 DEF Called, WatchersAreCalled, Register
  <2> QED
    BY <2>1, <2>2
<1> QED
  BY <1>6, <1>7, <1>8 DEF Called

(* An insertion is followed by its notification, and makes room for nobody. *)
LEMMA InsertKeepsCalled ==
  ASSUME IInv, Called, NEW t \in Senders, SendInsert(t)
  PROVE  Called'
<1> USE DEF Asleep
<1>1. /\ t \in Tasks /\ t # Receiver /\ pc \in [Tasks -> Places]
      /\ Receiver \in Tasks /\ Senders \subseteq Tasks /\ Watchers \subseteq Tasks
      /\ \A s \in Senders : MessageOf[s] \in Q!Message
  BY TaskFacts DEF IInv, Shape
<1>2. /\ closed' = closed /\ missed' = missed
      /\ pc' = [pc EXCEPT ![t] = "notify"]
      /\ Q!Insert(MessageOf[t])
  BY DEF SendInsert, Goto
<1>3. AboutToNotifySenders' <=> AboutToNotifySenders
  BY <1>1, <1>2 DEF AboutToNotifySenders
<1>4. ReceiverIsCalled'
  BY <1>1, <1>2 DEF ReceiverIsCalled, AboutToNotifyReceiver
<1>5. [Q!Next]_queueVars
  BY <1>1, <1>2, InsertIsAStepOfTheQueue DEF Q!Next
<1>6. QP!IInv /\ QP!IInv'
  BY <1>5, QueueKeepsInv DEF IInv
<1>7. ASSUME NEW s \in Senders, ~ Q!CanInsert(MessageOf[s])
      PROVE  ~ Q!CanInsert(MessageOf[s])'
  <2>1. /\ MessageOf[s] \in QP!Message /\ MessageOf[t] \in QP!Message
        /\ ~ QP!CanInsert(MessageOf[s])
        /\ QP!Insert(MessageOf[t])
    BY <1>1, <1>2, <1>7, SameState, SameInsert
  <2>2. ~ QP!CanInsert(MessageOf[s])'
    BY <1>6, <2>1, QP!InsertMakesNoRoom, QueueParameters
  <2> QED
    BY <2>2 DEF Q!CanInsert, QP!CanInsert, Q!HasGroup, QP!HasGroup,
                Q!GroupIndex, QP!GroupIndex, Q!IsGroupOf, QP!IsGroupOf
<1> HIDE DEF AboutToNotifySenders
<1>8. SendersAreCalled'
  <2> SUFFICES ASSUME NEW s \in Senders,
                      pc'[s] \in Asleep, closed' \/ Q!CanInsert(MessageOf[s])'
               PROVE  AboutToNotifySenders' \/ s \in missed'
    BY DEF SendersAreCalled
  <2>1. pc[s] \in Asleep /\ (closed \/ Q!CanInsert(MessageOf[s]))
    BY <1>1, <1>2, <1>7
  <2> QED
    BY <1>2, <1>3, <2>1 DEF Called, SendersAreCalled
<1>9. WatchersAreCalled'
  BY <1>1, <1>2, <1>3 DEF Called, WatchersAreCalled
<1> QED
  BY <1>4, <1>8, <1>9 DEF Called

(* A sender's notification reaches a receiver that waits, and marks one that  *)
(* is in the gap.                                                             *)
LEMMA SendNotifyKeepsCalled ==
  ASSUME Shape, Called, NEW t \in Senders, SendNotify(t)
  PROVE  Called'
<1> USE DEF Asleep
<1>1. /\ t \in Tasks /\ t # Receiver /\ pc \in [Tasks -> Places]
      /\ Receiver \in Tasks /\ Senders \subseteq Tasks /\ Watchers \subseteq Tasks
      /\ Receiver \notin Senders /\ Receiver \notin Watchers
      /\ \A s \in Senders : MessageOf[s] \in Q!Message
  BY TaskFacts DEF Shape
<1>2. /\ closed' = closed /\ UNCHANGED queueVars
      /\ missed \subseteq missed'
      /\ pc[Receiver] = "gap" => Receiver \in missed'
      /\ pc'[Receiver] = IF pc[Receiver] = "waiting" THEN "ready" ELSE pc[Receiver]
      /\ \A u \in Tasks \ {t, Receiver} : pc'[u] = pc[u]
      /\ pc'[t] = "idle"
  BY <1>1 DEF SendNotify, NotifyWaiters, WaitersOfRecv
<1>3. \A s \in Senders : Q!CanInsert(MessageOf[s])' <=> Q!CanInsert(MessageOf[s])
  BY <1>1, <1>2, QueueUnchanged
<1>4. AboutToNotifySenders' <=> AboutToNotifySenders
  BY <1>1, <1>2 DEF AboutToNotifySenders
<1> HIDE DEF AboutToNotifySenders
<1>5. ReceiverIsCalled'
  BY <1>2 DEF ReceiverIsCalled
<1>6. SendersAreCalled'
  BY <1>1, <1>2, <1>3, <1>4 DEF Called, SendersAreCalled
<1>7. WatchersAreCalled'
  BY <1>1, <1>2, <1>4 DEF Called, WatchersAreCalled
<1> QED
  BY <1>5, <1>6, <1>7 DEF Called

(* So does the receiver's, for every sender and watcher. *)
LEMMA ReceiverNotifyKeepsCalled ==
  ASSUME Shape, Called, RecvNotify \/ DropNotify
  PROVE  Called'
<1> USE DEF Asleep
<1>1. /\ pc \in [Tasks -> Places]
      /\ Receiver \in Tasks /\ Senders \subseteq Tasks /\ Watchers \subseteq Tasks
      /\ Receiver \notin Senders /\ Receiver \notin Watchers
  BY TaskFacts DEF Shape
<1>2. pc'[Receiver] \in {"idle", "gone"}
  BY <1>1 DEF RecvNotify, DropNotify, NotifyWaiters
<1>3. ASSUME NEW u \in Senders \cup Watchers
      PROVE  pc'[u] \in Asleep => u \in missed'
  <2>1. u \in Tasks /\ u # Receiver /\ u \in WaitersOfSend
    BY <1>1 DEF WaitersOfSend
  <2>2. pc'[u] \in Asleep => pc[u] = "gap"
    BY <2>1 DEF RecvNotify, DropNotify, NotifyWaiters
  <2> QED
    BY <2>1, <2>2 DEF RecvNotify, DropNotify, NotifyWaiters
<1> QED
  BY <1>2, <1>3 DEF Called, ReceiverIsCalled, SendersAreCalled, WatchersAreCalled

(* The receiver's other steps: what may let a sleeper go on, a pop or the     *)
(* close, is followed by a notification.                                      *)
LEMMA ReceiverKeepsCalled ==
  ASSUME Shape, Called,
         \/ Begin(Receiver) \/ Retry(Receiver) \/ Try(Receiver) \/ Register(Receiver)
         \/ CloseBegin \/ RecvPop \/ RecvNothing \/ Close \/ RecvCancelled \/ Drop
  PROVE  Called'
<1> USE DEF Asleep
<1>1. /\ pc \in [Tasks -> Places]
      /\ Receiver \in Tasks /\ Senders \subseteq Tasks /\ Watchers \subseteq Tasks
      /\ Receiver \notin Senders /\ Receiver \notin Watchers
      /\ \A s \in Senders : MessageOf[s] \in Q!Message
  BY TaskFacts DEF Shape
<1>2. /\ \A u \in Senders \cup Watchers : pc'[u] = pc[u]
      /\ \A u \in Senders \cup Watchers : u \in missed <=> u \in missed'
  BY <1>1 DEF Begin, Retry, Try, Register, CloseBegin, RecvPop, RecvNothing, Close,
              RecvCancelled, Drop, Goto
<1>3. AboutToNotifyReceiver' <=> AboutToNotifyReceiver
  BY <1>2 DEF AboutToNotifyReceiver
<1>4. ~ AboutToNotifySenders
  BY DEF AboutToNotifySenders, Begin, Retry, Try, Register, CloseBegin, RecvPop,
         RecvNothing, Close, RecvCancelled, Drop
<1>5. \/ pc'[Receiver] \in {"notify", "dropping"}
      \/ closed' = closed /\ UNCHANGED queueVars
  BY <1>1 DEF Begin, Retry, Try, Register, CloseBegin, RecvPop, RecvNothing, Close,
              RecvCancelled, Drop, Goto
<1>6. pc'[Receiver] \in Asleep =>
        Q!QueueEmpty' \/ (Register(Receiver) /\ pc[Receiver] = "gap")
  <2>1. CASE RecvNothing
    BY <2>1, QueueUnchanged DEF RecvNothing
  <2>2. CASE ~ RecvNothing
    BY <1>1, <2>2 DEF Begin, Retry, Try, Register, CloseBegin, RecvPop, Close,
                      RecvCancelled, Drop, Goto
  <2> QED
    BY <2>1, <2>2
<1>7. ReceiverIsCalled'
  <2> SUFFICES ASSUME pc'[Receiver] \in Asleep, ~ Q!QueueEmpty'
               PROVE  AboutToNotifyReceiver' \/ Receiver \in missed'
    BY DEF ReceiverIsCalled
  <2>1. Register(Receiver) /\ pc[Receiver] = "gap"
    BY <1>6
  <2>2. ~ Q!QueueEmpty /\ missed' = missed
    BY <2>1, QueueUnchanged DEF Register
  <2> QED
    BY <1>3, <2>1, <2>2 DEF Called, ReceiverIsCalled
<1> HIDE DEF AboutToNotifyReceiver
<1>8. CASE pc'[Receiver] \in {"notify", "dropping"}
  BY <1>7, <1>8 DEF Called, SendersAreCalled, WatchersAreCalled, AboutToNotifySenders
<1>9. CASE closed' = closed /\ UNCHANGED queueVars
  <2>1. \A s \in Senders : Q!CanInsert(MessageOf[s])' <=> Q!CanInsert(MessageOf[s])
    BY <1>1, <1>9, QueueUnchanged
  <2>2. SendersAreCalled'
    BY <1>2, <1>4, <1>9, <2>1 DEF Called, SendersAreCalled
  <2>3. WatchersAreCalled'
    BY <1>2, <1>4, <1>9 DEF Called, WatchersAreCalled
  <2> QED
    BY <1>7, <2>2, <2>3 DEF Called
<1> QED
  BY <1>5, <1>8, <1>9

LEMMA NextKeepsCalled ==
  ASSUME IInv, Called, [Next]_vars
  PROVE  Called'
<1>1. Shape
  BY DEF IInv
<1>2. ASSUME NEW t \in Senders \cup Watchers, Begin(t) \/ Retry(t) \/ Try(t) \/ Register(t)
      PROVE  Called'
  BY <1>1, <1>2, OwnStepsKeepCalled
<1>3. ASSUME NEW s \in Senders, SendFull(s) \/ SendClosed(s)
      PROVE  Called'
  BY <1>1, <1>3, OwnStepsKeepCalled
<1>4. ASSUME NEW w \in Watchers, WatchCheck(w)
      PROVE  Called'
  BY <1>1, <1>4, OwnStepsKeepCalled
<1>5. ASSUME NEW s \in Senders, SendInsert(s)
      PROVE  Called'
  BY <1>5, InsertKeepsCalled
<1>6. ASSUME NEW s \in Senders, SendNotify(s)
      PROVE  Called'
  BY <1>1, <1>6, SendNotifyKeepsCalled
<1>7. ASSUME RecvNotify \/ DropNotify
      PROVE  Called'
  BY <1>1, <1>7, ReceiverNotifyKeepsCalled
<1>8. ASSUME \/ Begin(Receiver) \/ Retry(Receiver) \/ Try(Receiver) \/ Register(Receiver)
             \/ CloseBegin \/ RecvPop \/ RecvNothing \/ Close \/ RecvCancelled \/ Drop
      PROVE  Called'
  BY <1>1, <1>8, ReceiverKeepsCalled
<1>9. ASSUME UNCHANGED vars
      PROVE  Called'
  <2>1. UNCHANGED queueVars /\ UNCHANGED <<closed, pc, missed>>
    BY <1>9 DEF vars, queueVars
  <2>2. \A s \in Senders : Q!CanInsert(MessageOf[s])' <=> Q!CanInsert(MessageOf[s])
    BY <2>1, TaskFacts, QueueUnchanged
  <2> QED
    BY <2>1, <2>2, QueueUnchanged
       DEF Called, ReceiverIsCalled, SendersAreCalled, WatchersAreCalled,
           AboutToNotifyReceiver, AboutToNotifySenders
<1> QED
  BY <1>2, <1>3, <1>4, <1>5, <1>6, <1>7, <1>8, <1>9 DEF Next, SendStep, RecvStep, Tasks

(* Under every interleaving of senders, watchers and receiver, the only       *)
(* wakeup that gets lost is the one fired between the check under the lock    *)
(* and the call of notified(): everybody else who could go on is about to be  *)
(* notified.                                                                  *)
THEOREM OnlyTheGapLosesWakeups == Spec => []WakeupsAreLostOnlyInTheGap
<1>1. Init => Called
  BY TaskFacts
     DEF Init, Called, ReceiverIsCalled, SendersAreCalled, WatchersAreCalled, Asleep
<1>2. IInv /\ Called /\ [Next]_vars => Called'
  BY NextKeepsCalled
<1>3. Called => WakeupsAreLostOnlyInTheGap
  BY DEF Called, ReceiverIsCalled, SendersAreCalled, WatchersAreCalled, Asleep,
         WakeupsAreLostOnlyInTheGap
<1> QED
  BY <1>1, <1>2, <1>3, InvHolds, PTL DEF Spec
=============================================================================
