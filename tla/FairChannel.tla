---------------------------- MODULE FairChannel ----------------------------
(***************************************************************************)
(* The asynchronous channel that common/src/fair_channel.rs builds around  *)
(* its fair queue: any number of FairSender clones, one FairReceiver, a    *)
(* lock around queue and `closed`, and two tokio Notify objects.           *)
(*                                                                         *)
(* A critical section is two steps, taking the lock and doing the work     *)
(* while releasing it, because Drop of the receiver only tries the lock.   *)
(* Notify::notify_waiters wakes the tasks that hold a Notified future and  *)
(* leaves no permit for later ones, and the code creates that future after *)
(* it has released the lock: between the two a task is in a gap in which a *)
(* notification does not reach it.                                         *)
(***************************************************************************)
EXTENDS Integers, Sequences, FiniteSets

CONSTANTS
  Groups, Control, Data, MaxGroupSize, MaxControl,  (* those of FairQueue    *)
  Senders,        (* tasks that send, each on a FairSender clone             *)
  Watchers,       (* tasks that await FairSender::closed                     *)
  Receiver,       (* the task that owns the FairReceiver                     *)
  Free            (* the lock is held by nobody                              *)

CONSTANT MessageOf  (* Senders -> the message a sender sends, again and again *)

ASSUME QueueParameters ==
  Control \notin Groups /\ MaxGroupSize \in Nat \ {0} /\ MaxControl \in Nat

ASSUME SendersHaveMessages ==
  MessageOf \in [Senders -> [group : Groups \cup {Control}, data : Data]]

ASSUME TasksAreDistinct ==
  /\ Senders \cap Watchers = {}
  /\ Receiver \notin Senders \cup Watchers
  /\ Free \notin Senders \cup Watchers \cup {Receiver}

Tasks == Senders \cup Watchers \cup {Receiver}

VARIABLES
  ctrl, groups, pointer,  (* ChannelState::queue                             *)
  closed,                 (* ChannelState::closed                            *)
  lock,                   (* the task that holds the RwLock, or Free         *)
  pc,                     (* where each task is in its operation             *)
  missed                  (* history: the tasks in the gap while a Notify    *)
                          (* they are about to wait for was fired            *)

queueVars == <<ctrl, groups, pointer>>
vars == <<ctrl, groups, pointer, closed, lock, pc, missed>>

Q == INSTANCE FairQueue

(***************************************************************************)
(* Places in an operation.                                                 *)
(*   idle      between operations        ready    woken, must look again   *)
(*   locked    in its critical section   trying   the same, of try_send or *)
(*   gap       unlocked, not registered           try_recv                 *)
(*   waiting   its Notified is pending   notify   unlocked, must notify    *)
(*   closing   in close                  done     returned for good        *)
(*   dropping  must notify, then gone    gone     the receiver is dropped  *)
(***************************************************************************)
Places == {"idle", "ready", "locked", "trying", "gap", "waiting", "notify",
           "closing", "dropping", "gone", "done"}

Goto(t, place) == pc' = [pc EXCEPT ![t] = place]

Acquire(t) == lock = Free /\ lock' = t
Release == lock' = Free

(* Notify::notify_waiters: only registered tasks wake up. *)
NotifyWaiters(S, t, place) ==
  /\ pc' = [u \in Tasks |->
              IF u = t THEN place
              ELSE IF u \in S /\ pc[u] = "waiting" THEN "ready" ELSE pc[u]]
  /\ missed' = missed \cup {u \in S : pc[u] = "gap"}

WaitersOfSend == Senders \cup Watchers   (* notify_send *)
WaitersOfRecv == {Receiver}              (* notify_recv *)

-----------------------------------------------------------------------------
(* FairSender *)

(* A task takes the lock at the top of the loop of send, recv or closed: to   *)
(* begin the operation, or again after a notification.  The model bounds the  *)
(* control messages in the queue, which the code does not.                    *)
CanBegin(t) ==
  t \in Senders /\ MessageOf[t].group = Control
    => Len(ctrl) + Cardinality({s \in Senders \ {t} :
         MessageOf[s].group = Control /\ pc[s] \in {"locked", "trying"}}) < MaxControl

Begin(t) ==
  /\ pc[t] = "idle"
  /\ CanBegin(t)
  /\ Acquire(t)
  /\ Goto(t, "locked")
  /\ UNCHANGED <<queueVars, closed, missed>>

Retry(t) ==
  /\ pc[t] = "ready"
  /\ Acquire(t)
  /\ Goto(t, "locked")
  /\ missed' = missed \ {t}
  /\ UNCHANGED <<queueVars, closed>>

(* try_send and try_recv take the lock once. *)
Try(t) ==
  /\ pc[t] = "idle"
  /\ CanBegin(t)
  /\ Acquire(t)
  /\ Goto(t, "trying")
  /\ UNCHANGED <<queueVars, closed, missed>>

(* The value goes into the queue; the receivers are notified after the lock   *)
(* is released.                                                               *)
SendInsertSilently(s) ==                                           \* faulty variant
  /\ pc[s] \in {"locked", "trying"}
  /\ ~ closed
  /\ Q!Insert(MessageOf[s])
  /\ Release
  /\ Goto(s, IF pc[s] = "trying" THEN "idle" ELSE "notify")
  /\ UNCHANGED <<closed, missed>>
SendInsertAnyway(s) ==                                             \* faulty variant
  /\ pc[s] \in {"locked", "trying"}
  /\ ~ closed
  /\ Q!InsertControl(MessageOf[s]) \/ Q!InsertIntoGroup(MessageOf[s]) \/ Q!InsertNewGroup(MessageOf[s])
  /\ Release
  /\ Goto(s, "notify")
  /\ UNCHANGED <<closed, missed>>
SendInsert(s) ==
  /\ pc[s] \in {"locked", "trying"}
  /\ ~ closed
  /\ Q!Insert(MessageOf[s])
  /\ Release
  /\ Goto(s, "notify")
  /\ UNCHANGED <<closed, missed>>

(* The group is full: send is going to wait, try_send returns Full. *)
SendFullHoldingLock(s) ==                                          \* faulty variant
  /\ pc[s] \in {"locked", "trying"}
  /\ ~ closed
  /\ ~ Q!CanInsert(MessageOf[s])
  /\ Goto(s, IF pc[s] = "locked" THEN "gap" ELSE "idle")
  /\ UNCHANGED <<queueVars, closed, missed, lock>>
SendFull(s) ==
  /\ pc[s] \in {"locked", "trying"}
  /\ ~ closed
  /\ ~ Q!CanInsert(MessageOf[s])
  /\ Release
  /\ Goto(s, IF pc[s] = "locked" THEN "gap" ELSE "idle")
  /\ UNCHANGED <<queueVars, closed, missed>>

SendClosed(s) ==
  /\ pc[s] \in {"locked", "trying"}
  /\ closed
  /\ Release
  /\ Goto(s, "done")
  /\ UNCHANGED <<queueVars, closed, missed>>

SendNotify(s) ==
  /\ pc[s] = "notify"
  /\ NotifyWaiters(WaitersOfRecv, s, "idle")
  /\ UNCHANGED <<queueVars, closed, lock>>

(* `notified()` creates the future: from here on a notification wakes the task. *)
Register(t) ==
  /\ pc[t] = "gap"
  /\ Goto(t, "waiting")
  /\ UNCHANGED <<queueVars, closed, lock, missed>>

(* FairSender::closed *)
WatchCheck(w) ==
  /\ pc[w] = "locked"
  /\ Release
  /\ Goto(w, IF closed THEN "done" ELSE "gap")
  /\ UNCHANGED <<queueVars, closed, missed>>

-----------------------------------------------------------------------------
(* FairReceiver *)

CloseBegin ==
  /\ pc[Receiver] = "idle"
  /\ Acquire(Receiver)
  /\ Goto(Receiver, "closing")
  /\ UNCHANGED <<queueVars, closed, missed>>

RecvPop ==
  /\ pc[Receiver] \in {"locked", "trying"}
  /\ Q!Pop
  /\ Release
  /\ Goto(Receiver, "notify")
  /\ UNCHANGED <<closed, missed>>

(* Nothing to pop: recv is over if the channel is closed, else it is going to *)
(* wait; try_recv returns Disconnected or Empty.                              *)
RecvNothingIfClosed ==                                             \* faulty variant
  /\ pc[Receiver] \in {"locked", "trying"}
  /\ Q!QueueEmpty \/ closed
  /\ Release
  /\ Goto(Receiver, IF closed THEN "done"
                    ELSE IF pc[Receiver] = "locked" THEN "gap" ELSE "idle")
  /\ UNCHANGED <<queueVars, closed, missed>>
RecvNothing ==
  /\ pc[Receiver] \in {"locked", "trying"}
  /\ Q!QueueEmpty
  /\ Release
  /\ Goto(Receiver, IF closed THEN "done"
                    ELSE IF pc[Receiver] = "locked" THEN "gap" ELSE "idle")
  /\ UNCHANGED <<queueVars, closed, missed>>

RecvNotify ==
  /\ pc[Receiver] = "notify"
  /\ NotifyWaiters(WaitersOfSend, Receiver, "idle")
  /\ UNCHANGED <<queueVars, closed, lock>>

Close ==
  /\ pc[Receiver] = "closing"
  /\ closed' = TRUE
  /\ Release
  /\ Goto(Receiver, "notify")
  /\ UNCHANGED <<queueVars, missed>>

(* The select! of the control loop takes another branch: the pending recv is  *)
(* dropped and the next turn of the loop calls recv again.                    *)
RecvCancelled ==
  /\ pc[Receiver] = "waiting"
  /\ Goto(Receiver, "idle")
  /\ UNCHANGED <<queueVars, closed, lock, missed>>

(* Drop closes the channel only if it gets the lock at once. *)
Drop ==
  /\ pc[Receiver] \in {"idle", "waiting", "done"}
  /\ IF lock = Free
     THEN closed' = TRUE /\ Goto(Receiver, "dropping")
     ELSE closed' = closed /\ Goto(Receiver, "gone")
  /\ UNCHANGED <<queueVars, lock, missed>>

DropNotify ==
  /\ pc[Receiver] = "dropping"
  /\ NotifyWaiters(WaitersOfSend, Receiver, "gone")
  /\ UNCHANGED <<queueVars, closed, lock>>

-----------------------------------------------------------------------------

Init ==
  /\ Q!Init
  /\ closed = FALSE
  /\ lock = Free
  /\ pc = [t \in Tasks |-> "idle"]
  /\ missed = {}

SendStep(s) ==
  \/ SendInsert(s) \/ SendFull(s) \/ SendClosed(s) \/ SendNotify(s) \/ Register(s)

RecvStep ==
  \/ RecvPop \/ RecvNothing \/ RecvNotify \/ Close \/ DropNotify \/ Register(Receiver)

Next ==
  \/ \E t \in Tasks : Begin(t) \/ Retry(t)
  \/ \E s \in Senders : Try(s) \/ SendStep(s)
  \/ \E w \in Watchers : WatchCheck(w) \/ Register(w)
  \/ Try(Receiver) \/ CloseBegin \/ RecvStep \/ RecvCancelled \/ Drop

Spec == Init /\ [][Next]_vars

(* Started operations go on: the runtime keeps polling runnable tasks and the *)
(* lock, parking_lot's, is handed over eventually.  Nothing obliges a task to *)
(* start an operation or the receiver to be dropped.                          *)
TaskFairness ==
  /\ \A t \in Tasks : SF_vars(Retry(t))
  /\ \A s \in Senders : WF_vars(SendStep(s))
  /\ \A w \in Watchers : WF_vars(WatchCheck(w) \/ Register(w))
  /\ WF_vars(RecvStep)

(* The control loop: heartbeats of the server keep interrupting a pending     *)
(* recv, and the loop always comes back to recv.                              *)
ControlLoopSpec ==
  Spec /\ TaskFairness /\ SF_vars(Begin(Receiver)) /\ WF_vars(RecvCancelled)

-----------------------------------------------------------------------------
(* Properties *)

(* The state has its shape, and the lock is held by exactly the task that is  *)
(* in a critical section.                                                     *)
TypeOK ==
  /\ Q!TypeOK
  /\ closed \in BOOLEAN
  /\ pc \in [Tasks -> Places]
  /\ missed \subseteq Tasks
  /\ lock \in Tasks \cup {Free}
  /\ \A t \in Tasks : pc[t] \in {"locked", "trying", "closing"} <=> lock = t

AboutToNotifyReceiver == \E s \in Senders : pc[s] = "notify"
AboutToNotifySenders == pc[Receiver] \in {"notify", "dropping"}

(* A task sleeps although what it waits for is there only while the           *)
(* notification is still to be fired, or because it was fired while the task  *)
(* was in the gap between its check and notified(): no other interleaving of  *)
(* send, try_send, recv, try_recv, close and drop loses a wakeup.             *)
WakeupsAreLostOnlyInTheGap ==
  /\ pc[Receiver] = "waiting" /\ ~ Q!QueueEmpty
       => AboutToNotifyReceiver \/ Receiver \in missed
  /\ \A s \in Senders :
       pc[s] = "waiting" /\ (closed \/ Q!CanInsert(MessageOf[s]))
         => AboutToNotifySenders \/ s \in missed
  /\ \A w \in Watchers :
       pc[w] = "waiting" /\ closed => AboutToNotifySenders \/ w \in missed

(* Whatever the tasks do to the queue is a legal history of FairQueue.        *)
ImplementsQueue == Q!Spec

(* A receiver that is interrupted and polls again delivers until it is        *)
(* dropped, lost wakeups or not: while messages wait, some message is popped  *)
(* again and again; and once no channel opens a group and no control message  *)
(* is sent any more, every channel that waits is served again and again,      *)
(* however fast the others refill their groups.  Without that condition a     *)
(* channel may starve, as FairQueue's EveryChannelIsServed shows.             *)
PollingDelivers ==
  \/ <>(pc[Receiver] \in {"dropping", "gone"})
  \/ /\ <>[](~ Q!QueueEmpty) => []<><<Q!Pop>>_vars
     /\ Q!ServedWhileGroupsStay
=============================================================================
