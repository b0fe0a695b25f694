---------------------------- MODULE GroupedFifo ----------------------------
(***************************************************************************)
(* What a fair queue promises its callers, without saying how it keeps its *)
(* groups: every class of messages (the control class, and one class per   *)
(* data channel) is a first-in first-out queue of its own, a data class    *)
(* holds at most MaxGroupSize messages, and no data message leaves while a *)
(* control message waits.  Which data class is served next is left open.   *)
(***************************************************************************)
EXTENDS Naturals, Sequences

CONSTANTS
  Groups,         (* data channel ids, the `Some(u32)` of FairGroup::group_id *)
  Control,        (* the control class, the `None` of FairGroup::group_id     *)
  Data,           (* message bodies                                           *)
  MaxGroupSize    (* the argument of FairQueue::new                           *)

Classes == Groups \cup {Control}

Message == [group : Classes, data : Data]

VARIABLE pending    (* class -> the messages of the class, oldest first *)

TypeOK == pending \in [Classes -> Seq(Message)]

Init == pending = [c \in Classes |-> <<>>]

Accept(m) ==
  /\ m.group \in Groups => Len(pending[m.group]) < MaxGroupSize
  /\ pending' = [pending EXCEPT ![m.group] = Append(@, m)]

Deliver(c) ==
  /\ pending[c] # <<>>
  /\ c \in Groups => pending[Control] = <<>>
  /\ pending' = [pending EXCEPT ![c] = Tail(@)]

Next ==
  \/ \E m \in Message : Accept(m)
  \/ \E c \in Classes : Deliver(c)

Spec == Init /\ [][Next]_pending
=============================================================================
