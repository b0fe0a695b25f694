------------------------ MODULE UdpForwarders_proofs ------------------------
(***************************************************************************)
(* Proofs about one UDP data channel, for any visitors and forwarders, any *)
(* window and queue size and any traffic: the type of the state, that no   *)
(* unit of the shared capacity is lost or taken twice, and that a running  *)
(* forwarder is the one its visitor has in the map.                        *)
(***************************************************************************)
EXTENDS UdpForwarders, FiniteSetTheorems, TLAPS

Replying == {f \in Forwarders : fwd[f].at = "replying"}

(* What a forwarder has loaded is not zero, so that its exchange, when it    *)
(* succeeds, does not take the capacity below zero.                          *)
SeenIsPositive == \A f \in Forwarders : fwd[f].at = "cas" => fwd[f].seen > 0

(* As many units are out as datagrams, of finitely many forwarders.          *)
UnitsAreOut ==
  /\ IsFiniteSet(Replying)
  /\ ~ ended => capacity + owed + Cardinality(Replying) = Window

(* The handler makes a forwarder only for a visitor that has none.           *)
ConnectsTheUnknown == handler.at = "connecting" => portMap[handler.visitor] = None

-----------------------------------------------------------------------------
Task == [at : ForwarderPlaces, visitor : Visitors, queue : 0..QueueSize, seen : Nat]

LEMMA Sizes == /\ Window \in Nat /\ Window > 0 /\ QueueSize \in Nat /\ QueueSize > 0
               /\ Packets \in Nat /\ Replies \in Nat
BY SizesArePositive

(* What a step of a forwarder does to it. *)
Becomes(f, next) ==
  /\ fwd' = [fwd EXCEPT ![f] = next]
  /\ next \in Task /\ next.visitor = fwd[f].visitor
  /\ fwd[f].at \notin {"new", "gone"} /\ next.at # "new"
  /\ next.at = "cas" => next.seen = capacity /\ capacity # 0

LEMMA Moves ==
  ASSUME TypeOK, NEW f \in Forwarders, NEW place \in ForwarderPlaces \ {"new", "cas"},
         fwd[f].at \notin {"new", "gone"}, Goto(f, place)
  PROVE  Becomes(f, [fwd[f] EXCEPT !.at = place])
<1>1. fwd[f] \in Task
  BY DEF TypeOK, Task
<1>2. [fwd[f] EXCEPT !.at = place] \in Task
  BY <1>1 DEF Task
<1>3. fwd' = [fwd EXCEPT ![f] = [fwd[f] EXCEPT !.at = place]]
  BY DEF Goto
<1> QED
  BY <1>1, <1>2, <1>3 DEF Becomes, Task

LEMMA OneTask ==
  ASSUME TypeOK, NEW f \in Forwarders, ForwarderStep(f)
  PROVE  \E next \in Task : Becomes(f, next)
<1>0. fwd[f] \in Task /\ capacity \in Nat
  BY DEF TypeOK, Task
<1>1. ASSUME NEW place \in ForwarderPlaces \ {"new", "cas"},
             fwd[f].at \notin {"new", "gone"}, Goto(f, place)
      PROVE  \E next \in Task : Becomes(f, next)
  BY <1>1, Moves DEF Becomes
<1>7. ASSUME Fail(f), fwd[f].at \notin {"new", "gone"}
      PROVE  \E next \in Task : Becomes(f, next)
  <2> DEFINE next == [fwd[f] EXCEPT !.at = "gone", !.queue = 0]
  <2>1. 0 \in 0 .. QueueSize /\ "gone" \in ForwarderPlaces
    BY Sizes DEF ForwarderPlaces
  <2>2. next \in Task /\ next.at = "gone" /\ next.visitor = fwd[f].visitor
    BY <1>0, <2>1 DEF Task
  <2>3. fwd' = [fwd EXCEPT ![f] = next]
    BY <1>7 DEF Fail
  <2> QED
    BY <1>7, <2>2, <2>3 DEF Becomes
<1>2. CASE TakeQueued(f) /\ ~ Fail(f)
  <2>1. fwd' = [fwd EXCEPT ![f].at = "acking", ![f].queue = @ - 1]
    BY <1>2 DEF TakeQueued
  <2> DEFINE next == [fwd[f] EXCEPT !.at = "acking", !.queue = @ - 1]
  <2>2. fwd[f].queue - 1 \in 0 .. QueueSize
    BY <1>0, <1>2, Sizes DEF TakeQueued, Task
  <2>3. next \in Task /\ next.at = "acking" /\ next.visitor = fwd[f].visitor
    BY <1>0, <2>2 DEF Task, ForwarderPlaces
  <2>4. fwd' = [fwd EXCEPT ![f] = next]
    BY <2>1
  <2> QED
    BY <1>2, <2>3, <2>4 DEF Becomes, TakeQueued, InSelect
<1>3. CASE Load(f)
  <2>1. CASE closed \/ capacity = 0
    BY <1>1, <1>3, <2>1 DEF Load, ForwarderPlaces
  <2>2. CASE ~closed /\ capacity # 0
    <3> DEFINE next == [fwd[f] EXCEPT !.at = "cas", !.seen = capacity]
    <3>1. next \in Task /\ next.at = "cas" /\ next.seen = capacity /\ next.visitor = fwd[f].visitor
      BY <1>0 DEF Task, ForwarderPlaces
    <3>2. fwd' = [fwd EXCEPT ![f] = next]
      BY <1>3, <2>2 DEF Load
    <3> QED
      BY <1>3, <2>2, <3>1, <3>2 DEF Becomes, Load
  <2> QED
    BY <2>1, <2>2
<1>4. CASE CompareExchange(f)
  <2>1. PICK place \in {"replying", "reserving"} : fwd' = [fwd EXCEPT ![f].at = place, ![f].seen = 0]
    BY <1>4 DEF CompareExchange
  <2> DEFINE next == [fwd[f] EXCEPT !.at = place, !.seen = 0]
  <2>2. next \in Task /\ next.at = place /\ next.visitor = fwd[f].visitor
    BY <1>0 DEF Task, ForwarderPlaces
  <2>3. fwd' = [fwd EXCEPT ![f] = next]
    BY <2>1
  <2> QED
    BY <1>4, <2>2, <2>3 DEF Becomes, CompareExchange
<1>5. CASE Remove(f)
  <2> DEFINE next == [fwd[f] EXCEPT !.at = "gone", !.queue = 0]
  <2>1. next \in Task /\ next.at = "gone" /\ next.visitor = fwd[f].visitor
    <3>1. 0 \in 0 .. QueueSize /\ "gone" \in ForwarderPlaces
      BY Sizes DEF ForwarderPlaces
    <3> QED
      BY <1>0, <3>1 DEF Task
  <2>2. fwd' = [fwd EXCEPT ![f] = next]
    BY <1>5 DEF Remove
  <2> QED
    BY <1>5, <2>1, <2>2 DEF Becomes, Remove
<1>6. CASE ReceiveReply(f) \/ TimeOut(f) \/ Sees(f) \/ Register(f) \/ Abandoned(f)
  BY <1>1, <1>6 DEF ReceiveReply, TimeOut, Sees, Register, Abandoned, InSelect, ForwarderPlaces
<1>8. CASE Acknowledge(f) \/ SendReply(f)
  <2>1. fwd[f].at \in {"acking", "replying"} /\ (Goto(f, "select") \/ Fail(f))
    BY <1>8 DEF Acknowledge, SendReply
  <2> QED
    BY <1>1, <1>7, <2>1 DEF ForwarderPlaces
<1>9. CASE TakeQueued(f) /\ Fail(f)
  BY <1>7, <1>9 DEF TakeQueued, InSelect
<1> QED
  BY <1>2, <1>3, <1>4, <1>5, <1>6, <1>8, <1>9 DEF ForwarderStep

(* Waking the forwarders that wait changes only their places. *)
LEMMA Waking ==
  ASSUME TypeOK, fwd' = Woken
  PROVE  /\ fwd' \in [Forwarders -> Task]
         /\ \A f \in Forwarders :
              \/ fwd'[f] = fwd[f]
              \/ /\ \/ fwd[f].at = "waiting" /\ fwd'[f].at = "reserving"
                    \/ fwd[f].at = "parked" /\ fwd'[f].at = "select"
                 /\ fwd'[f].visitor = fwd[f].visitor
<1>1. fwd \in [Forwarders -> Task]
  BY DEF TypeOK, Task
<1>2. \A f \in Forwarders, place \in {"reserving", "select"} :
        /\ [fwd[f] EXCEPT !.at = place] \in Task
        /\ [fwd[f] EXCEPT !.at = place].at = place
        /\ [fwd[f] EXCEPT !.at = place].visitor = fwd[f].visitor
  BY <1>1 DEF Task, ForwarderPlaces
<1> QED
  BY <1>1, <1>2 DEF Woken

(* The handler gives a visitor a new forwarder, or a forwarder a datagram. *)
LEMMA Spawning ==
  ASSUME TypeOK, UdpConnect
  PROVE  \/ UNCHANGED <<portMap, fwd>>
         \/ \E f \in Forwarders, next \in Task :
              /\ fwd[f].at = "new" /\ fwd' = [fwd EXCEPT ![f] = next]
              /\ portMap' = [portMap EXCEPT ![handler.visitor] = f]
              /\ next.at = "select" /\ next.visitor = handler.visitor
<1>1. SUFFICES ASSUME NEW f \in Forwarders, fwd[f].at = "new",
                      portMap' = [portMap EXCEPT ![handler.visitor] = f],
                      fwd' = [fwd EXCEPT ![f].at = "select", ![f].visitor = handler.visitor]
               PROVE  \E next \in Task : /\ fwd' = [fwd EXCEPT ![f] = next]
                                         /\ next.at = "select" /\ next.visitor = handler.visitor
  BY DEF UdpConnect
<1> DEFINE next == [fwd[f] EXCEPT !.at = "select", !.visitor = handler.visitor]
<1>2. fwd[f] \in Task /\ handler.visitor \in Visitors
  BY DEF TypeOK, Task
<1>3. next \in Task /\ next.at = "select" /\ next.visitor = handler.visitor
  BY <1>2 DEF Task, ForwarderPlaces
<1>4. fwd' = [fwd EXCEPT ![f] = next]
  BY <1>1
<1> QED
  BY <1>3, <1>4

LEMMA Queueing ==
  ASSUME TypeOK, Deliver
  PROVE  \/ UNCHANGED fwd
         \/ \E f \in Forwarders, next \in Task :
              /\ fwd' = [fwd EXCEPT ![f] = next]
              /\ next.at = fwd[f].at /\ next.visitor = fwd[f].visitor /\ next.seen = fwd[f].seen
<1> DEFINE f == portMap[handler.visitor]
           next == [fwd[f] EXCEPT !.queue = @ + 1]
<1>1. fwd \in [Forwarders -> Task]
  BY DEF TypeOK, Task
<1>2. CASE f \notin Forwarders
  BY <1>1, <1>2 DEF Deliver
<1>3. CASE f \in Forwarders /\ fwd[f].queue < QueueSize /\ fwd' = [fwd EXCEPT ![f].queue = @ + 1]
  <2>1. fwd[f] \in Task /\ fwd[f].queue + 1 \in 0 .. QueueSize
    BY <1>1, <1>3, Sizes DEF Task
  <2>2. next \in Task
    BY <2>1 DEF Task
  <2>3. next.at = fwd[f].at /\ next.visitor = fwd[f].visitor /\ next.seen = fwd[f].seen
    BY <2>1 DEF Task
  <2>4. fwd' = [fwd EXCEPT ![f] = next]
    BY <1>3
  <2> QED
    BY <1>3, <2>2, <2>3, <2>4
<1> QED
  BY <1>2, <1>3 DEF Deliver

(* Every step keeps the type; the capacity is taken only where it was seen.  *)
LEMMA TypeStep ==
  ASSUME TypeOK, SeenIsPositive, [Next]_vars
  PROVE  TypeOK' /\ SeenIsPositive'
<1>1. fwd \in [Forwarders -> Task] /\ capacity \in Nat
  BY DEF TypeOK, Task
<1>2. ASSUME NEW f \in Forwarders, NEW next \in Task, fwd' = [fwd EXCEPT ![f] = next],
             next.at = "cas" => next.seen > 0
      PROVE  fwd' \in [Forwarders -> Task] /\ SeenIsPositive'
  BY <1>1, <1>2 DEF SeenIsPositive
<1>3. ASSUME NEW f \in Forwarders, ForwarderStep(f)
      PROVE  TypeOK' /\ SeenIsPositive'
  <2>1. fwd' \in [Forwarders -> Task] /\ SeenIsPositive'
    BY <1>1, <1>2, <1>3, OneTask DEF Becomes, Task
  <2>2. capacity' \in Nat
    <3>1. CASE CompareExchange(f)
      BY <1>1, <3>1 DEF CompareExchange, SeenIsPositive
    <3>2. CASE ~CompareExchange(f)
      BY <1>1, <1>3, <3>2 DEF ForwarderStep, TakeQueued, Acknowledge, ReceiveReply, TimeOut, Sees,
                              Load, Register, Abandoned, SendReply, Remove
    <3> QED
      BY <3>1, <3>2
  <2>3. portMap' \in [Visitors -> Forwarders \cup {None}]
    BY <1>3 DEF ForwarderStep, TakeQueued, Acknowledge, ReceiveReply, Load, CompareExchange,
                TimeOut, Sees, Register, Abandoned, SendReply, Remove, TypeOK
  <2>6. missed' \subseteq Forwarders \cup {Handler}
    BY <1>3 DEF ForwarderStep, TakeQueued, Acknowledge, ReceiveReply, Load, CompareExchange,
                TimeOut, Sees, Register, Abandoned, SendReply, Remove, TypeOK
  <2>4. owed' \in Nat /\ UNCHANGED <<inbox, handler, closed, ended>>
    BY <1>3 DEF ForwarderStep, TakeQueued, Acknowledge, ReceiveReply, Load, CompareExchange,
                TimeOut, Sees, Register, Abandoned, SendReply, Remove, TypeOK
  <2>5. left' \in [packets : Nat, replies : Nat]
    <3>1. CASE ReceiveReply(f)
      <4>1. left' = left \/ (left.replies > 0 /\ left' = [left EXCEPT !.replies = @ - 1])
        BY <3>1 DEF ReceiveReply
      <4> QED
        BY <4>1 DEF TypeOK
    <3>2. CASE ~ReceiveReply(f)
      BY <1>3, <3>2 DEF ForwarderStep, TakeQueued, Acknowledge, Load, CompareExchange, SendReply,
                        TimeOut, Sees, Register, Abandoned, Remove, TypeOK
    <3> QED
      BY <3>1, <3>2
  <2> QED
    BY <2>1, <2>2, <2>3, <2>4, <2>5, <2>6 DEF TypeOK, Task
<1>4. CASE HandlerStep
  <2>5. missed' \subseteq Forwarders \cup {Handler}
    BY <1>4 DEF HandlerStep, TakePacket, UdpConnect, LookUp, Deliver, HandlerSees, HandlerRegisters,
                TypeOK
  <2>1. UNCHANGED <<capacity, closed, ended, owed, left>>
    BY <1>4 DEF HandlerStep, TakePacket, UdpConnect, LookUp, Deliver, HandlerSees, HandlerRegisters
  <2>2. fwd' \in [Forwarders -> Task] /\ SeenIsPositive'
    <3>1. CASE UdpConnect
      BY <1>1, <1>2, <3>1, Spawning DEF SeenIsPositive
    <3>2. CASE Deliver
      BY <1>1, <1>2, <3>2, Queueing DEF SeenIsPositive
    <3>3. CASE TakePacket \/ LookUp \/ HandlerSees \/ HandlerRegisters
      BY <1>1, <3>3 DEF TakePacket, LookUp, HandlerSees, HandlerRegisters, SeenIsPositive
    <3> QED
      BY <1>4, <3>1, <3>2, <3>3 DEF HandlerStep
  <2>3. inbox' \in Seq(Visitors) /\ portMap' \in [Visitors -> Forwarders \cup {None}]
    <3>1. CASE TakePacket
      BY <3>1 DEF TakePacket, TypeOK
    <3>2. CASE UdpConnect
      BY <3>2 DEF UdpConnect, TypeOK
    <3>3. CASE LookUp \/ Deliver \/ HandlerSees \/ HandlerRegisters
      BY <3>3 DEF LookUp, Deliver, HandlerSees, HandlerRegisters, TypeOK
    <3> QED
      BY <1>4, <3>1, <3>2, <3>3 DEF HandlerStep
  <2>4. handler' \in [at : HandlerPlaces, visitor : Visitors]
    <3>1. CASE TakePacket
      BY <3>1 DEF TakePacket, HandlerGoto, HandlerPlaces, TypeOK
    <3>2. CASE ~TakePacket
      BY <1>4, <3>2 DEF HandlerStep, UdpConnect, LookUp, Deliver, HandlerSees, HandlerRegisters, HandlerGoto,
                        HandlerPlaces, TypeOK
    <3> QED
      BY <3>1, <3>2
  <2> QED
    BY <2>1, <2>2, <2>3, <2>4, <2>5 DEF TypeOK, Task
<1>5. ASSUME NEW v \in Visitors, VisitorSends(v)
      PROVE  TypeOK' /\ SeenIsPositive'
  <2>1. left' \in [packets : Nat, replies : Nat]
    <3>1. left \in [packets : Nat, replies : Nat]
      BY DEF TypeOK
    <3>2. left.packets > 0 /\ left' = [left EXCEPT !.packets = @ - 1]
      BY <1>5 DEF VisitorSends
    <3>3. left.packets - 1 \in Nat
      BY <3>1, <3>2
    <3> QED
      BY <3>1, <3>2, <3>3
  <2>2. inbox' \in Seq(Visitors)
    BY <1>5 DEF VisitorSends, TypeOK
  <2> QED
    BY <1>1, <1>5, <2>1, <2>2 DEF VisitorSends, TypeOK, SeenIsPositive, Task
<1>6. CASE OnAck \/ OnEof
  <2>1. fwd' \in [Forwarders -> Task] /\ SeenIsPositive'
    BY <1>1, <1>6, Waking DEF OnAck, OnEof, Notify, SeenIsPositive
  <2>2. capacity' \in Nat /\ owed' \in Nat /\ closed' \in BOOLEAN
    <3>1. capacity \in Nat /\ owed \in Nat /\ closed \in BOOLEAN
      BY DEF TypeOK
    <3>2. CASE OnAck
      BY <3>1, <3>2 DEF OnAck
    <3>3. CASE OnEof
      BY <3>1, <3>3 DEF OnEof
    <3> QED
      BY <1>6, <3>2, <3>3
  <2>3. UNCHANGED <<inbox, portMap, ended, left>>
    BY <1>6 DEF OnAck, OnEof
  <2>4. handler' \in [at : HandlerPlaces, visitor : Visitors]
    <3>1. handler \in [at : HandlerPlaces, visitor : Visitors]
      BY DEF TypeOK
    <3> QED
      BY <1>6, <3>1 DEF OnAck, OnEof, Notify, HandlerPlaces
  <2>5. missed' \subseteq Forwarders \cup {Handler}
    BY <1>6 DEF OnAck, OnEof, Notify, Asleep, InGap, TypeOK
  <2> QED
    BY <2>1, <2>2, <2>3, <2>4, <2>5 DEF TypeOK, Task
<1>7. CASE SessionEnds \/ UNCHANGED vars
  BY <1>7 DEF SessionEnds, vars, TypeOK, SeenIsPositive
<1> QED
  BY <1>3, <1>4, <1>5, <1>6, <1>7 DEF Next

LEMMA InitType == Init => TypeOK /\ SeenIsPositive
<1> SUFFICES ASSUME Init
             PROVE  TypeOK /\ SeenIsPositive
  OBVIOUS
<1>1. AnyVisitor \in Visitors
  BY SomebodyVisits DEF AnyVisitor
<1>2. 0 \in 0 .. QueueSize /\ 0 \in Nat /\ Window \in Nat /\ Packets \in Nat /\ Replies \in Nat
  BY Sizes
<1>3. fwd \in [Forwarders -> Task] /\ SeenIsPositive
  BY <1>1, <1>2 DEF Init, Task, ForwarderPlaces, SeenIsPositive
<1>4. inbox \in Seq(Visitors) /\ handler \in [at : HandlerPlaces, visitor : Visitors]
  BY <1>1 DEF Init, HandlerPlaces
<1>5. /\ portMap \in [Visitors -> Forwarders \cup {None}] /\ closed \in BOOLEAN
      /\ missed \subseteq Forwarders \cup {Handler} /\ ended \in BOOLEAN
  BY DEF Init
<1>6. capacity \in Nat /\ owed \in Nat /\ left \in [packets : Nat, replies : Nat]
  BY <1>2 DEF Init
<1> QED
  BY <1>3, <1>4, <1>5, <1>6 DEF TypeOK, Task

(* The handler, the forwarders with their queues and the map always have     *)
(* their types, whatever interleaving, and the capacity is never below zero. *)
THEOREM TypeCorrect == Spec => []TypeOK
<1>1. TypeOK /\ SeenIsPositive /\ [Next]_vars => TypeOK' /\ SeenIsPositive'
  BY TypeStep
<1> QED
  BY InitType, <1>1, PTL DEF Spec
-----------------------------------------------------------------------------
(* Capacity *)

LEMMA CapacityStep ==
  ASSUME TypeOK, UnitsAreOut, [Next]_vars
  PROVE  UnitsAreOut'
<1>1. fwd \in [Forwarders -> Task] /\ capacity \in Nat /\ owed \in Nat
  BY DEF TypeOK, Task
<1>2. /\ IsFiniteSet(Replying) /\ Cardinality(Replying) \in Nat
      /\ ~ ended => capacity + owed + Cardinality(Replying) = Window
  BY FS_CardinalityType DEF UnitsAreOut
<1>3. ASSUME Replying' = Replying, ended' = ended, capacity' + owed' = capacity + owed
      PROVE  UnitsAreOut'
  BY <1>2, <1>3 DEF UnitsAreOut
<1>4. ASSUME UNCHANGED fwd, UNCHANGED <<capacity, ended, owed>>
      PROVE  UnitsAreOut'
  BY <1>3, <1>4 DEF Replying
<1>5. ASSUME NEW f \in Forwarders, ForwarderStep(f)
      PROVE  UnitsAreOut'
  <2>1. PICK next \in Task : Becomes(f, next)
    BY <1>5, OneTask
  <2>2. /\ fwd'[f].at = next.at
        /\ \A g \in Forwarders \ {f} : fwd'[g] = fwd[g]
    BY <1>1, <2>1 DEF Becomes
  <2>3. CASE SendReply(f)
    <3>1. fwd[f].at = "replying" /\ fwd'[f].at \in {"select", "gone"}
      BY <1>1, <2>3 DEF SendReply, Goto, Fail, Task
    <3>2. Replying' = Replying \ {f} /\ f \in Replying
      BY <2>2, <3>1 DEF Replying
    <3>3. IsFiniteSet(Replying') /\ Cardinality(Replying') = Cardinality(Replying) - 1
      BY <1>2, <3>2, FS_RemoveElement
    <3>4. /\ owed' = owed + 1 \/ ended
          /\ capacity' = capacity /\ ended' = ended
      BY <2>3 DEF SendReply
    <3> QED
      BY <1>1, <1>2, <3>3, <3>4 DEF UnitsAreOut
  <2>4. CASE CompareExchange(f) /\ capacity' # capacity
    <3>1. fwd' = [fwd EXCEPT ![f].at = "replying", ![f].seen = 0] /\ capacity' = capacity - 1
      BY <2>4 DEF CompareExchange
    <3>2. fwd[f].at = "cas" /\ fwd'[f].at = "replying"
      BY <1>1, <2>4, <3>1 DEF CompareExchange, Task
    <3>3. Replying' = Replying \cup {f} /\ f \notin Replying
      BY <2>2, <3>2 DEF Replying
    <3>4. IsFiniteSet(Replying') /\ Cardinality(Replying') = Cardinality(Replying) + 1
      BY <1>2, <3>3, FS_AddElement
    <3>5. owed' = owed /\ ended' = ended
      BY <2>4 DEF CompareExchange
    <3> QED
      BY <1>1, <1>2, <3>1, <3>4, <3>5 DEF UnitsAreOut
  <2>5. CASE CompareExchange(f) /\ capacity' = capacity
    <3>1. fwd' = [fwd EXCEPT ![f].at = "reserving", ![f].seen = 0] /\ owed' = owed /\ ended' = ended
      BY <1>1, <2>5 DEF CompareExchange
    <3>2. fwd[f].at = "cas" /\ fwd'[f].at = "reserving"
      BY <1>1, <2>5, <3>1 DEF CompareExchange, Task
    <3>3. Replying' = Replying
      BY <2>2, <3>2 DEF Replying
    <3> QED
      BY <1>3, <2>5, <3>1, <3>3
  <2>6. CASE ~SendReply(f) /\ ~CompareExchange(f)
    <3>1. UNCHANGED <<capacity, ended, owed>>
      BY <1>5, <2>6 DEF ForwarderStep, TakeQueued, Acknowledge, ReceiveReply, TimeOut, Sees, Load,
                        Register, Abandoned, Remove
    <3>2. fwd[f].at # "replying" /\ fwd'[f].at # "replying"
      BY <1>1, <1>5, <2>6 DEF ForwarderStep, TakeQueued, Acknowledge, ReceiveReply, TimeOut, Sees,
                              Load, Register, Abandoned, Remove, InSelect, Goto, Fail, Task
    <3>3. Replying' = Replying
      BY <2>2, <3>2 DEF Replying
    <3> QED
      BY <1>3, <3>1, <3>3
  <2> QED
    BY <2>3, <2>4, <2>5, <2>6
<1>6. CASE HandlerStep
  <2>1. UNCHANGED <<capacity, ended, owed>>
    BY <1>6 DEF HandlerStep, TakePacket, UdpConnect, LookUp, Deliver, HandlerSees, HandlerRegisters
  <2>2. Replying' = Replying
    <3>1. CASE UdpConnect
      BY <1>1, <3>1, Spawning DEF Replying
    <3>2. CASE Deliver
      BY <1>1, <3>2, Queueing DEF Replying
    <3>3. CASE TakePacket \/ LookUp \/ HandlerSees \/ HandlerRegisters
      BY <3>3 DEF TakePacket, LookUp, HandlerSees, HandlerRegisters, Replying
    <3> QED
      BY <1>6, <3>1, <3>2, <3>3 DEF HandlerStep
  <2> QED
    BY <1>3, <2>1, <2>2
<1>7. CASE OnAck \/ OnEof
  <2>1. Replying' = Replying
    BY <1>7, Waking DEF OnAck, OnEof, Notify, Replying
  <2>2. capacity' + owed' = capacity + owed /\ ended' = ended
    BY <1>1, <1>7 DEF OnAck, OnEof
  <2> QED
    BY <1>3, <2>1, <2>2
<1>8. ASSUME NEW v \in Visitors, VisitorSends(v)
      PROVE  UnitsAreOut'
  BY <1>4, <1>8 DEF VisitorSends
<1>9. CASE SessionEnds
  BY <1>2, <1>9 DEF SessionEnds, UnitsAreOut, Replying
<1> QED
  BY <1>4, <1>5, <1>6, <1>7, <1>8, <1>9 DEF Next, vars

(* However the forwarders of a channel interleave between their loads and    *)
(* exchanges, each datagram on its way has taken one unit and none is lost.  *)
THEOREM CapacityIsShared == Spec => []CapacityShared
<1>1. Init => UnitsAreOut
  <2> SUFFICES ASSUME Init
               PROVE  UnitsAreOut
    OBVIOUS
  <2>1. Replying = {}
    BY DEF Init, Replying
  <2>2. IsFiniteSet(Replying) /\ Cardinality(Replying) = 0
    BY <2>1, FS_EmptySet
  <2> QED
    BY <2>2, Sizes DEF Init, UnitsAreOut
<1>2. TypeOK /\ UnitsAreOut /\ [Next]_vars => UnitsAreOut'
  BY CapacityStep
<1>3. UnitsAreOut => CapacityShared
  BY DEF UnitsAreOut, CapacityShared, Replying
<1> QED
  BY <1>1, <1>2, <1>3, TypeCorrect, PTL DEF Spec
-----------------------------------------------------------------------------
(* Registration *)

Registered == LiveForwardersAreRegistered /\ ConnectsTheUnknown

LEMMA RegisteredStep ==
  ASSUME TypeOK, Registered, [Next]_vars
  PROVE  Registered'
<1> USE DEF Registered, LiveForwardersAreRegistered, ConnectsTheUnknown, Live
<1>1. fwd \in [Forwarders -> Task] /\ portMap \in [Visitors -> Forwarders \cup {None}]
      /\ handler \in [at : HandlerPlaces, visitor : Visitors]
  BY DEF TypeOK, Task
<1>2. ASSUME UNCHANGED <<portMap, fwd>>, handler' = handler \/ handler'.at # "connecting"
      PROVE  Registered'
  BY <1>2
<1>3. ASSUME NEW f \in Forwarders, ForwarderStep(f)
      PROVE  Registered'
  <2>1. PICK next \in Task : Becomes(f, next)
    BY <1>3, OneTask
  <2>2. /\ fwd'[f] = next /\ next.visitor = fwd[f].visitor /\ Live(f)
        /\ \A g \in Forwarders \ {f} : fwd'[g] = fwd[g]
        /\ fwd[f].visitor \in Visitors
    BY <1>1, <2>1 DEF Becomes, Task
  <2>3. CASE Remove(f)
    <3>1. portMap' = [portMap EXCEPT ![fwd[f].visitor] = None] /\ handler' = handler
          /\ fwd'[f].at = "gone"
      BY <1>1, <2>3 DEF Remove, Task
    <3>2. \A g \in Forwarders \ {f} : Live(g) => fwd[g].visitor # fwd[f].visitor
      BY <2>2
    <3> QED
      BY <1>1, <2>2, <3>1, <3>2
  <2>4. CASE ~Remove(f)
    <3>1. UNCHANGED <<portMap, handler>>
      BY <1>3, <2>4 DEF ForwarderStep, TakeQueued, Acknowledge, ReceiveReply, Load, CompareExchange,
                        TimeOut, Sees, Register, Abandoned, SendReply
    <3> QED
      BY <2>2, <3>1
  <2> QED
    BY <2>3, <2>4
<1>4. CASE TakePacket
  BY <1>1, <1>4 DEF TakePacket, HandlerGoto
<1>5. CASE UdpConnect
  <2>1. handler.at = "connecting" /\ handler'.at = "found" /\ handler.visitor \in Visitors
    BY <1>1, <1>5 DEF UdpConnect, HandlerGoto
  <2>2. CASE UNCHANGED <<portMap, fwd>>
    BY <1>2, <2>1, <2>2
  <2>3. ASSUME NEW f \in Forwarders, NEW next \in Task,
               fwd[f].at = "new", fwd' = [fwd EXCEPT ![f] = next],
               portMap' = [portMap EXCEPT ![handler.visitor] = f],
               next.at = "select", next.visitor = handler.visitor
        PROVE  Registered'
    <3>1. \A g \in Forwarders : Live(g) => fwd[g].visitor # handler.visitor
      BY <2>1, NoneIsNoForwarder
    <3>2. fwd'[f] = next /\ \A g \in Forwarders \ {f} : fwd'[g] = fwd[g]
      BY <1>1, <2>3
    <3>3. portMap'[handler.visitor] = f
          /\ \A v \in Visitors \ {handler.visitor} : portMap'[v] = portMap[v]
      BY <1>1, <2>1, <2>3
    <3>4. \A g \in Forwarders : fwd[g].visitor \in Visitors
      BY <1>1 DEF Task
    <3> QED
      BY <2>1, <2>3, <3>1, <3>2, <3>3, <3>4
  <2> QED
    BY <1>5, <2>2, <2>3, Spawning
<1>6. CASE Deliver
  <2>1. UNCHANGED portMap /\ handler'.at = "select"
    BY <1>6 DEF Deliver, HandlerGoto
  <2> QED
    BY <1>1, <1>6, <2>1, Queueing
<1>7. CASE LookUp \/ HandlerSees \/ HandlerRegisters
  BY <1>2, <1>7 DEF LookUp, HandlerSees, HandlerRegisters, HandlerGoto
<1>8. CASE OnAck \/ OnEof
  <2>1. UNCHANGED portMap /\ (handler' = handler \/ handler'.at = "select")
    BY <1>1, <1>8 DEF OnAck, OnEof, Notify
  <2> QED
    BY <1>8, <2>1, Waking DEF OnAck, OnEof, Notify
<1>9. ASSUME NEW v \in Visitors, VisitorSends(v)
      PROVE  Registered'
  BY <1>2, <1>9 DEF VisitorSends
<1>10. CASE SessionEnds
  BY <1>2, <1>10 DEF SessionEnds
<1> QED
  BY <1>2, <1>3, <1>4, <1>5, <1>6, <1>7, <1>8, <1>9, <1>10 DEF Next, HandlerStep, vars

(* A forwarder that runs is the one in the map, so that no visitor has two   *)
(* and port_map.remove, which does not look, removes its own entry.          *)
THEOREM ForwardersAreRegistered == Spec => []LiveForwardersAreRegistered
<1>1. Init => Registered
  BY DEF Init, Registered, LiveForwardersAreRegistered, ConnectsTheUnknown, Live
<1>2. TypeOK /\ Registered /\ [Next]_vars => Registered'
  BY RegisteredStep
<1>3. Registered => LiveForwardersAreRegistered
  BY DEF Registered
<1> QED
  BY <1>1, <1>2, <1>3, TypeCorrect, PTL DEF Spec
=============================================================================
