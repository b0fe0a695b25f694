--------------------------- MODULE UdpForwarders ---------------------------
(***************************************************************************)
(* One UDP data channel: handle_udp_data_channel and run_udp_forwarder of  *)
(* client/src/client.rs over the DataChannel of common/src/data.rs.  The   *)
(* handler gives each visitor a forwarder task with a queue and a socket   *)
(* to the local service, registered in a map (a DashMap) under the         *)
(* visitor's address; the forwarders of a channel share its capacity.      *)
(*                                                                         *)
(* A forwarder's UDP socket and the server are external.  A datagram       *)
(* counts for one unit of capacity; to_server_tx always has room and the   *)
(* control loop always gets a datagram into the handler's inbox (Tunnel    *)
(* models sizes, a full to_server_tx and a full inbox).  All tasks of the  *)
(* channel wait on one Notify, for capacity or for the end of the channel, *)
(* and each of them can miss a notification between its check and its      *)
(* call of notified().                                                     *)
(***************************************************************************)
EXTENDS Integers, Sequences, FiniteSets

CONSTANTS
  Visitors,       (* external socket addresses                               *)
  Forwarders,     (* tasks: as many as the model lets the handler spawn      *)
  None,           (* no entry in the map                                     *)
  Window,         (* capacity of the data channel, in datagrams              *)
  QueueSize,      (* DATA_CHANNEL_SIZE: datagrams queued to a forwarder      *)
  Packets,        (* bound: datagrams from visitors                          *)
  Replies         (* bound: datagrams from the service                       *)

ASSUME SizesArePositive ==
  /\ {Window, QueueSize} \subseteq Nat \ {0}
  /\ {Packets, Replies} \subseteq Nat

ASSUME NoneIsNoForwarder == None \notin Forwarders

ASSUME SomebodyVisits == Visitors # {}

Handler == "handler"   (* the handler's task *)

ASSUME HandlerIsNoForwarder == Handler \notin Forwarders

VARIABLES
  inbox,      (* data_rx of the handler: the visitors of waiting datagrams   *)
  handler,    (* where the handler is, and the visitor it deals with         *)
  portMap,    (* UdpPortMap: visitor -> the forwarder whose queue it holds   *)
  fwd,        (* forwarder -> its visitor, place, queue and loaded capacity  *)
  capacity,   (* DataChannel::capacity                                       *)
  closed,     (* DataChannel::closed                                         *)
  missed,     (* history: tasks that were between a check and notified()     *)
              (* when DataChannel::notify was fired                          *)
  ended,      (* the session of the control loop is over                     *)
  owed,       (* external: datagrams sent to the server, not acknowledged    *)
  left        (* external: datagrams visitors and service may still send     *)

vars == <<inbox, handler, portMap, fwd, capacity, closed, missed, ended, owed, left>>

(***************************************************************************)
(* Places of the handler: select, selectGap (has seen `closed` false, not  *)
(* registered yet), parked (its branches are pending), connecting          *)
(* (udp_connect), found (about to look the visitor up), sending (awaits    *)
(* room in the queue, and holds the guard on the map entry that            *)
(* port_map.get returned), returned.                                       *)
(*                                                                         *)
(* Places of a forwarder: new (not spawned), select, selectGap, parked     *)
(* likewise, acking, reserving (top of the loop of wait_for_capacity), cas *)
(* (between its load and its compare-and-exchange), capGap (has loaded too *)
(* little, not registered yet), waiting, replying, removing (out of its    *)
(* loop), gone.                                                            *)
(***************************************************************************)
HandlerPlaces == {"select", "selectGap", "parked", "connecting", "found", "sending", "returned"}
ForwarderPlaces == {"new", "select", "selectGap", "parked", "acking", "reserving", "cas",
                    "capGap", "waiting", "replying", "removing", "gone"}

AnyVisitor == CHOOSE v \in Visitors : TRUE

Live(f) == fwd[f].at \notin {"new", "gone"}

Goto(f, place) == fwd' = [fwd EXCEPT ![f].at = place]

HandlerGoto(place, v) == handler' = [at |-> place, visitor |-> v]

Woken ==
  [f \in Forwarders |->
    IF fwd[f].at = "parked" THEN [fwd[f] EXCEPT !.at = "select"]
    ELSE IF fwd[f].at = "waiting" THEN [fwd[f] EXCEPT !.at = "reserving"]
    ELSE fwd[f]]

Asleep == {f \in Forwarders : fwd[f].at \in {"parked", "waiting"}}
            \cup (IF handler.at = "parked" THEN {Handler} ELSE {})
InGap == {f \in Forwarders : fwd[f].at \in {"selectGap", "capGap"}}
           \cup (IF handler.at = "selectGap" THEN {Handler} ELSE {})

Notify ==
  /\ fwd' = Woken
  /\ handler' = IF handler.at = "parked" THEN [handler EXCEPT !.at = "select"] ELSE handler
  /\ missed' = (missed \ Asleep) \cup InGap

-----------------------------------------------------------------------------
(* The handler *)

HandlerInSelect == handler.at \in {"select", "parked"}

TakePacketUnchecked ==                                             \* faulty variant
  /\ HandlerInSelect
  /\ inbox # <<>>
  /\ inbox' = Tail(inbox)
  /\ HandlerGoto("connecting", Head(inbox))
  /\ missed' = missed \ {Handler}
  /\ UNCHANGED <<portMap, fwd, capacity, closed, ended, owed, left>>
TakePacket ==
  /\ HandlerInSelect
  /\ inbox # <<>>
  /\ inbox' = Tail(inbox)
  /\ HandlerGoto(IF portMap[Head(inbox)] = None THEN "connecting" ELSE "found", Head(inbox))
  /\ missed' = missed \ {Handler}
  /\ UNCHANGED <<portMap, fwd, capacity, closed, ended, owed, left>>

(* A forwarder for an address that has none, unless udp_connect fails. *)
UdpConnect ==
  LET v == handler.visitor
  IN  /\ handler.at = "connecting"
      /\ HandlerGoto("found", v)
      /\ \/ UNCHANGED <<portMap, fwd>>
         \/ \E f \in Forwarders :
              /\ fwd[f].at = "new"
              /\ portMap' = [portMap EXCEPT ![v] = f]
              /\ fwd' = [fwd EXCEPT ![f].at = "select", ![f].visitor = v]
      /\ UNCHANGED <<inbox, capacity, closed, missed, ended, owed, left>>

LookUp ==
  LET v == handler.visitor
  IN  /\ handler.at = "found"
      /\ HandlerGoto(IF portMap[v] = None THEN "select" ELSE "sending", v)
      /\ UNCHANGED <<inbox, portMap, fwd, capacity, closed, missed, ended, owed, left>>

(* tx.send: done when the queue has room, or fails when its receiver is gone. *)
Deliver ==
  LET f == portMap[handler.visitor]
  IN  /\ handler.at = "sending"
      /\ \/ /\ fwd[f].at # "gone" /\ fwd[f].queue < QueueSize
            /\ fwd' = [fwd EXCEPT ![f].queue = @ + 1]
         \/ fwd[f].at = "gone" /\ UNCHANGED fwd
      /\ HandlerGoto("select", handler.visitor)
      /\ UNCHANGED <<inbox, portMap, capacity, closed, missed, ended, owed, left>>

(* data_channel.closed(): load the flag; return, or register.  The other      *)
(* branch, recv, never yields None: the handler itself holds a sender, the    *)
(* one in its data_channel.                                                   *)
HandlerSees ==
  /\ handler.at = "select"
  /\ HandlerGoto(IF closed THEN "returned" ELSE "selectGap", handler.visitor)
  /\ UNCHANGED <<inbox, portMap, fwd, capacity, closed, missed, ended, owed, left>>

HandlerRegisters ==
  /\ handler.at = "selectGap"
  /\ HandlerGoto("parked", handler.visitor)
  /\ UNCHANGED <<inbox, portMap, fwd, capacity, closed, missed, ended, owed, left>>

HandlerStep ==
  TakePacket \/ UdpConnect \/ LookUp \/ Deliver \/ HandlerSees \/ HandlerRegisters

-----------------------------------------------------------------------------
(* A forwarder *)

InSelect(f) == fwd[f].at \in {"select", "parked"}

(* The task returns by `?`: its queue goes, its entry in the map stays. *)
Fail(f) == fwd' = [fwd EXCEPT ![f].at = "gone", ![f].queue = 0]

(* A datagram for the service: the task sends it on and acknowledges it, or   *)
(* the send fails.                                                            *)
TakeQueued(f) ==
  /\ InSelect(f)
  /\ fwd[f].queue > 0
  /\ \/ fwd' = [fwd EXCEPT ![f].at = "acking", ![f].queue = @ - 1]
     \/ Fail(f)
  /\ missed' = missed \ {f}
  /\ UNCHANGED <<inbox, handler, portMap, capacity, closed, ended, owed, left>>

(* to_server_tx.send fails once the session has closed its FairReceiver, which *)
(* its Drop does unless a sender has the lock.                                 *)
Acknowledge(f) ==
  /\ fwd[f].at = "acking"
  /\ Goto(f, "select") \/ (ended /\ Fail(f))
  /\ UNCHANGED <<inbox, handler, portMap, capacity, closed, missed, ended, owed, left>>

(* The socket yields a datagram or an error. *)
ReceiveReply(f) ==
  /\ InSelect(f)
  /\ \/ left.replies > 0 /\ left' = [left EXCEPT !.replies = @ - 1] /\ Goto(f, "reserving")
     \/ UNCHANGED left /\ Goto(f, "removing")
  /\ missed' = missed \ {f}
  /\ UNCHANGED <<inbox, handler, portMap, capacity, closed, ended, owed>>

(* UDP_TIMEOUT without traffic *)
TimeOut(f) ==
  /\ fwd[f].at = "parked"
  /\ fwd[f].queue = 0
  /\ Goto(f, "removing")
  /\ missed' = missed \ {f}
  /\ UNCHANGED <<inbox, handler, portMap, capacity, closed, ended, owed, left>>

(* data_channel.closed(): load the flag; leave the loop, or register. *)
Sees(f) ==
  /\ fwd[f].at = "select"
  /\ Goto(f, IF closed THEN "removing" ELSE "selectGap")
  /\ UNCHANGED <<inbox, handler, portMap, capacity, closed, missed, ended, owed, left>>

(* The loads of wait_for_capacity: `closed`, then the capacity. *)
LoadUnchecked(f) ==                                                \* faulty variant
  /\ fwd[f].at = "reserving"
  /\ fwd' = [fwd EXCEPT ![f].at = "cas", ![f].seen = capacity]
  /\ UNCHANGED <<inbox, handler, portMap, capacity, closed, missed, ended, owed, left>>
Load(f) ==
  /\ fwd[f].at = "reserving"
  /\ IF closed THEN Goto(f, "removing")
     ELSE IF capacity = 0 THEN Goto(f, "capGap")
     ELSE fwd' = [fwd EXCEPT ![f].at = "cas", ![f].seen = capacity]
  /\ UNCHANGED <<inbox, handler, portMap, capacity, closed, missed, ended, owed, left>>

(* The exchange.  That it is the weak one, which may fail for no reason on    *)
(* some processors, is left out: the loop then loads again.                   *)
StoreSeen(f) ==                                                    \* faulty variant
  /\ fwd[f].at = "cas"
  /\ capacity' = fwd[f].seen - 1
  /\ fwd' = [fwd EXCEPT ![f].at = "replying", ![f].seen = 0]
  /\ UNCHANGED <<inbox, handler, portMap, closed, missed, ended, owed, left>>
CompareExchange(f) ==
  /\ fwd[f].at = "cas"
  /\ \/ /\ capacity = fwd[f].seen
        /\ capacity' = capacity - 1
        /\ fwd' = [fwd EXCEPT ![f].at = "replying", ![f].seen = 0]
     \/ /\ capacity # fwd[f].seen
        /\ fwd' = [fwd EXCEPT ![f].at = "reserving", ![f].seen = 0]
        /\ UNCHANGED capacity
  /\ UNCHANGED <<inbox, handler, portMap, closed, missed, ended, owed, left>>

(* notified() is called: from here on a notification wakes the task. *)
Register(f) ==
  /\ \/ fwd[f].at = "selectGap" /\ Goto(f, "parked")
     \/ fwd[f].at = "capGap" /\ Goto(f, "waiting")
  /\ UNCHANGED <<inbox, handler, portMap, capacity, closed, missed, ended, owed, left>>

(* The other branch of the select! in wait_for_capacity, data_tx.closed(): the *)
(* receiver of the channel's inbox went when the handler returned.             *)
Abandoned(f) ==
  /\ fwd[f].at = "waiting"
  /\ handler.at = "returned"
  /\ Goto(f, "removing")
  /\ missed' = missed \ {f}
  /\ UNCHANGED <<inbox, handler, portMap, capacity, closed, ended, owed, left>>

SendReply(f) ==
  /\ fwd[f].at = "replying"
  /\ \/ Goto(f, "select") /\ owed' = owed + 1
     \/ ended /\ Fail(f) /\ UNCHANGED owed
  /\ UNCHANGED <<inbox, handler, portMap, capacity, closed, missed, ended, left>>

(* port_map.remove waits for the guard that the handler holds; visitors share *)
(* a shard of the map.  The queue's receiver goes when the function returns.  *)
Remove(f) ==
  /\ fwd[f].at = "removing"
  /\ handler.at # "sending"
  /\ portMap' = [portMap EXCEPT ![fwd[f].visitor] = None]
  /\ fwd' = [fwd EXCEPT ![f].at = "gone", ![f].queue = 0]
  /\ UNCHANGED <<inbox, handler, capacity, closed, missed, ended, owed, left>>

ForwarderStep(f) ==
  \/ TakeQueued(f) \/ Acknowledge(f) \/ ReceiveReply(f) \/ TimeOut(f) \/ Sees(f)
  \/ Load(f) \/ CompareExchange(f) \/ Register(f) \/ Abandoned(f) \/ SendReply(f) \/ Remove(f)

-----------------------------------------------------------------------------
(* The environment: visitors, and the server through the control loop *)

InTable == ~ closed /\ ~ ended   (* the control loop knows the channel *)

VisitorSends(v) ==
  /\ InTable
  /\ left.packets > 0
  /\ left' = [left EXCEPT !.packets = @ - 1]
  /\ inbox' = Append(inbox, v)
  /\ UNCHANGED <<handler, portMap, fwd, capacity, closed, missed, ended, owed>>

(* add_capacity *)
OnAck ==
  /\ InTable
  /\ owed > 0
  /\ owed' = owed - 1
  /\ capacity' = capacity + 1
  /\ Notify
  /\ UNCHANGED <<inbox, portMap, closed, ended, left>>

(* DataChannel::close *)
OnEofSilently ==                                                   \* faulty variant
  /\ InTable
  /\ closed' = TRUE
  /\ UNCHANGED <<inbox, handler, portMap, fwd, capacity, missed, ended, owed, left>>
OnEof ==
  /\ InTable
  /\ closed' = TRUE
  /\ Notify
  /\ UNCHANGED <<inbox, portMap, capacity, ended, owed, left>>

(* data_channels.clear() after a session: the channel is dropped, not closed. *)
SessionEnds ==
  /\ ~ ended
  /\ ended' = TRUE
  /\ UNCHANGED <<inbox, handler, portMap, fwd, capacity, closed, missed, owed, left>>

-----------------------------------------------------------------------------

Init ==
  /\ inbox = <<>>
  /\ handler = [at |-> "select", visitor |-> AnyVisitor]
  /\ portMap = [v \in Visitors |-> None]
  /\ fwd = [f \in Forwarders |->
              [at |-> "new", visitor |-> AnyVisitor, queue |-> 0, seen |-> 0]]
  /\ capacity = Window
  /\ closed = FALSE
  /\ missed = {}
  /\ ended = FALSE
  /\ owed = 0
  /\ left = [packets |-> Packets, replies |-> Replies]

Next ==
  \/ HandlerStep \/ OnAck \/ OnEof \/ SessionEnds
  \/ \E v \in Visitors : VisitorSends(v)
  \/ \E f \in Forwarders : ForwarderStep(f)

Spec == Init /\ [][Next]_vars

(* The runtime runs every task that can run, and the server acknowledges.  *)
FairSpec ==
  /\ Spec
  /\ WF_vars(HandlerStep)
  /\ WF_vars(OnAck)
  /\ \A f \in Forwarders : WF_vars(ForwarderStep(f))

-----------------------------------------------------------------------------
(* Properties *)

(* The state has its shape; the capacity, an unsigned number that several    *)
(* tasks take from without a lock, never goes below zero.                    *)
TypeOK ==
  /\ inbox \in Seq(Visitors)
  /\ handler \in [at : HandlerPlaces, visitor : Visitors]
  /\ portMap \in [Visitors -> Forwarders \cup {None}]
  /\ fwd \in [Forwarders -> [at : ForwarderPlaces, visitor : Visitors,
                             queue : 0..QueueSize, seen : Nat]]
  /\ capacity \in Nat
  /\ closed \in BOOLEAN
  /\ missed \subseteq Forwarders \cup {Handler}
  /\ ended \in BOOLEAN
  /\ owed \in Nat
  /\ left \in [packets : Nat, replies : Nat]

(* However the forwarders of a channel interleave in wait_for_capacity, each  *)
(* datagram on its way to the server has taken one unit and no unit is lost,  *)
(* while the session lasts.                                                   *)
CapacityShared ==
  ~ ended =>
    capacity + owed + Cardinality({f \in Forwarders : fwd[f].at = "replying"}) = Window

(* A forwarder that runs is the one registered for its visitor: there are not *)
(* two for one visitor, answers and packets go through the same socket, and   *)
(* port_map.remove, which does not look whose entry it removes, removes its   *)
(* own.                                                                       *)
LiveForwardersAreRegistered ==
  \A f \in Forwarders : Live(f) => portMap[fwd[f].visitor] = f


(* The handler waits, with a guard on the map, for room in the queue of a     *)
(* forwarder that will not empty it: one that needs the map to end, or one    *)
(* that waits for capacity and has missed its notification.                   *)
HandlerIsStuck ==
  LET f == portMap[handler.visitor]
  IN  /\ handler.at = "sending"
      /\ fwd[f].queue >= QueueSize
      /\ \/ fwd[f].at = "removing"
         \/ fwd[f].at \in {"capGap", "waiting"} /\ f \in missed

(* Closing the channel ends all its tasks, unless the handler was notified in *)
(* the gap before it waited, or is stuck.  A forwarder that misses the close  *)
(* ends all the same: by its time-out, or because the handler returns.        *)
CloseEndsEverything ==
  []<>(closed => \/ handler.at = "returned" /\ \A f \in Forwarders : ~ Live(f)
                 \/ Handler \in missed
                 \/ HandlerIsStuck)

=============================================================================
