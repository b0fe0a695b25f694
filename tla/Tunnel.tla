------------------------------- MODULE Tunnel -------------------------------
(***************************************************************************)
(* The data path of one connected client, client/src/client.rs and         *)
(* common/src/data.rs: TCP data channels multiplexed over one connection,  *)
(* with a window in each direction.                                        *)
(*                                                                         *)
(*   local service <-> handler task of the channel  -- out -->  control    *)
(*   (socket)          (handle_tcp_data_channel)   <- inbox --  loop       *)
(*                                                                         *)
(* and the control loop -- up --> server, server -- down --> control loop. *)
(* `out` is the fair channel to_server_tx, taken as the GroupedFifo that   *)
(* FairQueue implements; a sender that finds its group full waits for room.*)
(* The server and the local services are external: the server respects its *)
(* window and answers each data message it takes with one acknowledgement. *)
(* Bytes are counted, not represented.                                     *)
(***************************************************************************)
EXTENDS Integers, Sequences, FiniteSets

CONSTANTS
  Channels,       (* data channel ids                                        *)
  Window,         (* DEFAULT_CLIENT_DATA_CHANNEL_CAPACITY, in bytes          *)
  MaxRead,        (* DATA_BUFFER_SIZE: the most bytes one read returns       *)
  InboxSize,      (* DATA_CHANNEL_SIZE: messages queued to a handler         *)
  GroupSize,      (* CONTROL_CHANNEL_SIZE: messages queued to the server     *)
  ServerWindow,   (* bytes the server sends before it waits for acks         *)
  NetSize,        (* bound of the model: messages on their way to the server *)
  ServiceBytes,   (* bound: bytes the local service of a channel sends       *)
  ServerBytes     (* bound: bytes the server sends on a channel              *)

ASSUME SizesArePositive ==
  /\ {Window, MaxRead, InboxSize, GroupSize, ServerWindow, NetSize} \subseteq Nat \ {0}
  /\ {ServiceBytes, ServerBytes} \subseteq [Channels -> Nat]

(* DATA_BUFFER_SIZE is a quarter of the capacity: a read always fits an unused *)
(* window.                                                                     *)
ASSUME ReadFitsWindow == MaxRead <= Window

Control == "control"   (* the control class of the fair channel *)

ASSUME ControlIsNoChannel == Control \notin Channels

ASSUME SomeChannel == Channels # {}

Body ==
  [kind : {"data", "ack"}, n : 1..(MaxRead + ServerWindow)] \cup [kind : {"eof"}, n : {0}]

VARIABLES
  table,      (* ids in Client::data_channels                               *)
  capacity,   (* DataChannel::capacity                                      *)
  closed,     (* DataChannel::closed                                        *)
  missed,     (* history: channels whose handler was between a check and    *)
              (* notified() when DataChannel::notify was fired              *)
  inbox,      (* the mpsc channel to the handler: sizes of messages         *)
  handler,    (* where the handler task is, and the bytes it deals with     *)
  out,        (* pending messages of the fair channel                       *)
  loop,       (* where the control loop is, and the message it deals with   *)
  up, down,   (* the connection, in both directions                         *)
  socket,     (* external: the service's end of each local connection       *)
  server      (* external: the server's end of each channel                 *)

clientVars == <<table, capacity, closed, missed, inbox, handler, out, loop>>
vars == <<clientVars, up, down, socket, server>>

Fifo == INSTANCE GroupedFifo WITH
  Groups <- Channels, Data <- Body, MaxGroupSize <- GroupSize, pending <- out

Msg(c, kind, n) == [group |-> c, data |-> [kind |-> kind, n |-> n]]

(***************************************************************************)
(* Places of a handler.                                                    *)
(*   none       not spawned yet           connecting  TcpStream::connect   *)
(*   select     polls the three branches of its select!                    *)
(*   selectGap  has seen `closed` false, not registered with notify yet    *)
(*   parked     all three branches pending                                 *)
(*   reserving, capGap, waiting   the same three in wait_for_capacity      *)
(*   writing    write_all to the local service                             *)
(*   sendData, sendAck, sendEof, sendErr   awaits room in its group of out *)
(*   ending     the function has returned  over   the entry is removed     *)
(***************************************************************************)
Places == {"none", "connecting", "select", "selectGap", "parked", "reserving",
           "capGap", "waiting", "writing", "sendData", "sendAck", "sendEof",
           "sendErr", "ending", "over"}

At(c) == handler[c].at
Bytes(c) == handler[c].n

Goto(c, place, n) == handler' = [handler EXCEPT ![c] = [at |-> place, n |-> n]]

(* The handler owns the receiver of its inbox until the function returns. *)
OwnsInbox(c) == At(c) \notin {"none", "sendErr", "ending", "over"}

(* DataChannel::notify.notify_waiters(): wakes the handler only if it is      *)
(* registered.  Given as the handler's next value, for the caller to combine. *)
WokenForCapacityOnly(c) ==                                         \* faulty variant
  IF At(c) = "waiting" THEN [handler[c] EXCEPT !.at = "reserving"] ELSE handler[c]
Woken(c) ==
  IF At(c) = "parked" THEN [handler[c] EXCEPT !.at = "select"]
  ELSE IF At(c) = "waiting" THEN [handler[c] EXCEPT !.at = "reserving"]
  ELSE handler[c]

Notify(c) ==
  /\ handler' = [handler EXCEPT ![c] = Woken(c)]
  /\ missed' = IF At(c) \in {"selectGap", "capGap"} THEN missed \cup {c}
               ELSE IF At(c) \in {"parked", "waiting"} THEN missed \ {c}
               ELSE missed

-----------------------------------------------------------------------------
(* The control loop: run_control_channel once the client is connected *)

AtSelect == loop.at = "select"
Deal(place, m) == loop' = [at |-> place, msg |-> m]
BackToSelect == loop' = [loop EXCEPT !.at = "select"]

(* to_server_rx.recv: the loop then awaits conn.send_message. *)
TakeOut ==
  /\ AtSelect
  /\ \E c \in Channels :
       /\ Fifo!Deliver(c)
       /\ Deal("sending", Head(out[c]))
  /\ UNCHANGED <<table, capacity, closed, missed, inbox, handler, up, down, socket, server>>

SendOut ==
  /\ loop.at = "sending"
  /\ Len(up) < NetSize
  /\ up' = Append(up, loop.msg)
  /\ BackToSelect
  /\ UNCHANGED <<table, capacity, closed, missed, inbox, handler, out, down, socket, server>>

Receives(c, kind) ==
  /\ AtSelect
  /\ down # <<>>
  /\ Head(down).group = c
  /\ Head(down).data.kind = kind
  /\ down' = Tail(down)

(* CreateDataChannelWithId *)
OnCreate(c) ==
  /\ Receives(c, "create")
  /\ table' = table \cup {c}
  /\ Goto(c, "connecting", 0)
  /\ UNCHANGED <<capacity, closed, missed, inbox, out, loop, up, socket, server>>

(* DataChannelData: the loop awaits room in the inbox of the channel. *)
OnData(c) ==
  /\ Receives(c, "data")
  /\ IF c \in table THEN Deal("forwarding", Head(down)) ELSE UNCHANGED loop
  /\ UNCHANGED <<table, capacity, closed, missed, inbox, handler, out, up, socket, server>>

ForwardAcking ==                                                   \* faulty variant
  LET c == loop.msg.group
  IN  /\ loop.at = "forwarding"
      /\ Len(inbox[c]) < InboxSize
      /\ inbox' = [inbox EXCEPT ![c] = Append(@, loop.msg.data.n)]
      /\ Fifo!Accept(Msg(c, "ack", loop.msg.data.n))
      /\ BackToSelect
      /\ UNCHANGED <<table, capacity, closed, missed, handler, up, down, socket, server>>
Forward ==
  LET c == loop.msg.group
  IN  /\ loop.at = "forwarding"
      /\ \/ /\ OwnsInbox(c)
            /\ Len(inbox[c]) < InboxSize
            /\ inbox' = [inbox EXCEPT ![c] = Append(@, loop.msg.data.n)]
            /\ UNCHANGED table
         \/ /\ ~ OwnsInbox(c)
            /\ table' = table \ {c}
            /\ UNCHANGED inbox
      /\ BackToSelect
      /\ UNCHANGED <<capacity, closed, missed, handler, out, up, down, socket, server>>

(* DataChannelEof *)
OnEof(c) ==
  /\ Receives(c, "eof")
  /\ IF c \in table
     THEN /\ table' = table \ {c}
          /\ closed' = [closed EXCEPT ![c] = TRUE]
          /\ Notify(c)
     ELSE UNCHANGED <<table, closed, handler, missed>>
  /\ UNCHANGED <<capacity, inbox, out, loop, up, socket, server>>

(* DataChannelAck: add_capacity *)
OnAckSilently(c) ==                                                \* faulty variant
  /\ Receives(c, "ack")
  /\ IF c \in table
     THEN capacity' = [capacity EXCEPT ![c] = @ + Head(down).data.n]
     ELSE UNCHANGED capacity
  /\ UNCHANGED <<table, closed, handler, missed, inbox, out, loop, up, socket, server>>
OnAckRestoring(c) ==                                               \* faulty variant
  /\ Receives(c, "ack")
  /\ capacity' = [capacity EXCEPT ![c] = Window]
  /\ Notify(c)
  /\ UNCHANGED <<table, closed, inbox, out, loop, up, socket, server>>
OnAck(c) ==
  /\ Receives(c, "ack")
  /\ IF c \in table
     THEN /\ capacity' = [capacity EXCEPT ![c] = @ + Head(down).data.n]
          /\ Notify(c)
     ELSE UNCHANGED <<capacity, handler, missed>>
  /\ UNCHANGED <<table, closed, inbox, out, loop, up, socket, server>>

-----------------------------------------------------------------------------
(* The handler task: handle_tcp_data_channel and the closure that spawns it *)

InSelect(c) == At(c) \in {"select", "parked"}

Connect(c) ==
  /\ At(c) = "connecting"
  /\ \/ socket[c].state # "broken" /\ Goto(c, "select", 0)
     \/ Goto(c, "sendErr", 0)
  /\ UNCHANGED <<table, capacity, closed, missed, inbox, out, loop, up, down, socket, server>>

(* data_channel.closed(): load the flag; if it is not set register, which    *)
(* parks the task, since the other branches have been polled as well.        *)
SeeOpen(c) ==
  /\ At(c) = "select"
  /\ ~ closed[c]
  /\ Goto(c, "selectGap", 0)
  /\ UNCHANGED <<table, capacity, closed, missed, inbox, out, loop, up, down, socket, server>>

SeeClosed(c) ==
  /\ At(c) = "select"
  /\ closed[c]
  /\ Goto(c, "ending", 0)
  /\ UNCHANGED <<table, capacity, closed, missed, inbox, out, loop, up, down, socket, server>>

Register(c) ==
  /\ \/ At(c) = "selectGap" /\ Goto(c, "parked", 0)
     \/ At(c) = "capGap" /\ Goto(c, "waiting", Bytes(c))
  /\ UNCHANGED <<table, capacity, closed, missed, inbox, out, loop, up, down, socket, server>>

(* local_stream.read returns some bytes: the task goes on to wait for capacity *)
(* inside the branch, where it reads neither its inbox nor `closed`.           *)
ReadLocal(c) ==
  /\ InSelect(c)
  /\ \E n \in 1..MaxRead :
       /\ n <= socket[c].avail
       /\ socket' = [socket EXCEPT ![c].avail = @ - n]
       /\ Goto(c, "reserving", n)
  /\ missed' = missed \ {c}
  /\ UNCHANGED <<table, capacity, closed, inbox, out, loop, up, down, server>>

ReadEof(c) ==
  /\ InSelect(c)
  /\ socket[c].state = "eof" /\ socket[c].avail = 0
  /\ Goto(c, "sendEof", 0)
  /\ missed' = missed \ {c}
  /\ UNCHANGED <<table, capacity, closed, inbox, out, loop, up, down, socket, server>>

ReadError(c) ==
  /\ InSelect(c)
  /\ socket[c].state = "broken"
  /\ Goto(c, "sendErr", 0)
  /\ missed' = missed \ {c}
  /\ UNCHANGED <<table, capacity, closed, inbox, out, loop, up, down, socket, server>>

(* One turn of the loop of wait_for_capacity.  Only this task takes capacity  *)
(* of the channel, and an acknowledgement that changes it in between makes    *)
(* the compare-and-exchange try again with more.                              *)
ReserveUnchecked(c) ==                                             \* faulty variant
  /\ At(c) = "reserving"
  /\ capacity' = [capacity EXCEPT ![c] = @ - Bytes(c)]
  /\ Goto(c, "sendData", Bytes(c))
  /\ UNCHANGED <<table, closed, missed, inbox, out, loop, up, down, socket, server>>
ReserveStrictly(c) ==                                              \* faulty variant
  /\ At(c) = "reserving"
  /\ ~ closed[c]
  /\ \/ /\ capacity[c] > Bytes(c)
        /\ capacity' = [capacity EXCEPT ![c] = @ - Bytes(c)]
        /\ Goto(c, "sendData", Bytes(c))
     \/ capacity[c] <= Bytes(c) /\ Goto(c, "capGap", Bytes(c)) /\ UNCHANGED capacity
  /\ UNCHANGED <<table, closed, missed, inbox, out, loop, up, down, socket, server>>
Reserve(c) ==
  /\ At(c) = "reserving"
  /\ \/ closed[c] /\ Goto(c, "ending", 0) /\ UNCHANGED capacity
     \/ /\ ~ closed[c]
        /\ capacity[c] >= Bytes(c)
        /\ capacity' = [capacity EXCEPT ![c] = @ - Bytes(c)]
        /\ Goto(c, "sendData", Bytes(c))
     \/ /\ ~ closed[c]
        /\ capacity[c] < Bytes(c)
        /\ Goto(c, "capGap", Bytes(c))
        /\ UNCHANGED capacity
  /\ UNCHANGED <<table, closed, missed, inbox, out, loop, up, down, socket, server>>

(* data_rx.recv returns data: write_all to the local service. *)
TakeInbox(c) ==
  /\ InSelect(c)
  /\ inbox[c] # <<>>
  /\ inbox' = [inbox EXCEPT ![c] = Tail(@)]
  /\ Goto(c, "writing", Head(inbox[c]))
  /\ missed' = missed \ {c}
  /\ UNCHANGED <<table, capacity, closed, out, loop, up, down, socket, server>>

(* The local service takes the data, or the write fails. *)
WriteUnacknowledged(c) ==                                          \* faulty variant
  /\ At(c) = "writing"
  /\ Goto(c, IF socket[c].state = "broken" THEN "sendErr" ELSE "select", 0)
  /\ UNCHANGED <<table, capacity, closed, missed, inbox, out, loop, up, down, socket, server>>
Write(c) ==
  /\ At(c) = "writing"
  /\ \/ socket[c].state # "broken" /\ Goto(c, "sendAck", Bytes(c))
     \/ socket[c].state = "broken" /\ Goto(c, "sendErr", 0)
  /\ UNCHANGED <<table, capacity, closed, missed, inbox, out, loop, up, down, socket, server>>

(* to_server_tx.send: one step once the group has room. *)
SendKind(c) ==
  CASE At(c) = "sendData" -> "data"
    [] At(c) = "sendAck" -> "ack"
    [] OTHER -> "eof"

AfterSend(c) == IF At(c) \in {"sendData", "sendAck"} THEN "select" ELSE "ending"

Send(c) ==
  /\ At(c) \in {"sendData", "sendAck", "sendEof", "sendErr"}
  /\ Fifo!Accept(Msg(c, SendKind(c), Bytes(c)))
  /\ Goto(c, AfterSend(c), 0)
  /\ UNCHANGED <<table, capacity, closed, missed, inbox, loop, up, down, socket, server>>

(* data_channels.remove after the function has returned *)
End(c) ==
  /\ At(c) = "ending"
  /\ Goto(c, "over", 0)
  /\ table' = table \ {c}
  /\ closed' = [closed EXCEPT ![c] = @ \/ c \in table]
  /\ UNCHANGED <<capacity, missed, inbox, out, loop, up, down, socket, server>>

-----------------------------------------------------------------------------
(* The environment *)

(* The service behind the channel closes or breaks the connection.  Its bytes *)
(* are there from the beginning; a handler may be as late as it likes to read *)
(* them, which is as good as a service that is late to send them.             *)
ServiceEnds(c, state) ==
  /\ socket[c].state = "open"
  /\ socket' = [socket EXCEPT ![c].state = state]
  /\ UNCHANGED <<clientVars, up, down, server>>

(* The server opens a channel for a visitor, forwards what the visitor sends *)
(* as far as its window goes, and says so when the visitor leaves.           *)
ServerOpens(c) ==
  /\ server[c].state = "new"
  /\ server' = [server EXCEPT ![c].state = "open"]
  /\ down' = Append(down, Msg(c, "create", 0))
  /\ UNCHANGED <<clientVars, up, socket>>

ServerSends(c) ==
  /\ server[c].state = "open"
  /\ \E n \in 1..ServerWindow :
       /\ n <= server[c].credit /\ n <= server[c].left
       /\ server' = [server EXCEPT ![c].credit = @ - n, ![c].left = @ - n]
       /\ down' = Append(down, Msg(c, "data", n))
  /\ UNCHANGED <<clientVars, up, socket>>

ServerCloses(c) ==
  /\ server[c].state = "open"
  /\ server' = [server EXCEPT ![c].state = "closed"]
  /\ down' = Append(down, Msg(c, "eof", 0))
  /\ UNCHANGED <<clientVars, up, socket>>

ServerTakes ==
  LET c == Head(up).group
      body == Head(up).data
  IN  /\ up # <<>>
      /\ up' = Tail(up)
      /\ \/ /\ body.kind = "data"
            /\ down' = IF server[c].state = "open" THEN Append(down, Msg(c, "ack", body.n)) ELSE down
            /\ UNCHANGED server
         \/ /\ body.kind = "ack"
            /\ server' = [server EXCEPT ![c].credit = @ + body.n]
            /\ UNCHANGED down
         \/ /\ body.kind = "eof"
            /\ server' = [server EXCEPT ![c].state = "closed"]
            /\ UNCHANGED down
      /\ UNCHANGED <<clientVars, socket>>

-----------------------------------------------------------------------------

Init ==
  /\ table = {}
  /\ capacity = [c \in Channels |-> Window]
  /\ closed = [c \in Channels |-> FALSE]
  /\ missed = {}
  /\ inbox = [c \in Channels |-> <<>>]
  /\ handler = [c \in Channels |-> [at |-> "none", n |-> 0]]
  /\ Fifo!Init
  /\ loop = [at |-> "select", msg |-> Msg(CHOOSE c \in Channels : TRUE, "create", 0)]
  /\ up = <<>>
  /\ down = <<>>
  /\ socket = [c \in Channels |-> [state |-> "open", avail |-> ServiceBytes[c]]]
  /\ server = [c \in Channels |-> [state |-> "new", credit |-> ServerWindow, left |-> ServerBytes[c]]]

LoopStep ==
  \/ TakeOut \/ SendOut \/ Forward
  \/ \E c \in Channels : OnCreate(c) \/ OnData(c) \/ OnEof(c) \/ OnAck(c)

HandlerStep(c) ==
  \/ Connect(c) \/ SeeOpen(c) \/ SeeClosed(c) \/ Register(c)
  \/ ReadLocal(c) \/ ReadEof(c) \/ ReadError(c) \/ Reserve(c)
  \/ TakeInbox(c) \/ Write(c) \/ Send(c) \/ End(c)

ServiceStep(c) == ServiceEnds(c, "eof") \/ ServiceEnds(c, "broken")

ServerStep(c) == ServerOpens(c) \/ ServerSends(c) \/ ServerCloses(c)

Next ==
  \/ LoopStep \/ ServerTakes
  \/ \E c \in Channels : HandlerStep(c) \/ ServiceStep(c) \/ ServerStep(c)

Spec == Init /\ [][Next]_vars

(* The runtime keeps running every task that can run, the local services take *)
(* what is written to them, and the server keeps reading the connection.      *)
Fairness ==
  /\ WF_vars(LoopStep)
  /\ WF_vars(ServerTakes)
  /\ \A c \in Channels : WF_vars(HandlerStep(c))

FairSpec == Spec /\ Fairness

-----------------------------------------------------------------------------
(* Properties *)

(* The state has its shape; in particular the capacity of a channel, a u32  *)
(* that fetch_add and the compare-and-exchange change, is never overdrawn.  *)
TypeOK ==
  /\ table \subseteq Channels
  /\ capacity \in [Channels -> Nat]
  /\ closed \in [Channels -> BOOLEAN]
  /\ missed \subseteq Channels
  /\ inbox \in [Channels -> Seq(Nat \ {0})]
  /\ handler \in [Channels -> [at : Places, n : Nat]]
  /\ Fifo!TypeOK
  /\ loop.at \in {"select", "sending", "forwarding"}
  /\ loop.msg.group \in Channels

(* The sum of a sequence of sizes: the number of all their bytes, a byte being *)
(* the position of its size in the sequence and its own within that size.      *)
ByteCount(sizes) == Cardinality(UNION {{i} \X (1..sizes[i]) : i \in DOMAIN sizes})

(* What a message has of the bytes of one kind and channel, and all messages of *)
(* a sequence.                                                                 *)
Share(m, c, kind) == IF m.group = c /\ m.data.kind = kind THEN m.data.n ELSE 0
Total(s, c, kind) == ByteCount([i \in DOMAIN s |-> Share(s[i], c, kind)])

(* The message the control loop has popped or received and not passed on. *)
Held(place) == IF loop.at = place THEN <<loop.msg>> ELSE <<>>

(* What the client has sent for the channel and the server has not taken, and  *)
(* what the server has sent and the loop has not handed to the channel's inbox. *)
Outgoing(c, kind) == Total(up, c, kind) + Total(Held("sending"), c, kind) + Total(out[c], c, kind)
Incoming(c, kind) == Total(down, c, kind) + Total(Held("forwarding"), c, kind)

HeldBytes(c, places) == IF At(c) \in places THEN Bytes(c) ELSE 0

(* The client's window, as long as the channel is open on both sides: each    *)
(* byte is free, in a data message that waits, travels or is held by a task,  *)
(* or in an acknowledgement on its way back.                                  *)
ClientWindowConserved ==
  \A c \in table :
    server[c].state = "open" =>
      capacity[c] + HeldBytes(c, {"sendData"}) + Outgoing(c, "data") + Incoming(c, "ack")
        = Window

(* The same of the server's window, until the handler gives up its inbox: the *)
(* client acknowledges each byte it has written to the service, once.         *)
ServerWindowConserved ==
  \A c \in Channels :
    At(c) \notin {"sendErr", "ending", "over"} =>
      server[c].credit + Incoming(c, "data") + ByteCount(inbox[c])
        + HeldBytes(c, {"writing", "sendAck"}) + Outgoing(c, "ack") = ServerWindow

(* No byte of either window is lost or counted twice, so that capacity never  *)
(* exceeds the window, nor wraps, and neither side stalls the other.          *)
WindowsConserved == ClientWindowConserved /\ ServerWindowConserved

(* A handler sleeps although its channel is closed or has the capacity it     *)
(* needs only if the notification came between its check and notified().      *)
SleepsOnlyIfMissed ==
  \A c \in Channels \ missed :
    /\ At(c) = "waiting" => ~ closed[c] /\ capacity[c] < Bytes(c)
    /\ At(c) = "parked" => ~ closed[c]

(* Nobody waits for what will not come: a handler that waits for capacity is  *)
(* owed acknowledgements, and a server out of credit too, as long as its      *)
(* handler is there; what they are owed is in a queue, in a task's hand or on *)
(* the connection, unless the notification was missed.                        *)
WaitersAreOwedAcks ==
  \A c \in Channels :
    /\ At(c) = "waiting" /\ c \notin missed /\ server[c].state = "open"
         => Outgoing(c, "data") + Incoming(c, "ack") > 0
    /\ server[c].credit = 0 /\ At(c) \notin {"sendErr", "ending", "over"}
         => Incoming(c, "data") + ByteCount(inbox[c])
              + HeldBytes(c, {"writing", "sendAck"}) + Outgoing(c, "ack") > 0

(* The loop waits for room in the inbox of a channel, whose handler waits for *)
(* capacity, or for room in its group of `out`: what only the loop can bring. *)
CircularWait(c) ==
  /\ loop.at = "forwarding" /\ loop.msg.group = c
  /\ Len(inbox[c]) >= InboxSize
  /\ \/ At(c) \in {"capGap", "waiting"}
     \/ At(c) \in {"sendData", "sendAck", "sendEof"} /\ Len(out[c]) >= GroupSize

LoopIsStuck == \E c \in Channels : CircularWait(c)

(* Nothing but such a circle keeps the control loop from its select, where it *)
(* serves every channel: not a handler that ends with a full inbox, nor a     *)
(* missed notification, nor the bounded queues by themselves.                 *)
OnlyCirclesStopTheLoop == []<>(AtSelect \/ LoopIsStuck)

(* Apart from that, windows, bounded queues and the two directions do not     *)
(* lock each other up: bytes that a service has sent do not stay unread for   *)
(* ever, unless the channel is over or a notification was missed.             *)
UploadGoesOn ==
  \A c \in Channels :
    []<>(\/ ~ (socket[c].avail > 0 /\ OwnsInbox(c))
         \/ c \in missed \/ LoopIsStuck)

(* A handler whose channel the server has closed returns, wherever it is in   *)
(* its operations, unless it missed the notification or the loop is stuck.    *)
EofEndsHandler ==
  \A c \in Channels :
    []<>(closed[c] => At(c) = "over" \/ c \in missed \/ LoopIsStuck)

(* What the project says of its multiplexing, "one greedy flow cannot         *)
(* monopolize the whole channel": the control loop always comes back to serve *)
(* the others.  With inboxes of fewer messages than the server's window has   *)
(* bytes it does not: a handler waits for capacity, hence for an              *)
(* acknowledgement, inside a branch in which it does not empty its inbox, and *)
(* the loop that would hand it the acknowledgement waits for room there.      *)
LoopKeepsTurning == []<>AtSelect
=============================================================================
