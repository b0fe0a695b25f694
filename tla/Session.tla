------------------------------ MODULE Session ------------------------------
(***************************************************************************)
(* The life of a client: `run` and `run_control_channel` of                *)
(* client/src/client.rs.  The client dials the server, says hello, serves  *)
(* the connection from one select!, and after a failure reports it, clears *)
(* its tables, waits and dials again.  The program that embeds it sends    *)
(* commands and takes events through two bounded queues.                   *)
(*                                                                         *)
(* Tunnel models what the data branches of the select! do within one       *)
(* session; here a data channel is an id in the table and a handler task,  *)
(* which may outlive its session.  Progress events and the contents of     *)
(* messages are left out.  The server is external.                         *)
(***************************************************************************)
EXTENDS Naturals, Sequences

CONSTANTS
  Ids,            (* data channel ids; the server may use them again in a    *)
                  (* later session                                           *)
  CommandRoom,    (* size of the mpsc channel of commands (1024)             *)
  EventRoom,      (* size of the mpsc channel of results (1024)              *)
  Notices,        (* bound: messages that the server sends unasked           *)
  MaxSessions     (* bound: connections made; the last one does not fail     *)

ASSUME RoomIsPositive == CommandRoom \in Nat \ {0} /\ EventRoom \in Nat \ {0}

ASSUME BoundsAreNat == MaxSessions \in Nat \ {0} /\ Notices \in Nat

States == {"connecting", "connected", "disconnected"}
Events == States \cup {"error", "fatal", "answer", "notOnline", "notice"}
Commands == {"request", "upgrade", "stop"}

VARIABLES
  client,     (* where the task is, and the events it must send before `next` *)
  connected,  (* Client::connected                                          *)
  session,    (* how many connections were made so far                      *)
  table,      (* Client::data_channels: id -> session of the handler, or 0  *)
  handlers,   (* handler tasks that run: id and session                     *)
  asked,      (* external: requests the server has still to answer          *)
  notices,    (* external: messages it may still send unasked               *)
  commands,   (* command_rx                                                 *)
  events,     (* result_tx                                                  *)
  announced,  (* history: the last ConnectState put in events, or "none"    *)
  gone        (* the program has dropped its ends of both queues            *)

dataVars == <<table, handlers>>
serverVars == <<asked, notices>>
programVars == <<commands, events, announced, gone>>
sessionVars == <<client, connected, session, dataVars, serverVars, programVars>>

(***************************************************************************)
(* Places of the client task.                                              *)
(*   emitting   awaits room in the queue of results for the events of todo *)
(*   dialing    transport.connect      hello     awaits the answer to hello *)
(*   up         at its select!         upgrading in handle_upgrade_available *)
(*   failed     run_control_channel has returned an error                  *)
(*   clearing   clears the tables and waits before it dials again          *)
(*   closing    run leaves its loop                                        *)
(*   exited     run has returned       replaced  the process ended for an   *)
(*                                               upgrade                   *)
(***************************************************************************)
Places == {"emitting", "dialing", "hello", "up", "upgrading", "failed",
           "clearing", "closing", "exited", "replaced"}

At(place) == client.at = place

Goto(place) == client' = [at |-> place, todo |-> <<>>, next |-> place]

Announce(todo, place) == client' = [at |-> "emitting", todo |-> todo, next |-> place]

Handler(id, s) == [id |-> id, session |-> s]

(* Bound of the model: there is another connection to be had. *)
MayFail == session < MaxSessions

EmptyTable == [id \in Ids |-> 0]

(* handle_upgrade_available, at the request of the program or the server *)
Upgrade(who) == client' = [at |-> "upgrading", todo |-> <<>>, next |-> who]

-----------------------------------------------------------------------------
(* result_tx.send: awaits room, or fails when the receiver is dropped.  In    *)
(* run a failure ends the client; in run_control_channel it ends the session. *)

EmitWithoutRoom ==                                               \* faulty variant
  /\ At("emitting")
  /\ ~ gone
  /\ events' = Append(events, Head(client.todo))
  /\ announced' = IF Head(client.todo) \in States THEN Head(client.todo) ELSE announced
  /\ IF Len(client.todo) = 1 THEN Goto(client.next)
     ELSE client' = [client EXCEPT !.todo = Tail(@)]
  /\ UNCHANGED <<connected, session, dataVars, serverVars, commands, gone>>
Emit ==
  /\ At("emitting")
  /\ ~ gone
  /\ Len(events) < EventRoom
  /\ events' = Append(events, Head(client.todo))
  /\ announced' = IF Head(client.todo) \in States THEN Head(client.todo) ELSE announced
  /\ IF Len(client.todo) = 1 THEN Goto(client.next)
     ELSE client' = [client EXCEPT !.todo = Tail(@)]
  /\ UNCHANGED <<connected, session, dataVars, serverVars, commands, gone>>

EmitFails ==
  /\ At("emitting")
  /\ gone
  /\ Goto(IF client.next \in {"dialing", "clearing"} THEN "exited" ELSE "failed")
  /\ UNCHANGED <<connected, session, dataVars, serverVars, programVars>>

-----------------------------------------------------------------------------
(* run_control_channel until the client is connected *)

DialOk ==
  /\ At("dialing")
  /\ session < MaxSessions
  /\ session' = session + 1
  /\ connected' = TRUE
  /\ Goto("hello")
  /\ UNCHANGED <<dataVars, serverVars, programVars>>

DialFails ==
  /\ At("dialing")
  /\ Goto("failed")
  /\ UNCHANGED <<connected, session, dataVars, serverVars, programVars>>

(* AgentAck; then, unless the token cannot be saved, the client is connected. *)
HelloAck ==
  /\ At("hello")
  /\ Announce(<<"connected">>, "up")
  /\ UNCHANGED <<connected, session, dataVars, serverVars, programVars>>

Redirect ==
  /\ At("hello")
  /\ MayFail
  /\ Goto("dialing")
  /\ UNCHANGED <<connected, session, dataVars, serverVars, programVars>>

(* The server refuses the agent: the error is passed on, the session fails.   *)
HelloRefused ==
  /\ At("hello")
  /\ MayFail
  /\ \E kind \in {"error", "fatal"} : Announce(<<kind>>, "failed")
  /\ UNCHANGED <<connected, session, dataVars, serverVars, programVars>>

HelloFails ==
  /\ At("hello")
  /\ MayFail
  /\ Goto("failed")
  /\ UNCHANGED <<connected, session, dataVars, serverVars, programVars>>

-----------------------------------------------------------------------------
(* The select! of run_control_channel *)

(* command_rx.recv, with the send to the server if the command is for it; the *)
(* command is gone from the queue even if that send fails.                    *)
TakeRequest ==
  /\ At("up")
  /\ commands # <<>>
  /\ Head(commands) = "request"
  /\ commands' = Tail(commands)
  /\ \/ asked' = asked + 1 /\ UNCHANGED client
     \/ UNCHANGED asked /\ MayFail /\ Goto("failed")
  /\ UNCHANGED <<connected, session, dataVars, events, announced, notices, gone>>

TakeUpgrade ==
  /\ At("up")
  /\ commands # <<>>
  /\ Head(commands) = "upgrade"
  /\ commands' = Tail(commands)
  /\ Upgrade("program")
  /\ UNCHANGED <<connected, session, dataVars, serverVars, events, announced, gone>>

TakeStop ==
  /\ At("up")
  /\ commands # <<>>
  /\ Head(commands) = "stop"
  /\ commands' = Tail(commands)
  /\ Announce(<<"disconnected">>, "closing")
  /\ UNCHANGED <<connected, session, dataVars, serverVars, events, announced, gone>>

(* The command queue is closed and empty. *)
NoMoreCommandsIgnored ==                                           \* faulty variant
  /\ At("up")
  /\ gone /\ commands = <<>>
  /\ UNCHANGED sessionVars
NoMoreCommands ==
  /\ At("up")
  /\ gone /\ commands = <<>>
  /\ Announce(<<"disconnected">>, "closing")
  /\ UNCHANGED <<connected, session, dataVars, serverVars, programVars>>

(* EndpointAck, EndpointListAck, EndpointStopAck and the like: the answer to  *)
(* a request is passed on.  An EndpointAck need not say "online": it may      *)
(* carry an error, or the plugin of its protocol is still to be set up.       *)
OnAnswer ==
  /\ At("up")
  /\ asked > 0
  /\ asked' = asked - 1
  /\ \E kind \in {"answer", "notOnline"} : Announce(<<kind>>, "up")
  /\ UNCHANGED <<connected, session, dataVars, programVars, notices>>

(* What the server says unasked, such as UpgradeAvailable, is passed on. *)
OnNotice ==
  /\ At("up")
  /\ notices > 0
  /\ notices' = notices - 1
  /\ Announce(<<"notice">>, "up")
  /\ UNCHANGED <<connected, session, dataVars, asked, programVars>>

(* Error: passed on; Fatal and AuthFailed end the client. *)
OnError ==
  /\ At("up")
  /\ Announce(<<"error">>, "up") \/ Announce(<<"fatal", "disconnected">>, "closing")
  /\ UNCHANGED <<connected, session, dataVars, serverVars, programVars>>

(* CreateDataChannelWithId *)
OnCreate(id) ==
  /\ At("up")
  /\ Handler(id, session) \notin handlers
  /\ table' = [table EXCEPT ![id] = session]
  /\ handlers' = handlers \cup {Handler(id, session)}
  /\ UNCHANGED <<client, connected, session, serverVars, programVars>>

(* DataChannelEof: the handler is told to end, which it does in its time. *)
OnEof(id) ==
  /\ At("up")
  /\ table[id] # 0
  /\ table' = [table EXCEPT ![id] = 0]
  /\ UNCHANGED <<client, connected, session, handlers, serverVars, programVars>>

(* PerformUpgrade: the tables are cleared while the session goes on. *)
OnUpgrade ==
  /\ At("up")
  /\ table' = EmptyTable
  /\ Upgrade("server")
  /\ UNCHANGED <<connected, session, handlers, serverVars, programVars>>

(* recv_message returns None: the server closed the connection, the stream    *)
(* ended, or a websocket ping or pong came.                                   *)
OnNone ==
  /\ At("up")
  /\ Announce(<<"disconnected">>, "closing")
  /\ UNCHANGED <<connected, session, dataVars, serverVars, programVars>>

(* recv_message or send_message fails, or the heartbeat times out. *)
ConnectionFails ==
  /\ At("up")
  /\ MayFail
  /\ Goto("failed")
  /\ UNCHANGED <<connected, session, dataVars, serverVars, programVars>>

(* handle_upgrade_available awaits nothing but the download, the installer    *)
(* and the commands: Stop, Break or a closed queue end it, anything else is   *)
(* dropped.                                                                   *)
UpgradeFails ==
  IF client.next = "program" THEN Announce(<<"fatal">>, "up")
  ELSE Goto("up") \/ (MayFail /\ Goto("failed"))

UpgradeStep ==
  /\ At("upgrading")
  /\ \/ /\ commands # <<>>
        /\ commands' = Tail(commands)
        /\ IF Head(commands) = "stop" THEN UpgradeFails ELSE UNCHANGED client
     \/ commands = <<>> /\ gone /\ UpgradeFails /\ UNCHANGED commands
     \/ (UpgradeFails \/ Goto("replaced")) /\ UNCHANGED commands
  /\ UNCHANGED <<connected, session, dataVars, serverVars, events, announced, gone>>

-----------------------------------------------------------------------------
(* run, after run_control_channel has returned *)

FailedSilently ==                                                  \* faulty variant
  /\ At("failed")
  /\ Goto(IF gone THEN "closing" ELSE "clearing")
  /\ connected' = FALSE
  /\ asked' = 0
  /\ UNCHANGED <<session, dataVars, programVars, notices>>
Failed ==
  /\ At("failed")
  /\ IF ~ gone /\ connected
     THEN /\ Announce(<<"error", "disconnected", "connecting">>, "clearing")
          /\ connected' = FALSE
     ELSE /\ Goto(IF gone THEN "closing" ELSE "clearing")
          /\ UNCHANGED connected
  /\ asked' = 0
  /\ UNCHANGED <<session, dataVars, programVars, notices>>

RetryKeepingTables ==                                              \* faulty variant
  /\ At("clearing")
  /\ Goto("dialing")
  /\ UNCHANGED <<connected, session, dataVars, serverVars, programVars>>
Retry ==
  /\ At("clearing")
  /\ table' = EmptyTable
  /\ Goto("dialing")
  /\ UNCHANGED <<connected, session, handlers, serverVars, programVars>>

Exit ==
  /\ At("closing")
  /\ table' = EmptyTable
  /\ asked' = 0
  /\ Goto("exited")
  /\ UNCHANGED <<connected, session, handlers, programVars, notices>>

-----------------------------------------------------------------------------
(* A handler returns, of this session or of an earlier one, and removes the   *)
(* entry of its id.                                                           *)
HandlerEnds(h) ==
  /\ handlers' = handlers \ {h}
  /\ table' = [table EXCEPT ![h.id] = 0]
  /\ UNCHANGED <<client, connected, session, serverVars, programVars>>

-----------------------------------------------------------------------------

Init ==
  /\ client = [at |-> "emitting", todo |-> <<"connecting">>, next |-> "dialing"]
  /\ connected = FALSE
  /\ session = 0
  /\ table = EmptyTable
  /\ handlers = {}
  /\ asked = 0
  /\ notices = Notices
  /\ commands = <<>>
  /\ events = <<>>
  /\ announced = "none"
  /\ gone = FALSE

TakeCommand == TakeRequest \/ TakeUpgrade \/ TakeStop \/ NoMoreCommands

(* What the task does without waiting for anybody but the program. *)
Proceed ==
  Emit \/ EmitFails \/ UpgradeStep \/ Failed \/ Retry \/ Exit

Greeting == HelloAck \/ Redirect \/ HelloRefused \/ HelloFails

Unasked == OnNotice \/ OnError \/ OnUpgrade \/ OnNone \/ ConnectionFails

Next ==
  \/ Proceed \/ DialOk \/ DialFails \/ Greeting \/ TakeCommand \/ OnAnswer \/ Unasked
  \/ \E id \in Ids : OnCreate(id) \/ OnEof(id)
  \/ \E h \in handlers : HandlerEnds(h)

(* The runtime runs the task; an attempt to dial or a greeting comes to an    *)
(* end; a server that can be reached again and again is reached; select! is   *)
(* not partial to a branch; the server answers requests.                      *)
SessionFairness ==
  /\ WF_sessionVars(Proceed)
  /\ WF_sessionVars(DialOk \/ DialFails)
  /\ SF_sessionVars(DialOk)
  /\ WF_sessionVars(Greeting)
  /\ SF_sessionVars(HelloAck)
  /\ SF_sessionVars(TakeCommand)
  /\ SF_sessionVars(OnAnswer)

-----------------------------------------------------------------------------
(* Properties *)

(* The state has its shape, and the queues keep to their sizes. *)
SessionTypeOK ==
  /\ client \in [at : Places, todo : Seq(Events), next : Places \cup {"program", "server"}]
  /\ connected \in BOOLEAN
  /\ session \in 0..MaxSessions
  /\ table \in [Ids -> 0..MaxSessions]
  /\ handlers \subseteq [id : Ids, session : 0..MaxSessions]
  /\ asked \in Nat /\ notices \in Nat
  /\ commands \in Seq(Commands) /\ Len(commands) <= CommandRoom
  /\ events \in Seq(Events) /\ Len(events) <= EventRoom
  /\ announced \in States \cup {"none"}
  /\ gone \in BOOLEAN

(* A program that follows the ConnectState events knows where the client is:  *)
(* it is connected exactly from Connected to the next Disconnected, it is     *)
(* told when a session has failed before the next attempt starts, and it sees *)
(* the client end.                                                            *)
EventsTellTheState ==
  /\ client.at \in {"up", "upgrading"} => announced = "connected"
  /\ client.at \in {"dialing", "hello"} => announced = "connecting"
  /\ client.at \in {"closing", "exited"} => announced = "disconnected" \/ gone

(* While the client serves a session its table has no handler of an earlier   *)
(* one: what the server sends on a channel cannot reach a connection that was *)
(* opened for another visitor in another session.                             *)
TableIsOfThisSession == At("up") => \A id \in Ids : table[id] \in {0, session}

(* When the program is gone the client ends, wherever it is and whether or    *)
(* not the server can be reached.                                             *)
GoneEndsClient == gone ~> client.at \in {"exited", "replaced"}

(* What the client promises, "automatic reconnection on failures": it ends    *)
(* only when it is told to, by the program or by a fatal error.  The code     *)
(* ends run whenever recv_message returns None.                               *)
EndsOnlyWhenTold ==
  [][client.next # "closing" /\ client'.next = "closing"
       => TakeStop \/ NoMoreCommands \/ OnError \/ Failed]_sessionVars
=============================================================================
