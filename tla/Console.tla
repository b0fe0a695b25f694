------------------------------ MODULE Console ------------------------------
(***************************************************************************)
(* The command line program around a client: main_loop of                  *)
(* client/src/base.rs takes the events of the client, sends the requests   *)
(* of its command each time the client is connected, and ends when the     *)
(* command is answered.  Commands that need no connection (set, get,       *)
(* logout, ...) and the console's output are left out.                     *)
(***************************************************************************)
EXTENDS Session

CONSTANT
  Pings           (* the --num of ping                                       *)

ASSUME PingsIsNat == Pings \in Nat \ {0}

(***************************************************************************)
(* Kinds of commands, by what main_loop does with events:                  *)
(*   serve    run, publish, start, stop: one request, nothing ends them    *)
(*   ask      ls, clean, register, unpublish: one request, its answer ends *)
(*            (that of register if it is "online")                         *)
(*   ping     Pings requests, as many "online" answers end it              *)
(*   login    ends when connected                                          *)
(*   upgrade  asks for an upgrade when one is available                    *)
(***************************************************************************)
Kinds == {"serve", "ask", "ping", "login", "upgrade"}

VARIABLES
  command,    (* the kind of cli.command                                    *)
  console     (* where main_loop is: its place, requests still to send,     *)
              (* answers still to come (`pings`)                            *)

vars == <<sessionVars, command, console>>

(***************************************************************************)
(* Places: recv (awaits an event), sending (awaits room for a request or   *)
(* an upgrade), stopping (awaits room for Stop), returning, ended.        *)
(***************************************************************************)
ConsoleAt(place) == console.at = place

ConsoleGoto(place) == console' = [console EXCEPT !.at = place]

clientOnly == <<client, connected, session, dataVars, serverVars, announced, gone>>

Requests == CASE command = "ping" -> Pings [] command \in {"serve", "ask"} -> 1 [] OTHER -> 0

Takes(kind) ==
  /\ ConsoleAt("recv")
  /\ events # <<>>
  /\ Head(events) = kind
  /\ events' = Tail(events)

-----------------------------------------------------------------------------

SendRequestsOnce ==                                                \* faulty variant
  /\ Takes("connected")
  /\ console' = IF command = "login" THEN [console EXCEPT !.at = "stopping"]
                ELSE IF Requests = 0 \/ session > 1 THEN console
                ELSE [at |-> "sending", send |-> Requests, pings |-> Requests]
  /\ UNCHANGED <<clientOnly, commands, command>>
OnConnected ==
  /\ Takes("connected")
  /\ console' = IF command = "login" THEN [console EXCEPT !.at = "stopping"]
                ELSE IF Requests = 0 THEN console
                ELSE [at |-> "sending", send |-> Requests, pings |-> Requests]
  /\ UNCHANGED <<clientOnly, commands, command>>

(* A ping is measured over its endpoint, which may fail. *)
OnAnswerEvent ==
  /\ Takes("answer")
  /\ \/ command = "ask" /\ ConsoleGoto("stopping")
     \/ /\ command = "ping"
        /\ \/ console' = [console EXCEPT !.pings = @ - 1,
                                         !.at = IF console.pings = 1 THEN "stopping" ELSE @]
           \/ ConsoleGoto("returning")
     \/ command \notin {"ask", "ping"} /\ UNCHANGED console
  /\ UNCHANGED <<clientOnly, commands, command>>

OnFatal ==
  /\ Takes("fatal")
  /\ console' = [console EXCEPT !.at = "stopping"]
  /\ UNCHANGED <<clientOnly, commands, command>>

OnUpgradeAvailable ==
  /\ Takes("notice")
  /\ IF command = "upgrade" THEN console' = [console EXCEPT !.at = "sending", !.send = 1]
     ELSE UNCHANGED console
  /\ UNCHANGED <<clientOnly, commands, command>>

OnOther ==
  /\ \E kind \in {"connecting", "disconnected", "error", "notOnline"} : Takes(kind)
  /\ UNCHANGED <<clientOnly, commands, command, console>>

(* result_rx.recv returns None: the client has ended, and its sender with it. *)
OnClientEnded ==
  /\ ConsoleAt("recv")
  /\ events = <<>>
  /\ At("exited")
  /\ ConsoleGoto("returning")
  /\ UNCHANGED <<clientOnly, events, commands, command>>

(* command_tx.send; it fails when the client has ended. *)
SendCommand ==
  /\ ConsoleAt("sending")
  /\ \/ /\ ~ At("exited")
        /\ Len(commands) < CommandRoom
        /\ commands' = Append(commands, IF command = "upgrade" THEN "upgrade" ELSE "request")
        /\ console' = [console EXCEPT !.send = @ - 1,
                                      !.at = IF console.send = 1 THEN "recv" ELSE @]
     \/ At("exited") /\ ConsoleGoto("returning") /\ UNCHANGED commands
  /\ UNCHANGED <<clientOnly, events, command>>

SendStop ==
  /\ ConsoleAt("stopping")
  /\ \/ /\ ~ At("exited")
        /\ Len(commands) < CommandRoom
        /\ commands' = Append(commands, "stop")
     \/ At("exited") /\ UNCHANGED commands
  /\ ConsoleGoto("returning")
  /\ UNCHANGED <<clientOnly, events, command>>

(* main_loop returns and drops both queues. *)
Return ==
  /\ ConsoleAt("returning")
  /\ ConsoleGoto("ended")
  /\ gone' = TRUE
  /\ UNCHANGED <<client, connected, session, dataVars, serverVars, announced, events, commands, command>>

ConsoleStep ==
  /\ ~ At("replaced")
  /\ \/ OnConnected \/ OnAnswerEvent \/ OnFatal \/ OnUpgradeAvailable \/ OnOther
     \/ OnClientEnded \/ SendCommand \/ SendStop \/ Return

-----------------------------------------------------------------------------

ConsoleInit ==
  /\ Init
  /\ command \in Kinds
  /\ console = [at |-> "recv", send |-> 0, pings |-> 1]

ClientStep == Next /\ UNCHANGED <<command, console>>

ConsoleNext == ClientStep \/ ConsoleStep

Spec == ConsoleInit /\ [][ConsoleNext]_vars

(* That of the client, and the console's task runs. *)
FairSpec ==
  /\ Spec
  /\ SessionFairness
  /\ WF_vars(ConsoleStep)

-----------------------------------------------------------------------------
(* Properties *)

(* The state has its shape. *)
TypeOK ==
  /\ SessionTypeOK
  /\ command \in Kinds
  /\ console \in [at : {"recv", "sending", "stopping", "returning", "ended"},
                  send : Nat, pings : 0..Pings]

(* The client waits for the program to take an event while the program waits  *)
(* for the client to take a command: neither moves again.                     *)
CircularWait ==
  /\ At("emitting") /\ Len(events) = EventRoom
  /\ console.at \in {"sending", "stopping"} /\ Len(commands) = CommandRoom

(* An EndpointAck that the console does not count, base.rs:344.               *)
PassesOnNotOnline == At("emitting") /\ client.todo = <<"notOnline">>

(* A command that waits for answers ends, with or without them, however       *)
(* sessions fail between its requests and the answers: unless an upgrade      *)
(* swallows its request or an answer is not "online", all that can keep it    *)
(* from its end is that console and client wait for each other.               *)
CommandEnds ==
  [](~ At("upgrading") /\ ~ PassesOnNotOnline) =>
    (command \in {"ask", "ping", "login"} ~> ConsoleAt("ended") \/ CircularWait)
=============================================================================
