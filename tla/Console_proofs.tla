--------------------------- MODULE Console_proofs ---------------------------
(***************************************************************************)
(* Proofs about a client and its console, for any channel ids, queue       *)
(* sizes, and bounds: the type of the state, that the events tell where    *)
(* the client is, and that a session's table is its own.                   *)
(***************************************************************************)
EXTENDS Console, SequenceTheorems, TLAPS

(* While the console waits it expects an answer, while it sends it has        *)
(* something to send.                                                         *)
CountsAreLeft ==
  /\ ConsoleAt("recv") \/ ConsoleAt("sending") => console.pings > 0
  /\ ConsoleAt("sending") => console.send > 0

(* The events that are still to be sent on the way to each place.             *)
OnTheWayTo ==
  /\ client.next \in {"dialing", "clearing", "up", "closing", "failed"}
  /\ client.next \in {"dialing", "clearing"} =>
       client.todo \in {<<"connecting">>, <<"disconnected", "connecting">>,
                        <<"error", "disconnected", "connecting">>}
  /\ client.next = "up" =>
       \/ client.todo = <<"connected">>
       \/ /\ announced = "connected"
          /\ client.todo \in {<<"answer">>, <<"notOnline">>, <<"notice">>, <<"error">>, <<"fatal">>}
  /\ client.next = "closing" => client.todo \in {<<"disconnected">>, <<"fatal", "disconnected">>}
  /\ client.next = "failed" => client.todo \in {<<"error">>, <<"fatal">>}
  /\ client.next \in {"up", "failed"} => connected

(* What is announced when an attempt fails and before the next one: a failure *)
(* is passed over in silence only if nothing but "connecting" was announced.  *)
Announced ==
  /\ At("emitting") => OnTheWayTo
  /\ client.at \in {"hello", "up", "upgrading"} => connected
  /\ At("failed") => connected \/ gone \/ announced = "connecting"
  /\ At("clearing") => announced = "connecting"

(* A new session starts with an empty table.                                  *)
Dialing ==
  client.at \in {"dialing", "hello"} \/ (At("emitting") /\ client.next = "dialing")
Serving ==
  client.at \in {"up", "upgrading"} \/ (At("emitting") /\ client.next = "up")

TableFollowsSession ==
  /\ Dialing => \A id \in Ids : table[id] = 0
  /\ Serving => \A id \in Ids : table[id] \in {0, session}

IInv == TypeOK /\ CountsAreLeft /\ Announced /\ EventsTellTheState /\ TableFollowsSession
-----------------------------------------------------------------------------
(* Type correctness *)

ClientType == [at : Places, todo : Seq(Events), next : Places \cup {"program", "server"}]

(* All that is ever announced together is a sequence of events. *)
LEMMA Announcements ==
  /\ <<>> \in Seq(Events)
  /\ \A e \in Events : <<e>> \in Seq(Events)
  /\ <<"disconnected", "connecting">> \in Seq(Events)
  /\ <<"fatal", "disconnected">> \in Seq(Events)
  /\ <<"error", "disconnected", "connecting">> \in Seq(Events)
<1>1. <<>> \in Seq(Events)
  BY EmptySeq
<1> QED
  BY <1>1 DEF Events, States

(* What is left of an announcement. *)
LEMMA Remainders ==
  /\ \A e \in Events : Len(<<e>>) = 1 /\ Head(<<e>>) = e
  /\ Len(<<"disconnected", "connecting">>) = 2
  /\ Head(<<"disconnected", "connecting">>) = "disconnected"
  /\ Tail(<<"disconnected", "connecting">>) = <<"connecting">>
  /\ Len(<<"fatal", "disconnected">>) = 2
  /\ Head(<<"fatal", "disconnected">>) = "fatal"
  /\ Tail(<<"fatal", "disconnected">>) = <<"disconnected">>
  /\ Len(<<"error", "disconnected", "connecting">>) = 3
  /\ Head(<<"error", "disconnected", "connecting">>) = "error"
  /\ Tail(<<"error", "disconnected", "connecting">>) = <<"disconnected", "connecting">>
<1>1. ASSUME NEW a, NEW b
      PROVE  Tail(<<a, b>>) = <<b>>
  OBVIOUS
<1>2. ASSUME NEW a, NEW b, NEW c
      PROVE  Tail(<<a, b, c>>) = <<b, c>>
  OBVIOUS
<1> QED
  BY <1>1, <1>2

(* To go to a place, or to announce something on the way, gives a client. *)
LEMMA GotoIsTyped ==
  ASSUME NEW place \in Places, Goto(place)
  PROVE  client' \in ClientType
  BY Announcements DEF Goto, ClientType

LEMMA AnnounceIsTyped ==
  ASSUME NEW todo \in Seq(Events), NEW place \in Places, Announce(todo, place)
  PROVE  client' \in ClientType
<1>1. "emitting" \in Places
  BY DEF Places
<1> QED
  BY <1>1 DEF Announce, ClientType

LEMMA UpgradeIsTyped ==
  ASSUME NEW who \in {"program", "server"}, Upgrade(who)
  PROVE  client' \in ClientType
<1>1. "upgrading" \in Places
  BY DEF Places
<1> QED
  BY <1>1, Announcements DEF Upgrade, ClientType

(* An emission is the last one, and leads to the next place, or it leaves the *)
(* rest of the announcement.                                                  *)
LEMMA EmitGoesOn ==
  ASSUME client \in ClientType, OnTheWayTo, Emit
  PROVE  \/ /\ Goto(client.next)
            /\ client.next \in Places
            /\ \E e \in Events : client.todo = <<e>>
         \/ /\ client.todo \in {<<"disconnected", "connecting">>, <<"fatal", "disconnected">>,
                                <<"error", "disconnected", "connecting">>}
            /\ client' = [at |-> "emitting", todo |-> Tail(client.todo), next |-> client.next]
<1>1. client.next \in Places
  BY DEF OnTheWayTo, Places
<1>2. CASE \E e \in Events : client.todo = <<e>>
  <2>1. Len(client.todo) = 1
    BY <1>2, Remainders
  <2> QED
    BY <1>1, <1>2, <2>1 DEF Emit
<1>3. CASE client.todo \in {<<"disconnected", "connecting">>, <<"fatal", "disconnected">>,
                            <<"error", "disconnected", "connecting">>}
  <2>1. Len(client.todo) # 1
    BY <1>3, Remainders
  <2> DEFINE rest == Tail(client.todo)
  <2>2. client' = [client EXCEPT !.todo = rest] /\ client.at = "emitting"
    BY <2>1 DEF Emit, At
  <2> HIDE DEF rest
  <2>3. client' = [at |-> "emitting", todo |-> rest, next |-> client.next]
    BY <2>2 DEF ClientType
  <2> QED
    BY <1>3, <2>3 DEF rest
<1>4. /\ {"connecting", "connected", "answer", "notOnline", "notice", "error", "fatal"} \subseteq Events
      /\ "disconnected" \in Events
  BY DEF Events, States
<1> QED
  BY <1>2, <1>3, <1>4 DEF OnTheWayTo

(* Every step of the client takes it to a place, with events to announce. *)
LEMMA ClientIsTyped ==
  ASSUME SessionTypeOK, Announced, ClientStep
  PROVE  client' \in ClientType
<1>1. client \in ClientType
  BY DEF SessionTypeOK, ClientType
<1>2. /\ {"dialing", "hello", "up", "failed", "clearing", "closing", "exited",
          "replaced"} \subseteq Places
      /\ {"connecting", "connected", "disconnected", "answer", "notOnline", "notice", "error",
          "fatal"} \subseteq Events
  BY DEF Places, Events, States
<1>3. CASE Emit
  <2>1. OnTheWayTo
    BY <1>3 DEF Emit, Announced
  <2>2. CASE Goto(client.next) /\ client.next \in Places
    BY <2>2, GotoIsTyped
  <2>3. CASE /\ client.todo \in {<<"disconnected", "connecting">>, <<"fatal", "disconnected">>,
                                 <<"error", "disconnected", "connecting">>}
             /\ client' = [at |-> "emitting", todo |-> Tail(client.todo), next |-> client.next]
    <3>1. Tail(client.todo) \in Seq(Events)
      BY <1>2, <2>3, Remainders, Announcements
    <3>2. "emitting" \in Places
      BY DEF Places
    <3> QED
      BY <1>1, <2>3, <3>1, <3>2 DEF ClientType
  <2> QED
    BY <1>1, <1>3, <2>1, <2>2, <2>3, EmitGoesOn
<1>4. CASE EmitFails
  BY <1>2, <1>4, GotoIsTyped DEF EmitFails
<1>5. CASE DialOk \/ DialFails
  BY <1>2, <1>5, GotoIsTyped DEF DialOk, DialFails
<1>6. CASE Greeting
  BY <1>2, <1>6, GotoIsTyped, AnnounceIsTyped, Announcements
     DEF Greeting, HelloAck, Redirect, HelloRefused, HelloFails
<1>7. CASE TakeCommand
  BY <1>1, <1>2, <1>7, GotoIsTyped, AnnounceIsTyped, UpgradeIsTyped, Announcements
     DEF TakeCommand, TakeRequest, TakeUpgrade, TakeStop, NoMoreCommands
<1>8. CASE OnAnswer \/ Unasked
  BY <1>2, <1>8, GotoIsTyped, AnnounceIsTyped, UpgradeIsTyped, Announcements
     DEF OnAnswer, Unasked, OnNotice, OnError, OnUpgrade, OnNone, ConnectionFails
<1>9. CASE UpgradeStep
  BY <1>1, <1>2, <1>9, GotoIsTyped, AnnounceIsTyped, Announcements DEF UpgradeStep, UpgradeFails
<1>10. CASE Failed \/ Retry \/ Exit
  BY <1>2, <1>10, GotoIsTyped, AnnounceIsTyped, Announcements DEF Failed, Retry, Exit
<1>11. CASE \/ \E id \in Ids : OnCreate(id) \/ OnEof(id)
            \/ \E h \in handlers : HandlerEnds(h)
  BY <1>1, <1>11 DEF OnCreate, OnEof, HandlerEnds
<1> QED
  BY <1>3, <1>4, <1>5, <1>6, <1>7, <1>8, <1>9, <1>10, <1>11 DEF ClientStep, Next, Proceed

(* The client's part of the state keeps its type in every step of the client. *)
LEMMA ClientKeepsType ==
  ASSUME SessionTypeOK, Announced, ClientStep
  PROVE  SessionTypeOK'
<1> DEFINE Rest ==
      /\ connected \in BOOLEAN
      /\ session \in 0..MaxSessions
      /\ table \in [Ids -> 0..MaxSessions]
      /\ handlers \subseteq [id : Ids, session : 0..MaxSessions]
      /\ asked \in Nat /\ notices \in Nat
      /\ commands \in Seq(Commands) /\ Len(commands) <= CommandRoom
      /\ events \in Seq(Events) /\ Len(events) <= EventRoom
      /\ announced \in States \cup {"none"}
      /\ gone \in BOOLEAN
<1>1. client' \in ClientType
  BY ClientIsTyped
<1> SUFFICES Rest'
  BY <1>1 DEF SessionTypeOK, ClientType
<1>2. Rest /\ client \in ClientType
  BY DEF SessionTypeOK, ClientType
<1>3. /\ MaxSessions \in Nat /\ CommandRoom \in Nat /\ EventRoom \in Nat
      /\ EmptyTable \in [Ids -> 0..MaxSessions]
  BY RoomIsPositive, BoundsAreNat DEF EmptyTable
<1> USE DEF dataVars, serverVars, programVars
<1>4. CASE Emit
  <2>1. Head(client.todo) \in Events
    <3>1. OnTheWayTo
      BY <1>4 DEF Emit, Announced
    <3>2. /\ {"connecting", "connected", "disconnected", "answer", "notOnline", "notice", "error",
              "fatal"} \subseteq Events
      BY DEF Events, States
    <3> QED
      BY <1>2, <1>4, <3>1, <3>2, Remainders, EmitGoesOn
  <2>2. announced' \in States \cup {"none"}
    BY <1>2, <1>4 DEF Emit
  <2>3. events' \in Seq(Events) /\ Len(events') <= EventRoom
    BY <1>2, <1>3, <1>4, <2>1 DEF Emit
  <2> QED
    BY <1>2, <1>4, <2>2, <2>3 DEF Emit
<1>5. CASE DialOk
  BY <1>2, <1>3, <1>5 DEF DialOk
<1>6. CASE EmitFails \/ DialFails \/ Greeting
  BY <1>2, <1>6 DEF EmitFails, DialFails, Greeting, HelloAck, Redirect, HelloRefused, HelloFails
<1>7. CASE TakeCommand \/ UpgradeStep
  <2>1. CASE commands # <<>> /\ commands' = Tail(commands)
    <3>1. commands' \in Seq(Commands) /\ Len(commands') <= CommandRoom
      BY <1>2, <1>3, <2>1
    <3> QED
      BY <1>2, <1>7, <3>1
         DEF TakeCommand, TakeRequest, TakeUpgrade, TakeStop, NoMoreCommands, UpgradeStep
  <2>2. CASE commands' = commands
    BY <1>2, <1>7, <2>2
       DEF TakeCommand, TakeRequest, TakeUpgrade, TakeStop, NoMoreCommands, UpgradeStep
  <2> QED
    BY <1>7, <2>1, <2>2
       DEF TakeCommand, TakeRequest, TakeUpgrade, TakeStop, NoMoreCommands, UpgradeStep
<1>8. CASE OnAnswer \/ Unasked
  BY <1>2, <1>3, <1>8
     DEF OnAnswer, Unasked, OnNotice, OnError, OnUpgrade, OnNone, ConnectionFails
<1>9. CASE Failed
  BY <1>2, <1>9 DEF Failed
<1>12. CASE Retry \/ Exit
  BY <1>2, <1>3, <1>12 DEF Retry, Exit
<1>10. ASSUME NEW id \in Ids, OnCreate(id) \/ OnEof(id)
       PROVE  Rest'
  <2>1. Handler(id, session) \in [id : Ids, session : 0..MaxSessions]
    BY <1>2 DEF Handler
  <2>2. table' \in [Ids -> 0..MaxSessions]
    <3>1. CASE OnCreate(id)
      BY <1>2, <3>1 DEF OnCreate
    <3>2. CASE OnEof(id)
      BY <1>2, <1>3, <3>2 DEF OnEof
    <3> QED
      BY <1>10, <3>1, <3>2
  <2> QED
    BY <1>2, <1>10, <2>1, <2>2 DEF OnCreate, OnEof
<1>11. ASSUME NEW h \in handlers, HandlerEnds(h)
       PROVE  Rest'
  BY <1>2, <1>3, <1>11 DEF HandlerEnds
<1> QED
  BY <1>4, <1>5, <1>6, <1>7, <1>8, <1>9, <1>10, <1>11, <1>12 DEF ClientStep, Next, Proceed

(* What the console does leaves the client's part alone but for the queues.   *)
LEMMA ConsoleKeepsType ==
  ASSUME TypeOK, CountsAreLeft, ConsoleStep
  PROVE  TypeOK' /\ CountsAreLeft'
<1> USE RoomIsPositive, PingsIsNat
    DEF TypeOK, CountsAreLeft, ConsoleAt, ConsoleGoto, clientOnly, dataVars, serverVars
<1> DEFINE Unmoved == UNCHANGED <<client, connected, session, table, handlers, asked,
                                  notices, announced, command>>
<1>1. ASSUME NEW kind, Takes(kind), Unmoved, UNCHANGED <<gone, commands>>
      PROVE  SessionTypeOK'
  <2>1. events' \in Seq(Events) /\ Len(events') <= EventRoom
    BY <1>1 DEF Takes, SessionTypeOK
  <2> QED
    BY <1>1, <2>1 DEF SessionTypeOK
<1>2. Requests \in Nat /\ Requests \in 0..Pings
  BY DEF Requests
<1>3. CASE OnConnected
  BY <1>1, <1>2, <1>3 DEF OnConnected, Takes
<1>4. CASE OnAnswerEvent
  <2>1. SessionTypeOK'
    BY <1>1, <1>4 DEF OnAnswerEvent
  <2>2. console.at = "recv" /\ console.pings \in 1..Pings
    BY <1>4 DEF OnAnswerEvent, Takes
  <2>3. \/ /\ console'.at \in {"recv", "stopping"} /\ console'.pings = console.pings - 1
           /\ console.pings = 1 => console'.at = "stopping"
        \/ console'.at \in {"stopping", "returning"} /\ console'.pings = console.pings
        \/ console' = console
    BY <1>4, <2>2 DEF OnAnswerEvent
  <2>4. console' = [at |-> console'.at, send |-> console.send, pings |-> console'.pings]
    BY <1>4 DEF OnAnswerEvent
  <2>5. command' = command
    BY <1>4 DEF OnAnswerEvent
  <2>6. console'.pings \in 0..Pings /\ (console'.at = "recv" => console'.pings > 0)
    BY <2>2, <2>3
  <2> QED
    BY <2>1, <2>2, <2>3, <2>4, <2>5, <2>6
<1>5. CASE OnFatal \/ OnUpgradeAvailable \/ OnOther
  <2>1. SessionTypeOK'
    BY <1>1, <1>5 DEF OnFatal, OnUpgradeAvailable, OnOther
  <2>2. console.at = "recv" /\ command' = command
    BY <1>5 DEF OnFatal, OnUpgradeAvailable, OnOther, Takes
  <2>3. CASE OnFatal
    BY <2>1, <2>2, <2>3 DEF OnFatal
  <2>4. CASE OnUpgradeAvailable
    <3>1. \/ console' = [at |-> "sending", send |-> 1, pings |-> console.pings]
          \/ console' = console
      BY <2>4 DEF OnUpgradeAvailable
    <3> QED
      BY <2>1, <2>2, <3>1
  <2>5. CASE OnOther
    BY <2>1, <2>2, <2>5 DEF OnOther
  <2> QED
    BY <1>5, <2>3, <2>4, <2>5
<1>6. CASE OnClientEnded
  BY <1>6 DEF OnClientEnded, SessionTypeOK
<1>7. CASE SendCommand \/ SendStop
  <2>1. ASSUME NEW c \in Commands, Len(commands) < CommandRoom, commands' = Append(commands, c)
        PROVE  commands' \in Seq(Commands) /\ Len(commands') <= CommandRoom
    BY <2>1 DEF SessionTypeOK
  <2>2. commands' \in Seq(Commands) /\ Len(commands') <= CommandRoom
    BY <1>7, <2>1 DEF SendCommand, SendStop, SessionTypeOK, Commands
  <2>3. SessionTypeOK'
    BY <1>7, <2>2 DEF SendCommand, SendStop, SessionTypeOK
  <2>4. CASE SendStop
    BY <2>3, <2>4 DEF SendStop
  <2>5. CASE SendCommand
    <3>1. console.at = "sending" /\ console.send \in Nat \ {0}
      BY <2>5 DEF SendCommand
    <3>2. \/ /\ console'.send = console.send - 1
             /\ console'.at = IF console.send = 1 THEN "recv" ELSE "sending"
          \/ console'.at = "returning" /\ console'.send = console.send
      BY <2>5, <3>1 DEF SendCommand
    <3>3. console' = [at |-> console'.at, send |-> console'.send, pings |-> console.pings]
      BY <2>5 DEF SendCommand
    <3>4. console'.send \in Nat /\ (console'.at = "sending" => console'.send > 0)
      BY <3>1, <3>2
    <3>5. console'.at \in {"recv", "sending", "returning"}
      BY <3>2
    <3>6. command' = command /\ console'.pings = console.pings
      BY <2>5 DEF SendCommand
    <3> QED
      BY <2>3, <3>1, <3>3, <3>4, <3>5, <3>6
  <2> QED
    BY <1>7, <2>4, <2>5
<1>8. CASE Return
  BY <1>8 DEF Return, SessionTypeOK
<1> QED
  BY <1>3, <1>4, <1>5, <1>6, <1>7, <1>8 DEF ConsoleStep

-----------------------------------------------------------------------------
(* The events tell where the client is *)

(* Each step of the client announces what the place it goes to requires.      *)
LEMMA ClientKeepsAnnounced ==
  ASSUME SessionTypeOK, Announced, EventsTellTheState, ClientStep
  PROVE  Announced' /\ EventsTellTheState'
<1> USE DEF Announced, EventsTellTheState, OnTheWayTo, At, Goto, Announce, Upgrade,
            dataVars, serverVars, programVars, States
<1>1. CASE Emit
  <2>1. client \in ClientType /\ OnTheWayTo
    BY <1>1 DEF Emit, SessionTypeOK, ClientType
  <2>2. CASE /\ Goto(client.next)
             /\ \E e \in Events : client.todo = <<e>>
    <3>1. client.todo = <<Head(client.todo)>>
      BY <2>2, Remainders
    <3> QED
      BY <1>1, <2>1, <2>2, <3>1, Remainders DEF Emit
  <2>3. CASE /\ client.todo \in {<<"disconnected", "connecting">>, <<"fatal", "disconnected">>,
                                 <<"error", "disconnected", "connecting">>}
             /\ client' = [at |-> "emitting", todo |-> Tail(client.todo), next |-> client.next]
    BY <1>1, <2>1, <2>3, Remainders DEF Emit
  <2> QED
    BY <1>1, <2>1, <2>2, <2>3, EmitGoesOn
<1>2. CASE EmitFails
  BY <1>2 DEF EmitFails
<1>3. CASE DialOk \/ DialFails
  BY <1>3 DEF DialOk, DialFails
<1>4. CASE Greeting
  BY <1>4 DEF Greeting, HelloAck, Redirect, HelloRefused, HelloFails
<1>5. CASE TakeCommand
  BY <1>5 DEF TakeCommand, TakeRequest, TakeUpgrade, TakeStop, NoMoreCommands
<1>6. CASE OnAnswer \/ Unasked
  BY <1>6 DEF OnAnswer, Unasked, OnNotice, OnError, OnUpgrade, OnNone, ConnectionFails
<1>7. CASE UpgradeStep
  BY <1>7 DEF UpgradeStep, UpgradeFails
<1>8. CASE Failed
  BY <1>8 DEF Failed
<1>9. CASE Retry \/ Exit
  BY <1>9 DEF Retry, Exit
<1>10. CASE \/ \E id \in Ids : OnCreate(id) \/ OnEof(id)
            \/ \E h \in handlers : HandlerEnds(h)
  BY <1>10 DEF OnCreate, OnEof, HandlerEnds
<1> QED
  BY <1>1, <1>2, <1>3, <1>4, <1>5, <1>6, <1>7, <1>8, <1>9, <1>10 DEF ClientStep, Next, Proceed

-----------------------------------------------------------------------------
(* The table is of this session *)

(* A session is reached over an empty table, and adds only its own handlers.  *)
LEMMA ClientKeepsTable ==
  ASSUME SessionTypeOK, Announced, TableFollowsSession, ClientStep
  PROVE  TableFollowsSession'
<1> USE DEF TableFollowsSession, Dialing, Serving, At, Goto, Announce, Upgrade,
            dataVars, serverVars, programVars
<1>1. CASE Emit
  <2>1. client \in ClientType /\ OnTheWayTo
    BY <1>1 DEF Emit, SessionTypeOK, ClientType, Announced
  <2>2. client'.next = client.next /\ client'.at \in {"emitting", client.next}
    BY <2>1, <1>1, EmitGoesOn
  <2> QED
    BY <1>1, <2>1, <2>2 DEF Emit, OnTheWayTo
<1>2. CASE EmitFails \/ DialFails \/ Failed
  BY <1>2 DEF EmitFails, DialFails, Failed
<1>3. CASE DialOk
  BY <1>3 DEF DialOk
<1>4. CASE Greeting
  BY <1>4 DEF Greeting, HelloAck, Redirect, HelloRefused, HelloFails
<1>5. CASE TakeCommand
  BY <1>5 DEF TakeCommand, TakeRequest, TakeUpgrade, TakeStop, NoMoreCommands
<1>6. CASE OnAnswer \/ Unasked
  BY <1>6 DEF OnAnswer, Unasked, OnNotice, OnError, OnUpgrade, OnNone, ConnectionFails, EmptyTable
<1>7. CASE UpgradeStep
  BY <1>7 DEF UpgradeStep, UpgradeFails
<1>8. CASE Retry \/ Exit
  BY <1>8 DEF Retry, Exit, EmptyTable
<1>9. ASSUME NEW id \in Ids, OnCreate(id) \/ OnEof(id)
      PROVE  TableFollowsSession'
  BY <1>9 DEF OnCreate, OnEof, SessionTypeOK
<1>10. ASSUME NEW h \in handlers, HandlerEnds(h)
       PROVE  TableFollowsSession'
  BY <1>10 DEF HandlerEnds, SessionTypeOK
<1> QED
  BY <1>1, <1>2, <1>3, <1>4, <1>5, <1>6, <1>7, <1>8, <1>9, <1>10 DEF ClientStep, Next, Proceed

-----------------------------------------------------------------------------
(* The invariant and what follows from it *)

(* It holds before the first step. *)
LEMMA InvAtStart == ConsoleInit => IInv
<1> SUFFICES ASSUME ConsoleInit
             PROVE  IInv
  OBVIOUS
<1> USE RoomIsPositive, BoundsAreNat, PingsIsNat DEF ConsoleInit, Init
<1>1. SessionTypeOK
  <2>1. client \in ClientType
    <3>1. <<"connecting">> \in Seq(Events)
      BY Announcements DEF Events, States
    <3>2. "emitting" \in Places /\ "dialing" \in Places
      BY DEF Places
    <3> QED
      BY <3>1, <3>2 DEF ClientType
  <2>2. <<>> \in Seq(Commands) /\ <<>> \in Seq(Events) /\ Len(<<>>) = 0
    BY EmptySeq
  <2>3. EmptyTable \in [Ids -> 0..MaxSessions] /\ 0 \in 0..MaxSessions
    BY DEF EmptyTable
  <2>4. table \in [Ids -> 0..MaxSessions] /\ session \in 0..MaxSessions /\ handlers = {}
    BY <2>3
  <2>5. /\ commands \in Seq(Commands) /\ Len(commands) <= CommandRoom
        /\ events \in Seq(Events) /\ Len(events) <= EventRoom
    BY <2>2
  <2> QED
    BY <2>1, <2>4, <2>5 DEF SessionTypeOK, ClientType
<1>2. TypeOK /\ CountsAreLeft
  BY <1>1 DEF TypeOK, CountsAreLeft, ConsoleAt
<1>3. Announced /\ EventsTellTheState
  BY DEF Announced, EventsTellTheState, OnTheWayTo, At
<1>4. TableFollowsSession
  BY DEF TableFollowsSession, Dialing, Serving, At, EmptyTable
<1> QED
  BY <1>2, <1>3, <1>4 DEF IInv

(* Every step keeps it. *)
LEMMA StepKeepsInv == IInv /\ [ConsoleNext]_vars => IInv'
<1> SUFFICES ASSUME IInv, [ConsoleNext]_vars
             PROVE  IInv'
  OBVIOUS
<1>1. CASE ClientStep
  <2>1. TypeOK' /\ CountsAreLeft'
    BY <1>1, ClientKeepsType DEF IInv, TypeOK, CountsAreLeft, ConsoleAt, ClientStep
  <2>2. Announced' /\ EventsTellTheState' /\ TableFollowsSession'
    BY <1>1, ClientKeepsAnnounced, ClientKeepsTable DEF IInv, TypeOK
  <2> QED
    BY <2>1, <2>2 DEF IInv
<1>2. CASE ConsoleStep
  <2>1. /\ UNCHANGED <<client, connected, session, table, announced>>
        /\ gone => gone'
    BY <1>2 DEF ConsoleStep, OnConnected, OnAnswerEvent, OnFatal, OnUpgradeAvailable, OnOther,
                OnClientEnded, SendCommand, SendStop, Return, clientOnly, dataVars, serverVars
  <2>2. Announced' /\ EventsTellTheState' /\ TableFollowsSession'
    BY <2>1 DEF IInv, Announced, EventsTellTheState, TableFollowsSession, OnTheWayTo,
                Dialing, Serving, At
  <2> QED
    BY <1>2, <2>2, ConsoleKeepsType DEF IInv
<1>3. CASE UNCHANGED vars
  BY <1>3 DEF vars, sessionVars, dataVars, serverVars, programVars, IInv, TypeOK, SessionTypeOK,
              CountsAreLeft, ConsoleAt, Announced, OnTheWayTo, EventsTellTheState,
              TableFollowsSession, Dialing, Serving, At
<1> QED
  BY <1>1, <1>2, <1>3 DEF ConsoleNext

(* The invariant holds in every reachable state. *)
LEMMA InvHolds == Spec => []IInv
<1> QED
  BY InvAtStart, StepKeepsInv, PTL DEF Spec

(* The client and its console always have their type, and the two queues      *)
(* between them never hold more than their size.                              *)
THEOREM TypeCorrect == Spec => []TypeOK
<1>1. IInv => TypeOK
  BY DEF IInv
<1> QED
  BY <1>1, InvHolds, PTL

(* A program that follows the ConnectState events knows where the client is,  *)
(* over any number of sessions.                                               *)
THEOREM EventsAreTrue == Spec => []EventsTellTheState
<1>1. IInv => EventsTellTheState
  BY DEF IInv
<1> QED
  BY <1>1, InvHolds, PTL

(* A session never looks up a handler that an earlier session left running.   *)
THEOREM SessionsAreApart == Spec => []TableIsOfThisSession
<1>1. IInv => TableIsOfThisSession
  BY DEF IInv, TableFollowsSession, Serving, TableIsOfThisSession, At
<1> QED
  BY <1>1, InvHolds, PTL

============================================================================
