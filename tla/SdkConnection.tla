--------------------------- MODULE SdkConnection ---------------------------
(***************************************************************************)
(* The SDK's Connection (sdk/rust/src/connection.rs, builder.rs, the       *)
(* Python class of sdk/python/src/lib.rs, and the ping of client/src/      *)
(* ping.rs): a program's calls send a command to the client task and wait  *)
(* for an event of the right kind; a receiver task turns the client's      *)
(* results into events and broadcasts them to whoever is subscribed.       *)
(*                                                                         *)
(* A call borrows the connection mutably: there is one at a time.  The     *)
(* client task (Session models it) and the server are abstracted: they     *)
(* take commands and answer them in order.  Its queues, of 1024, and the   *)
(* broadcast's buffer, of 100, are not filled here.                        *)
(***************************************************************************)
EXTENDS Integers, Sequences, SequencesExt

CONSTANTS
  Existing,     (* endpoints the account had before, numbers below 0         *)
  MaxCalls,     (* bound: commands sent by calls in a behaviour              *)
  MaxSessions   (* bound: sessions in a behaviour                            *)

ASSUME ExistingAreOld ==
  Existing \subseteq {i \in Int : i < 0} /\ IsFiniteSet(Existing)
ASSUME BoundsAreNatural == MaxCalls \in Nat /\ MaxSessions \in Nat

VARIABLES
  builder,    (* what the setters have put into the ConnectionBuilder        *)
  caller,     (* the program's call                                          *)
  inbox,      (* events broadcast since it subscribed                        *)
  commands,   (* command_tx -> command_rx                                    *)
  results,    (* result_tx -> result_rx                                      *)
  client,     (* off, connecting, up or ended                                *)
  sessions,   (* sessions so far                                             *)
  requests,   (* what the server has of this session and not answered        *)
  answers,    (* and what it has answered and the client not passed on       *)
  endpoints,  (* endpoints registered at the server                          *)
  running     (* those it has been asked to start in this session            *)

queues == <<inbox, commands, results>>
serverVars == <<requests, answers, endpoints, running>>
vars == <<builder, caller, queues, client, sessions, serverVars>>

-----------------------------------------------------------------------------
(* Messages carry, for the properties only, the call they stem from; 0 is    *)
(* EndpointStartAll, and what nobody asked for.                              *)

(* The second half of a last publish has a number, too.                      *)
CallNumbers == 1 .. MaxCalls + 1
Guids == Existing \cup CallNumbers
Kinds == {"startAll", "register", "start", "ls", "remove"}
Events == {"connected", "closed", "error", "endpoint", "list", "ack"}
Ops == {"register", "publish", "ping", "start", "ls", "remove"}
Places == {"configure", "gap", "wait", "checking", "starting", "measuring", "idle", "gone"}

Message(kind, call, guid) == [kind |-> kind, call |-> call, guid |-> guid]
Notice(kind) == Message(kind, 0, 0)

(* The command of an operation: publish and ping begin with a register, and  *)
(* check is the ls of Python's constructor; stop, unpublish and clean are one.*)
CommandOf(op) == CASE op \in {"publish", "ping"} -> "register"
                   [] op = "check" -> "ls"
                   [] OTHER -> op

(* The event that answers a command.                                         *)
Awaits(op) == CASE op = "connect" -> "connected"
                [] CommandOf(op) \in {"startAll", "register", "start"} -> "endpoint"
                [] CommandOf(op) = "ls" -> "list"
                [] CommandOf(op) = "remove" -> "ack"

CallsIn(queue) == {queue[i].call : i \in DOMAIN queue}

(* History: nothing under way will bring an event that could be taken for    *)
(* the answer to this operation.                                             *)
QuietFor(op) ==
  /\ \A m \in ToSet(commands \o requests) : Awaits(m.kind) # Awaits(op)
  /\ \A m \in ToSet(answers \o results) : m.kind \notin {Awaits(op), "connected"}

(* The program's call: where it is, its number, what it asks for and of      *)
(* which endpoint; with a result, the call whose answer it took; and, as     *)
(* history, whether it began quietly and whether its answer is lost to it.   *)
Calling(n, op, guid, quiet) ==
  [at |-> "gap", n |-> n, op |-> op, guid |-> guid, quiet |-> quiet,
   missed |-> FALSE, result |-> "none", answer |-> 0]

CallerAt(place) == caller.at = place
InCall == caller.at \in {"gap", "wait"}

-----------------------------------------------------------------------------
(* The builder.  A token and credentials exclude each other; a program may   *)
(* have a function called that interrupts its waits.                         *)

Blank == [token |-> FALSE, email |-> FALSE, password |-> FALSE, signals |-> FALSE,
          python |-> FALSE]

SetToken == builder' = [builder EXCEPT !.token = TRUE, !.email = FALSE, !.password = FALSE]
SetEmail == builder' = [builder EXCEPT !.email = TRUE, !.token = FALSE]
SetPassword == builder' = [builder EXCEPT !.password = TRUE, !.token = FALSE]
SetCredentialsToo == builder' = [builder EXCEPT !.email = TRUE, !.password = TRUE] \* faulty variant
SetCredentials == builder' = [builder EXCEPT !.email = TRUE, !.password = TRUE, !.token = FALSE]
SetSignals == builder' = [builder EXCEPT !.signals = TRUE]

Configure ==
  /\ CallerAt("configure")
  /\ SetToken \/ SetEmail \/ SetPassword \/ SetCredentials \/ SetSignals
  /\ UNCHANGED <<caller, queues, client, sessions, serverVars>>

(* build takes the builder: half of the credentials is refused; otherwise    *)
(* the client runs before the caller has subscribed to its events.           *)
Build(b) ==
  /\ CallerAt("configure")
  /\ IF b.email # b.password
     THEN caller' = [caller EXCEPT !.at = "gone"] /\ UNCHANGED client
     ELSE caller' = Calling(0, "connect", 0, FALSE) /\ client' = "connecting"
  /\ builder' = [Blank EXCEPT !.signals = b.signals, !.python = b.python]
  /\ UNCHANGED <<queues, sessions, serverVars>>

(* The Python constructor passes a token, or else both credentials, or       *)
(* neither, and its check for signals.                                       *)
PythonNew ==
  \E token, email, password \in BOOLEAN :
    LET both == ~ token /\ email /\ password
    IN Build([token |-> token, email |-> both, password |-> both,
              signals |-> TRUE, python |-> TRUE])

-----------------------------------------------------------------------------
(* Calls.                                                                    *)

(* Dropping the connection ends the receiver and the client where they are.  *)
Discard ==
  /\ caller' = [caller EXCEPT !.at = "gone", !.result = "none", !.answer = 0]
  /\ client' = "ended"
  /\ inbox' = <<>> /\ commands' = <<>> /\ results' = <<>>
  /\ requests' = <<>> /\ answers' = <<>> /\ running' = {}
  /\ UNCHANGED <<builder, sessions, endpoints>>

(* A call fails: of the constructor, with the connection.                    *)
GiveUp ==
  IF caller.op \in {"connect", "check"} THEN Discard
  ELSE /\ caller' = [Calling(caller.n, caller.op, 0, FALSE) EXCEPT
                       !.at = "idle", !.result = "failed"]
       /\ inbox' = <<>>
       /\ UNCHANGED <<builder, commands, results, client, sessions, serverVars>>

(* The client has gone, and its queue with it: the call fails at once.       *)
Send(op, guid) ==
  LET n == caller.n + 1 IN
  IF client = "ended" THEN GiveUp
  ELSE /\ caller' = Calling(n, op, guid, QuietFor(op))
       /\ commands' = Append(commands, Message(CommandOf(op), n,
                         IF CommandOf(op) = "register" THEN n ELSE guid))
       /\ UNCHANGED <<builder, inbox, results, client, sessions, serverVars>>

Call(op) ==
  /\ CallerAt("idle") /\ caller.n < MaxCalls
  /\ \E guid \in (IF op \in {"start", "remove"} THEN Guids ELSE {0}) : Send(op, guid)

(* The second half of publish starts what the first one returned.            *)
StartPublished == CallerAt("starting") /\ Send("start", caller.guid)

(* Python's constructor lists the endpoints to see that it is let in.        *)
CheckAccess == CallerAt("checking") /\ Send("check", 0)

(* wait_for_event subscribes: what was broadcast before is not seen.         *)
Subscribe ==
  /\ CallerAt("gap")
  /\ caller' = [caller EXCEPT !.at = "wait"]
  /\ inbox' = <<>>
  /\ UNCHANGED <<builder, commands, results, client, sessions, serverVars>>

(* Where a call goes on with the event it waited for.                        *)
AfterAnswer == CASE caller.op = "publish" -> "starting"
                 [] caller.op = "ping" -> "measuring"
                 [] caller.op = "connect" /\ builder.python -> "checking"
                 [] OTHER -> "idle"

(* The target of wait_for_event.                                             *)
MatchesAnything(event) == event.kind \notin {"error", "closed"}     \* faulty variant
Matches(event) == event.kind = Awaits(caller.op)

(* Any Error or Closed ends the wait, whomever it is about; the first event  *)
(* that matches is the answer.                                               *)
TakeEvent ==
  /\ CallerAt("wait") /\ inbox # <<>>
  /\ LET event == Head(inbox) IN
       \/ event.kind \in {"error", "closed"} /\ GiveUp
       \/ /\ Matches(event)
          /\ caller' = [caller EXCEPT !.at = AfterAnswer, !.result = "ok",
                                      !.answer = event.call, !.guid = event.guid]
          /\ inbox' = <<>>
          /\ UNCHANGED <<builder, commands, results, client, sessions, serverVars>>
       \/ /\ event.kind \notin {"error", "closed"} /\ ~ Matches(event)
          /\ inbox' = Tail(inbox)
          /\ UNCHANGED <<builder, caller, commands, results, client, sessions, serverVars>>

TimeOut == CallerAt("wait") /\ GiveUp

Interrupt == CallerAt("wait") /\ builder.signals /\ inbox = <<>> /\ GiveUp

(* ping_test serves the endpoint's local port and measures its address.      *)
Measure ==
  /\ CallerAt("measuring")
  /\ \/ caller' = [caller EXCEPT !.at = "idle"]
     \/ caller' = [caller EXCEPT !.at = "idle", !.result = "failed"]
  /\ UNCHANGED <<builder, queues, client, sessions, serverVars>>

Drop == CallerAt("idle") /\ Discard

-----------------------------------------------------------------------------
(* The receiver: after each Connected it asks for all endpoints, then tells  *)
(* the subscribers.                                                          *)

Broadcast(event) ==
  /\ inbox' = IF CallerAt("wait") THEN Append(inbox, event) ELSE inbox
  /\ caller' = [caller EXCEPT !.missed = @ \/ (CallerAt("gap") /\ event.call = caller.n)]

StartAll(event) ==
  commands' = IF event.kind = "connected" /\ client # "ended"
              THEN Append(commands, Notice("startAll")) ELSE commands

ReceiveNoAcks ==                                                   \* faulty variant
  /\ results # <<>>
  /\ results' = Tail(results)
  /\ IF Head(results).kind = "ack" THEN UNCHANGED <<inbox, caller, commands>>
     ELSE StartAll(Head(results)) /\ Broadcast(Head(results))
  /\ UNCHANGED <<builder, client, sessions, serverVars>>
ReceiveOnceConnected ==                                            \* faulty variant
  /\ results # <<>>
  /\ results' = Tail(results)
  /\ IF sessions > 1 THEN UNCHANGED commands ELSE StartAll(Head(results))
  /\ Broadcast(Head(results))
  /\ UNCHANGED <<builder, client, sessions, serverVars>>
Receive ==
  /\ results # <<>>
  /\ results' = Tail(results)
  /\ StartAll(Head(results)) /\ Broadcast(Head(results))
  /\ UNCHANGED <<builder, client, sessions, serverVars>>

-----------------------------------------------------------------------------
(* The client task, as Session has it.                                       *)

Connect ==
  /\ client = "connecting" /\ sessions < MaxSessions
  /\ client' = "up"
  /\ sessions' = sessions + 1
  /\ results' = Append(results, Notice("connected"))
  /\ caller' = [caller EXCEPT !.quiet = FALSE]
  /\ UNCHANGED <<builder, inbox, commands, serverVars>>

(* The server refuses the agent, or reports an error nobody asked about.     *)
(* One at a time is under way (bound of the model).                          *)
UnaskedError ==
  /\ client \in {"connecting", "up"}
  /\ \A m \in ToSet(inbox \o results) : m.kind # "error"
  /\ results' = Append(results, Notice("error"))
  /\ UNCHANGED <<builder, caller, inbox, commands, client, sessions, serverVars>>

TakeCommand ==
  /\ client = "up" /\ commands # <<>>
  /\ requests' = Append(requests, Head(commands))
  /\ commands' = Tail(commands)
  /\ UNCHANGED <<builder, caller, inbox, results, client, sessions, answers, endpoints, running>>

Forward ==
  /\ client = "up" /\ answers # <<>>
  /\ results' = Append(results, Head(answers))
  /\ answers' = Tail(answers)
  /\ UNCHANGED <<builder, caller, inbox, commands, client, sessions, requests, endpoints, running>>

(* What the session had under way is lost.                                   *)
SessionOver(lost) ==
  /\ caller' = [caller EXCEPT !.missed = @ \/ (InCall /\ caller.n \in CallsIn(lost))]
  /\ requests' = <<>> /\ answers' = <<>> /\ running' = {}
  /\ UNCHANGED <<builder, inbox, sessions, endpoints>>

SessionFails ==
  /\ client = "up" /\ sessions < MaxSessions
  /\ client' = "connecting"
  /\ results' = results \o <<Notice("error"), Notice("closed")>>
  /\ SessionOver(requests \o answers)
  /\ UNCHANGED commands

(* The server closes the connection, or reports a fatal error.               *)
ClientEnds ==
  /\ client = "up"
  /\ client' = "ended"
  /\ \/ results' = results \o <<Notice("closed")>>
     \/ results' = results \o <<Notice("error"), Notice("closed")>>
  /\ SessionOver(commands \o requests \o answers)
  /\ commands' = <<>>

-----------------------------------------------------------------------------
(* The server (external) answers in order; it may refuse a request.          *)

Answer(kind, m) == answers' = Append(answers, Message(kind, m.call, m.guid))

StartsAll == answers' = answers \o SetToSeq({Message("endpoint", 0, g) : g \in endpoints})

Serve(m) ==
  \/ /\ m.kind = "startAll"
     /\ StartsAll
     /\ running' = endpoints /\ UNCHANGED endpoints
  \/ /\ m.kind = "register" \/ (m.kind = "start" /\ m.guid \in endpoints)
     /\ Answer("endpoint", m)
     /\ endpoints' = endpoints \cup {m.guid} /\ running' = running \cup {m.guid}
  \/ m.kind = "ls" /\ Answer("list", m) /\ UNCHANGED <<endpoints, running>>
  \/ /\ m.kind = "remove" /\ m.guid \in endpoints
     /\ Answer("ack", m)
     /\ endpoints' = endpoints \ {m.guid} /\ running' = running \ {m.guid}
  \/ m.kind # "startAll" /\ Answer("error", m) /\ UNCHANGED <<endpoints, running>>

ServerAnswers ==
  /\ requests # <<>>
  /\ Serve(Head(requests))
  /\ requests' = Tail(requests)
  /\ UNCHANGED <<builder, caller, queues, client, sessions>>

-----------------------------------------------------------------------------

Init ==
  /\ builder = Blank
  /\ caller = [Calling(0, "connect", 0, FALSE) EXCEPT !.at = "configure"]
  /\ inbox = <<>> /\ commands = <<>> /\ results = <<>>
  /\ client = "off"
  /\ sessions = 0
  /\ requests = <<>> /\ answers = <<>>
  /\ endpoints = Existing /\ running = {}

(* The program has no connection any more.                                   *)
Done == CallerAt("gone") /\ UNCHANGED vars

CallerStep ==
  \/ Configure \/ Build(builder) \/ PythonNew
  \/ \E op \in Ops : Call(op)
  \/ StartPublished \/ CheckAccess \/ Subscribe \/ TakeEvent \/ TimeOut \/ Interrupt
  \/ Measure \/ Drop

ClientStep == Connect \/ UnaskedError \/ TakeCommand \/ Forward \/ SessionFails \/ ClientEnds

Next == CallerStep \/ Receive \/ ClientStep \/ ServerAnswers \/ Done

Spec == Init /\ [][Next]_vars

-----------------------------------------------------------------------------
(* Properties *)

Messages(kinds) ==
  [kind : kinds, call : CallNumbers \cup {0}, guid : Guids \cup {0}]

(* The state of a connection has its shape: calls, queues and events are     *)
(* what connection.rs and builder.rs make of them.                           *)
TypeOK ==
  /\ builder \in [token : BOOLEAN, email : BOOLEAN, password : BOOLEAN,
                  signals : BOOLEAN, python : BOOLEAN]
  /\ ~ (builder.token /\ (builder.email \/ builder.password))
  /\ caller \in [at : Places, n : CallNumbers \cup {0}, op : Ops \cup {"connect", "check"},
                 guid : Guids \cup {0}, quiet : BOOLEAN, missed : BOOLEAN,
                 result : {"none", "ok", "failed"}, answer : CallNumbers \cup {0}]
  /\ inbox \in Seq(Messages(Events)) /\ results \in Seq(Messages(Events))
  /\ answers \in Seq(Messages(Events))
  /\ commands \in Seq(Messages(Kinds)) /\ requests \in Seq(Messages(Kinds))
  /\ client \in {"off", "connecting", "up", "ended"}
  /\ sessions \in 0 .. MaxSessions
  /\ running \subseteq endpoints /\ endpoints \subseteq Guids

(* While a call waits its answer is on its way to it, whatever else goes on, *)
(* unless it went with a session or was broadcast before the call had        *)
(* subscribed: only then does wait_for_event wait for its time-out.          *)
AnswersAreOnTheirWay ==
  InCall /\ caller.n > 0 /\ ~ caller.missed
    => caller.n \in CallsIn(commands \o requests \o answers \o results \o inbox)

(* Commands and events are not matched, and yet a call that began with       *)
(* nothing of its kind under way, and saw no new session, takes the answer   *)
(* to its own command.                                                       *)
QuietAnswersAreOwn ==
  caller.result = "ok" /\ caller.quiet => caller.answer = caller.n

(* A client that has reconnected, as the program has been told, serves every *)
(* endpoint again, or has a request for it under way: EndpointStartAll is    *)
(* sent before Connected is broadcast, for every session.                    *)
EndpointsComeBack ==
  client = "up" /\ "connected" \notin {m.kind : m \in ToSet(results)}
    => \/ running = endpoints
       \/ "startAll" \in {m.kind : m \in ToSet(commands \o requests)}

(* What register and publish promise, a ServerEndpoint with the details of  *)
(* the service: what they return is the endpoint they registered.  The code  *)
(* takes the first EndpointAck, and the receiver has asked for those of all  *)
(* endpoints.                                                                *)
RegisterReturnsOwn ==
  caller.result = "ok" /\ caller.op \in {"register", "publish"} => caller.guid = caller.n
=============================================================================
