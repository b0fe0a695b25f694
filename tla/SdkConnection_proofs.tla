------------------------ MODULE SdkConnection_proofs ------------------------
(***************************************************************************)
(* Proofs about an SDK connection, for any endpoints the account had       *)
(* before and any number of calls and sessions: the type of the state,     *)
(* that a call's answer stays on its way, that a quiet call takes its own, *)
(* and that the endpoints come back with every session.                    *)
(***************************************************************************)
EXTENDS SdkConnection, SequenceTheorems, FiniteSetTheorems, TLAPS

-----------------------------------------------------------------------------
(* Queues, as the sets of what is in them *)

LEMMA InEmpty == ToSet(<<>>) = {}
BY DEF ToSet

LEMMA InAppended ==
  ASSUME NEW S, NEW s \in Seq(S), NEW e \in S
  PROVE  Append(s, e) \in Seq(S) /\ ToSet(Append(s, e)) = ToSet(s) \cup {e}
<1>1. /\ Append(s, e) \in Seq(S) /\ Len(Append(s, e)) = Len(s) + 1
      /\ \A i \in 1..Len(s) : Append(s, e)[i] = s[i]
      /\ Append(s, e)[Len(s) + 1] = e
      /\ DOMAIN s = 1..Len(s) /\ Len(s) \in Nat
      /\ DOMAIN Append(s, e) = 1..Len(s) + 1
  OBVIOUS
<1> DEFINE a == Append(s, e)
<1> HIDE DEF a
<1>2. ASSUME NEW x \in ToSet(a)
      PROVE  x \in ToSet(s) \cup {e}
  BY <1>1, <1>2 DEF ToSet, a
<1>3. ASSUME NEW x \in ToSet(s) \cup {e}
      PROVE  x \in ToSet(a)
  BY <1>1, <1>3 DEF ToSet, a
<1> QED
  BY <1>1, <1>2, <1>3 DEF a

LEMMA InConcatenated ==
  ASSUME NEW S, NEW s \in Seq(S), NEW t \in Seq(S)
  PROVE  s \o t \in Seq(S) /\ ToSet(s \o t) = ToSet(s) \cup ToSet(t)
<1>1. /\ s \o t \in Seq(S) /\ Len(s \o t) = Len(s) + Len(t)
      /\ \A i \in 1..Len(s) + Len(t) :
           (s \o t)[i] = IF i <= Len(s) THEN s[i] ELSE t[i - Len(s)]
  BY ConcatProperties
<1>2. /\ DOMAIN s = 1..Len(s) /\ Len(s) \in Nat
      /\ DOMAIN t = 1..Len(t) /\ Len(t) \in Nat
      /\ DOMAIN (s \o t) = 1..Len(s) + Len(t)
  BY <1>1
<1> DEFINE c == s \o t
<1> HIDE DEF c
<1>3. ASSUME NEW x \in ToSet(c)
      PROVE  x \in ToSet(s) \cup ToSet(t)
  <2>1. PICK i \in 1..Len(s) + Len(t) : x = c[i]
    BY <1>2, <1>3 DEF ToSet, c
  <2> QED
    BY <1>1, <1>2, <2>1 DEF ToSet, c
<1>4. ASSUME NEW x \in ToSet(s)
      PROVE  x \in ToSet(c)
  BY <1>1, <1>2, <1>4 DEF ToSet, c
<1>5. ASSUME NEW x \in ToSet(t)
      PROVE  x \in ToSet(c)
  <2>1. PICK i \in 1..Len(t) : x = t[i]
    BY <1>2, <1>5 DEF ToSet
  <2>2. Len(s) + i \in 1..Len(s) + Len(t) /\ ~ (Len(s) + i <= Len(s))
    BY <1>2
  <2>3. c[Len(s) + i] = t[i]
    BY <1>1, <1>2, <2>2 DEF c
  <2> QED
    BY <1>2, <2>1, <2>2, <2>3 DEF ToSet, c
<1> QED
  BY <1>1, <1>3, <1>4, <1>5 DEF c

LEMMA InPopped ==
  ASSUME NEW S, NEW s \in Seq(S), s # <<>>
  PROVE  /\ Head(s) \in S /\ Tail(s) \in Seq(S)
         /\ ToSet(s) = {Head(s)} \cup ToSet(Tail(s))
<1>1. /\ Head(s) \in S /\ Tail(s) \in Seq(S) /\ Head(s) = s[1]
      /\ Len(Tail(s)) = Len(s) - 1 /\ Len(s) \in Nat /\ Len(s) > 0
      /\ \A i \in 1..Len(s) - 1 : Tail(s)[i] = s[i + 1]
      /\ DOMAIN s = 1..Len(s) /\ DOMAIN Tail(s) = 1..Len(s) - 1
  OBVIOUS
<1> DEFINE t == Tail(s)
<1> HIDE DEF t
<1>2. ASSUME NEW x \in ToSet(s), x # s[1]
      PROVE  x \in ToSet(t)
  <2>1. PICK i \in 1..Len(s) : x = s[i]
    BY <1>1, <1>2 DEF ToSet
  <2>2. i - 1 \in 1..Len(s) - 1 /\ t[i - 1] = s[i]
    BY <1>1, <1>2, <2>1 DEF t
  <2> QED
    BY <1>1, <2>1, <2>2 DEF ToSet, t
<1>3. ASSUME NEW x \in ToSet(t)
      PROVE  x \in ToSet(s)
  BY <1>1, <1>3 DEF ToSet, t
<1>4. s[1] \in ToSet(s)
  BY <1>1 DEF ToSet
<1> QED
  BY <1>1, <1>2, <1>3, <1>4 DEF t

LEMMA CallsAre ==
  ASSUME NEW s
  PROVE  CallsIn(s) = {m.call : m \in ToSet(s)}
BY DEF CallsIn, ToSet

LEMMA InSeq ==
  ASSUME NEW S, NEW s \in Seq(S)
  PROVE  ToSet(s) \subseteq S
BY DEF ToSet

(* All elements of a finite set, in some order. *)
LEMMA InSetToSeq ==
  ASSUME NEW S, IsFiniteSet(S)
  PROVE  SetToSeq(S) \in Seq(S)
<1>1. Cardinality(S) \in Nat
  BY FS_CardinalityType
<1>2. PICK f \in Bijection(1..Cardinality(S), S) : TRUE
  BY FS_CardinalityType DEF ExistsBijection
<1>3. f \in [1..Cardinality(S) -> S] /\ IsInjective(f)
  BY <1>2 DEF Bijection, Injection, IsInjective
<1>4. SetToSeq(S) \in [1..Cardinality(S) -> S]
  BY <1>3 DEF SetToSeq
<1> QED
  BY <1>1, <1>4, IsASeq

-----------------------------------------------------------------------------
(* Operations, commands and answers *)

AllOps == Ops \cup {"connect", "check"}

LEMMA OpFacts ==
  /\ \A op \in AllOps \ {"connect"} :
       /\ CommandOf(op) \in Kinds \ {"startAll"}
       /\ Awaits(op) \in {"endpoint", "list", "ack"}
       /\ Awaits(CommandOf(op)) = Awaits(op)
  /\ Awaits("connect") = "connected"
  /\ Awaits("startAll") = "endpoint" /\ Awaits("register") = "endpoint"
  /\ Awaits("start") = "endpoint" /\ Awaits("ls") = "list" /\ Awaits("remove") = "ack"
  /\ \A kind \in Kinds : Awaits(kind) \in {"endpoint", "list", "ack"}
BY DEF AllOps, Ops, Kinds, CommandOf, Awaits

LEMMA NumberFacts ==
  /\ MaxCalls \in Nat /\ MaxSessions \in Nat
  /\ CallNumbers = 1 .. MaxCalls + 1
  /\ 0 \notin CallNumbers
  /\ CallNumbers \subseteq Nat
  /\ Existing \subseteq Guids /\ CallNumbers \subseteq Guids
  /\ 0 \notin Guids
BY BoundsAreNatural, ExistingAreOld DEF CallNumbers, Guids

CallerType ==
  [at : Places, n : CallNumbers \cup {0}, op : AllOps, guid : Guids \cup {0},
   quiet : BOOLEAN, missed : BOOLEAN, result : {"none", "ok", "failed"},
   answer : CallNumbers \cup {0}]

Waits(c) == c.at \in {"gap", "wait"}

-----------------------------------------------------------------------------
(* The call c and all that is under way: A, what has been asked of the server *)
(* and not answered, and T, what the connection has been or will be told.     *)

(* Where the numbers of calls come from. *)
Numbered(c) ==
  /\ c.op = "connect" => c.n = 0
  /\ c.op # "connect" => c.n > 0
  /\ c.op = "publish" => c.n <= MaxCalls
  /\ c.at = "starting" => c.op = "publish"
  /\ c.at \in {"configure", "checking"} => c.op = "connect"
  /\ c.quiet => c.op # "connect"
  /\ Waits(c) => c.result = "none"

(* Messages stem from calls made so far; a register's endpoint is its call's. *)
Stems(c, A, T) ==
  /\ \A m \in A \cup T : m.call <= c.n
  /\ \A m \in A : /\ m.kind = "register" => m.guid = m.call /\ m.call # 0
                  /\ m.kind = "startAll" => m.call = 0

(* What stems from the call that waits is its command or answers it. *)
OwnKind(c, A, T) ==
  Waits(c) /\ c.n > 0 =>
    /\ \A m \in A : m.call = c.n => m.kind = CommandOf(c.op)
    /\ \A m \in T : m.call = c.n => m.kind \in {Awaits(c.op), "error"}

OnItsWay(c, A, T) ==
  Waits(c) /\ c.n > 0 /\ ~ c.missed => \E m \in A \cup T : m.call = c.n

(* Nothing else under way is or brings an answer of the kind a quiet call     *)
(* waits for.                                                                 *)
Undisturbed(c, A, T) ==
  Waits(c) /\ c.quiet =>
    /\ \A m \in A : m.call # c.n => Awaits(m.kind) # Awaits(c.op)
    /\ \A m \in T : m.call # c.n => m.kind \notin {Awaits(c.op), "connected"}

OwnAnswer(c) == c.result = "ok" /\ c.quiet => c.answer = c.n

Followed(c, A, T) ==
  /\ Numbered(c)
  /\ Stems(c, A, T)
  /\ OwnKind(c, A, T)
  /\ OnItsWay(c, A, T)
  /\ Undisturbed(c, A, T)
  /\ OwnAnswer(c)

(* A new call puts its own command under way. *)
LEMMA SendingIsFollowed ==
  ASSUME NEW c \in CallerType, NEW A \in SUBSET Messages(Kinds),
         NEW T \in SUBSET Messages(Events),
         Followed(c, A, T),
         NEW op \in AllOps \ {"connect"}, NEW guid \in Guids \cup {0}, NEW quiet \in BOOLEAN,
         op = "publish" => c.n + 1 <= MaxCalls,
         quiet => /\ \A m \in A : Awaits(m.kind) # Awaits(op)
                  /\ \A m \in T : m.kind \notin {Awaits(op), "connected"},
         NEW e \in Messages(Kinds),
         e = Message(CommandOf(op), c.n + 1,
                     IF CommandOf(op) = "register" THEN c.n + 1 ELSE guid)
  PROVE  Followed(Calling(c.n + 1, op, guid, quiet), A \cup {e}, T)
<1> DEFINE d == Calling(c.n + 1, op, guid, quiet)
           B == A \cup {e}
<1>1. /\ d.at = "gap" /\ d.n = c.n + 1 /\ d.op = op /\ d.quiet = quiet
      /\ d.missed = FALSE /\ d.result = "none"
  BY DEF Calling
<1>2. /\ e.kind = CommandOf(op) /\ e.call = c.n + 1
      /\ e.kind = "register" => e.guid = e.call
      /\ e.kind # "startAll"
  BY OpFacts DEF Message
<1>3. c.n \in Nat
  BY NumberFacts DEF CallerType
<1>4. \A m \in A \cup T : m.call \in Nat /\ m.call <= c.n
  BY NumberFacts DEF Messages, Followed, Stems
<1>5. \A m \in A \cup T : m.call # d.n
  BY <1>1, <1>3, <1>4
<1> HIDE DEF d
<1>6. Numbered(d)
  BY <1>1, <1>3 DEF Numbered, Waits
<1>7. Stems(d, B, T)
  BY <1>1, <1>2, <1>3, <1>4 DEF Followed, Stems
<1>8. OwnKind(d, B, T)
  BY <1>1, <1>2, <1>5 DEF OwnKind
<1>9. OnItsWay(d, B, T)
  BY <1>1, <1>2 DEF OnItsWay
<1>10. Undisturbed(d, B, T)
  BY <1>1, <1>2 DEF Undisturbed
<1>11. OwnAnswer(d)
  BY <1>1 DEF OwnAnswer
<1> QED
  BY <1>6, <1>7, <1>8, <1>9, <1>10, <1>11 DEF Followed, d

(* A call that is over waits for nothing. *)
LEMMA EndingIsFollowed ==
  ASSUME NEW c, NEW d, NEW A, NEW T, NEW B \in SUBSET A, NEW U \in SUBSET T,
         Followed(c, A, T), d.n = c.n, Numbered(d), ~ Waits(d), OwnAnswer(d)
  PROVE  Followed(d, B, U)
BY DEF Followed, Stems, OwnKind, OnItsWay, Undisturbed

(* While a call waits, or between calls: what is under way moves on, is       *)
(* answered or lost, and the connection is told of what nobody asked for.     *)
Moves(c, d, A, B, T, U) ==
  /\ d.n = c.n /\ d.op = c.op /\ d.result = c.result /\ d.answer = c.answer
  /\ d.at = c.at \/ (c.at = "gap" /\ d.at = "wait")
  /\ d.quiet => c.quiet
  /\ c.missed => d.missed
  /\ \A m \in B : \/ m \in A
                  \/ /\ m.kind = "startAll" /\ m.call = 0
                     /\ \E t \in T : t.kind = "connected"
  /\ \A m \in U : \/ m \in T
                  \/ m.call = 0 /\ m.kind \in {"error", "closed"}
                  \/ m.call = 0 /\ m.kind = "connected" /\ ~ d.quiet
                  \/ \E a \in A : m.call = a.call /\ m.kind \in {Awaits(a.kind), "error"}
  /\ Waits(c) /\ c.n > 0 /\ ~ d.missed /\ (\E m \in A \cup T : m.call = c.n)
       => \E m \in B \cup U : m.call = c.n

LEMMA MovingIsFollowed ==
  ASSUME NEW c \in CallerType, NEW d \in CallerType,
         NEW A \in SUBSET Messages(Kinds), NEW B \in SUBSET Messages(Kinds),
         NEW T \in SUBSET Messages(Events), NEW U \in SUBSET Messages(Events),
         Followed(c, A, T), Moves(c, d, A, B, T, U)
  PROVE  Followed(d, B, U)
<1> USE DEF Moves
<1>1. c.n \in Nat /\ c.op \in AllOps /\ \A m \in A \cup T \cup B \cup U : m.call \in Nat
  BY NumberFacts DEF CallerType, Messages
<1>2. Waits(d) => Waits(c)
  BY DEF Waits
<1>3. \A m \in A \cup B : m.kind \in Kinds
  BY DEF Messages
<1>4. Waits(c) /\ c.quiet => \A t \in T : t.kind # "connected"
  <2> SUFFICES ASSUME Waits(c), c.quiet, NEW t \in T
               PROVE  t.kind # "connected"
    OBVIOUS
  <2>1. c.op # "connect" /\ c.n > 0
    BY <1>1 DEF Followed, Numbered
  <2>2. CASE t.call = c.n
    BY <1>1, <2>1, <2>2, OpFacts DEF Followed, OwnKind
  <2>3. CASE t.call # c.n
    BY <2>3 DEF Followed, Undisturbed
  <2> QED
    BY <2>2, <2>3
<1>5. Numbered(d)
  BY <1>2 DEF Followed, Numbered
<1>6. Stems(d, B, U)
  BY <1>1 DEF Followed, Stems
<1>7. OwnKind(d, B, U)
  <2> SUFFICES ASSUME Waits(c), c.n > 0
               PROVE  /\ \A m \in B : m.call = c.n => m.kind = CommandOf(c.op)
                      /\ \A m \in U : m.call = c.n => m.kind \in {Awaits(c.op), "error"}
    BY <1>2 DEF OwnKind
  <2>1. c.op # "connect"
    BY <1>1 DEF Followed, Numbered
  <2>2. \A m \in A : m.call = c.n => m.kind = CommandOf(c.op) /\ Awaits(m.kind) = Awaits(c.op)
    BY <1>1, <2>1, OpFacts DEF Followed, OwnKind
  <2>3. \A m \in T : m.call = c.n => m.kind \in {Awaits(c.op), "error"}
    BY DEF Followed, OwnKind
  <2>4. ASSUME NEW m \in U, m.call = c.n
        PROVE  m.kind \in {Awaits(c.op), "error"}
    BY <1>1, <2>2, <2>3, <2>4
  <2> QED
    BY <1>1, <2>2, <2>4
<1>8. OnItsWay(d, B, U)
  BY <1>2 DEF Followed, OnItsWay
<1>9. Undisturbed(d, B, U)
  <2> SUFFICES ASSUME Waits(c), c.quiet, d.quiet
               PROVE  /\ \A m \in B : m.call # c.n => Awaits(m.kind) # Awaits(c.op)
                      /\ \A m \in U : m.call # c.n => m.kind \notin {Awaits(c.op), "connected"}
    BY <1>2 DEF Undisturbed
  <2>1. c.op # "connect" /\ Awaits(c.op) \in {"endpoint", "list", "ack"}
    BY <1>1, OpFacts DEF Followed, Numbered
  <2>2. /\ \A m \in A : m.call # c.n => Awaits(m.kind) # Awaits(c.op)
        /\ \A m \in T : m.call # c.n => m.kind \notin {Awaits(c.op), "connected"}
    BY DEF Followed, Undisturbed
  <2>3. B \subseteq A
    BY <1>4
  <2>4. ASSUME NEW m \in U, m.call # c.n
        PROVE  m.kind \notin {Awaits(c.op), "connected"}
    <3>1. \A a \in A : Awaits(a.kind) \in {"endpoint", "list", "ack"}
      BY <1>3, OpFacts
    <3> QED
      BY <2>1, <2>2, <2>4, <3>1
  <2> QED
    BY <2>2, <2>3, <2>4
<1>10. OwnAnswer(d)
  BY DEF Followed, OwnAnswer
<1> QED
  BY <1>5, <1>6, <1>7, <1>8, <1>9, <1>10 DEF Followed

-----------------------------------------------------------------------------
(* The inductive invariant *)

Asked == ToSet(commands) \cup ToSet(requests)
Told == ToSet(answers) \cup ToSet(results) \cup ToSet(inbox)

Commands == Messages(Kinds)
Reports == Messages(Events)

(* Between waits no event is kept. *)
Silent == ~ CallerAt("wait") => inbox = <<>>

FollowedNow == Followed(caller, Asked, Told)

(* EndpointsComeBack, of the sets. *)
Back ==
  client = "up" /\ (\A m \in ToSet(results) : m.kind # "connected")
    => running = endpoints \/ \E m \in Asked : m.kind = "startAll"

IInv == TypeOK /\ IsFiniteSet(endpoints) /\ Silent /\ FollowedNow /\ Back

BuilderType ==
  [token : BOOLEAN, email : BOOLEAN, password : BOOLEAN, signals : BOOLEAN, python : BOOLEAN]

(* TypeOK, a conjunct for each variable. *)
LEMMA TypeIs ==
  TypeOK <=>
    /\ builder \in BuilderType /\ ~ (builder.token /\ (builder.email \/ builder.password))
    /\ caller \in CallerType
    /\ inbox \in Seq(Reports) /\ results \in Seq(Reports) /\ answers \in Seq(Reports)
    /\ commands \in Seq(Commands) /\ requests \in Seq(Commands)
    /\ client \in {"off", "connecting", "up", "ended"}
    /\ sessions \in 0 .. MaxSessions
    /\ running \subseteq endpoints /\ endpoints \subseteq Guids
BY DEF TypeOK, BuilderType, CallerType, AllOps, Reports, Commands

LEMMA TypeIsNext ==
  TypeOK' <=>
    /\ builder' \in BuilderType /\ ~ (builder'.token /\ (builder'.email \/ builder'.password))
    /\ caller' \in CallerType
    /\ inbox' \in Seq(Reports) /\ results' \in Seq(Reports) /\ answers' \in Seq(Reports)
    /\ commands' \in Seq(Commands) /\ requests' \in Seq(Commands)
    /\ client' \in {"off", "connecting", "up", "ended"}
    /\ sessions' \in 0 .. MaxSessions
    /\ running' \subseteq endpoints' /\ endpoints' \subseteq Guids
BY DEF TypeOK, BuilderType, CallerType, AllOps, Reports, Commands

SetsTyped == Asked \subseteq Commands /\ Told \subseteq Reports

LEMMA SetsAreTyped == TypeOK => SetsTyped
BY TypeIs, InSeq DEF Asked, Told, SetsTyped

LEMMA SetsAreTypedNext == TypeOK' => SetsTyped'
BY SetsAreTyped, PTL

(* An empty queue holds nothing. *)
LEMMA Nothing == <<>> \in Seq(Commands) /\ <<>> \in Seq(Reports) /\ ToSet(<<>>) = {}
BY InEmpty, EmptySeq

LEMMA InitHasInv == Init => IInv
<1> SUFFICES ASSUME Init
             PROVE  IInv
  OBVIOUS
<1>1. TypeOK
  <2>1. builder \in BuilderType /\ ~ builder.token
    BY DEF Init, Blank, BuilderType
  <2>2. caller \in CallerType
    BY DEF Init, Calling, CallerType, Places, AllOps
  <2> QED
    BY <2>1, <2>2, Nothing, NumberFacts, TypeIs DEF Init
<1>2. IsFiniteSet(endpoints)
  BY ExistingAreOld DEF Init
<1>3. Asked = {} /\ Told = {}
  BY Nothing DEF Init, Asked, Told
<1>4. FollowedNow
  BY <1>3 DEF Init, Calling, FollowedNow, Followed, Numbered, Stems, OwnKind, OnItsWay,
              Undisturbed, OwnAnswer, Waits
<1>5. Silent /\ Back
  BY DEF Init, Silent, Back
<1> QED
  BY <1>1, <1>2, <1>4, <1>5 DEF IInv

-----------------------------------------------------------------------------
(* The caller's steps *)

LEMMA DiscardKeepsInv ==
  ASSUME IInv, Discard
  PROVE  IInv'
<1>1. TypeOK /\ TypeOK'
  <2>1. caller' \in CallerType
    BY NumberFacts, TypeIs DEF IInv, Discard, CallerType, Places
  <2> QED
    BY <2>1, Nothing, TypeIs, TypeIsNext DEF IInv, Discard
<1>2. Asked' = {} /\ Told' = {}
  BY Nothing DEF Discard, Asked, Told
<1>3. /\ caller'.n = caller.n /\ caller'.op = caller.op /\ caller'.at = "gone"
      /\ caller'.quiet = caller.quiet /\ caller'.result = "none"
  BY <1>1, TypeIs DEF Discard, CallerType
<1>4. Numbered(caller') /\ ~ Waits(caller') /\ OwnAnswer(caller')
  BY <1>3 DEF IInv, FollowedNow, Followed, Numbered, Waits, OwnAnswer
<1>5. FollowedNow'
  BY <1>2, <1>3, <1>4, EndingIsFollowed DEF IInv, FollowedNow
<1>6. IsFiniteSet(endpoints') /\ Silent' /\ Back'
  BY DEF IInv, Discard, Silent, Back
<1> QED
  BY <1>1, <1>5, <1>6 DEF IInv

LEMMA GiveUpKeepsInv ==
  ASSUME IInv, GiveUp
  PROVE  IInv'
<1>1. CASE caller.op \in {"connect", "check"}
  BY <1>1, DiscardKeepsInv DEF GiveUp
<1>2. CASE caller.op \notin {"connect", "check"}
  <2>1. /\ caller' = [Calling(caller.n, caller.op, 0, FALSE) EXCEPT
                        !.at = "idle", !.result = "failed"]
        /\ inbox' = <<>>
        /\ UNCHANGED <<builder, commands, results, client, sessions, serverVars>>
    BY <1>2 DEF GiveUp
  <2>2. caller \in CallerType
    BY TypeIs DEF IInv
  <2>3. /\ caller'.n = caller.n /\ caller'.op = caller.op /\ caller'.at = "idle"
        /\ caller'.quiet = FALSE /\ caller'.result = "failed"
        /\ caller' \in CallerType
    BY <2>1, <2>2 DEF Calling, CallerType, Places
  <2>4. TypeOK'
    BY <2>1, <2>3, Nothing, TypeIs, TypeIsNext DEF IInv, serverVars
  <2>5. Asked' = Asked /\ Told' \subseteq Told
    BY <2>1, Nothing DEF Asked, Told, serverVars
  <2>6. Numbered(caller') /\ ~ Waits(caller') /\ OwnAnswer(caller')
    BY <2>3 DEF IInv, FollowedNow, Followed, Numbered, Waits, OwnAnswer
  <2>7. FollowedNow'
    BY <2>3, <2>5, <2>6, EndingIsFollowed DEF IInv, FollowedNow
  <2>8. IsFiniteSet(endpoints') /\ Silent' /\ Back'
    BY <2>1, <2>5 DEF IInv, Silent, Back, serverVars
  <2> QED
    BY <2>4, <2>7, <2>8 DEF IInv
<1> QED
  BY <1>1, <1>2

LEMMA SendKeepsInv ==
  ASSUME IInv, NEW op \in AllOps \ {"connect"}, NEW guid \in Guids \cup {0},
         caller.n + 1 \in CallNumbers,
         op = "publish" => caller.n + 1 <= MaxCalls,
         ~ CallerAt("wait"),
         Send(op, guid)
  PROVE  IInv'
<1>1. CASE client = "ended"
  BY <1>1, GiveUpKeepsInv DEF Send
<1>2. CASE client # "ended"
  <2> DEFINE e == Message(CommandOf(op), caller.n + 1,
                          IF CommandOf(op) = "register" THEN caller.n + 1 ELSE guid)
             quiet == QuietFor(op)
  <2>1. /\ caller' = Calling(caller.n + 1, op, guid, quiet)
        /\ commands' = Append(commands, e)
        /\ UNCHANGED <<builder, inbox, results, client, sessions, serverVars>>
    BY <1>2 DEF Send
  <2>2. e \in Commands
    BY OpFacts, NumberFacts DEF Message, Messages, Commands
  <2>3. TypeOK /\ caller \in CallerType /\ commands \in Seq(Commands)
    BY TypeIs DEF IInv
  <2>4. commands' \in Seq(Commands) /\ Asked' = Asked \cup {e} /\ Told' = Told
    BY <2>1, <2>2, <2>3, InAppended DEF Asked, Told, serverVars
  <2>5. quiet \in BOOLEAN
    BY DEF QuietFor
  <2>6. caller' \in CallerType /\ caller'.at = "gap"
    BY <2>1, <2>5, NumberFacts DEF Calling, CallerType, Places
  <2>7. TypeOK'
    BY <2>1, <2>3, <2>4, <2>6, TypeIs, TypeIsNext DEF serverVars
  <2>8. quiet => /\ \A m \in Asked : Awaits(m.kind) # Awaits(op)
                 /\ \A m \in Told : m.kind \notin {Awaits(op), "connected"}
    <3>1. ToSet(commands \o requests) = Asked
      BY <2>3, TypeIs, InConcatenated DEF Asked
    <3>2. ToSet(answers \o results) = ToSet(answers) \cup ToSet(results)
      BY <2>3, TypeIs, InConcatenated
    <3>3. ToSet(inbox) = {}
      BY Nothing DEF IInv, Silent
    <3> QED
      BY <3>1, <3>2, <3>3 DEF QuietFor, Told
  <2>9. Asked \subseteq Commands /\ Told \subseteq Reports
    BY <2>3, SetsAreTyped DEF SetsTyped
  <2>10. Followed(Calling(caller.n + 1, op, guid, quiet), Asked \cup {e}, Told)
    <3> HIDE DEF quiet
    <3> QED
      BY <2>2, <2>3, <2>5, <2>8, <2>9, SendingIsFollowed
         DEF IInv, FollowedNow, Commands, Reports
  <2>11. FollowedNow'
    BY <2>1, <2>4, <2>10 DEF FollowedNow
  <2>12. IsFiniteSet(endpoints') /\ Silent' /\ Back'
    BY <2>1, <2>4, <2>6 DEF IInv, Silent, Back, serverVars
  <2> QED
    BY <2>7, <2>11, <2>12 DEF IInv
<1> QED
  BY <1>1, <1>2

LEMMA CallsKeepInv ==
  ASSUME IInv, (\E op \in Ops : Call(op)) \/ StartPublished \/ CheckAccess
  PROVE  IInv'
<1>1. caller \in CallerType /\ Numbered(caller)
  BY TypeIs DEF IInv, FollowedNow, Followed
<1>2. caller.n \in Nat /\ MaxCalls \in Nat /\ CallNumbers = 1 .. MaxCalls + 1
  BY <1>1, NumberFacts DEF CallerType
<1>3. ASSUME NEW op \in Ops, Call(op)
      PROVE  IInv'
  <2>1. PICK guid \in Guids \cup {0} : Send(op, guid)
    BY <1>3 DEF Call
  <2>2. /\ caller.n + 1 \in CallNumbers /\ caller.n + 1 <= MaxCalls
        /\ ~ CallerAt("wait") /\ op \in AllOps \ {"connect"}
    BY <1>2, <1>3 DEF Call, CallerAt, AllOps, Ops
  <2> QED
    BY <2>1, <2>2, SendKeepsInv
<1>4. CASE StartPublished
  <2>1. /\ caller.n + 1 \in CallNumbers /\ caller.guid \in Guids \cup {0}
        /\ ~ CallerAt("wait") /\ "start" \in AllOps \ {"connect"}
    BY <1>1, <1>2, <1>4 DEF StartPublished, CallerAt, Numbered, CallerType, AllOps, Ops
  <2> QED
    BY <1>4, <2>1, SendKeepsInv DEF StartPublished
<1>5. CASE CheckAccess
  <2>1. /\ caller.n + 1 \in CallNumbers
        /\ ~ CallerAt("wait") /\ "check" \in AllOps \ {"connect"}
    BY <1>1, <1>2, <1>5 DEF CheckAccess, CallerAt, Numbered, AllOps, Ops
  <2> QED
    BY <1>5, <2>1, SendKeepsInv DEF CheckAccess
<1> QED
  BY <1>3, <1>4, <1>5

(* The same of a step. *)
LEMMA StepIsFollowed ==
  ASSUME IInv, TypeOK', Moves(caller, caller', Asked, Asked', Told, Told')
  PROVE  FollowedNow'
<1>1. caller \in CallerType /\ caller' \in CallerType
  BY TypeIs, TypeIsNext DEF IInv
<1>2. /\ Asked \in SUBSET Messages(Kinds) /\ Told \in SUBSET Messages(Events)
      /\ Asked' \in SUBSET Messages(Kinds) /\ Told' \in SUBSET Messages(Events)
  BY SetsAreTyped, SetsAreTypedNext DEF SetsTyped, IInv, Commands, Reports
<1>3. Followed(caller, Asked, Told)
  BY DEF IInv, FollowedNow
<1>4. Followed(caller', Asked', Told')
  BY <1>1, <1>2, <1>3, MovingIsFollowed
<1> QED
  BY <1>4 DEF FollowedNow

(* The call subscribes: nothing was in the inbox. *)
LEMMA SubscribeKeepsInv ==
  ASSUME IInv, Subscribe
  PROVE  IInv'
<1>1. /\ caller \in CallerType /\ TypeOK /\ Asked \subseteq Commands /\ Told \subseteq Reports
  BY TypeIs, SetsAreTyped DEF SetsTyped, IInv
<1>2. /\ caller' = [caller EXCEPT !.at = "wait"] /\ caller.at = "gap"
      /\ inbox' = <<>> /\ inbox = <<>>
      /\ UNCHANGED <<builder, commands, results, client, sessions, serverVars>>
  BY DEF Subscribe, IInv, Silent, CallerAt
<1>3. /\ caller' \in CallerType
      /\ caller'.n = caller.n /\ caller'.op = caller.op /\ caller'.result = caller.result
      /\ caller'.answer = caller.answer /\ caller'.quiet = caller.quiet
      /\ caller'.missed = caller.missed /\ caller'.at = "wait"
  BY <1>1, <1>2 DEF CallerType, Places
<1>4. TypeOK'
  BY <1>1, <1>2, <1>3, TypeIs, TypeIsNext DEF serverVars
<1>5. Asked' = Asked /\ Told' = Told
  BY <1>2 DEF Asked, Told, serverVars
<1>6. FollowedNow'
  BY <1>2, <1>3, <1>4, <1>5, StepIsFollowed DEF Moves
<1>7. IsFiniteSet(endpoints') /\ Silent' /\ Back'
  BY <1>2, <1>3, <1>5 DEF IInv, Silent, Back, serverVars, CallerAt
<1> QED
  BY <1>4, <1>6, <1>7 DEF IInv

(* The answer of a quiet call is its own; an event of another kind that is    *)
(* skipped is not the call's.                                                 *)
LEMMA TakeEventKeepsInv ==
  ASSUME IInv, TakeEvent
  PROVE  IInv'
<1> DEFINE event == Head(inbox)
<1>1. /\ caller \in CallerType /\ TypeOK /\ Asked \subseteq Commands /\ Told \subseteq Reports
      /\ caller.at = "wait" /\ inbox # <<>>
  BY TypeIs, SetsAreTyped DEF SetsTyped, IInv, TakeEvent, CallerAt
<1>2. /\ event \in Reports /\ Tail(inbox) \in Seq(Reports)
      /\ ToSet(inbox) = {event} \cup ToSet(Tail(inbox))
  BY <1>1, TypeIs, InPopped
<1>3. event \in Told
  BY <1>2 DEF Told
<1> HIDE DEF event
<1>4. ASSUME /\ Matches(event)
             /\ caller' = [caller EXCEPT !.at = AfterAnswer, !.result = "ok",
                                         !.answer = event.call, !.guid = event.guid]
             /\ inbox' = <<>>
             /\ UNCHANGED <<builder, commands, results, client, sessions, serverVars>>
      PROVE  IInv'
  <2>1. /\ AfterAnswer \in {"starting", "measuring", "checking", "idle"}
        /\ AfterAnswer = "starting" => caller.op = "publish"
        /\ AfterAnswer = "checking" => caller.op = "connect"
    BY DEF AfterAnswer
  <2>2. /\ event.call \in CallNumbers \cup {0} /\ event.guid \in Guids \cup {0}
    BY <1>2 DEF Reports, Messages
  <2>3. /\ caller' \in CallerType
        /\ caller'.n = caller.n /\ caller'.op = caller.op /\ caller'.quiet = caller.quiet
        /\ caller'.answer = event.call /\ caller'.at = AfterAnswer
    BY <1>1, <1>4, <2>1, <2>2 DEF CallerType, Places
  <2>4. TypeOK'
    BY <1>1, <1>4, <2>3, Nothing, TypeIs, TypeIsNext DEF serverVars
  <2>5. Asked' = Asked /\ Told' \subseteq Told
    BY <1>4, Nothing DEF Asked, Told, serverVars
  <2>6. caller.quiet => event.call = caller.n
    BY <1>1, <1>3, <1>4 DEF Matches, IInv, FollowedNow, Followed, Undisturbed, Waits
  <2>7. Numbered(caller') /\ ~ Waits(caller') /\ OwnAnswer(caller')
    BY <2>1, <2>3, <2>6 DEF IInv, FollowedNow, Followed, Numbered, Waits, OwnAnswer
  <2>8. FollowedNow'
    BY <2>3, <2>5, <2>7, EndingIsFollowed DEF IInv, FollowedNow
  <2>9. IsFiniteSet(endpoints') /\ Silent' /\ Back'
    BY <1>4, <2>5 DEF IInv, Silent, Back, serverVars
  <2> QED
    BY <2>4, <2>8, <2>9 DEF IInv
<1>5. ASSUME /\ event.kind \notin {"error", "closed"} /\ ~ Matches(event)
             /\ inbox' = Tail(inbox)
             /\ UNCHANGED <<builder, caller, commands, results, client, sessions, serverVars>>
      PROVE  IInv'
  <2>1. TypeOK'
    BY <1>1, <1>2, <1>5, TypeIs, TypeIsNext DEF serverVars
  <2>2. Asked' = Asked /\ Told' \subseteq Told /\ Told = {event} \cup Told'
    BY <1>2, <1>5 DEF Asked, Told, serverVars
  <2>3. caller.n > 0 => event.call # caller.n
    BY <1>1, <1>3, <1>5 DEF Matches, IInv, FollowedNow, Followed, OwnKind, Waits
  <2>4. FollowedNow'
    BY <1>5, <2>1, <2>2, <2>3, StepIsFollowed DEF Moves
  <2>5. IsFiniteSet(endpoints') /\ Silent' /\ Back'
    BY <1>1, <1>5, <2>2 DEF IInv, Silent, Back, serverVars, CallerAt
  <2> QED
    BY <2>1, <2>4, <2>5 DEF IInv
<1> QED
  BY <1>4, <1>5, GiveUpKeepsInv DEF TakeEvent, event

(* The steps that begin and end a connection. *)
LEMMA OtherCallerStepsKeepInv ==
  ASSUME IInv, Configure \/ Build(builder) \/ PythonNew \/ TimeOut \/ Interrupt \/ Measure \/ Drop
  PROVE  IInv'
<1>1. /\ caller \in CallerType /\ TypeOK /\ builder \in BuilderType
      /\ Asked \subseteq Commands /\ Told \subseteq Reports
  BY TypeIs, SetsAreTyped DEF SetsTyped, IInv
<1>2. CASE Configure
  <2>1. builder' \in BuilderType /\ ~ (builder'.token /\ (builder'.email \/ builder'.password))
    <3>1. ~ (builder.token /\ (builder.email \/ builder.password))
      BY TypeIs DEF IInv
    <3>2. CASE SetToken
      BY <1>1, <3>1, <3>2 DEF SetToken, BuilderType
    <3>3. CASE SetEmail \/ SetPassword \/ SetCredentials
      BY <1>1, <3>1, <3>3 DEF SetEmail, SetPassword, SetCredentials, BuilderType
    <3>4. CASE SetSignals
      BY <1>1, <3>1, <3>4 DEF SetSignals, BuilderType
    <3> QED
      BY <1>2, <3>2, <3>3, <3>4 DEF Configure
  <2>2. UNCHANGED <<caller, queues, client, sessions, serverVars>>
    BY <1>2 DEF Configure
  <2>3. TypeOK'
    BY <1>1, <2>1, <2>2, TypeIs, TypeIsNext DEF serverVars, queues
  <2>4. Asked' = Asked /\ Told' = Told
    BY <2>2 DEF Asked, Told, serverVars, queues
  <2> QED
    BY <2>2, <2>3, <2>4 DEF IInv, FollowedNow, Silent, Back, serverVars, queues, CallerAt
<1>3. ASSUME NEW b \in BuilderType, Build(b)
      PROVE  IInv'
  <2>1. /\ caller.at = "configure"
        /\ builder' = [Blank EXCEPT !.signals = b.signals, !.python = b.python]
        /\ UNCHANGED <<queues, sessions, serverVars>>
    BY <1>3 DEF Build, CallerAt
  <2>2. builder' \in BuilderType /\ ~ builder'.token
    BY <2>1 DEF Blank, BuilderType
  <2>3. \/ caller' = [caller EXCEPT !.at = "gone"] /\ client' = client
        \/ caller' = Calling(0, "connect", 0, FALSE) /\ client' = "connecting"
    BY <1>3 DEF Build
  <2>4. caller' \in CallerType
    <3>1. [caller EXCEPT !.at = "gone"] \in CallerType
      BY <1>1 DEF CallerType, Places
    <3>2. Calling(0, "connect", 0, FALSE) \in CallerType
      BY DEF CallerType, Calling, Places, AllOps
    <3> QED
      BY <2>3, <3>1, <3>2
  <2>5. TypeOK'
    BY <1>1, <2>1, <2>2, <2>3, <2>4, TypeIs, TypeIsNext DEF serverVars, queues
  <2>6. Asked' = Asked /\ Told' = Told
    BY <2>1 DEF Asked, Told, serverVars, queues
  <2>7. FollowedNow'
    <3>1. CASE caller' = [caller EXCEPT !.at = "gone"]
      <4>1. /\ caller'.n = caller.n /\ Numbered(caller') /\ ~ Waits(caller')
            /\ OwnAnswer(caller')
        BY <1>1, <3>1
           DEF CallerType, IInv, FollowedNow, Followed, Numbered, Waits, OwnAnswer
      <4> QED
        BY <2>6, <4>1, EndingIsFollowed DEF IInv, FollowedNow
    <3>2. CASE caller' = Calling(0, "connect", 0, FALSE)
      <4>1. /\ caller'.n = 0 /\ caller'.op = "connect" /\ caller'.at = "gap"
            /\ caller'.quiet = FALSE /\ caller'.result = "none"
        BY <3>2 DEF Calling
      <4>2. caller.n = 0
        BY <2>1 DEF IInv, FollowedNow, Followed, Numbered
      <4>3. Stems(caller', Asked, Told)
        BY <4>1, <4>2 DEF IInv, FollowedNow, Followed, Stems
      <4> QED
        BY <2>6, <4>1, <4>3
           DEF FollowedNow, Followed, Numbered, OwnKind, OnItsWay, Undisturbed, OwnAnswer, Waits
    <3> QED
      BY <2>3, <3>1, <3>2
  <2>8. IsFiniteSet(endpoints') /\ Silent' /\ Back'
    BY <2>1, <2>3, <2>6 DEF IInv, Silent, Back, serverVars, queues, CallerAt
  <2> QED
    BY <2>5, <2>7, <2>8 DEF IInv
<1>4. CASE PythonNew
  BY <1>3, <1>4 DEF PythonNew, BuilderType
<1>5. CASE TimeOut \/ Interrupt
  BY <1>5, GiveUpKeepsInv DEF TimeOut, Interrupt
<1>6. CASE Drop
  BY <1>6, DiscardKeepsInv DEF Drop
<1>7. CASE Measure
  <2>1. /\ caller.at = "measuring"
        /\ \/ caller' = [caller EXCEPT !.at = "idle"]
           \/ caller' = [caller EXCEPT !.at = "idle", !.result = "failed"]
        /\ UNCHANGED <<builder, queues, client, sessions, serverVars>>
    BY <1>7 DEF Measure, CallerAt
  <2>2. /\ caller' \in CallerType
        /\ caller'.n = caller.n /\ caller'.op = caller.op /\ caller'.quiet = caller.quiet
        /\ caller'.answer = caller.answer /\ caller'.at = "idle"
        /\ caller'.result = "ok" => caller.result = "ok"
    BY <1>1, <2>1 DEF CallerType, Places
  <2>3. TypeOK'
    BY <1>1, <2>1, <2>2, TypeIs, TypeIsNext DEF serverVars, queues
  <2>4. Asked' = Asked /\ Told' = Told
    BY <2>1 DEF Asked, Told, serverVars, queues
  <2>5. Numbered(caller') /\ ~ Waits(caller') /\ OwnAnswer(caller')
    BY <2>2 DEF IInv, FollowedNow, Followed, Numbered, Waits, OwnAnswer
  <2>6. FollowedNow'
    BY <2>2, <2>4, <2>5, EndingIsFollowed DEF IInv, FollowedNow
  <2>7. IsFiniteSet(endpoints') /\ Silent' /\ Back'
    BY <2>1, <2>2, <2>4 DEF IInv, Silent, Back, serverVars, queues, CallerAt
  <2> QED
    BY <2>3, <2>6, <2>7 DEF IInv
<1> QED
  BY <1>1, <1>2, <1>3, <1>4, <1>5, <1>6, <1>7

-----------------------------------------------------------------------------
(* The receiver, the client and the server *)

LEMMA NoticeIs ==
  /\ \A kind \in Events : Notice(kind) \in Reports
  /\ \A kind \in Kinds : Notice(kind) \in Commands
  /\ \A kind : Notice(kind).kind = kind /\ Notice(kind).call = 0
BY DEF Notice, Message, Reports, Commands, Messages

(* An event that finds the call not yet subscribed is lost to it; the request *)
(* to start the endpoints is under way before the news of a session is out.   *)
LEMMA ReceiveKeepsInv ==
  ASSUME IInv, Receive
  PROVE  IInv'
<1> DEFINE event == Head(results)
           begun == event.kind = "connected" /\ client # "ended"
           late == CallerAt("gap") /\ event.call = caller.n
<1>1. /\ caller \in CallerType /\ TypeOK /\ Asked \subseteq Commands /\ Told \subseteq Reports
      /\ results # <<>>
  BY TypeIs, SetsAreTyped DEF SetsTyped, IInv, Receive
<1>2. /\ event \in Reports /\ Tail(results) \in Seq(Reports)
      /\ ToSet(results) = {event} \cup ToSet(Tail(results))
  BY <1>1, TypeIs, InPopped
<1>3. /\ results' = Tail(results)
      /\ commands' = IF begun THEN Append(commands, Notice("startAll")) ELSE commands
      /\ inbox' = IF caller.at = "wait" THEN Append(inbox, event) ELSE inbox
      /\ caller' = [caller EXCEPT !.missed = @ \/ late]
      /\ UNCHANGED <<builder, client, sessions, serverVars>>
  BY DEF Receive, StartAll, Broadcast, CallerAt
<1>4. event \in Told
  BY <1>2 DEF Told
<1>5. late \in BOOLEAN
  BY DEF CallerAt
<1>6. /\ caller' \in CallerType
      /\ caller'.n = caller.n /\ caller'.op = caller.op /\ caller'.result = caller.result
      /\ caller'.answer = caller.answer /\ caller'.quiet = caller.quiet
      /\ caller'.at = caller.at
      /\ caller.missed => caller'.missed
      /\ late => caller'.missed
  <2> HIDE DEF late
  <2> QED
    BY <1>1, <1>3, <1>5 DEF CallerType
<1> HIDE DEF event
<1>7. /\ commands' \in Seq(Commands)
      /\ ToSet(commands') = ToSet(commands) \cup (IF begun THEN {Notice("startAll")} ELSE {})
  <2>1. Notice("startAll") \in Commands
    BY NoticeIs DEF Kinds
  <2>2. commands \in Seq(Commands)
    BY <1>1, TypeIs
  <2> QED
    BY <1>3, <2>1, <2>2, InAppended
<1>8. /\ inbox' \in Seq(Reports)
      /\ ToSet(inbox') = ToSet(inbox) \cup (IF caller.at = "wait" THEN {event} ELSE {})
  <2>1. inbox \in Seq(Reports)
    BY <1>1, TypeIs
  <2> QED
    BY <1>2, <1>3, <2>1, InAppended
<1>9. TypeOK'
  BY <1>1, <1>2, <1>3, <1>6, <1>7, <1>8, TypeIs, TypeIsNext DEF serverVars
<1>10. /\ Asked' = Asked \cup (IF begun THEN {Notice("startAll")} ELSE {})
       /\ Told' \subseteq Told
       /\ Told \subseteq {event} \cup Told'
       /\ caller.at = "wait" => Told' = Told
  BY <1>2, <1>3, <1>7, <1>8 DEF Asked, Told, serverVars
<1>11. FollowedNow'
  <2>1. \A m \in Asked' : \/ m \in Asked
                          \/ /\ m.kind = "startAll" /\ m.call = 0
                             /\ \E t \in Told : t.kind = "connected"
    BY <1>4, <1>10, NoticeIs
  <2>2. Waits(caller) /\ caller.n > 0 /\ ~ caller'.missed
          /\ (\E m \in Asked \cup Told : m.call = caller.n)
            => \E m \in Asked' \cup Told' : m.call = caller.n
    BY <1>6, <1>10 DEF Waits, CallerAt
  <2>3. \A m \in Told' : m \in Told
    BY <1>10
  <2>4. Moves(caller, caller', Asked, Asked', Told, Told')
    BY <1>6, <2>1, <2>2, <2>3 DEF Moves
  <2> QED
    BY <1>9, <2>4, StepIsFollowed
<1>12. Back'
  BY <1>2, <1>3, <1>10, NoticeIs DEF IInv, Back, serverVars
<1>13. IsFiniteSet(endpoints') /\ Silent'
  BY <1>3, <1>6 DEF IInv, Silent, serverVars, CallerAt
<1> QED
  BY <1>9, <1>11, <1>12, <1>13 DEF IInv

(* A new session tells of itself, and no call is quiet any more. *)
LEMMA ConnectKeepsInv ==
  ASSUME IInv, Connect
  PROVE  IInv'
<1>1. /\ caller \in CallerType /\ TypeOK
      /\ results \in Seq(Reports) /\ sessions \in 0 .. MaxSessions
  BY TypeIs DEF IInv
<1>2. /\ client' = "up" /\ sessions' = sessions + 1 /\ sessions < MaxSessions
      /\ results' = Append(results, Notice("connected"))
      /\ caller' = [caller EXCEPT !.quiet = FALSE]
      /\ UNCHANGED <<builder, inbox, commands, serverVars>>
  BY DEF Connect
<1>3. Notice("connected") \in Reports
  BY NoticeIs DEF Events
<1>4. results' \in Seq(Reports) /\ ToSet(results') = ToSet(results) \cup {Notice("connected")}
  BY <1>1, <1>2, <1>3, InAppended
<1>5. /\ caller' \in CallerType /\ caller'.at = caller.at /\ caller'.quiet = FALSE
      /\ caller'.n = caller.n /\ caller'.op = caller.op /\ caller'.result = caller.result
      /\ caller'.answer = caller.answer /\ caller'.missed = caller.missed
  BY <1>1, <1>2 DEF CallerType
<1>6. TypeOK'
  <2>1. sessions' \in 0 .. MaxSessions
    BY <1>1, <1>2, NumberFacts
  <2> QED
    BY <1>1, <1>2, <1>4, <1>5, <2>1, TypeIs, TypeIsNext DEF serverVars
<1>7. Asked' = Asked /\ Told' = Told \cup {Notice("connected")}
  BY <1>2, <1>4 DEF Asked, Told, serverVars
<1>8. FollowedNow'
  BY <1>5, <1>6, <1>7, NoticeIs, StepIsFollowed DEF Moves
<1>9. IsFiniteSet(endpoints') /\ Silent'
  BY <1>2, <1>5 DEF IInv, Silent, serverVars, CallerAt
<1>10. Back'
  BY <1>4, NoticeIs DEF Back
<1> QED
  BY <1>6, <1>8, <1>9, <1>10 DEF IInv

LEMMA UnaskedErrorKeepsInv ==
  ASSUME IInv, UnaskedError
  PROVE  IInv'
<1>1. TypeOK /\ results \in Seq(Reports)
  BY TypeIs DEF IInv
<1>2. /\ results' = Append(results, Notice("error"))
      /\ UNCHANGED <<builder, caller, inbox, commands, client, sessions, serverVars>>
  BY DEF UnaskedError
<1>3. Notice("error") \in Reports
  BY NoticeIs DEF Events
<1>4. results' \in Seq(Reports) /\ ToSet(results') = ToSet(results) \cup {Notice("error")}
  BY <1>1, <1>2, <1>3, InAppended
<1>5. TypeOK'
  BY <1>1, <1>2, <1>4, TypeIs, TypeIsNext DEF serverVars
<1>6. Asked' = Asked /\ Told' = Told \cup {Notice("error")}
  BY <1>2, <1>4 DEF Asked, Told, serverVars
<1>7. FollowedNow'
  BY <1>2, <1>5, <1>6, NoticeIs, StepIsFollowed DEF Moves
<1>8. IsFiniteSet(endpoints') /\ Silent' /\ Back'
  BY <1>2, <1>4, <1>6 DEF IInv, Silent, Back, serverVars, CallerAt
<1> QED
  BY <1>5, <1>7, <1>8 DEF IInv

(* What moves from one queue to the next stays under way. *)
LEMMA TakeCommandKeepsInv ==
  ASSUME IInv, TakeCommand
  PROVE  IInv'
<1>1. TypeOK /\ commands \in Seq(Commands) /\ requests \in Seq(Commands) /\ commands # <<>>
  BY TypeIs DEF IInv, TakeCommand
<1>2. /\ requests' = Append(requests, Head(commands))
      /\ commands' = Tail(commands)
      /\ UNCHANGED <<builder, caller, inbox, results, client, sessions, answers,
                     endpoints, running>>
  BY DEF TakeCommand
<1>3. /\ Head(commands) \in Commands /\ commands' \in Seq(Commands)
      /\ ToSet(commands) = {Head(commands)} \cup ToSet(commands')
  BY <1>1, <1>2, InPopped
<1>4. /\ requests' \in Seq(Commands)
      /\ ToSet(requests') = ToSet(requests) \cup {Head(commands)}
  BY <1>1, <1>2, <1>3, InAppended
<1>5. TypeOK'
  BY <1>1, <1>2, <1>3, <1>4, TypeIs, TypeIsNext
<1>6. Asked' = Asked /\ Told' = Told
  BY <1>2, <1>3, <1>4 DEF Asked, Told
<1>7. FollowedNow'
  BY <1>2, <1>6 DEF IInv, FollowedNow
<1>8. IsFiniteSet(endpoints') /\ Silent' /\ Back'
  BY <1>2, <1>6 DEF IInv, Silent, Back, CallerAt
<1> QED
  BY <1>5, <1>7, <1>8 DEF IInv

LEMMA ForwardKeepsInv ==
  ASSUME IInv, Forward
  PROVE  IInv'
<1>1. TypeOK /\ answers \in Seq(Reports) /\ results \in Seq(Reports) /\ answers # <<>>
  BY TypeIs DEF IInv, Forward
<1>2. /\ results' = Append(results, Head(answers))
      /\ answers' = Tail(answers)
      /\ UNCHANGED <<builder, caller, inbox, commands, client, sessions, requests,
                     endpoints, running>>
  BY DEF Forward
<1>3. /\ Head(answers) \in Reports /\ answers' \in Seq(Reports)
      /\ ToSet(answers) = {Head(answers)} \cup ToSet(answers')
  BY <1>1, <1>2, InPopped
<1>4. /\ results' \in Seq(Reports)
      /\ ToSet(results') = ToSet(results) \cup {Head(answers)}
  BY <1>1, <1>2, <1>3, InAppended
<1>5. TypeOK'
  BY <1>1, <1>2, <1>3, <1>4, TypeIs, TypeIsNext
<1>6. Asked' = Asked /\ Told' = Told
  BY <1>2, <1>3, <1>4 DEF Asked, Told
<1>7. FollowedNow'
  BY <1>2, <1>6 DEF IInv, FollowedNow
<1>8. IsFiniteSet(endpoints') /\ Silent' /\ Back'
  BY <1>2, <1>4, <1>6 DEF IInv, Silent, Back, CallerAt
<1> QED
  BY <1>5, <1>7, <1>8 DEF IInv

(* What is lost with a session is known to be lost to the call. *)
LEMMA LostIs ==
  ASSUME TypeOK
  PROVE  /\ CallsIn(requests \o answers)
              = {m.call : m \in ToSet(requests) \cup ToSet(answers)}
         /\ CallsIn(commands \o requests \o answers)
              = {m.call : m \in ToSet(commands) \cup ToSet(requests) \cup ToSet(answers)}
<1> DEFINE S == Commands \cup Reports
<1>1. commands \in Seq(S) /\ requests \in Seq(S) /\ answers \in Seq(S)
  <2>1. commands \in Seq(Commands) /\ requests \in Seq(Commands) /\ answers \in Seq(Reports)
    BY TypeIs
  <2>2. Commands \subseteq S /\ Reports \subseteq S
    OBVIOUS
  <2> HIDE DEF S
  <2> QED
    BY <2>1, <2>2, SeqMonotonic
<1> HIDE DEF S
<1>2. /\ commands \o requests \in Seq(S)
      /\ ToSet(commands \o requests) = ToSet(commands) \cup ToSet(requests)
      /\ ToSet(requests \o answers) = ToSet(requests) \cup ToSet(answers)
  BY <1>1, InConcatenated
<1>3. ToSet(commands \o requests \o answers)
        = ToSet(commands) \cup ToSet(requests) \cup ToSet(answers)
  <2> DEFINE both == commands \o requests
  <2>1. both \in Seq(S) /\ ToSet(both) = ToSet(commands) \cup ToSet(requests)
    BY <1>2
  <2> HIDE DEF both
  <2>2. ToSet(both \o answers) = ToSet(both) \cup ToSet(answers)
    BY <1>1, <2>1, InConcatenated
  <2> QED
    BY <2>1, <2>2 DEF both
<1> QED
  BY <1>2, <1>3, CallsAre

LEMMA InLast ==
  /\ <<Notice("closed")>> \in Seq(Reports)
  /\ <<Notice("error"), Notice("closed")>> \in Seq(Reports)
  /\ ToSet(<<Notice("closed")>>) = {Notice("closed")}
  /\ ToSet(<<Notice("error"), Notice("closed")>>) = {Notice("error"), Notice("closed")}
<1>1. Notice("error") \in Reports /\ Notice("closed") \in Reports
  BY NoticeIs DEF Events
<1> QED
  BY <1>1 DEF ToSet

(* Which messages a session takes with it: those of its queues, and of the    *)
(* commands when the client ends.                                             *)
LEMMA SessionOverKeepsInv ==
  ASSUME IInv, NEW lost, NEW last \in Seq(Reports),
         SessionOver(lost), client' \in {"connecting", "ended"},
         results' = results \o last,
         ToSet(last) \subseteq {Notice("error"), Notice("closed")},
         commands' \in Seq(Commands),
         ToSet(commands') \subseteq ToSet(commands),
         \A m \in Asked \cup Told :
           m.call \in CallsIn(lost) \/ m \in ToSet(commands') \cup ToSet(results) \cup ToSet(inbox)
  PROVE  IInv'
<1>1. /\ caller \in CallerType /\ TypeOK /\ results \in Seq(Reports)
  BY TypeIs DEF IInv
<1> DEFINE gone == InCall /\ caller.n \in CallsIn(lost)
<1>2. /\ caller' = [caller EXCEPT !.missed = @ \/ gone]
      /\ requests' = <<>> /\ answers' = <<>> /\ running' = {}
      /\ UNCHANGED <<builder, inbox, sessions, endpoints>>
  BY DEF SessionOver
<1>3. gone \in BOOLEAN
  BY DEF InCall
<1>4. /\ caller' \in CallerType
      /\ caller'.n = caller.n /\ caller'.op = caller.op /\ caller'.result = caller.result
      /\ caller'.answer = caller.answer /\ caller'.quiet = caller.quiet
      /\ caller'.at = caller.at
      /\ caller.missed => caller'.missed
      /\ gone => caller'.missed
  <2> HIDE DEF gone
  <2> QED
    BY <1>1, <1>2, <1>3 DEF CallerType
<1>5. results' \in Seq(Reports) /\ ToSet(results') = ToSet(results) \cup ToSet(last)
  BY <1>1, InConcatenated
<1>6. TypeOK'
  BY <1>1, <1>2, <1>4, <1>5, Nothing, TypeIs, TypeIsNext
<1>7. /\ Asked' = ToSet(commands') /\ Asked' \subseteq Asked
      /\ Told' = ToSet(results) \cup ToSet(last) \cup ToSet(inbox)
  BY <1>2, <1>5, Nothing DEF Asked, Told
<1>8. Waits(caller) /\ caller.n > 0 /\ ~ caller'.missed
        /\ (\E m \in Asked \cup Told : m.call = caller.n)
          => \E m \in Asked' \cup Told' : m.call = caller.n
  BY <1>4, <1>7 DEF Waits, InCall
<1>9. \A m \in Told' : m \in Told \/ (m.call = 0 /\ m.kind \in {"error", "closed"})
  BY <1>7, NoticeIs DEF Told
<1>10. FollowedNow'
  <2>1. Moves(caller, caller', Asked, Asked', Told, Told')
    BY <1>4, <1>7, <1>8, <1>9 DEF Moves
  <2> QED
    BY <1>6, <2>1, StepIsFollowed
<1>11. IsFiniteSet(endpoints') /\ Silent' /\ Back'
  BY <1>2, <1>4 DEF IInv, Silent, Back, CallerAt
<1> QED
  BY <1>6, <1>10, <1>11 DEF IInv

LEMMA SessionsEndKeepsInv ==
  ASSUME IInv, SessionFails \/ ClientEnds
  PROVE  IInv'
<1>1. TypeOK /\ commands \in Seq(Commands)
  BY TypeIs DEF IInv
<1>2. CASE SessionFails
  <2>1. /\ SessionOver(requests \o answers) /\ client' = "connecting"
        /\ results' = results \o <<Notice("error"), Notice("closed")>>
        /\ commands' = commands
    BY <1>2 DEF SessionFails
  <2>2. \A m \in Asked \cup Told :
          \/ m.call \in CallsIn(requests \o answers)
          \/ m \in ToSet(commands') \cup ToSet(results) \cup ToSet(inbox)
    BY <1>1, <2>1, LostIs DEF Asked, Told
  <2> QED
    BY <1>1, <2>1, <2>2, InLast, SessionOverKeepsInv
<1>3. CASE ClientEnds
  <2>1. /\ SessionOver(commands \o requests \o answers) /\ client' = "ended"
        /\ \/ results' = results \o <<Notice("closed")>>
           \/ results' = results \o <<Notice("error"), Notice("closed")>>
        /\ commands' = <<>>
    BY <1>3 DEF ClientEnds
  <2>2. \A m \in Asked \cup Told :
          \/ m.call \in CallsIn(commands \o requests \o answers)
          \/ m \in ToSet(commands') \cup ToSet(results) \cup ToSet(inbox)
    BY <1>1, <2>1, LostIs DEF Asked, Told
  <2>3. commands' \in Seq(Commands) /\ ToSet(commands') \subseteq ToSet(commands)
    BY <2>1, Nothing
  <2> QED
    BY <2>1, <2>2, <2>3, InLast, SessionOverKeepsInv
<1> QED
  BY <1>2, <1>3

(* The server answers in the kind it was asked in, and with the call's number. *)
LEMMA ServeAnswers ==
  ASSUME IInv, NEW m \in Asked, Serve(m)
  PROVE  \E N \in SUBSET Reports :
           /\ answers' \in Seq(Reports)
           /\ ToSet(answers') = ToSet(answers) \cup N
           /\ \A a \in N : a.call = m.call /\ a.kind \in {Awaits(m.kind), "error"}
           /\ m.call # 0 => \E a \in N : a.call = m.call
<1>1. /\ TypeOK /\ answers \in Seq(Reports) /\ endpoints \subseteq Guids
      /\ IsFiniteSet(endpoints) /\ m \in Commands
  BY TypeIs, SetsAreTyped DEF SetsTyped, IInv
<1>2. m.kind \in Kinds /\ m.call \in CallNumbers \cup {0} /\ m.guid \in Guids \cup {0}
  BY <1>1 DEF Commands, Messages
<1>3. ASSUME NEW kind \in Events \cap {Awaits(m.kind), "error"}, Answer(kind, m)
      PROVE  \E N \in SUBSET Reports :
               /\ answers' \in Seq(Reports)
               /\ ToSet(answers') = ToSet(answers) \cup N
               /\ \A a \in N : a.call = m.call /\ a.kind \in {Awaits(m.kind), "error"}
               /\ m.call # 0 => \E a \in N : a.call = m.call
  <2> DEFINE e == Message(kind, m.call, m.guid)
  <2>1. e \in Reports /\ e.call = m.call /\ e.kind = kind
    BY <1>2 DEF Message, Reports, Messages
  <2>2. answers' = Append(answers, e)
    BY <1>3 DEF Answer
  <2> HIDE DEF e
  <2>3. /\ Append(answers, e) \in Seq(Reports)
        /\ ToSet(Append(answers, e)) = ToSet(answers) \cup {e}
    BY <1>1, <2>1, InAppended
  <2> HIDE DEF Reports
  <2>4. {e} \in SUBSET Reports
    BY <2>1
  <2> WITNESS {e} \in SUBSET Reports
  <2> QED
    BY <1>3, <2>1, <2>2, <2>3
<1>4. ASSUME m.kind = "startAll", StartsAll
      PROVE  \E N \in SUBSET Reports :
               /\ answers' \in Seq(Reports)
               /\ ToSet(answers') = ToSet(answers) \cup N
               /\ \A a \in N : a.call = m.call /\ a.kind \in {Awaits(m.kind), "error"}
               /\ m.call # 0 => \E a \in N : a.call = m.call
  <2> DEFINE S == {Message("endpoint", 0, g) : g \in endpoints}
             q == SetToSeq(S)
  <2>1. IsFiniteSet(S)
    <3> DEFINE f == [g \in endpoints |-> Message("endpoint", 0, g)]
    <3>1. f \in Bijection(endpoints, S)
      BY DEF Message, Bijection, Injection, Surjection, IsInjective
    <3> QED
      BY <1>1, <3>1, FS_Bijection DEF ExistsBijection
  <2>2. S \subseteq Reports
    BY <1>1 DEF Message, Reports, Messages, Events
  <2>3. \A a \in S : a.call = 0 /\ a.kind = "endpoint"
    BY DEF Message
  <2>4. answers' = answers \o q
    BY <1>4 DEF StartsAll
  <2> HIDE DEF S
  <2>5. q \in Seq(S)
    BY <2>1, InSetToSeq
  <2> HIDE DEF q
  <2>6. q \in Seq(Reports) /\ ToSet(q) \subseteq S
    BY <2>2, <2>5, SeqMonotonic, InSeq
  <2>7. answers' \in Seq(Reports) /\ ToSet(answers') = ToSet(answers) \cup ToSet(q)
    BY <1>1, <2>4, <2>6, InConcatenated
  <2>8. m.call = 0 /\ Awaits(m.kind) = "endpoint"
    BY <1>4, OpFacts DEF IInv, FollowedNow, Followed, Stems
  <2>9. ToSet(q) \in SUBSET Reports
    BY <2>2, <2>6
  <2> WITNESS ToSet(q) \in SUBSET Reports
  <2> QED
    BY <2>3, <2>6, <2>7, <2>8
<1> HIDE DEF Answer, StartsAll
<1>5. CASE m.kind = "startAll" /\ StartsAll
  BY <1>4, <1>5
<1>6. CASE m.kind \in {"register", "start"} /\ Answer("endpoint", m)
  BY <1>3, <1>6, OpFacts DEF Events
<1>7. CASE m.kind = "ls" /\ Answer("list", m)
  BY <1>3, <1>7, OpFacts DEF Events
<1>8. CASE m.kind = "remove" /\ Answer("ack", m)
  BY <1>3, <1>8, OpFacts DEF Events
<1>9. CASE Answer("error", m)
  BY <1>3, <1>9 DEF Events
<1> QED
  BY <1>5, <1>6, <1>7, <1>8, <1>9 DEF Serve

(* What serving a request does to the endpoints. *)
LEMMA ServeEndpoints ==
  ASSUME IInv, NEW m \in Asked, Serve(m)
  PROVE  /\ running' \subseteq endpoints' /\ endpoints' \subseteq Guids
         /\ IsFiniteSet(endpoints')
         /\ m.kind = "startAll" \/ running = endpoints => running' = endpoints'
<1>1. /\ running \subseteq endpoints /\ endpoints \subseteq Guids /\ IsFiniteSet(endpoints)
      /\ m.call \in CallNumbers \cup {0} /\ m.guid \in Guids \cup {0}
  BY TypeIs, SetsAreTyped DEF SetsTyped, IInv, Commands, Messages
<1>2. m.kind = "register" => m.guid \in Guids
  BY <1>1, NumberFacts DEF IInv, FollowedNow, Followed, Stems
<1>3. CASE m.kind = "startAll" /\ running' = endpoints /\ endpoints' = endpoints
  BY <1>1, <1>3
<1>4. CASE /\ m.kind = "register" \/ (m.kind = "start" /\ m.guid \in endpoints)
           /\ endpoints' = endpoints \cup {m.guid} /\ running' = running \cup {m.guid}
  <2>1. m.guid \in Guids /\ m.kind # "startAll"
    BY <1>1, <1>2, <1>4
  <2>2. IsFiniteSet(endpoints')
    BY <1>1, <1>4, FS_AddElement
  <2> QED
    BY <1>1, <1>4, <2>1, <2>2
<1>5. CASE /\ m.kind = "remove"
           /\ endpoints' = endpoints \ {m.guid} /\ running' = running \ {m.guid}
  <2>1. IsFiniteSet(endpoints')
    BY <1>1, <1>5, FS_RemoveElement
  <2> QED
    BY <1>1, <1>5, <2>1
<1>6. CASE m.kind # "startAll" /\ UNCHANGED <<endpoints, running>>
  BY <1>1, <1>6
<1> QED
  BY <1>3, <1>4, <1>5, <1>6 DEF Serve

LEMMA ServerAnswersKeepsInv ==
  ASSUME IInv, ServerAnswers
  PROVE  IInv'
<1> DEFINE m == Head(requests)
<1>1. /\ TypeOK /\ requests \in Seq(Commands) /\ requests # <<>>
  BY TypeIs DEF IInv, ServerAnswers
<1>2. /\ Serve(m) /\ requests' = Tail(requests)
      /\ UNCHANGED <<builder, caller, queues, client, sessions>>
  BY DEF ServerAnswers
<1>3. /\ m \in Commands /\ requests' \in Seq(Commands)
      /\ ToSet(requests) = {m} \cup ToSet(requests')
  BY <1>1, <1>2, InPopped
<1> HIDE DEF m
<1>4. m \in Asked
  BY <1>3 DEF Asked
<1>5. PICK N \in SUBSET Reports :
        /\ answers' \in Seq(Reports)
        /\ ToSet(answers') = ToSet(answers) \cup N
        /\ \A a \in N : a.call = m.call /\ a.kind \in {Awaits(m.kind), "error"}
        /\ m.call # 0 => \E a \in N : a.call = m.call
  BY <1>2, <1>4, ServeAnswers
<1>6. /\ running' \subseteq endpoints' /\ endpoints' \subseteq Guids
      /\ IsFiniteSet(endpoints')
      /\ m.kind = "startAll" \/ running = endpoints => running' = endpoints'
  BY <1>2, <1>4, ServeEndpoints
<1>7. TypeOK'
  BY <1>1, <1>2, <1>3, <1>5, <1>6, TypeIs, TypeIsNext DEF queues
<1>8. Asked = {m} \cup Asked' /\ Told' = Told \cup N
  BY <1>2, <1>3, <1>5 DEF Asked, Told, queues
<1>9. FollowedNow'
  <2>1. \A t \in Told' : \/ t \in Told
                         \/ \E a \in Asked :
                              t.call = a.call /\ t.kind \in {Awaits(a.kind), "error"}
    BY <1>4, <1>5, <1>8
  <2>2. caller.n > 0 /\ (\E a \in Asked \cup Told : a.call = caller.n)
          => \E a \in Asked' \cup Told' : a.call = caller.n
    BY <1>5, <1>8
  <2>3. Moves(caller, caller', Asked, Asked', Told, Told')
    BY <1>2, <1>8, <2>1, <2>2 DEF Moves
  <2> QED
    BY <1>7, <2>3, StepIsFollowed
<1>10. Silent' /\ Back'
  BY <1>2, <1>6, <1>8 DEF IInv, Silent, Back, queues, CallerAt
<1> QED
  BY <1>6, <1>7, <1>9, <1>10 DEF IInv

-----------------------------------------------------------------------------
(* The theorems *)

LEMMA NextKeepsInv ==
  ASSUME IInv, [Next]_vars
  PROVE  IInv'
<1>1. ASSUME UNCHANGED vars
      PROVE  IInv'
  BY <1>1 DEF vars, queues, serverVars, IInv, TypeOK, Silent, FollowedNow, Back, Asked, Told,
              CallerAt
<1>2. ASSUME CallerStep
      PROVE  IInv'
  BY <1>2, CallsKeepInv, SubscribeKeepsInv, TakeEventKeepsInv, OtherCallerStepsKeepInv
     DEF CallerStep
<1>3. ASSUME ClientStep
      PROVE  IInv'
  BY <1>3, ConnectKeepsInv, UnaskedErrorKeepsInv, TakeCommandKeepsInv, ForwardKeepsInv,
     SessionsEndKeepsInv DEF ClientStep
<1> QED
  BY <1>1, <1>2, <1>3, ReceiveKeepsInv, ServerAnswersKeepsInv DEF Next, Done

LEMMA InvHolds == Spec => []IInv
BY InitHasInv, NextKeepsInv, PTL DEF Spec

(* Whatever a program configures, calls and drops, and whatever becomes of    *)
(* the sessions: the connection's state keeps its shape.                      *)
THEOREM TypeCorrect == Spec => []TypeOK
<1>1. IInv => TypeOK
  BY DEF IInv
<1> QED
  BY <1>1, InvHolds, PTL

(* A call that waits has its command or its answer under way, or it went with *)
(* a session or by before the call had subscribed.                            *)
THEOREM AnswersStayOnTheirWay == Spec => []AnswersAreOnTheirWay
<1>1. IInv => AnswersAreOnTheirWay
  <2> SUFFICES ASSUME IInv, InCall, caller.n > 0, ~ caller.missed
               PROVE  caller.n \in CallsIn(commands \o requests \o answers \o results \o inbox)
    BY DEF AnswersAreOnTheirWay
  <2>1. PICK m \in Asked \cup Told : m.call = caller.n
    BY DEF IInv, FollowedNow, Followed, OnItsWay, InCall, Waits
  <2> DEFINE S == Commands \cup Reports
             a == commands \o requests
             b == a \o answers
             c == b \o results
  <2>2. /\ commands \in Seq(S) /\ requests \in Seq(S)
        /\ answers \in Seq(S) /\ results \in Seq(S) /\ inbox \in Seq(S)
    <3>1. /\ commands \in Seq(Commands) /\ requests \in Seq(Commands)
          /\ answers \in Seq(Reports) /\ results \in Seq(Reports) /\ inbox \in Seq(Reports)
      BY TypeIs DEF IInv
    <3>2. Commands \subseteq S /\ Reports \subseteq S
      OBVIOUS
    <3> HIDE DEF S
    <3> QED
      BY <3>1, <3>2, SeqMonotonic
  <2> HIDE DEF S
  <2>3. a \in Seq(S) /\ ToSet(a) = ToSet(commands) \cup ToSet(requests)
    BY <2>2, InConcatenated
  <2> HIDE DEF a
  <2>4. b \in Seq(S) /\ ToSet(b) = ToSet(a) \cup ToSet(answers)
    BY <2>2, <2>3, InConcatenated
  <2> HIDE DEF b
  <2>5. c \in Seq(S) /\ ToSet(c) = ToSet(b) \cup ToSet(results)
    BY <2>2, <2>4, InConcatenated
  <2> HIDE DEF c
  <2>6. ToSet(c \o inbox) = ToSet(c) \cup ToSet(inbox)
    BY <2>2, <2>5, InConcatenated
  <2>7. m \in ToSet(c \o inbox)
    BY <2>1, <2>3, <2>4, <2>5, <2>6 DEF Asked, Told
  <2>8. caller.n \in CallsIn(c \o inbox)
    BY <2>1, <2>7, CallsAre
  <2> QED
    BY <2>8 DEF a, b, c
<1> QED
  BY <1>1, InvHolds, PTL

(* Events are matched by their kind alone, and yet a call that began with     *)
(* nothing of its kind under way, in a session that lasts, returns what it    *)
(* was answered.                                                              *)
THEOREM QuietCallsTakeTheirOwn == Spec => []QuietAnswersAreOwn
<1>1. IInv => QuietAnswersAreOwn
  BY DEF IInv, FollowedNow, Followed, OwnAnswer, QuietAnswersAreOwn
<1> QED
  BY <1>1, InvHolds, PTL

(* After every reconnection the program has heard of, the endpoints run again *)
(* or the request to start them is under way.                                 *)
THEOREM EndpointsAreStartedAgain == Spec => []EndpointsComeBack
<1>1. IInv => EndpointsComeBack
  <2> SUFFICES ASSUME IInv, client = "up", "connected" \notin {m.kind : m \in ToSet(results)}
               PROVE  \/ running = endpoints
                      \/ "startAll" \in {m.kind : m \in ToSet(commands \o requests)}
    BY DEF EndpointsComeBack
  <2>1. ToSet(commands \o requests) = Asked
    BY TypeIs, InConcatenated DEF IInv, Asked
  <2> QED
    BY <2>1 DEF IInv, Back
<1> QED
  BY <1>1, InvHolds, PTL
=============================================================================
