--------------------------- MODULE Tunnel_proofs ---------------------------
(***************************************************************************)
(* Proofs about Tunnel, for any channels, windows, sizes and amounts of    *)
(* data: the type of the state, that a handler oversleeps only what it     *)
(* missed, that both windows are conserved, and that who waits for an      *)
(* acknowledgement is owed one.                                            *)
(***************************************************************************)
EXTENDS Tunnel, SequenceTheorems, FiniteSetTheorems, TLAPS

(* The sizes messages have, and the messages of the two directions. *)
Sizes == 1..(MaxRead + ServerWindow)

DownBody == [kind : {"data", "ack"}, n : Sizes] \cup [kind : {"create", "eof"}, n : {0}]

UpMessage == [group : Channels, data : Body]
DownMessage == [group : Channels, data : DownBody]

(* What the state is made of.  This is stronger than TypeOK: each message has *)
(* a size that fits its kind, and is queued to the group of its own channel.  *)
HandlerShape ==
  /\ handler \in [Channels -> [at : Places, n : Nat]]
  /\ \A c \in Channels :
       /\ At(c) \in {"reserving", "capGap", "waiting", "sendData", "writing", "sendAck"}
            => Bytes(c) \in Sizes
       /\ At(c) \in {"sendEof", "sendErr"} => Bytes(c) = 0

LoopShape ==
  /\ loop \in [at : {"select", "sending", "forwarding"}, msg : UpMessage \cup DownMessage]
  /\ loop.at = "sending" => loop.msg \in UpMessage
  /\ loop.at = "forwarding" => loop.msg \in DownMessage /\ loop.msg.data.kind = "data"

OutShape ==
  /\ out \in [Fifo!Classes -> Seq(UpMessage)]
  /\ \A c \in Channels : out[c] \in Seq([group : {c}, data : Body])

EndsShape ==
  /\ socket \in [Channels -> [state : {"open", "eof", "broken"}, avail : Nat]]
  /\ server \in [Channels -> [state : {"new", "open", "closed"}, credit : Nat, left : Nat]]

Shape ==
  /\ table \subseteq Channels
  /\ capacity \in [Channels -> Nat]
  /\ closed \in [Channels -> BOOLEAN]
  /\ missed \subseteq Channels
  /\ inbox \in [Channels -> Seq(Sizes)]
  /\ HandlerShape
  /\ LoopShape
  /\ OutShape
  /\ up \in Seq(UpMessage) /\ down \in Seq(DownMessage)
  /\ EndsShape

(* A handler outside `missed` has seen the flag and the capacity as they are,  *)
(* from its check on: nothing changes them in the gap without its being missed. *)
Awake ==
  \A c \in Channels \ missed :
    /\ At(c) \in {"capGap", "waiting"} => ~ closed[c] /\ capacity[c] < Bytes(c)
    /\ At(c) \in {"selectGap", "parked"} => ~ closed[c]

(* What a sequence of messages has of a channel. *)
Mentions(s, c) == \E i \in DOMAIN s : s[i].group = c
Has(s, c, kind) == \E i \in DOMAIN s : s[i].group = c /\ s[i].data.kind = kind

(* The server mentions a channel first when it creates it, and last when it    *)
(* has closed it.                                                              *)
CreatesFirst(s, c) ==
  \A i, j \in DOMAIN s :
    s[i].group = c /\ s[i].data.kind = "create" /\ j < i => s[j].group # c
EofsLast(s, c) ==
  \A i, j \in DOMAIN s :
    s[i].group = c /\ s[i].data.kind = "eof" /\ i < j => s[j].group # c

(* The life of a channel.  Before its handler starts nothing of the channel is *)
(* anywhere but on its way down, behind the message that creates it; once the  *)
(* entry has gone while the handler lives on, nothing more comes down for it.  *)
Life(c) ==
  /\ server[c].state = "new" => At(c) = "none" /\ ~ Mentions(down, c)
  /\ At(c) = "none" /\ server[c].state # "new" => Has(down, c, "create")
  /\ Has(down, c, "create") => At(c) = "none"
  /\ Has(down, c, "eof") => server[c].state = "closed"
  /\ CreatesFirst(down, c) /\ EofsLast(down, c)
  /\ c \notin table /\ OwnsInbox(c) => server[c].state = "closed" /\ ~ Mentions(down, c)
  /\ c \in table => At(c) # "none"
  /\ loop.at # "select" /\ loop.msg.group = c => At(c) # "none"
  /\ At(c) = "none" => out[c] = <<>> /\ ~ Mentions(up, c)

(* The two windows, also before the channel is created. *)
ClientSum(c) ==
  capacity[c] + HeldBytes(c, {"sendData"}) + Outgoing(c, "data") + Incoming(c, "ack")
ServerSum(c) ==
  server[c].credit + Incoming(c, "data") + ByteCount(inbox[c])
    + HeldBytes(c, {"writing", "sendAck"}) + Outgoing(c, "ack")

Conserved(c) ==
  /\ (c \in table /\ server[c].state = "open") \/ At(c) = "none" => ClientSum(c) = Window
  /\ At(c) \notin {"sendErr", "ending", "over"} => ServerSum(c) = ServerWindow

(* The inductive invariant. *)
IInv == Shape /\ \A c \in Channels : Life(c) /\ Conserved(c)

-----------------------------------------------------------------------------
(* Sums of sizes *)

BytesOf(f) == UNION {{i} \X (1..f[i]) : i \in DOMAIN f}

LEMMA BytesAre ==
  ASSUME NEW f
  PROVE  /\ ByteCount(f) = Cardinality(BytesOf(f))
         /\ \A p : p \in BytesOf(f) <=>
              \E i \in DOMAIN f, b \in Nat : b \in 1..f[i] /\ p = <<i, b>>
BY DEF ByteCount, BytesOf

(* Sizes of messages, or zero for a message that does not count. *)
Shares == 0..(MaxRead + ServerWindow)

LEMMA SizeFacts ==
  /\ MaxRead + ServerWindow \in Nat
  /\ Sizes \subseteq Shares /\ Shares \subseteq Nat /\ 0 \in Shares
  /\ \A n \in Sizes : n >= 1
BY SizesArePositive DEF Sizes, Shares

LEMMA CountIsNat ==
  ASSUME NEW f \in Seq(Shares)
  PROVE  IsFiniteSet(BytesOf(f)) /\ ByteCount(f) \in Nat
<1> DEFINE All == (1..Len(f)) \X Sizes
<1>1. IsFiniteSet(1..Len(f))
  BY FS_Interval
<1>2. IsFiniteSet(Sizes)
  BY SizeFacts, FS_Interval DEF Sizes
<1>3. IsFiniteSet(All)
  BY <1>1, <1>2, FS_Product
<1>4. ASSUME NEW i \in DOMAIN f, NEW b \in 1..f[i]
      PROVE  <<i, b>> \in All
  <2>1. i \in 1..Len(f) /\ f[i] \in Shares
    OBVIOUS
  <2>2. b \in Sizes
    BY <2>1, SizeFacts DEF Sizes, Shares
  <2> QED
    BY <2>1, <2>2
<1>5. BytesOf(f) \subseteq All
  BY <1>4, BytesAre
<1> QED
  BY <1>3, <1>5, FS_Subset, FS_CardinalityType, BytesAre

LEMMA CountOfNothing == ByteCount(<<>>) = 0
<1>1. BytesOf(<<>>) = {}
  BY BytesAre
<1> QED
  BY <1>1, BytesAre, FS_EmptySet

(* The bytes at one position. *)
LEMMA CountAt ==
  ASSUME NEW i, NEW n \in Nat
  PROVE  IsFiniteSet({i} \X (1..n)) /\ Cardinality({i} \X (1..n)) = n
<1>1. IsFiniteSet({i}) /\ Cardinality({i}) = 1
  BY FS_Singleton
<1>2. IsFiniteSet(1..n) /\ Cardinality(1..n) = n
  BY FS_Interval
<1> DEFINE S == {i}
           T == 1..n
<1> HIDE DEF S, T
<1>3. IsFiniteSet(S \X T) /\ Cardinality(S \X T) = Cardinality(S) * Cardinality(T)
  BY <1>1, <1>2, FS_Product DEF S, T
<1> QED
  BY <1>1, <1>2, <1>3 DEF S, T

(* Two sets that are apart. *)
LEMMA CountOfUnion ==
  ASSUME NEW S, NEW T, IsFiniteSet(S), IsFiniteSet(T), S \cap T = {}
  PROVE  Cardinality(S \cup T) = Cardinality(S) + Cardinality(T)
<1>1. Cardinality(S) \in Nat /\ Cardinality(T) \in Nat
  BY FS_CardinalityType
<1>2. Cardinality(S \cup T) = Cardinality(S) + Cardinality(T) - Cardinality({})
  BY FS_Union
<1>3. Cardinality({}) = 0
  BY FS_EmptySet
<1> QED
  BY <1>1, <1>2, <1>3

LEMMA CountOfAppended ==
  ASSUME NEW f \in Seq(Shares), NEW n \in Shares
  PROVE  ByteCount(Append(f, n)) = ByteCount(f) + n
<1> DEFINE a == Append(f, n)
           k == Len(f) + 1
           new == {k} \X (1..n)
<1>1. /\ DOMAIN f = 1..Len(f) /\ Len(f) \in Nat /\ DOMAIN a = 1..k
      /\ a[k] = n /\ \A i \in DOMAIN f : a[i] = f[i] /\ i # k
      /\ \A i \in 1..k : i = k \/ i \in DOMAIN f
      /\ k \in 1..k /\ \A i \in DOMAIN f : i \in 1..k
  OBVIOUS
<1> HIDE DEF a, k
<1>2. \A p : p \in new <=> \E b \in 1..n : p = <<k, b>>
  OBVIOUS
<1>3. ASSUME NEW p \in BytesOf(a)
      PROVE  p \in BytesOf(f) \cup new
  <2>1. PICK i \in DOMAIN a, b \in Nat : b \in 1..a[i] /\ p = <<i, b>>
    BY BytesAre
  <2>2. CASE i = k
    BY <1>1, <1>2, <2>1, <2>2
  <2>3. CASE i \in DOMAIN f
    BY <1>1, <2>1, <2>3, BytesAre
  <2> QED
    BY <1>1, <2>2, <2>3
<1>4. ASSUME NEW p \in BytesOf(f)
      PROVE  p \in BytesOf(a) /\ p \notin new
  <2>1. PICK i \in DOMAIN f, b \in Nat : b \in 1..f[i] /\ p = <<i, b>>
    BY BytesAre
  <2>2. i \in DOMAIN a /\ a[i] = f[i] /\ i # k
    BY <1>1
  <2> QED
    BY <1>2, <2>1, <2>2, BytesAre
<1>5. ASSUME NEW p \in new
      PROVE  p \in BytesOf(a)
  BY <1>1, <1>2, <1>5, BytesAre
<1>6. BytesOf(a) = BytesOf(f) \cup new /\ BytesOf(f) \cap new = {}
  BY <1>3, <1>4, <1>5
<1>7. n \in Nat
  BY SizeFacts
<1>8. IsFiniteSet(new) /\ Cardinality(new) = n
  BY <1>7, CountAt
<1>9. Cardinality(BytesOf(f) \cup new) = Cardinality(BytesOf(f)) + Cardinality(new)
  BY <1>6, <1>8, CountIsNat, CountOfUnion
<1> QED
  BY <1>6, <1>8, <1>9, BytesAre DEF a

(* Every byte behind the first size moves one position up when it is taken. *)
LEMMA CountOfPopped ==
  ASSUME NEW f \in Seq(Shares), f # <<>>
  PROVE  ByteCount(f) = Head(f) + ByteCount(Tail(f))
<1> DEFINE t == Tail(f)
           n == Head(f)
           rest == BytesOf(f) \ ({1} \X (1..n))
           move == [p \in BytesOf(t) |-> <<p[1] + 1, p[2]>>]
<1>1. /\ DOMAIN f = 1..Len(f) /\ Len(f) \in Nat /\ Len(f) >= 1
      /\ t \in Seq(Shares) /\ DOMAIN t = 1..Len(f) - 1
      /\ \A i \in 1..Len(f) - 1 : t[i] = f[i + 1]
      /\ n = f[1] /\ n \in Shares
  OBVIOUS
<1> HIDE DEF t, n
<1>2. n \in Nat
  BY <1>1, SizeFacts
<1>3. \A p : p \in {1} \X (1..n) <=> \E b \in 1..n : p = <<1, b>>
  OBVIOUS
<1>4. {1} \X (1..n) \subseteq BytesOf(f)
  BY <1>1, <1>3, BytesAre
<1>5. \A p : p \in rest <=> \E i \in 2..Len(f), b \in Nat : b \in 1..f[i] /\ p = <<i, b>>
  <2>1. ASSUME NEW p \in rest
        PROVE  \E i \in 2..Len(f), b \in Nat : b \in 1..f[i] /\ p = <<i, b>>
    <3>1. PICK i \in DOMAIN f, b \in Nat : b \in 1..f[i] /\ p = <<i, b>>
      BY BytesAre
    <3>2. i # 1
      BY <1>1, <1>3, <3>1
    <3>3. i \in 2..Len(f)
      BY <1>1, <3>2
    <3> QED
      BY <3>1, <3>3
  <2>2. ASSUME NEW i \in 2..Len(f), NEW b \in 1..f[i]
        PROVE  <<i, b>> \in rest
    <3>1. i \in DOMAIN f /\ i # 1
      BY <1>1
    <3> QED
      BY <1>3, <3>1, BytesAre
  <2> QED
    BY <2>1, <2>2
<1>6. ASSUME NEW i \in DOMAIN t, NEW b \in 1..t[i]
      PROVE  <<i + 1, b>> \in rest
  <2>1. i + 1 \in 2..Len(f) /\ f[i + 1] = t[i]
    BY <1>1
  <2> QED
    BY <1>5, <2>1
<1>7. ASSUME NEW p \in BytesOf(t)
      PROVE  \E i \in DOMAIN t, b \in Nat : b \in 1..t[i] /\ p = <<i, b>> /\ move[p] = <<i + 1, b>>
  BY BytesAre
<1>8. move \in [BytesOf(t) -> rest]
  BY <1>6, <1>7
<1>9. ASSUME NEW p \in BytesOf(t), NEW q \in BytesOf(t), move[p] = move[q]
      PROVE  p = q
  <2>1. PICK i \in DOMAIN t, b \in Nat : b \in 1..t[i] /\ p = <<i, b>> /\ move[p] = <<i + 1, b>>
    BY <1>7
  <2>2. PICK j \in DOMAIN t, d \in Nat : d \in 1..t[j] /\ q = <<j, d>> /\ move[q] = <<j + 1, d>>
    BY <1>7
  <2>3. i + 1 = j + 1 /\ b = d /\ i \in Nat /\ j \in Nat
    BY <1>1, <1>9, <2>1, <2>2
  <2> QED
    BY <2>1, <2>2, <2>3
<1>10. ASSUME NEW q \in rest
       PROVE  \E p \in BytesOf(t) : move[p] = q
  <2>1. PICK i \in 2..Len(f), b \in Nat : b \in 1..f[i] /\ q = <<i, b>>
    BY <1>5
  <2>2. i - 1 \in DOMAIN t /\ t[i - 1] = f[i] /\ (i - 1) + 1 = i
    BY <1>1
  <2>3. <<i - 1, b>> \in BytesOf(t)
    BY <2>1, <2>2, BytesAre
  <2>4. move[<<i - 1, b>>] = <<i, b>>
    BY <2>2, <2>3
  <2> QED
    BY <2>1, <2>3, <2>4
<1>11. ExistsBijection(BytesOf(t), rest)
  <2>1. move \in Injection(BytesOf(t), rest)
    BY <1>8, <1>9 DEF Injection, IsInjective
  <2>2. move \in Surjection(BytesOf(t), rest)
    BY <1>8, <1>10 DEF Surjection
  <2> QED
    BY <2>1, <2>2 DEF Bijection, ExistsBijection
<1>12. IsFiniteSet(BytesOf(t))
  BY <1>1, CountIsNat
<1>13. IsFiniteSet(rest) /\ Cardinality(rest) = Cardinality(BytesOf(t))
  BY <1>11, <1>12, FS_Bijection
<1>14. IsFiniteSet({1} \X (1..n)) /\ Cardinality({1} \X (1..n)) = n
  BY <1>2, CountAt
<1>15. BytesOf(f) = ({1} \X (1..n)) \cup rest /\ ({1} \X (1..n)) \cap rest = {}
  BY <1>4
<1> HIDE DEF rest, move
<1>16. Cardinality(BytesOf(f)) = Cardinality({1} \X (1..n)) + Cardinality(rest)
  BY <1>13, <1>14, <1>15, CountOfUnion
<1> QED
  BY <1>13, <1>14, <1>16, BytesAre DEF t, n

-----------------------------------------------------------------------------
(* Bytes of messages *)

AnyMessage == UpMessage \cup DownMessage

LEMMA MessageFacts ==
  /\ UpMessage \subseteq AnyMessage /\ DownMessage \subseteq AnyMessage
  /\ \A m \in AnyMessage : m.group \in Channels /\ m.data.n \in Shares
  /\ \A m \in AnyMessage : m.data.kind \in {"data", "ack"} => m.data.n \in Sizes
  /\ \A m \in UpMessage : m.data.kind \in {"data", "ack", "eof"}
  /\ \A m \in DownMessage : m.data.kind \in {"create", "data", "ack", "eof"}
BY SizeFacts DEF AnyMessage, UpMessage, DownMessage, Body, DownBody, Sizes

LEMMA ShareFacts ==
  ASSUME NEW m \in AnyMessage, NEW c, NEW kind
  PROVE  /\ Share(m, c, kind) \in Shares /\ Share(m, c, kind) \in Nat
         /\ m.group # c \/ m.data.kind # kind => Share(m, c, kind) = 0
         /\ m.group = c /\ m.data.kind = kind => Share(m, c, kind) = m.data.n
BY MessageFacts, SizeFacts DEF Share

SharesOf(s, c, kind) == [i \in DOMAIN s |-> Share(s[i], c, kind)]

LEMMA TotalIs ==
  ASSUME NEW s \in Seq(AnyMessage), NEW c, NEW kind
  PROVE  /\ SharesOf(s, c, kind) \in Seq(Shares)
         /\ Len(SharesOf(s, c, kind)) = Len(s)
         /\ Total(s, c, kind) = ByteCount(SharesOf(s, c, kind))
         /\ Total(s, c, kind) \in Nat
<1> DEFINE f == SharesOf(s, c, kind)
<1>1. DOMAIN s = 1..Len(s) /\ Len(s) \in Nat /\ \A i \in 1..Len(s) : s[i] \in AnyMessage
  OBVIOUS
<1>2. \A i \in 1..Len(s) : Share(s[i], c, kind) \in Shares
  BY <1>1, ShareFacts
<1>3. f \in [1..Len(s) -> Shares]
  BY <1>1, <1>2 DEF SharesOf
<1>4. f \in Seq(Shares) /\ Len(f) = Len(s)
  BY <1>1, <1>3, IsASeq, LenProperties
<1>5. Total(s, c, kind) = ByteCount(f)
  BY DEF Total, SharesOf
<1> QED
  BY <1>4, <1>5, CountIsNat

LEMMA TotalOfNothing ==
  ASSUME NEW c, NEW kind
  PROVE  Total(<<>>, c, kind) = 0
<1>1. [i \in DOMAIN <<>> |-> Share(<<>>[i], c, kind)] = <<>>
  OBVIOUS
<1> QED
  BY <1>1, CountOfNothing DEF Total

LEMMA TotalOfAppended ==
  ASSUME NEW s \in Seq(AnyMessage), NEW m \in AnyMessage, NEW c, NEW kind
  PROVE  /\ Append(s, m) \in Seq(AnyMessage)
         /\ Total(Append(s, m), c, kind) = Total(s, c, kind) + Share(m, c, kind)
<1> DEFINE a == Append(s, m)
           f == SharesOf(s, c, kind)
           g == SharesOf(a, c, kind)
           n == Share(m, c, kind)
<1>1. /\ a \in Seq(AnyMessage) /\ Len(s) \in Nat /\ Len(a) = Len(s) + 1
      /\ DOMAIN a = 1..Len(s) + 1 /\ DOMAIN s = 1..Len(s)
      /\ \A i \in 1..Len(s) : a[i] = s[i]
      /\ a[Len(s) + 1] = m
  OBVIOUS
<1>2. f \in Seq(Shares) /\ Len(f) = Len(s) /\ n \in Shares
  BY TotalIs, ShareFacts
<1>3. /\ \A i \in 1..Len(s) : f[i] = Share(s[i], c, kind)
      /\ \A i \in 1..Len(s) + 1 : g[i] = Share(a[i], c, kind)
      /\ g = [i \in 1..Len(s) + 1 |-> g[i]]
  BY <1>1 DEF SharesOf
<1> HIDE DEF a, f, g, n
<1>4. /\ Append(f, n) = [i \in 1..Len(s) + 1 |-> Append(f, n)[i]]
      /\ \A i \in 1..Len(s) : Append(f, n)[i] = f[i]
      /\ Append(f, n)[Len(s) + 1] = n
  <2>1. /\ Append(f, n) \in Seq(Shares) /\ Len(Append(f, n)) = Len(f) + 1
        /\ \A i \in 1..Len(f) : Append(f, n)[i] = f[i]
        /\ Append(f, n)[Len(f) + 1] = n
    BY <1>2
  <2>2. Append(f, n) \in [1..Len(f) + 1 -> Shares]
    BY <2>1, ElementOfSeq, LenProperties
  <2> QED
    BY <1>2, <2>1, <2>2
<1>5. \A i \in 1..Len(s) + 1 : i \in 1..Len(s) \/ i = Len(s) + 1
  BY <1>1
<1>6. \A i \in 1..Len(s) + 1 : g[i] = Append(f, n)[i]
  BY <1>1, <1>3, <1>4, <1>5 DEF n
<1>7. g = Append(f, n)
  BY <1>3, <1>4, <1>6
<1>8. ByteCount(g) = ByteCount(f) + n
  BY <1>2, <1>7, CountOfAppended
<1> QED
  BY <1>1, <1>8, TotalIs DEF a, f, g, n

LEMMA TotalOfPopped ==
  ASSUME NEW s \in Seq(AnyMessage), s # <<>>, NEW c, NEW kind
  PROVE  /\ Head(s) \in AnyMessage /\ Tail(s) \in Seq(AnyMessage)
         /\ Total(s, c, kind) = Share(Head(s), c, kind) + Total(Tail(s), c, kind)
<1> DEFINE t == Tail(s)
           f == SharesOf(s, c, kind)
           g == SharesOf(t, c, kind)
<1>1. /\ t \in Seq(AnyMessage) /\ Len(s) \in Nat /\ Len(s) >= 1 /\ Len(t) = Len(s) - 1
      /\ DOMAIN s = 1..Len(s) /\ DOMAIN t = 1..Len(s) - 1
      /\ \A i \in 1..Len(s) - 1 : t[i] = s[i + 1] /\ i + 1 \in 1..Len(s)
      /\ Head(s) = s[1] /\ 1 \in 1..Len(s) /\ Head(s) \in AnyMessage
  OBVIOUS
<1>2. f \in Seq(Shares) /\ Len(f) = Len(s)
  BY TotalIs
<1>3. /\ \A i \in 1..Len(s) : f[i] = Share(s[i], c, kind)
      /\ \A i \in 1..Len(s) - 1 : g[i] = Share(t[i], c, kind)
      /\ g = [i \in 1..Len(s) - 1 |-> g[i]]
  BY <1>1 DEF SharesOf
<1> HIDE DEF t, f, g
<1>4. /\ f # <<>> /\ Head(f) = f[1]
      /\ Tail(f) = [i \in 1..Len(s) - 1 |-> Tail(f)[i]]
      /\ \A i \in 1..Len(s) - 1 : Tail(f)[i] = f[i + 1]
  <2>1. Len(f) >= 1
    BY <1>1, <1>2
  <2>2. /\ f # <<>> /\ Head(f) = f[1] /\ Tail(f) \in Seq(Shares)
        /\ Len(Tail(f)) = Len(f) - 1
        /\ \A i \in 1..Len(f) - 1 : Tail(f)[i] = f[i + 1]
    BY <1>2, <2>1
  <2>3. Tail(f) \in [1..Len(f) - 1 -> Shares]
    BY <2>2, ElementOfSeq, LenProperties
  <2> QED
    BY <1>2, <2>2, <2>3
<1>5. \A i \in 1..Len(s) - 1 : g[i] = Tail(f)[i]
  BY <1>1, <1>3, <1>4
<1>6. g = Tail(f)
  BY <1>3, <1>4, <1>5
<1>7. ByteCount(f) = Head(f) + ByteCount(g)
  BY <1>2, <1>4, <1>6, CountOfPopped
<1>8. Head(f) = Share(Head(s), c, kind)
  BY <1>1, <1>3, <1>4
<1>9. Total(s, c, kind) = ByteCount(f) /\ Total(t, c, kind) = ByteCount(g)
  BY <1>1, TotalIs DEF f, g
<1> QED
  BY <1>1, <1>7, <1>8, <1>9 DEF t

LEMMA TotalOfOne ==
  ASSUME NEW m \in AnyMessage, NEW c, NEW kind
  PROVE  Total(<<m>>, c, kind) = Share(m, c, kind)
<1> DEFINE e == <<>>
<1>1. <<m>> = Append(e, m) /\ e \in Seq(AnyMessage)
  OBVIOUS
<1>2. Total(e, c, kind) = 0
  BY TotalOfNothing
<1> HIDE DEF e
<1>3. Total(Append(e, m), c, kind) = Total(e, c, kind) + Share(m, c, kind)
  BY <1>1, TotalOfAppended
<1>4. Share(m, c, kind) \in Nat
  BY ShareFacts
<1>5. Total(<<m>>, c, kind) = Total(Append(e, m), c, kind)
  BY <1>1, Zenon
<1> QED
  BY <1>2, <1>3, <1>4, <1>5

-----------------------------------------------------------------------------
(* The order of messages *)

LEMMA OrderOfNothing ==
  ASSUME NEW c
  PROVE  /\ ~ Mentions(<<>>, c) /\ \A kind : ~ Has(<<>>, c, kind)
         /\ CreatesFirst(<<>>, c) /\ EofsLast(<<>>, c)
BY DEF Mentions, Has, CreatesFirst, EofsLast

LEMMA HasMentions ==
  ASSUME NEW s, NEW c, NEW kind, Has(s, c, kind)
  PROVE  Mentions(s, c)
BY DEF Has, Mentions

LEMMA OrderOfAppended ==
  ASSUME NEW S, NEW s \in Seq(S), NEW m \in S, NEW c
  PROVE  /\ Mentions(Append(s, m), c) <=> Mentions(s, c) \/ m.group = c
         /\ \A kind : Has(Append(s, m), c, kind)
              <=> Has(s, c, kind) \/ (m.group = c /\ m.data.kind = kind)
         /\ CreatesFirst(s, c) /\ (m.group = c /\ m.data.kind = "create" => ~ Mentions(s, c))
              => CreatesFirst(Append(s, m), c)
         /\ EofsLast(s, c) /\ (m.group = c => ~ Has(s, c, "eof"))
              => EofsLast(Append(s, m), c)
<1> DEFINE a == Append(s, m)
<1>1. /\ Len(s) \in Nat /\ DOMAIN s = 1..Len(s) /\ DOMAIN a = 1..Len(s) + 1
      /\ a[Len(s) + 1] = m /\ \A i \in DOMAIN s : a[i] = s[i]
  OBVIOUS
<1> HIDE DEF a
<1>2. /\ \A i \in DOMAIN a : i \in DOMAIN s \/ i = Len(s) + 1
      /\ \A i \in DOMAIN s : i \in DOMAIN a
      /\ Len(s) + 1 \in DOMAIN a
      /\ \A i \in DOMAIN a : ~ (Len(s) + 1 < i)
  BY <1>1
<1>3. Mentions(a, c) <=> Mentions(s, c) \/ m.group = c
  BY <1>1, <1>2 DEF Mentions
<1>4. ASSUME NEW kind
      PROVE  Has(a, c, kind) <=> Has(s, c, kind) \/ (m.group = c /\ m.data.kind = kind)
  BY <1>1, <1>2 DEF Has
<1>5. ASSUME CreatesFirst(s, c), m.group = c /\ m.data.kind = "create" => ~ Mentions(s, c)
      PROVE  CreatesFirst(a, c)
  BY <1>1, <1>2, <1>5 DEF CreatesFirst, Mentions
<1>6. ASSUME EofsLast(s, c), m.group = c => ~ Has(s, c, "eof")
      PROVE  EofsLast(a, c)
  BY <1>1, <1>2, <1>6 DEF EofsLast, Has
<1> QED
  BY <1>3, <1>4, <1>5, <1>6 DEF a

LEMMA OrderOfPopped ==
  ASSUME NEW S, NEW s \in Seq(S), s # <<>>, NEW c
  PROVE  /\ Mentions(s, c) <=> Mentions(Tail(s), c) \/ Head(s).group = c
         /\ \A kind : Has(s, c, kind)
              <=> Has(Tail(s), c, kind) \/ (Head(s).group = c /\ Head(s).data.kind = kind)
         /\ CreatesFirst(s, c)
              => /\ CreatesFirst(Tail(s), c)
                 /\ Has(Tail(s), c, "create") => Head(s).group # c
         /\ EofsLast(s, c)
              => /\ EofsLast(Tail(s), c)
                 /\ Head(s).group = c /\ Head(s).data.kind = "eof" => ~ Mentions(Tail(s), c)
<1> DEFINE t == Tail(s)
<1>1. /\ Len(s) \in Nat /\ Len(s) >= 1 /\ DOMAIN s = 1..Len(s) /\ DOMAIN t = 1..Len(s) - 1
      /\ Head(s) = s[1] /\ \A i \in DOMAIN t : t[i] = s[i + 1]
  OBVIOUS
<1> HIDE DEF t
<1>2. /\ \A i \in DOMAIN s : i = 1 \/ (i - 1 \in DOMAIN t /\ t[i - 1] = s[i])
      /\ \A i \in DOMAIN t : i + 1 \in DOMAIN s /\ 1 < i + 1
      /\ 1 \in DOMAIN s
      /\ \A i, j \in DOMAIN t : i < j => i + 1 < j + 1
  BY <1>1
<1>3. Mentions(s, c) <=> Mentions(t, c) \/ Head(s).group = c
  BY <1>1, <1>2 DEF Mentions
<1>4. ASSUME NEW kind
      PROVE  Has(s, c, kind)
               <=> Has(t, c, kind) \/ (Head(s).group = c /\ Head(s).data.kind = kind)
  BY <1>1, <1>2 DEF Has
<1>5. ASSUME CreatesFirst(s, c)
      PROVE  CreatesFirst(t, c) /\ (Has(t, c, "create") => Head(s).group # c)
  BY <1>1, <1>2, <1>5 DEF CreatesFirst, Has
<1>6. ASSUME EofsLast(s, c)
      PROVE  /\ EofsLast(t, c)
             /\ Head(s).group = c /\ Head(s).data.kind = "eof" => ~ Mentions(t, c)
  BY <1>1, <1>2, <1>6 DEF EofsLast, Mentions
<1> QED
  BY <1>3, <1>4, <1>5, <1>6 DEF t

-----------------------------------------------------------------------------
(* The shape of the state *)

(* What makes a message of channel c for the server. *)
UpMessageOf(c) == [group : {c}, data : Body]

LEMMA UpMessages ==
  ASSUME NEW c \in Channels
  PROVE  /\ UpMessageOf(c) \subseteq UpMessage
         /\ \A m \in UpMessageOf(c) : m.group = c
         /\ c \in Fifo!Classes
BY DEF UpMessageOf, UpMessage, Fifo!Classes

LEMMA GoingKeepsShape ==
  ASSUME HandlerShape, NEW c \in Channels, NEW place \in Places, NEW n \in Nat,
         Goto(c, place, n),
         place \in {"reserving", "capGap", "waiting", "sendData", "writing", "sendAck"}
           => n \in Sizes,
         place \in {"sendEof", "sendErr"} => n = 0
  PROVE  HandlerShape'
BY DEF HandlerShape, Goto, At, Bytes

LEMMA NotifyingKeepsShape ==
  ASSUME HandlerShape, missed \subseteq Channels, NEW c \in Channels, Notify(c)
  PROVE  HandlerShape' /\ missed' \subseteq Channels
<1>1. Woken(c) \in [at : Places, n : Nat]
  BY DEF HandlerShape, Woken, At, Places
<1>2. /\ Woken(c).n = handler[c].n
      /\ Woken(c).at = handler[c].at \/ Woken(c).at = "select"
           \/ (handler[c].at = "waiting" /\ Woken(c).at = "reserving")
  BY DEF HandlerShape, Woken, At
<1> QED
  BY <1>1, <1>2 DEF HandlerShape, Notify, At, Bytes

LEMMA AcceptingKeepsShape ==
  ASSUME OutShape, NEW c \in Channels, NEW m \in UpMessageOf(c), Fifo!Accept(m)
  PROVE  OutShape' /\ out' = [out EXCEPT ![c] = Append(@, m)]
<1>1. out' = [out EXCEPT ![c] = Append(@, m)]
  BY UpMessages DEF Fifo!Accept
<1>2. Append(out[c], m) \in Seq(UpMessage) /\ Append(out[c], m) \in Seq(UpMessageOf(c))
  BY UpMessages DEF OutShape, UpMessageOf
<1> QED
  BY <1>1, <1>2, UpMessages DEF OutShape, UpMessageOf

LEMMA DeliveringKeepsShape ==
  ASSUME OutShape, NEW c \in Channels, Fifo!Deliver(c)
  PROVE  /\ OutShape' /\ out' = [out EXCEPT ![c] = Tail(@)]
         /\ out[c] # <<>> /\ Head(out[c]) \in UpMessageOf(c)
<1>1. out' = [out EXCEPT ![c] = Tail(@)] /\ out[c] # <<>>
  BY DEF Fifo!Deliver
<1>2. Tail(out[c]) \in Seq(UpMessage) /\ Tail(out[c]) \in Seq(UpMessageOf(c))
  BY <1>1, UpMessages DEF OutShape, UpMessageOf
<1>3. Head(out[c]) \in UpMessageOf(c)
  <2>1. out[c] \in Seq(UpMessageOf(c))
    BY DEF OutShape, UpMessageOf
  <2> QED
    BY <1>1, <2>1
<1> QED
  BY <1>1, <1>2, <1>3, UpMessages DEF OutShape, UpMessageOf

(* What the loop receives. *)
LEMMA ReceivingKeepsShape ==
  ASSUME Shape, NEW c, NEW kind, Receives(c, kind)
  PROVE  /\ down # <<>> /\ Head(down) \in DownMessage /\ Head(down) \in AnyMessage
         /\ Head(down).group = c /\ Head(down).data.kind = kind
         /\ down' = Tail(down) /\ down' \in Seq(DownMessage)
         /\ loop.at = "select"
BY MessageFacts DEF Shape, Receives, AtSelect

(* What a handler sends. *)
LEMMA SentBy ==
  ASSUME Shape, NEW c \in Channels, Send(c)
  PROVE  /\ Msg(c, SendKind(c), Bytes(c)) \in UpMessageOf(c)
         /\ At(c) = "sendData" => SendKind(c) = "data"
         /\ At(c) = "sendAck" => SendKind(c) = "ack"
         /\ At(c) \in {"sendEof", "sendErr"} => SendKind(c) = "eof"
         /\ AfterSend(c) \in {"select", "ending"}
         /\ AfterSend(c) = "select" <=> At(c) \in {"sendData", "sendAck"}
<1>1. SendKind(c) \in {"data", "ack"} => Bytes(c) \in Sizes
  BY DEF Shape, HandlerShape, Send, SendKind
<1>2. SendKind(c) \notin {"data", "ack"} => SendKind(c) = "eof" /\ Bytes(c) = 0
  BY DEF Shape, HandlerShape, Send, SendKind
<1>3. Msg(c, SendKind(c), Bytes(c)) \in UpMessageOf(c)
  BY <1>1, <1>2 DEF Msg, UpMessageOf, Body, Sizes
<1> QED
  BY <1>3 DEF Send, SendKind, AfterSend

LEMMA InitShape == Init => Shape
<1> SUFFICES ASSUME Init
             PROVE  Shape
  OBVIOUS
<1>1. HandlerShape
  BY DEF Init, HandlerShape, At, Bytes, Places
<1>2. LoopShape
  <2>1. Msg(CHOOSE c \in Channels : TRUE, "create", 0) \in DownMessage
    BY SomeChannel DEF Msg, DownMessage, DownBody
  <2> QED
    BY <2>1 DEF Init, LoopShape
<1>3. OutShape
  BY DEF Init, OutShape, Fifo!Init, Fifo!Classes
<1>4. EndsShape
  BY SizesArePositive DEF Init, EndsShape
<1>5. /\ table \subseteq Channels /\ missed \subseteq Channels
      /\ capacity \in [Channels -> Nat] /\ closed \in [Channels -> BOOLEAN]
      /\ inbox \in [Channels -> Seq(Sizes)]
      /\ up \in Seq(UpMessage) /\ down \in Seq(DownMessage)
  BY SizesArePositive DEF Init
<1> QED
  BY <1>1, <1>2, <1>3, <1>4, <1>5 DEF Shape

LEMMA LoopKeepsShape ==
  ASSUME Shape, LoopStep
  PROVE  Shape'
<1>1. CASE TakeOut
  <2>1. PICK c \in Channels : Fifo!Deliver(c) /\ Deal("sending", Head(out[c]))
    BY <1>1 DEF TakeOut
  <2>2. OutShape' /\ Head(out[c]) \in UpMessage
    BY <2>1, DeliveringKeepsShape, UpMessages DEF Shape
  <2>3. LoopShape'
    BY <2>1, <2>2 DEF Deal, LoopShape
  <2> QED
    BY <1>1, <2>2, <2>3 DEF Shape, TakeOut, HandlerShape, At, Bytes, EndsShape
<1>2. CASE SendOut
  <2>1. up' \in Seq(UpMessage)
    BY <1>2 DEF SendOut, Shape, LoopShape
  <2>2. LoopShape'
    BY <1>2 DEF SendOut, Shape, LoopShape, BackToSelect
  <2> QED
    BY <1>2, <2>1, <2>2 DEF Shape, SendOut, HandlerShape, At, Bytes, EndsShape, OutShape
<1>3. CASE Forward
  <2> DEFINE c == loop.msg.group
  <2>1. c \in Channels /\ loop.msg.data.n \in Sizes
    BY <1>3, MessageFacts DEF Forward, Shape, LoopShape
  <2>2. inbox' \in [Channels -> Seq(Sizes)] /\ table' \subseteq Channels
    <3>1. Append(inbox[c], loop.msg.data.n) \in Seq(Sizes)
      BY <2>1 DEF Shape
    <3> QED
      BY <1>3, <2>1, <3>1 DEF Forward, Shape
  <2>3. LoopShape'
    BY <1>3 DEF Forward, Shape, LoopShape, BackToSelect
  <2> QED
    BY <1>3, <2>2, <2>3 DEF Shape, Forward, HandlerShape, At, Bytes, EndsShape, OutShape
<1>4. ASSUME NEW c \in Channels, OnCreate(c)
      PROVE  Shape'
  <2>1. down' \in Seq(DownMessage)
    BY <1>4, ReceivingKeepsShape DEF OnCreate
  <2>2. HandlerShape'
    BY <1>4, GoingKeepsShape DEF OnCreate, Places, Shape
  <2> QED
    BY <1>4, <2>1, <2>2 DEF Shape, OnCreate, LoopShape, EndsShape, OutShape
<1>5. ASSUME NEW c \in Channels, OnData(c)
      PROVE  Shape'
  <2>1. /\ down' \in Seq(DownMessage) /\ Head(down) \in DownMessage
        /\ Head(down).data.kind = "data" /\ loop.at = "select"
    BY <1>5, ReceivingKeepsShape DEF OnData
  <2>2. LoopShape'
    BY <1>5, <2>1 DEF OnData, Deal, LoopShape, Shape
  <2> QED
    BY <1>5, <2>1, <2>2 DEF Shape, OnData, HandlerShape, At, Bytes, EndsShape, OutShape
<1>6. ASSUME NEW c \in Channels, OnEof(c)
      PROVE  Shape'
  <2>1. down' \in Seq(DownMessage)
    BY <1>6, ReceivingKeepsShape DEF OnEof
  <2>2. HandlerShape' /\ missed' \subseteq Channels
    <3>1. CASE c \in table
      BY <1>6, <3>1, NotifyingKeepsShape DEF OnEof, Shape
    <3>2. CASE c \notin table
      BY <1>6, <3>2 DEF OnEof, Shape, HandlerShape, At, Bytes
    <3> QED
      BY <3>1, <3>2
  <2>3. table' \subseteq Channels /\ closed' \in [Channels -> BOOLEAN]
    BY <1>6 DEF OnEof, Shape
  <2> QED
    BY <1>6, <2>1, <2>2, <2>3 DEF Shape, OnEof, LoopShape, EndsShape, OutShape
<1>7. ASSUME NEW c \in Channels, OnAck(c)
      PROVE  Shape'
  <2>1. down' \in Seq(DownMessage) /\ Head(down).data.n \in Nat
    BY <1>7, ReceivingKeepsShape, MessageFacts, SizeFacts DEF OnAck
  <2>2. HandlerShape' /\ missed' \subseteq Channels
    <3>1. CASE c \in table
      BY <1>7, <3>1, NotifyingKeepsShape DEF OnAck, Shape
    <3>2. CASE c \notin table
      BY <1>7, <3>2 DEF OnAck, Shape, HandlerShape, At, Bytes
    <3> QED
      BY <3>1, <3>2
  <2>3. capacity' \in [Channels -> Nat]
    <3> DEFINE n == Head(down).data.n
    <3>1. n \in Nat
      BY <2>1
    <3>2. capacity' = [capacity EXCEPT ![c] = @ + n] \/ capacity' = capacity
      BY <1>7 DEF OnAck
    <3> HIDE DEF n
    <3> QED
      BY <3>1, <3>2 DEF Shape
  <2> QED
    BY <1>7, <2>1, <2>2, <2>3 DEF Shape, OnAck, LoopShape, EndsShape, OutShape
<1> QED
  BY <1>1, <1>2, <1>3, <1>4, <1>5, <1>6, <1>7 DEF LoopStep

LEMMA HandlerKeepsShape ==
  ASSUME Shape, NEW c \in Channels, HandlerStep(c)
  PROVE  Shape'
<1> USE DEF Places
<1>1. CASE Connect(c) \/ SeeOpen(c) \/ SeeClosed(c)
  <2>1. HandlerShape'
    BY <1>1, GoingKeepsShape DEF Connect, SeeOpen, SeeClosed, Shape
  <2> QED
    BY <1>1, <2>1 DEF Shape, Connect, SeeOpen, SeeClosed, LoopShape, EndsShape, OutShape
<1>2. CASE Register(c)
  <2>1. HandlerShape'
    <3>1. Bytes(c) \in Nat /\ (At(c) = "capGap" => Bytes(c) \in Sizes)
      BY DEF Shape, HandlerShape, Bytes
    <3> QED
      BY <1>2, <3>1, GoingKeepsShape DEF Register, Shape
  <2> QED
    BY <1>2, <2>1 DEF Shape, Register, LoopShape, EndsShape, OutShape
<1>3. CASE ReadLocal(c)
  <2>1. PICK n \in 1..MaxRead : /\ n <= socket[c].avail
                                /\ socket' = [socket EXCEPT ![c].avail = @ - n]
                                /\ Goto(c, "reserving", n)
    BY <1>3 DEF ReadLocal
  <2>2. n \in Sizes /\ n \in Nat
    BY SizesArePositive DEF Sizes
  <2>3. HandlerShape'
    BY <2>1, <2>2, GoingKeepsShape DEF Shape
  <2>4. EndsShape'
    <3>1. socket[c].avail \in Nat
      BY DEF Shape, EndsShape
    <3>2. socket[c].avail - n \in Nat
      BY <2>1, <2>2, <3>1
    <3>3. socket' = [socket EXCEPT ![c] = [socket[c] EXCEPT !.avail = @ - n]]
      BY <2>1 DEF Shape, EndsShape
    <3>4. [socket[c] EXCEPT !.avail = @ - n] \in [state : {"open", "eof", "broken"}, avail : Nat]
      BY <3>2 DEF Shape, EndsShape
    <3> QED
      BY <1>3, <3>3, <3>4 DEF ReadLocal, Shape, EndsShape
  <2> QED
    BY <1>3, <2>3, <2>4 DEF Shape, ReadLocal, LoopShape, OutShape
<1>4. CASE ReadEof(c) \/ ReadError(c)
  <2>1. HandlerShape'
    BY <1>4, GoingKeepsShape DEF ReadEof, ReadError, Shape
  <2> QED
    BY <1>4, <2>1 DEF Shape, ReadEof, ReadError, LoopShape, EndsShape, OutShape
<1>5. CASE Reserve(c)
  <2>1. Bytes(c) \in Sizes /\ Bytes(c) \in Nat
    BY <1>5 DEF Reserve, Shape, HandlerShape, Bytes
  <2>2. HandlerShape'
    BY <1>5, <2>1, GoingKeepsShape DEF Reserve, Shape
  <2>3. capacity' \in [Channels -> Nat]
    <3>1. CASE UNCHANGED capacity
      BY <3>1 DEF Shape
    <3>2. CASE capacity[c] >= Bytes(c) /\ capacity' = [capacity EXCEPT ![c] = @ - Bytes(c)]
      <4>1. capacity[c] - Bytes(c) \in Nat
        BY <2>1, <3>2 DEF Shape
      <4> QED
        BY <3>2, <4>1 DEF Shape
    <3> QED
      BY <1>5, <3>1, <3>2 DEF Reserve
  <2> QED
    BY <1>5, <2>2, <2>3 DEF Shape, Reserve, LoopShape, EndsShape, OutShape
<1>6. CASE TakeInbox(c)
  <2>1. inbox[c] \in Seq(Sizes) /\ inbox[c] # <<>>
    BY <1>6 DEF TakeInbox, Shape
  <2>2. Head(inbox[c]) \in Sizes /\ Tail(inbox[c]) \in Seq(Sizes)
    BY <2>1
  <2>3. Head(inbox[c]) \in Nat
    BY <2>2, SizeFacts
  <2>4. HandlerShape'
    BY <1>6, <2>2, <2>3, GoingKeepsShape DEF TakeInbox, Shape
  <2>5. inbox' \in [Channels -> Seq(Sizes)]
    BY <1>6, <2>2 DEF TakeInbox, Shape
  <2> QED
    BY <1>6, <2>4, <2>5 DEF Shape, TakeInbox, LoopShape, EndsShape, OutShape
<1>7. CASE Write(c)
  <2>1. Bytes(c) \in Sizes /\ Bytes(c) \in Nat
    BY <1>7 DEF Write, Shape, HandlerShape, Bytes
  <2>2. HandlerShape'
    BY <1>7, <2>1, GoingKeepsShape DEF Write, Shape
  <2> QED
    BY <1>7, <2>2 DEF Shape, Write, LoopShape, EndsShape, OutShape
<1>8. CASE Send(c)
  <2>1. Msg(c, SendKind(c), Bytes(c)) \in UpMessageOf(c) /\ AfterSend(c) \in {"select", "ending"}
    BY <1>8, SentBy
  <2>2. HandlerShape'
    BY <1>8, <2>1, GoingKeepsShape DEF Send, Shape
  <2>3. OutShape'
    BY <1>8, <2>1, AcceptingKeepsShape DEF Send, Shape
  <2> QED
    BY <1>8, <2>2, <2>3 DEF Shape, Send, LoopShape, EndsShape
<1>9. CASE End(c)
  <2>1. HandlerShape'
    BY <1>9, GoingKeepsShape DEF End, Shape
  <2>2. table' \subseteq Channels /\ closed' \in [Channels -> BOOLEAN]
    BY <1>9 DEF End, Shape
  <2> QED
    BY <1>9, <2>1, <2>2 DEF Shape, End, LoopShape, EndsShape, OutShape
<1> QED
  BY <1>1, <1>2, <1>3, <1>4, <1>5, <1>6, <1>7, <1>8, <1>9 DEF HandlerStep

LEMMA EnvironmentKeepsShape ==
  ASSUME Shape, NEW c \in Channels, ServiceStep(c) \/ ServerStep(c)
  PROVE  Shape'
<1>1. /\ table' = table /\ capacity' = capacity /\ closed' = closed /\ missed' = missed
      /\ inbox' = inbox /\ handler' = handler /\ out' = out /\ loop' = loop /\ up' = up
  BY DEF ServiceStep, ServiceEnds, ServerStep, ServerOpens, ServerSends, ServerCloses, clientVars
<1>2. HandlerShape' /\ LoopShape' /\ OutShape'
  BY <1>1 DEF Shape, HandlerShape, LoopShape, OutShape, At, Bytes
<1>3. EndsShape' /\ down' \in Seq(DownMessage)
  <2>1. CASE ServiceStep(c)
    <3>1. PICK state \in {"eof", "broken"} :
            /\ socket' = [socket EXCEPT ![c].state = state]
            /\ UNCHANGED <<down, server>>
      BY <2>1 DEF ServiceStep, ServiceEnds
    <3>2. socket' \in [Channels -> [state : {"open", "eof", "broken"}, avail : Nat]]
      BY <3>1 DEF Shape, EndsShape
    <3> QED
      BY <3>1, <3>2 DEF Shape, EndsShape
  <2>2. CASE ServerOpens(c) \/ ServerCloses(c)
    <3>1. Msg(c, "create", 0) \in DownMessage /\ Msg(c, "eof", 0) \in DownMessage
      BY DEF Msg, DownMessage, DownBody
    <3>2. PICK state \in {"open", "closed"}, kind \in {"create", "eof"} :
            /\ server' = [server EXCEPT ![c].state = state]
            /\ down' = Append(down, Msg(c, kind, 0))
            /\ socket' = socket
      BY <2>2 DEF ServerOpens, ServerCloses
    <3>3. server' \in [Channels -> [state : {"new", "open", "closed"}, credit : Nat, left : Nat]]
      BY <3>2 DEF Shape, EndsShape
    <3>4. down' \in Seq(DownMessage)
      BY <3>1, <3>2 DEF Shape
    <3> QED
      BY <3>2, <3>3, <3>4 DEF Shape, EndsShape
  <2>3. CASE ServerSends(c)
    <3>1. PICK n \in 1..ServerWindow :
            /\ n <= server[c].credit /\ n <= server[c].left
            /\ server' = [server EXCEPT ![c].credit = @ - n, ![c].left = @ - n]
            /\ down' = Append(down, Msg(c, "data", n))
      BY <2>3 DEF ServerSends
    <3>2. n \in Sizes /\ n \in Nat
      BY SizesArePositive DEF Sizes
    <3>3. Msg(c, "data", n) \in DownMessage
      BY <3>2 DEF Msg, DownMessage, DownBody
    <3>4. server[c].credit \in Nat /\ server[c].left \in Nat
      BY DEF Shape, EndsShape
    <3>5. server[c].credit - n \in Nat /\ server[c].left - n \in Nat
      BY <3>1, <3>2, <3>4
    <3>6. server' = [server EXCEPT ![c] =
                       [server[c] EXCEPT !.credit = @ - n, !.left = @ - n]]
      BY <3>1 DEF Shape, EndsShape
    <3> DEFINE after == [server[c] EXCEPT !.credit = @ - n, !.left = @ - n]
    <3>7. after \in [state : {"new", "open", "closed"}, credit : Nat, left : Nat]
      BY <3>5 DEF Shape, EndsShape
    <3> HIDE DEF after
    <3>8. server' \in [Channels -> [state : {"new", "open", "closed"}, credit : Nat, left : Nat]]
      BY <3>6, <3>7 DEF Shape, EndsShape, after
    <3>9. down' \in Seq(DownMessage) /\ socket' = socket
      BY <2>3, <3>1, <3>3 DEF Shape, ServerSends
    <3> QED
      BY <3>8, <3>9 DEF Shape, EndsShape
  <2> QED
    BY <2>1, <2>2, <2>3 DEF ServerStep
<1> QED
  BY <1>1, <1>2, <1>3 DEF Shape

(* What the server takes, and what it answers. *)
LEMMA ServerTaking ==
  ASSUME Shape, ServerTakes
  PROVE  /\ up # <<>> /\ Head(up) \in UpMessage /\ Head(up) \in AnyMessage
         /\ up' = Tail(up) /\ up' \in Seq(UpMessage)
         /\ Head(up).data.kind = "data"
              => Msg(Head(up).group, "ack", Head(up).data.n) \in DownMessage
<1>1. up # <<>> /\ up \in Seq(UpMessage) /\ up' = Tail(up)
  BY DEF Shape, ServerTakes
<1>2. Head(up) \in UpMessage /\ Tail(up) \in Seq(UpMessage)
  BY <1>1
<1>3. Head(up).data.kind = "data" => Head(up).data.n \in Sizes /\ Head(up).group \in Channels
  BY <1>2 DEF UpMessage, Body, Sizes
<1> QED
  BY <1>1, <1>2, <1>3, MessageFacts DEF Msg, DownMessage, DownBody

LEMMA TakingKeepsShape ==
  ASSUME Shape, ServerTakes
  PROVE  Shape'
<1> DEFINE c == Head(up).group
           body == Head(up).data
<1>1. /\ table' = table /\ capacity' = capacity /\ closed' = closed /\ missed' = missed
      /\ inbox' = inbox /\ handler' = handler /\ out' = out /\ loop' = loop
      /\ socket' = socket
  BY DEF ServerTakes, clientVars
<1>2. HandlerShape' /\ LoopShape' /\ OutShape'
  BY <1>1 DEF Shape, HandlerShape, LoopShape, OutShape, At, Bytes
<1>3. c \in Channels /\ body.n \in Nat
  BY ServerTaking, MessageFacts, SizeFacts
<1>4. down' \in Seq(DownMessage)
  <2>1. \/ down' = down
        \/ body.kind = "data" /\ down' = Append(down, Msg(c, "ack", body.n))
    BY DEF ServerTakes
  <2>2. body.kind = "data" => Msg(c, "ack", body.n) \in DownMessage
    BY ServerTaking
  <2>3. \A m \in DownMessage : Append(down, m) \in Seq(DownMessage)
    BY DEF Shape
  <2>4. down \in Seq(DownMessage)
    BY DEF Shape
  <2> QED
    BY <2>1, <2>2, <2>3, <2>4, Zenon
<1>5. EndsShape'
  <2>1. \/ server' = server
        \/ server' = [server EXCEPT ![c].credit = @ + body.n]
        \/ server' = [server EXCEPT ![c].state = "closed"]
    BY DEF ServerTakes
  <2> HIDE DEF c, body
  <2>2. server[c] \in [state : {"new", "open", "closed"}, credit : Nat, left : Nat]
    BY <1>3 DEF Shape, EndsShape
  <2>3. server[c].credit + body.n \in Nat
    BY <1>3, <2>2
  <2> DEFINE Ends == [state : {"new", "open", "closed"}, credit : Nat, left : Nat]
             paid == [server[c] EXCEPT !.credit = @ + body.n]
             shut == [server[c] EXCEPT !.state = "closed"]
  <2>5. paid \in Ends /\ shut \in Ends
    BY <2>2, <2>3
  <2>6. server' = server \/ server' = [server EXCEPT ![c] = paid]
          \/ server' = [server EXCEPT ![c] = shut]
    BY <2>1 DEF Shape, EndsShape
  <2> HIDE DEF paid, shut
  <2>4. server' \in [Channels -> Ends]
    BY <1>3, <2>5, <2>6 DEF Shape, EndsShape
  <2> QED
    BY <1>1, <2>4 DEF Shape, EndsShape
<1> QED
  BY <1>1, <1>2, <1>4, <1>5, ServerTaking DEF Shape

LEMMA NextKeepsShape ==
  ASSUME Shape, [Next]_vars
  PROVE  Shape'
<1>1. CASE Next
  BY <1>1, LoopKeepsShape, HandlerKeepsShape, EnvironmentKeepsShape, TakingKeepsShape DEF Next
<1>2. CASE UNCHANGED vars
  BY <1>2 DEF vars, clientVars, Shape, HandlerShape, LoopShape, OutShape, EndsShape, At, Bytes
<1> QED
  BY <1>1, <1>2

(* The state always has its type, and no handler overdraws the capacity of its *)
(* channel, whatever acknowledgements and reads come in which order            *)
(* (data.rs:33-72).                                                            *)
THEOREM TypeCorrect == Spec => []TypeOK
<1>1. Init => Shape
  BY InitShape
<1>2. Shape /\ [Next]_vars => Shape'
  BY NextKeepsShape
<1>3. Shape => TypeOK
  <2> SUFFICES ASSUME Shape
               PROVE  TypeOK
    OBVIOUS
  <2>1. Seq(Sizes) \subseteq Seq(Nat \ {0})
    <3>1. Sizes \subseteq Nat \ {0}
      BY SizeFacts DEF Sizes
    <3> QED
      BY <3>1, SeqMonotonic
  <2>2. Seq(UpMessage) \subseteq Seq(Fifo!Message)
    <3>1. UpMessage \subseteq Fifo!Message
      BY DEF UpMessage, Fifo!Message, Fifo!Classes
    <3> QED
      BY <3>1, SeqMonotonic
  <2>3. Fifo!TypeOK
    BY <2>2 DEF Shape, OutShape, Fifo!TypeOK
  <2>4. inbox \in [Channels -> Seq(Nat \ {0})]
    BY <2>1 DEF Shape
  <2>5. loop.at \in {"select", "sending", "forwarding"} /\ loop.msg.group \in Channels
    BY MessageFacts DEF Shape, LoopShape, AnyMessage
  <2> QED
    BY <2>3, <2>4, <2>5 DEF Shape, HandlerShape, TypeOK
<1> QED
  BY <1>1, <1>2, <1>3, PTL DEF Spec

-----------------------------------------------------------------------------
(* Who sleeps *)

(* A step elsewhere. *)
LEMMA AwakeApart ==
  ASSUME Awake, UNCHANGED <<capacity, closed, missed, handler>>
  PROVE  Awake'
BY DEF Awake, At, Bytes

(* A handler moves, to a place where it sleeps only with good reason. *)
LEMMA GoingStaysAwake ==
  ASSUME Awake, Shape, NEW c \in Channels, NEW place, NEW n,
         Goto(c, place, n), missed \subseteq missed' \cup {c}, missed' \subseteq missed,
         \A d \in Channels \ {c} : capacity'[d] = capacity[d] /\ closed'[d] = closed[d],
         c \notin missed' =>
           /\ place \in {"capGap", "waiting"} => ~ closed'[c] /\ capacity'[c] < n
           /\ place \in {"selectGap", "parked"} => ~ closed'[c]
  PROVE  Awake'
<1>1. handler'[c] = [at |-> place, n |-> n]
  BY DEF Goto, Shape, HandlerShape
<1>2. \A d \in Channels \ {c} : handler'[d] = handler[d]
  BY DEF Goto, Shape, HandlerShape
<1> QED
  BY <1>1, <1>2 DEF Awake, At, Bytes

(* A notification leaves nobody asleep, and remembers whom it did not find. *)
LEMMA NotifyingWakes ==
  ASSUME Awake, Shape, NEW c \in Channels, Notify(c),
         \A d \in Channels \ {c} : capacity'[d] = capacity[d] /\ closed'[d] = closed[d]
  PROVE  Awake'
<1>1. \A d \in Channels \ {c} : handler'[d] = handler[d] /\ (d \in missed' <=> d \in missed)
  BY DEF Notify, Shape, HandlerShape
<1>2. handler'[c] = Woken(c)
  BY DEF Notify, Shape, HandlerShape
<1>3. c \notin missed' => Woken(c).at \notin {"capGap", "waiting", "selectGap", "parked"}
  BY DEF Notify, Woken, At, Shape, HandlerShape
<1> QED
  BY <1>1, <1>2, <1>3 DEF Awake, At, Bytes

LEMMA LoopStaysAwake ==
  ASSUME Awake, Shape, LoopStep
  PROVE  Awake'
<1>1. CASE TakeOut \/ SendOut \/ Forward \/ \E c \in Channels : OnData(c)
  BY <1>1, AwakeApart DEF TakeOut, SendOut, Forward, OnData
<1>2. ASSUME NEW c \in Channels, OnCreate(c)
      PROVE  Awake'
  BY <1>2, GoingStaysAwake DEF OnCreate
<1>3. ASSUME NEW c \in Channels, OnEof(c)
      PROVE  Awake'
  <2>1. CASE c \in table
    <3>1. closed' = [closed EXCEPT ![c] = TRUE] /\ capacity' = capacity /\ Notify(c)
      BY <1>3, <2>1 DEF OnEof
    <3> QED
      BY <3>1, NotifyingWakes DEF Shape
  <2>2. CASE c \notin table
    BY <1>3, <2>2, AwakeApart DEF OnEof
  <2> QED
    BY <2>1, <2>2
<1>4. ASSUME NEW c \in Channels, OnAck(c)
      PROVE  Awake'
  <2>1. CASE c \in table
    <3>1. /\ capacity' = [capacity EXCEPT ![c] = @ + Head(down).data.n]
          /\ closed' = closed /\ Notify(c)
      BY <1>4, <2>1 DEF OnAck
    <3>2. \A d \in Channels \ {c} : capacity'[d] = capacity[d]
      BY <3>1 DEF Shape
    <3> QED
      BY <3>1, <3>2, NotifyingWakes
  <2>2. CASE c \notin table
    BY <1>4, <2>2, AwakeApart DEF OnAck
  <2> QED
    BY <2>1, <2>2
<1> QED
  BY <1>1, <1>2, <1>3, <1>4 DEF LoopStep

LEMMA HandlerStaysAwake ==
  ASSUME Awake, Shape, NEW c \in Channels, HandlerStep(c)
  PROVE  Awake'
<1>1. CASE Connect(c) \/ SeeOpen(c) \/ SeeClosed(c) \/ Write(c) \/ Send(c)
  <2>1. AfterSend(c) \in {"select", "ending"}
    BY DEF AfterSend
  <2> QED
    BY <1>1, <2>1, GoingStaysAwake DEF Connect, SeeOpen, SeeClosed, Write, Send
<1>2. CASE Register(c)
  <2>1. CASE At(c) = "selectGap"
    <3>1. Goto(c, "parked", 0)
      BY <1>2, <2>1 DEF Register
    <3>2. c \notin missed => ~ closed[c]
      BY <2>1 DEF Awake
    <3> QED
      BY <1>2, <3>1, <3>2, GoingStaysAwake DEF Register
  <2>2. CASE At(c) = "capGap"
    <3>1. Goto(c, "waiting", Bytes(c))
      BY <1>2, <2>2 DEF Register
    <3>2. c \notin missed => ~ closed[c] /\ capacity[c] < Bytes(c)
      BY <2>2 DEF Awake
    <3> QED
      BY <1>2, <3>1, <3>2, GoingStaysAwake DEF Register
  <2> QED
    BY <1>2, <2>1, <2>2 DEF Register
<1>3. CASE ReadLocal(c) \/ ReadEof(c) \/ ReadError(c) \/ TakeInbox(c)
  <2>1. PICK place \in {"reserving", "sendEof", "sendErr", "writing"} : \E n : Goto(c, place, n)
    BY <1>3 DEF ReadLocal, ReadEof, ReadError, TakeInbox
  <2>2. missed' = missed \ {c} /\ capacity' = capacity /\ closed' = closed
    BY <1>3 DEF ReadLocal, ReadEof, ReadError, TakeInbox
  <2> QED
    BY <2>1, <2>2, GoingStaysAwake
<1>4. CASE Reserve(c)
  <2>1. closed' = closed /\ missed' = missed
    BY <1>4 DEF Reserve
  <2>2. CASE closed[c] /\ Goto(c, "ending", 0) /\ UNCHANGED capacity
    BY <2>1, <2>2, GoingStaysAwake
  <2>3. CASE /\ capacity' = [capacity EXCEPT ![c] = @ - Bytes(c)]
             /\ Goto(c, "sendData", Bytes(c))
    <3>1. \A d \in Channels \ {c} : capacity'[d] = capacity[d]
      BY <2>3 DEF Shape
    <3> QED
      BY <2>1, <2>3, <3>1, GoingStaysAwake
  <2>4. CASE /\ ~ closed[c] /\ capacity[c] < Bytes(c)
             /\ Goto(c, "capGap", Bytes(c)) /\ UNCHANGED capacity
    BY <2>1, <2>4, GoingStaysAwake
  <2> QED
    BY <1>4, <2>2, <2>3, <2>4 DEF Reserve
<1>5. CASE End(c)
  <2>1. \A d \in Channels \ {c} : closed'[d] = closed[d]
    BY <1>5 DEF End, Shape
  <2> QED
    BY <1>5, <2>1, GoingStaysAwake DEF End
<1> QED
  BY <1>1, <1>2, <1>3, <1>4, <1>5 DEF HandlerStep

LEMMA NextStaysAwake ==
  ASSUME Shape, Awake, [Next]_vars
  PROVE  Awake'
<1>1. CASE ServerTakes \/ \E c \in Channels : ServiceStep(c) \/ ServerStep(c)
  BY <1>1, AwakeApart
  DEF ServerTakes, ServiceStep, ServiceEnds, ServerStep, ServerOpens, ServerSends,
      ServerCloses, clientVars
<1>2. CASE UNCHANGED vars
  BY <1>2, AwakeApart DEF vars, clientVars
<1> QED
  BY <1>1, <1>2, LoopStaysAwake, HandlerStaysAwake DEF Next

(* DataChannel's two waits check first and register after (data.rs:74, 94).    *)
(* That gap is the only place where an acknowledgement or a close is missed:   *)
(* a handler that sleeps without having missed one has nothing to wake up for. *)
THEOREM OnlyTheGapOversleeps == Spec => []SleepsOnlyIfMissed
<1>1. Init => Shape /\ Awake
  <2>1. Init => Awake
    BY DEF Init, Awake, At
  <2> QED
    BY <2>1, InitShape
<1>2. Shape /\ Awake /\ [Next]_vars => Shape' /\ Awake'
  BY NextKeepsShape, NextStaysAwake
<1>3. Awake => SleepsOnlyIfMissed
  BY DEF Awake, SleepsOnlyIfMissed
<1> QED
  BY <1>1, <1>2, <1>3, PTL DEF Spec

-----------------------------------------------------------------------------
(* The life of a channel *)

LEMMA InitLife ==
  ASSUME Init, NEW c \in Channels
  PROVE  Life(c)
<1>1. /\ down = <<>> /\ up = <<>> /\ table = {} /\ loop.at = "select"
      /\ server[c].state = "new" /\ handler[c].at = "none" /\ out[c] = <<>>
  BY UpMessages DEF Init, Fifo!Init
<1>2. /\ ~ Mentions(down, c) /\ ~ Mentions(up, c)
      /\ ~ Has(down, c, "create") /\ ~ Has(down, c, "eof")
      /\ CreatesFirst(down, c) /\ EofsLast(down, c)
  BY <1>1, OrderOfNothing
<1> QED
  BY <1>1, <1>2 DEF Life, At, OwnsInbox

(* A step that leaves the way down alone. *)
LEMMA LivingOn ==
  ASSUME NEW c \in Channels, Life(c),
         server'[c].state = server[c].state, down' = down,
         At(c)' = "none" <=> At(c) = "none",
         OwnsInbox(c)' => OwnsInbox(c),
         c \in table' => c \in table,
         c \in table /\ OwnsInbox(c)' => c \in table',
         loop'.at # "select" /\ loop'.msg.group = c => At(c) # "none",
         At(c) = "none" => out'[c] = <<>> /\ ~ Mentions(up', c)
  PROVE  Life(c)'
BY DEF Life

(* The first message that comes down for a channel creates it. *)
LEMMA FirstIsCreate ==
  ASSUME Shape, NEW c \in Channels, Life(c), down # <<>>, Head(down).group = c
  PROVE  /\ At(c) = "none" <=> Head(down).data.kind = "create"
         /\ server[c].state # "new"
<1>1. /\ Mentions(down, c)
      /\ Has(down, c, "create")
           <=> Has(Tail(down), c, "create") \/ Head(down).data.kind = "create"
      /\ ~ Has(Tail(down), c, "create")
  BY OrderOfPopped DEF Shape, Life
<1> QED
  BY <1>1 DEF Life

(* The channel whose message the loop receives, and the others. *)
LEMMA LivingOnReceiving ==
  ASSUME Shape, NEW c \in Channels, Life(c), down # <<>>, down' = Tail(down),
         server' = server, out' = out, up' = up,
         IF Head(down).group = c /\ Head(down).data.kind = "create"
         THEN At(c)' # "none" /\ c \in table'
         ELSE /\ At(c)' = "none" <=> At(c) = "none"
              /\ OwnsInbox(c)' => OwnsInbox(c)
              /\ c \in table' => c \in table
              /\ c \in table => c \in table'
                   \/ (Head(down).group = c /\ Head(down).data.kind = "eof"),
         loop'.at # "select" /\ loop'.msg.group = c =>
           At(c) # "none" \/ Head(down).group = c
  PROVE  Life(c)'
<1> DEFINE h == Head(down)
           t == Tail(down)
<1>1. /\ Mentions(down, c) <=> Mentions(t, c) \/ h.group = c
      /\ Has(down, c, "create")
           <=> Has(t, c, "create") \/ (h.group = c /\ h.data.kind = "create")
      /\ Has(down, c, "eof") <=> Has(t, c, "eof") \/ (h.group = c /\ h.data.kind = "eof")
      /\ CreatesFirst(t, c) /\ (Has(t, c, "create") => h.group # c)
      /\ EofsLast(t, c) /\ (h.group = c /\ h.data.kind = "eof" => ~ Mentions(t, c))
  BY OrderOfPopped DEF Shape, Life
<1>2. h.group = c => (At(c) = "none" <=> h.data.kind = "create") /\ server[c].state # "new"
  BY FirstIsCreate
<1>3. down' = t
  OBVIOUS
<1> HIDE DEF h, t
<1>4. CASE h.group = c /\ h.data.kind = "create"
  <2>1. At(c)' # "none" /\ c \in table'
    BY <1>4 DEF h
  <2> QED
    BY <1>1, <1>2, <1>3, <1>4, <2>1 DEF Life
<1>5. CASE ~ (h.group = c /\ h.data.kind = "create")
  <2>1. /\ At(c)' = "none" <=> At(c) = "none"
        /\ OwnsInbox(c)' => OwnsInbox(c)
        /\ c \in table' => c \in table
        /\ c \in table => c \in table' \/ (h.group = c /\ h.data.kind = "eof")
        /\ loop'.at # "select" /\ loop'.msg.group = c => At(c) # "none" \/ h.group = c
    BY <1>5 DEF h
  <2>2. CASE h.group = c
    BY <1>1, <1>2, <1>3, <1>5, <2>1, <2>2 DEF Life
  <2>3. CASE h.group # c
    BY <1>1, <1>3, <2>1, <2>3 DEF Life
  <2> QED
    BY <2>2, <2>3
<1> QED
  BY <1>4, <1>5

(* The server says something: it creates the channel, or goes on while the     *)
(* channel is open, or closes it.                                              *)
LEMMA LivingOnSaying ==
  ASSUME Shape, NEW c \in Channels, Life(c), NEW m \in DownMessage, down' = Append(down, m),
         handler' = handler, table' = table, loop' = loop, out' = out,
         Mentions(up', c) => Mentions(up, c),
         m.group # c => server'[c].state = server[c].state,
         m.group = c =>
           \/ /\ m.data.kind = "create"
              /\ server[c].state = "new" /\ server'[c].state = "open"
           \/ /\ m.data.kind \in {"data", "ack"}
              /\ server[c].state = "open" /\ server'[c].state = "open"
           \/ /\ m.data.kind = "eof"
              /\ server[c].state = "open" /\ server'[c].state = "closed"
  PROVE  Life(c)'
<1>1. /\ Mentions(down', c) <=> Mentions(down, c) \/ m.group = c
      /\ Has(down', c, "create")
           <=> Has(down, c, "create") \/ (m.group = c /\ m.data.kind = "create")
      /\ Has(down', c, "eof") <=> Has(down, c, "eof") \/ (m.group = c /\ m.data.kind = "eof")
      /\ (m.group = c /\ m.data.kind = "create" => ~ Mentions(down, c)) => CreatesFirst(down', c)
      /\ (m.group = c => ~ Has(down, c, "eof")) => EofsLast(down', c)
  BY OrderOfAppended DEF Shape, Life
<1>2. At(c)' = At(c) /\ (OwnsInbox(c)' <=> OwnsInbox(c))
  BY DEF At, OwnsInbox
<1>3. ~ Mentions(down, c) => ~ Has(down, c, "create") /\ ~ Has(down, c, "eof")
  BY HasMentions
<1>4. CASE m.group # c
  BY <1>1, <1>2, <1>4 DEF Life
<1>5. CASE m.group = c /\ m.data.kind = "create"
  BY <1>1, <1>2, <1>3, <1>5 DEF Life, OwnsInbox
<1>6. CASE m.group = c /\ m.data.kind \in {"data", "ack"}
  BY <1>1, <1>2, <1>6 DEF Life
<1>7. CASE m.group = c /\ m.data.kind = "eof"
  BY <1>1, <1>2, <1>7 DEF Life
<1> QED
  BY <1>4, <1>5, <1>6, <1>7

LEMMA LoopLivesOn ==
  ASSUME Shape, LoopStep, NEW c \in Channels, Life(c)
  PROVE  Life(c)'
<1>1. CASE TakeOut
  <2>1. PICK d \in Channels : Fifo!Deliver(d) /\ Deal("sending", Head(out[d]))
    BY <1>1 DEF TakeOut
  <2>2. /\ out' = [out EXCEPT ![d] = Tail(@)] /\ out[d] # <<>>
        /\ Head(out[d]).group = d
    BY <2>1, DeliveringKeepsShape, UpMessages DEF Shape
  <2>3. At(c) = "none" => out[c] = <<>>
    BY DEF Life
  <2>4. At(c) = "none" => c # d /\ out'[c] = <<>>
    BY <2>2, <2>3, UpMessages DEF Shape, OutShape
  <2>5. loop'.msg.group = d
    BY <2>1, <2>2 DEF Deal
  <2>6. server' = server /\ down' = down /\ handler' = handler /\ table' = table /\ up' = up
    BY <1>1 DEF TakeOut
  <2>7. At(c)' = At(c) /\ (OwnsInbox(c)' <=> OwnsInbox(c))
    BY <2>6 DEF At, OwnsInbox
  <2>8. At(c) = "none" => ~ Mentions(up, c)
    BY DEF Life
  <2> QED
    BY <2>4, <2>5, <2>6, <2>7, <2>8, LivingOn
<1>2. CASE SendOut
  <2>1. /\ server' = server /\ down' = down /\ handler' = handler /\ table' = table
        /\ out' = out /\ loop'.at = "select"
        /\ up' = Append(up, loop.msg) /\ loop.at = "sending"
    BY <1>2 DEF SendOut, BackToSelect, Shape, LoopShape
  <2>2. At(c)' = At(c) /\ (OwnsInbox(c)' <=> OwnsInbox(c))
    BY <2>1 DEF At, OwnsInbox
  <2>3. up \in Seq(UpMessage) /\ loop.msg \in UpMessage
    BY <2>1 DEF Shape, LoopShape
  <2>4. Mentions(up', c) <=> Mentions(up, c) \/ loop.msg.group = c
    BY <2>1, <2>3, OrderOfAppended
  <2>5. At(c) = "none" => out[c] = <<>> /\ ~ Mentions(up, c) /\ loop.msg.group # c
    BY <2>1 DEF Life
  <2> QED
    BY <2>1, <2>2, <2>4, <2>5, LivingOn
<1>3. CASE Forward
  <2>1. /\ server' = server /\ down' = down /\ handler' = handler /\ out' = out /\ up' = up
        /\ loop'.at = "select"
        /\ table' = table \/ (~ OwnsInbox(loop.msg.group) /\ table' = table \ {loop.msg.group})
    BY <1>3 DEF Forward, BackToSelect, Shape, LoopShape
  <2>2. At(c)' = At(c) /\ (OwnsInbox(c)' <=> OwnsInbox(c))
    BY <2>1 DEF At, OwnsInbox
  <2>3. At(c) = "none" => out[c] = <<>> /\ ~ Mentions(up, c)
    BY DEF Life
  <2> QED
    BY <2>1, <2>2, <2>3, LivingOn
<1>4. ASSUME NEW d \in Channels, OnCreate(d)
      PROVE  Life(c)'
  <2>1. /\ down # <<>> /\ down' = Tail(down) /\ loop' = loop /\ loop.at = "select"
        /\ Head(down).group = d /\ Head(down).data.kind = "create"
        /\ server' = server /\ out' = out /\ up' = up /\ table' = table \cup {d}
    BY <1>4, ReceivingKeepsShape DEF OnCreate
  <2>2. handler' = [handler EXCEPT ![d] = [at |-> "connecting", n |-> 0]]
    BY <1>4 DEF OnCreate, Goto
  <2>3. IF c = d THEN At(c)' = "connecting" ELSE At(c)' = At(c)
    BY <2>2 DEF At, Shape, HandlerShape
  <2> QED
    BY <2>1, <2>3, LivingOnReceiving DEF OwnsInbox
<1>5. ASSUME NEW d \in Channels, OnData(d)
      PROVE  Life(c)'
  <2>1. /\ down # <<>> /\ down' = Tail(down) /\ loop.at = "select"
        /\ Head(down).group = d /\ Head(down).data.kind = "data"
        /\ server' = server /\ out' = out /\ up' = up /\ table' = table
        /\ handler' = handler
    BY <1>5, ReceivingKeepsShape DEF OnData
  <2>2. At(c)' = At(c) /\ (OwnsInbox(c)' <=> OwnsInbox(c))
    BY <2>1 DEF At, OwnsInbox
  <2>3. loop' = loop \/ loop'.msg = Head(down)
    BY <1>5 DEF OnData, Deal
  <2> QED
    BY <2>1, <2>2, <2>3, LivingOnReceiving
<1>6. ASSUME NEW d \in Channels, OnEof(d)
      PROVE  Life(c)'
  <2>1. /\ down # <<>> /\ down' = Tail(down) /\ loop' = loop /\ loop.at = "select"
        /\ Head(down).group = d /\ Head(down).data.kind = "eof"
        /\ server' = server /\ out' = out /\ up' = up
        /\ table' = table \ {d}
    BY <1>6, ReceivingKeepsShape DEF OnEof
  <2>2. handler' = handler \/ handler' = [handler EXCEPT ![d] = Woken(d)]
    BY <1>6 DEF OnEof, Notify
  <2>3. (At(c)' = "none" <=> At(c) = "none") /\ (OwnsInbox(c)' => OwnsInbox(c))
    BY <2>2 DEF At, OwnsInbox, Woken, Shape, HandlerShape
  <2> QED
    BY <2>1, <2>3, LivingOnReceiving
<1>7. ASSUME NEW d \in Channels, OnAck(d)
      PROVE  Life(c)'
  <2>1. /\ down # <<>> /\ down' = Tail(down) /\ loop' = loop /\ loop.at = "select"
        /\ Head(down).group = d /\ Head(down).data.kind = "ack"
        /\ server' = server /\ out' = out /\ up' = up
        /\ table' = table
    BY <1>7, ReceivingKeepsShape DEF OnAck
  <2>2. handler' = handler \/ handler' = [handler EXCEPT ![d] = Woken(d)]
    BY <1>7 DEF OnAck, Notify
  <2>3. (At(c)' = "none" <=> At(c) = "none") /\ (OwnsInbox(c)' => OwnsInbox(c))
    BY <2>2 DEF At, OwnsInbox, Woken, Shape, HandlerShape
  <2> QED
    BY <2>1, <2>3, LivingOnReceiving
<1> QED
  BY <1>1, <1>2, <1>3, <1>4, <1>5, <1>6, <1>7 DEF LoopStep

(* A handler neither starts nor goes back to its inbox, and touches nothing of *)
(* another channel.                                                            *)
LEMMA HandlersMind ==
  ASSUME Shape, NEW d \in Channels, HandlerStep(d)
  PROVE  /\ UNCHANGED <<loop, up, down, server>>
         /\ At(d) # "none" /\ At(d)' # "none" /\ (OwnsInbox(d)' => OwnsInbox(d))
         /\ d \in table' => d \in table
         /\ d \in table /\ OwnsInbox(d)' => d \in table'
         /\ \A c \in Channels \ {d} :
              /\ handler'[c] = handler[c] /\ (c \in table' <=> c \in table)
              /\ out'[c] = out[c] /\ inbox'[c] = inbox[c] /\ capacity'[c] = capacity[c]
<1> USE DEF At, OwnsInbox
<1>1. handler \in [Channels -> [at : Places, n : Nat]]
  BY DEF Shape, HandlerShape
<1>2. \A place, n : Goto(d, place, n) =>
        /\ handler'[d].at = place
        /\ \A c \in Channels \ {d} : handler'[c] = handler[c]
  BY <1>1 DEF Goto
<1>3. CASE Connect(d) \/ SeeOpen(d) \/ SeeClosed(d) \/ Register(d)
  BY <1>2, <1>3 DEF Connect, SeeOpen, SeeClosed, Register
<1>4. CASE ReadLocal(d) \/ ReadEof(d) \/ ReadError(d) \/ Write(d)
  BY <1>2, <1>4 DEF ReadLocal, ReadEof, ReadError, Write, InSelect
<1>5. CASE Reserve(d)
  <2>1. \A c \in Channels \ {d} : capacity'[c] = capacity[c]
    BY <1>5 DEF Reserve, Shape
  <2> QED
    BY <1>2, <1>5, <2>1 DEF Reserve
<1>6. CASE TakeInbox(d)
  <2>1. \A c \in Channels \ {d} : inbox'[c] = inbox[c]
    BY <1>6 DEF TakeInbox, Shape
  <2> QED
    BY <1>2, <1>6, <2>1 DEF TakeInbox, InSelect
<1>7. CASE Send(d)
  <2>1. out' = [out EXCEPT ![d] = Append(@, Msg(d, SendKind(d), Bytes(d)))]
    BY <1>7, SentBy, AcceptingKeepsShape DEF Send, Shape
  <2>2. \A c \in Channels \ {d} : out'[c] = out[c]
    BY <2>1, UpMessages DEF Shape, OutShape
  <2>3. AfterSend(d) = "ending" \/ (AfterSend(d) = "select" /\ At(d) \in {"sendData", "sendAck"})
    BY DEF AfterSend
  <2> QED
    BY <1>2, <1>7, <2>2, <2>3 DEF Send
<1>8. CASE End(d)
  BY <1>2, <1>8 DEF End
<1> QED
  BY <1>3, <1>4, <1>5, <1>6, <1>7, <1>8 DEF HandlerStep

LEMMA HandlerLivesOn ==
  ASSUME Shape, NEW d \in Channels, HandlerStep(d), NEW c \in Channels, Life(c)
  PROVE  Life(c)'
<1>1. /\ server' = server /\ down' = down /\ loop' = loop /\ up' = up
      /\ At(c)' = "none" <=> At(c) = "none"
      /\ OwnsInbox(c)' => OwnsInbox(c)
      /\ c \in table' => c \in table
      /\ c \in table /\ OwnsInbox(c)' => c \in table'
      /\ At(c) = "none" => out'[c] = out[c]
  BY HandlersMind DEF At, OwnsInbox
<1>2. /\ At(c) = "none" => out[c] = <<>> /\ ~ Mentions(up, c)
      /\ loop.at # "select" /\ loop.msg.group = c => At(c) # "none"
  BY DEF Life
<1> QED
  BY <1>1, <1>2, LivingOn

LEMMA EnvironmentLivesOn ==
  ASSUME Shape, NEW d \in Channels, ServiceStep(d) \/ ServerStep(d),
         NEW c \in Channels, Life(c)
  PROVE  Life(c)'
<1>1. /\ table' = table /\ handler' = handler /\ out' = out /\ loop' = loop /\ up' = up
  BY DEF ServiceStep, ServiceEnds, ServerStep, ServerOpens, ServerSends, ServerCloses, clientVars
<1>2. CASE ServiceStep(d)
  <2>1. server' = server /\ down' = down
    BY <1>2 DEF ServiceStep, ServiceEnds
  <2> QED
    BY <1>1, <2>1 DEF Life, At, OwnsInbox
<1>3. CASE ServerStep(d)
  <2>1. \E m \in DownMessage :
          /\ down' = Append(down, m) /\ m.group = d
          /\ \A e \in Channels \ {d} : server'[e] = server[e]
          /\ \/ /\ m.data.kind = "create"
                /\ server[d].state = "new" /\ server'[d].state = "open"
             \/ /\ m.data.kind \in {"data", "ack"}
                /\ server[d].state = "open" /\ server'[d].state = "open"
             \/ /\ m.data.kind = "eof"
                /\ server[d].state = "open" /\ server'[d].state = "closed"
    <3>1. Msg(d, "create", 0) \in DownMessage /\ Msg(d, "eof", 0) \in DownMessage
      BY DEF Msg, DownMessage, DownBody
    <3>2. \A n \in 1..ServerWindow : Msg(d, "data", n) \in DownMessage
      <4>1. 1..ServerWindow \subseteq Sizes
        BY SizesArePositive DEF Sizes
      <4> QED
        BY <4>1 DEF Msg, DownMessage, DownBody
    <3>3. \A kind, n : Msg(d, kind, n).group = d /\ Msg(d, kind, n).data.kind = kind
      BY DEF Msg
    <3>4. CASE ServerOpens(d)
      BY <3>1, <3>3, <3>4 DEF ServerOpens, Shape, EndsShape
    <3>5. CASE ServerSends(d)
      <4>1. PICK n \in 1..ServerWindow :
              /\ server' = [server EXCEPT ![d].credit = @ - n, ![d].left = @ - n]
              /\ down' = Append(down, Msg(d, "data", n))
        BY <3>5 DEF ServerSends
      <4>2. server[d].state = "open"
        BY <3>5 DEF ServerSends
      <4>3. server'[d].state = server[d].state /\ \A e \in Channels \ {d} : server'[e] = server[e]
        BY <4>1 DEF Shape, EndsShape
      <4> DEFINE m == Msg(d, "data", n)
      <4>4. m \in DownMessage /\ m.group = d /\ m.data.kind = "data"
        BY <3>2, <3>3
      <4>5. down' = Append(down, m)
        BY <4>1
      <4> HIDE DEF m
      <4> QED
        BY <4>2, <4>3, <4>4, <4>5
    <3>6. CASE ServerCloses(d)
      BY <3>1, <3>3, <3>6 DEF ServerCloses, Shape, EndsShape
    <3> QED
      BY <1>3, <3>4, <3>5, <3>6 DEF ServerStep
  <2> QED
    BY <1>1, <2>1, LivingOnSaying
<1> QED
  BY <1>2, <1>3

LEMMA TakingLivesOn ==
  ASSUME Shape, ServerTakes, NEW c \in Channels, Life(c), Life(Head(up).group)
  PROVE  Life(c)'
<1> DEFINE d == Head(up).group
           body == Head(up).data
<1>1. /\ table' = table /\ handler' = handler /\ out' = out /\ loop' = loop
  BY DEF ServerTakes, clientVars
<1>2. d \in Channels /\ (body.kind = "data" => Msg(d, "ack", body.n) \in DownMessage)
  BY ServerTaking, MessageFacts
<1>3. Mentions(up, c) <=> Mentions(up', c) \/ d = c
  <2>1. up # <<>> /\ up \in Seq(UpMessage) /\ up' = Tail(up)
    BY ServerTaking DEF Shape
  <2>2. Mentions(up, c) <=> Mentions(Tail(up), c) \/ d = c
    BY <2>1, OrderOfPopped
  <2> QED
    BY <2>1, <2>2
<1>4. Mentions(up, d)
  BY ServerTaking, OrderOfPopped DEF Shape
<1>5. At(d) # "none"
  BY <1>4 DEF Life
<1> HIDE DEF d, body
<1>6. CASE body.kind = "data" /\ server[d].state = "open"
  <2>1. down' = Append(down, Msg(d, "ack", body.n)) /\ server' = server
    BY <1>6 DEF ServerTakes, d, body
  <2>2. Msg(d, "ack", body.n).group = d /\ Msg(d, "ack", body.n).data.kind = "ack"
    BY DEF Msg
  <2> DEFINE m == Msg(d, "ack", body.n)
  <2>3. m \in DownMessage
    BY <1>2, <1>6
  <2> HIDE DEF m
  <2> QED
    BY <1>1, <1>3, <1>6, <2>1, <2>2, <2>3, LivingOnSaying DEF m
<1>7. CASE down' = down /\ \A e \in Channels : server'[e].state = server[e].state
  BY <1>1, <1>3, <1>7 DEF Life, At, OwnsInbox
<1>8. CASE down' = down /\ server' = [server EXCEPT ![d].state = "closed"]
  <2>1. IF c = d THEN server'[c].state = "closed" ELSE server'[c] = server[c]
    BY <1>2, <1>8 DEF Shape, EndsShape
  <2> QED
    BY <1>1, <1>3, <1>5, <1>8, <2>1 DEF Life, At, OwnsInbox
<1>9. \/ body.kind = "data" /\ server[d].state = "open"
      \/ down' = down /\ \A e \in Channels : server'[e].state = server[e].state
      \/ down' = down /\ server' = [server EXCEPT ![d].state = "closed"]
  <2>1. \/ body.kind = "data" /\ server[d].state = "open"
        \/ down' = down /\ server' = server
        \/ down' = down /\ server' = [server EXCEPT ![d].credit = @ + body.n]
        \/ down' = down /\ server' = [server EXCEPT ![d].state = "closed"]
    BY DEF ServerTakes, d, body
  <2>2. server' = [server EXCEPT ![d].credit = @ + body.n]
          => \A e \in Channels : server'[e].state = server[e].state
    BY <1>2 DEF Shape, EndsShape
  <2> QED
    BY <2>1, <2>2
<1> QED
  BY <1>6, <1>7, <1>8, <1>9

LEMMA NextLivesOn ==
  ASSUME Shape, [Next]_vars, \A c \in Channels : Life(c)
  PROVE  \A c \in Channels : Life(c)'
<1> SUFFICES ASSUME NEW c \in Channels
             PROVE  Life(c)'
  OBVIOUS
<1>1. CASE ServerTakes
  BY <1>1, TakingLivesOn, ServerTaking, MessageFacts
<1>2. CASE UNCHANGED vars
  BY <1>2 DEF vars, clientVars, Life, At, OwnsInbox
<1> QED
  BY <1>1, <1>2, LoopLivesOn, HandlerLivesOn, EnvironmentLivesOn DEF Next

-----------------------------------------------------------------------------
(* Bytes on their way *)

(* All sequences are sequences of messages. *)
LEMMA Queues ==
  ASSUME Shape, NEW c \in Channels
  PROVE  /\ up \in Seq(AnyMessage) /\ down \in Seq(AnyMessage) /\ out[c] \in Seq(AnyMessage)
         /\ loop.msg \in AnyMessage
         /\ inbox[c] \in Seq(Shares) /\ inbox[c] \in Seq(Sizes)
<1>1. /\ Seq(UpMessage) \subseteq Seq(AnyMessage) /\ Seq(DownMessage) \subseteq Seq(AnyMessage)
      /\ Seq(Sizes) \subseteq Seq(Shares)
  BY MessageFacts, SizeFacts, SeqMonotonic
<1>2. out[c] \in Seq(UpMessage)
  BY UpMessages DEF Shape, OutShape
<1>3. loop.msg \in AnyMessage
  BY DEF Shape, LoopShape, AnyMessage
<1>4. inbox[c] \in Seq(Sizes)
  BY DEF Shape
<1> QED
  BY <1>1, <1>2, <1>3, <1>4 DEF Shape

LEMMA HeldIs ==
  ASSUME Shape, NEW place, NEW c, NEW kind
  PROVE  /\ Total(Held(place), c, kind) = IF loop.at = place THEN Share(loop.msg, c, kind) ELSE 0
         /\ Total(Held(place), c, kind) \in Nat
<1>1. loop.msg \in AnyMessage
  BY DEF Shape, LoopShape, AnyMessage
<1>2. Share(loop.msg, c, kind) \in Nat
  BY <1>1, ShareFacts
<1>3. CASE loop.at = place
  <2>1. Held(place) = <<loop.msg>>
    BY <1>3 DEF Held
  <2>2. Total(<<loop.msg>>, c, kind) = Share(loop.msg, c, kind)
    BY <1>1, TotalOfOne
  <2>3. Total(Held(place), c, kind) = Share(loop.msg, c, kind)
    BY <2>1, <2>2, Zenon
  <2> QED
    BY <1>2, <1>3, <2>3
<1>4. CASE loop.at # place
  <2>1. Held(place) = <<>>
    BY <1>4 DEF Held
  <2>2. Total(Held(place), c, kind) = 0
    BY <2>1, TotalOfNothing, Zenon
  <2> QED
    BY <1>4, <2>2
<1> QED
  BY <1>3, <1>4

(* The flows in their parts. *)
FlowOf(c, kind) ==
  /\ Total(up, c, kind) \in Nat /\ Total(down, c, kind) \in Nat
  /\ Total(out[c], c, kind) \in Nat
  /\ Share(loop.msg, c, kind) \in Nat
  /\ Outgoing(c, kind) = Total(up, c, kind) + Total(out[c], c, kind)
                           + (IF loop.at = "sending" THEN Share(loop.msg, c, kind) ELSE 0)
  /\ Incoming(c, kind) = Total(down, c, kind)
                           + (IF loop.at = "forwarding" THEN Share(loop.msg, c, kind) ELSE 0)
  /\ Outgoing(c, kind) \in Nat /\ Incoming(c, kind) \in Nat

Flows == \A c \in Channels, kind \in {"data", "ack"} : FlowOf(c, kind)

LEMMA FlowsAre == Shape => Flows
<1> SUFFICES ASSUME Shape, NEW c \in Channels, NEW kind \in {"data", "ack"}
             PROVE  FlowOf(c, kind)
  BY DEF Flows
<1>1. /\ Total(up, c, kind) \in Nat /\ Total(down, c, kind) \in Nat
      /\ Total(out[c], c, kind) \in Nat
  BY Queues, TotalIs
<1>2. Share(loop.msg, c, kind) \in Nat
  BY Queues, ShareFacts
<1>3. /\ Total(Held("sending"), c, kind) = IF loop.at = "sending" THEN Share(loop.msg, c, kind) ELSE 0
      /\ Total(Held("forwarding"), c, kind) = IF loop.at = "forwarding" THEN Share(loop.msg, c, kind) ELSE 0
  BY HeldIs
<1> DEFINE u == Total(up, c, kind)
           o == Total(out[c], c, kind)
           d == Total(down, c, kind)
           h == Total(Held("sending"), c, kind)
           g == Total(Held("forwarding"), c, kind)
           x == Share(loop.msg, c, kind)
<1>4. Outgoing(c, kind) = u + h + o /\ Incoming(c, kind) = d + g
  BY DEF Outgoing, Incoming
<1> HIDE DEF u, o, d, h, g, x
<1>5. u \in Nat /\ o \in Nat /\ d \in Nat /\ x \in Nat
  BY <1>1, <1>2 DEF u, o, d, x
<1>6. /\ h = IF loop.at = "sending" THEN x ELSE 0
      /\ g = IF loop.at = "forwarding" THEN x ELSE 0
  BY <1>3 DEF h, g, x
<1>7. /\ Outgoing(c, kind) = u + o + (IF loop.at = "sending" THEN x ELSE 0)
      /\ Incoming(c, kind) = d + (IF loop.at = "forwarding" THEN x ELSE 0)
      /\ Outgoing(c, kind) \in Nat /\ Incoming(c, kind) \in Nat
  BY <1>4, <1>5, <1>6
<1> QED
  BY <1>5, <1>7 DEF u, o, d, x, FlowOf

LEMMA FlowsAreNext == Shape' => Flows'
BY FlowsAre, PTL

LEMMA FlowsStay ==
  ASSUME NEW c \in Channels, NEW kind,
         up' = up, down' = down, loop' = loop, out'[c] = out[c]
  PROVE  Outgoing(c, kind)' = Outgoing(c, kind) /\ Incoming(c, kind)' = Incoming(c, kind)
BY DEF Outgoing, Incoming, Held

(* The loop passes on what goes up. *)
LEMMA FlowsOfPassing ==
  ASSUME Shape, Shape', TakeOut \/ SendOut, NEW c \in Channels, NEW kind \in {"data", "ack"}
  PROVE  Outgoing(c, kind)' = Outgoing(c, kind) /\ Incoming(c, kind)' = Incoming(c, kind)
<1>1. FlowOf(c, kind) /\ FlowOf(c, kind)'
  BY FlowsAre, FlowsAreNext DEF Flows
<1>2. CASE TakeOut
  <2>1. PICK d \in Channels : Fifo!Deliver(d) /\ Deal("sending", Head(out[d]))
    BY <1>2 DEF TakeOut
  <2>2. /\ loop.at = "select" /\ loop'.at = "sending" /\ loop'.msg = Head(out[d])
        /\ up' = up /\ down' = down
    BY <1>2, <2>1 DEF TakeOut, AtSelect, Deal
  <2>3. /\ out' = [out EXCEPT ![d] = Tail(@)] /\ out[d] # <<>>
        /\ Head(out[d]) \in AnyMessage /\ Head(out[d]).group = d
    BY <2>1, DeliveringKeepsShape, UpMessages, MessageFacts DEF Shape
  <2>4. CASE c = d
    <3>1. Total(out[c], c, kind) = Share(Head(out[c]), c, kind) + Total(Tail(out[c]), c, kind)
      BY <2>3, <2>4, Queues, TotalOfPopped
    <3>2. out'[c] = Tail(out[c])
      BY <2>3, <2>4, UpMessages DEF Shape, OutShape
    <3> QED
      BY <1>1, <2>2, <2>4, <3>1, <3>2 DEF FlowOf
  <2>5. CASE c # d
    <3>1. Share(loop'.msg, c, kind) = 0
      BY <2>2, <2>3, <2>5, ShareFacts
    <3>2. out'[c] = out[c]
      BY <2>3, <2>5, UpMessages DEF Shape, OutShape
    <3> QED
      BY <1>1, <2>2, <3>1, <3>2 DEF FlowOf
  <2> QED
    BY <2>4, <2>5
<1>3. CASE SendOut
  <2>1. /\ loop.at = "sending" /\ loop'.at = "select"
        /\ up' = Append(up, loop.msg) /\ down' = down /\ out' = out
    BY <1>3 DEF SendOut, BackToSelect, Shape, LoopShape
  <2>2. Total(up', c, kind) = Total(up, c, kind) + Share(loop.msg, c, kind)
    BY <2>1, Queues, TotalOfAppended
  <2> QED
    BY <1>1, <2>1, <2>2 DEF FlowOf
<1> QED
  BY <1>2, <1>3

(* It receives what comes down, drops it or deals with it at once, or holds it. *)
LEMMA FlowsOfReceiving ==
  ASSUME Shape, Shape', NEW c \in Channels, NEW kind \in {"data", "ack"},
         loop.at = "select", down # <<>>, down' = Tail(down), up' = up, out' = out,
         \/ loop' = loop
         \/ loop'.at = "forwarding" /\ loop'.msg = Head(down)
  PROVE  /\ Outgoing(c, kind)' = Outgoing(c, kind)
         /\ Share(Head(down), c, kind) \in Nat
         /\ loop' = loop => Incoming(c, kind)' + Share(Head(down), c, kind) = Incoming(c, kind)
         /\ loop' # loop => Incoming(c, kind)' = Incoming(c, kind)
<1>1. FlowOf(c, kind) /\ FlowOf(c, kind)'
  BY FlowsAre, FlowsAreNext DEF Flows
<1>2. /\ Total(down, c, kind) = Share(Head(down), c, kind) + Total(down', c, kind)
      /\ Share(Head(down), c, kind) \in Nat
  BY Queues, TotalOfPopped, ShareFacts
<1>3. Outgoing(c, kind)' = Outgoing(c, kind)
  BY <1>1 DEF FlowOf
<1> DEFINE before == Total(down, c, kind)
           after == Total(down', c, kind)
           n == Share(Head(down), c, kind)
<1>4. /\ Incoming(c, kind) = before /\ before = n + after
      /\ after \in Nat /\ n \in Nat
  BY <1>1, <1>2 DEF FlowOf
<1>5. loop' = loop => Incoming(c, kind)' = after
  BY <1>1 DEF FlowOf
<1>6. loop' # loop => Incoming(c, kind)' = after + n
  <2> SUFFICES ASSUME loop'.at = "forwarding", loop'.msg = Head(down)
               PROVE  Incoming(c, kind)' = after + n
    OBVIOUS
  <2>1. Incoming(c, kind)' = after + Share(loop'.msg, c, kind)
    BY <1>1 DEF FlowOf
  <2> QED
    BY <2>1
<1> HIDE DEF before, after, n
<1>7. /\ loop' = loop => Incoming(c, kind)' + n = Incoming(c, kind)
      /\ loop' # loop => Incoming(c, kind)' = Incoming(c, kind)
  BY <1>4, <1>5, <1>6
<1> QED
  BY <1>2, <1>3, <1>7 DEF n

LEMMA FlowsOfForwarding ==
  ASSUME Shape, Shape', Forward, NEW c \in Channels, NEW kind \in {"data", "ack"}
  PROVE  /\ Outgoing(c, kind)' = Outgoing(c, kind)
         /\ Incoming(c, kind)' + Share(loop.msg, c, kind) = Incoming(c, kind)
<1>1. FlowOf(c, kind) /\ FlowOf(c, kind)'
  BY FlowsAre, FlowsAreNext DEF Flows
<1>2. /\ loop.at = "forwarding" /\ loop'.at = "select"
      /\ up' = up /\ down' = down /\ out' = out
  BY DEF Forward, BackToSelect, Shape, LoopShape
<1> QED
  BY <1>1, <1>2 DEF FlowOf

LEMMA FlowsOfSending ==
  ASSUME Shape, Shape', NEW c \in Channels, Send(c), NEW kind \in {"data", "ack"}
  PROVE  /\ Outgoing(c, kind)'
              = Outgoing(c, kind) + (IF SendKind(c) = kind THEN Bytes(c) ELSE 0)
         /\ Incoming(c, kind)' = Incoming(c, kind)
<1> DEFINE m == Msg(c, SendKind(c), Bytes(c))
<1>1. FlowOf(c, kind) /\ FlowOf(c, kind)'
  BY FlowsAre, FlowsAreNext DEF Flows
<1>2. m \in UpMessageOf(c) /\ m \in AnyMessage
  BY SentBy, UpMessages, MessageFacts
<1>3. out' = [out EXCEPT ![c] = Append(@, m)]
  BY <1>2, AcceptingKeepsShape DEF Send, Shape
<1>4. Share(m, c, kind) = IF SendKind(c) = kind THEN Bytes(c) ELSE 0
  BY DEF Share, Msg
<1> HIDE DEF m
<1>5. out'[c] = Append(out[c], m)
  BY <1>3, UpMessages DEF Shape, OutShape
<1>6. Total(out'[c], c, kind) = Total(out[c], c, kind) + Share(m, c, kind)
  BY <1>2, <1>5, Queues, TotalOfAppended
<1>7. up' = up /\ down' = down /\ loop' = loop
  BY DEF Send
<1>8. Share(m, c, kind) \in Nat
  BY <1>2, ShareFacts
<1> QED
  BY <1>1, <1>4, <1>6, <1>7, <1>8 DEF FlowOf

(* The server sends, and takes. *)
LEMMA FlowsOfSaying ==
  ASSUME Shape, Shape', NEW c \in Channels, NEW kind \in {"data", "ack"},
         NEW m \in DownMessage, down' = Append(down, m), loop' = loop
  PROVE  /\ Incoming(c, kind)' = Incoming(c, kind) + Share(m, c, kind)
         /\ Share(m, c, kind) \in Nat
<1>1. FlowOf(c, kind) /\ FlowOf(c, kind)'
  BY FlowsAre, FlowsAreNext DEF Flows
<1>2. m \in AnyMessage
  BY MessageFacts
<1>3. Total(down', c, kind) = Total(down, c, kind) + Share(m, c, kind)
  BY <1>2, Queues, TotalOfAppended
<1>4. Share(m, c, kind) \in Nat
  BY <1>2, ShareFacts
<1> DEFINE before == Total(down, c, kind)
           after == Total(down', c, kind)
           held == IF loop.at = "forwarding" THEN Share(loop.msg, c, kind) ELSE 0
<1>5. /\ Incoming(c, kind) = before + held /\ Incoming(c, kind)' = after + held
      /\ before \in Nat /\ held \in Nat /\ after = before + Share(m, c, kind)
  BY <1>1, <1>3 DEF FlowOf
<1> HIDE DEF before, after, held
<1> QED
  BY <1>4, <1>5

LEMMA FlowsOfTaking ==
  ASSUME Shape, Shape', ServerTakes, NEW c \in Channels, NEW kind \in {"data", "ack"}
  PROVE  /\ Outgoing(c, kind)' + Share(Head(up), c, kind) = Outgoing(c, kind)
         /\ Share(Head(up), c, kind) \in Nat
<1>1. FlowOf(c, kind) /\ FlowOf(c, kind)'
  BY FlowsAre, FlowsAreNext DEF Flows
<1>2. up # <<>> /\ up' = Tail(up)
  BY DEF ServerTakes
<1>4. loop' = loop /\ out' = out
  BY DEF ServerTakes, clientVars
<1>3. /\ Total(up, c, kind) = Share(Head(up), c, kind) + Total(up', c, kind)
      /\ Share(Head(up), c, kind) \in Nat
  BY <1>2, Queues, TotalOfPopped, ShareFacts
<1> QED
  BY <1>1, <1>3, <1>4 DEF FlowOf

-----------------------------------------------------------------------------
(* The windows *)

Summands(c) ==
  /\ capacity[c] \in Nat /\ server[c].credit \in Nat /\ ByteCount(inbox[c]) \in Nat
  /\ HeldBytes(c, {"sendData"}) \in Nat /\ HeldBytes(c, {"writing", "sendAck"}) \in Nat
  /\ Outgoing(c, "data") \in Nat /\ Outgoing(c, "ack") \in Nat
  /\ Incoming(c, "data") \in Nat /\ Incoming(c, "ack") \in Nat

AllSummands == \A c \in Channels : Summands(c)

LEMMA SummandsAre == Shape => AllSummands
<1> SUFFICES ASSUME Shape, NEW c \in Channels
             PROVE  Summands(c)
  BY DEF AllSummands
<1>1. capacity[c] \in Nat /\ server[c].credit \in Nat
  BY DEF Shape, EndsShape
<1>2. ByteCount(inbox[c]) \in Nat
  BY Queues, CountIsNat
<1>3. HeldBytes(c, {"sendData"}) \in Nat /\ HeldBytes(c, {"writing", "sendAck"}) \in Nat
  BY DEF HeldBytes, Bytes, Shape, HandlerShape
<1>4. FlowOf(c, "data") /\ FlowOf(c, "ack")
  BY FlowsAre DEF Flows
<1> QED
  BY <1>1, <1>2, <1>3, <1>4 DEF Summands, FlowOf

LEMMA SummandsAreNext == Shape' => AllSummands'
BY SummandsAre, PTL

(* When each window is accounted for. *)
Accounted(c) == (c \in table /\ server[c].state = "open") \/ At(c) = "none"
Gone == {"sendErr", "ending", "over"}

LEMMA Balanced ==
  ASSUME NEW c \in Channels, Conserved(c),
         Accounted(c)' => Accounted(c) /\ ClientSum(c)' = ClientSum(c),
         At(c)' \notin Gone => At(c) \notin Gone /\ ServerSum(c)' = ServerSum(c)
  PROVE  Conserved(c)'
BY DEF Conserved, Accounted, Gone

(* Nothing of the channel changes but, perhaps, the place of its handler. *)
LEMMA ApartBalanced ==
  ASSUME NEW c \in Channels, Conserved(c),
         capacity'[c] = capacity[c], inbox'[c] = inbox[c],
         server'[c].credit = server[c].credit,
         Accounted(c)' => Accounted(c),
         At(c)' \notin Gone => At(c) \notin Gone,
         \A places \in {{"sendData"}, {"writing", "sendAck"}} :
           HeldBytes(c, places)' = HeldBytes(c, places),
         \A kind \in {"data", "ack"} :
           Outgoing(c, kind)' = Outgoing(c, kind) /\ Incoming(c, kind)' = Incoming(c, kind)
  PROVE  Conserved(c)'
<1>1. ClientSum(c)' = ClientSum(c) /\ ServerSum(c)' = ServerSum(c)
  BY DEF ClientSum, ServerSum
<1> QED
  BY <1>1, Balanced

LEMMA HoldingStays ==
  ASSUME NEW c \in Channels, handler'[c] = handler[c]
  PROVE  /\ At(c)' = At(c) /\ \A places : HeldBytes(c, places)' = HeldBytes(c, places)
BY DEF At, HeldBytes, Bytes

LEMMA WakingHoldsNothing ==
  ASSUME Shape, NEW d \in Channels, NEW c \in Channels,
         handler' = handler \/ handler' = [handler EXCEPT ![d] = Woken(d)]
  PROVE  /\ At(c)' = "none" <=> At(c) = "none"
         /\ At(c)' \in Gone <=> At(c) \in Gone
         /\ \A places \in {{"sendData"}, {"writing", "sendAck"}} :
              HeldBytes(c, places)' = HeldBytes(c, places)
<1>1. handler'[c] = handler[c] \/ (c = d /\ handler'[c] = Woken(c))
  BY DEF Shape, HandlerShape
<1>2. CASE handler'[c] = handler[c]
  BY <1>2, HoldingStays
<1>3. CASE handler'[c] = Woken(c) /\ handler'[c] # handler[c]
  <2>1. At(c) \in {"parked", "waiting"} /\ At(c)' \in {"select", "reserving"}
    BY <1>3 DEF Woken, At, Shape, HandlerShape
  <2> QED
    BY <2>1 DEF HeldBytes, Gone
<1> QED
  BY <1>1, <1>2, <1>3

(* What the loop receives counts for one channel and one kind. *)
LEMMA ReceivedShares ==
  ASSUME Shape, NEW d \in Channels, NEW k, Receives(d, k), NEW c, NEW kind
  PROVE  /\ Head(down).data.n \in Nat
         /\ Share(Head(down), c, kind) = IF c = d /\ kind = k THEN Head(down).data.n ELSE 0
<1>1. Head(down) \in AnyMessage /\ Head(down).group = d /\ Head(down).data.kind = k
  BY ReceivingKeepsShape
<1>2. Head(down).data.n \in Nat
  BY <1>1, MessageFacts, SizeFacts
<1> QED
  BY <1>1, <1>2 DEF Share

LEMMA LoopConserves ==
  ASSUME Shape, Shape', LoopStep, NEW c \in Channels, Life(c), Conserved(c)
  PROVE  Conserved(c)'
<1>1. CASE TakeOut \/ SendOut
  <2>1. /\ capacity' = capacity /\ inbox' = inbox /\ server' = server
        /\ table' = table /\ handler' = handler
    BY <1>1 DEF TakeOut, SendOut
  <2>2. \A kind \in {"data", "ack"} :
          Outgoing(c, kind)' = Outgoing(c, kind) /\ Incoming(c, kind)' = Incoming(c, kind)
    BY <1>1, FlowsOfPassing
  <2> QED
    BY <2>1, <2>2, ApartBalanced, HoldingStays DEF Accounted
<1>2. CASE Forward
  <2> DEFINE d == loop.msg.group
             n == loop.msg.data.n
  <2>1. /\ capacity' = capacity /\ server' = server /\ handler' = handler
        /\ table' \subseteq table
        /\ loop.at = "forwarding"
    BY <1>2 DEF Forward
  <2>2. d \in Channels /\ loop.msg.data.kind = "data" /\ loop.msg \in AnyMessage
    BY <2>1, Queues, MessageFacts DEF Shape, LoopShape
  <2>3. n \in Sizes /\ n \in Nat /\ n \in Shares
    BY <2>2, MessageFacts, SizeFacts
  <2>4. /\ Share(loop.msg, c, "ack") = 0
        /\ Share(loop.msg, c, "data") = IF c = d THEN n ELSE 0
    BY <2>2 DEF Share
  <2>5. \A kind \in {"data", "ack"} :
          /\ Outgoing(c, kind)' = Outgoing(c, kind)
          /\ Incoming(c, kind)' + Share(loop.msg, c, kind) = Incoming(c, kind)
    BY <1>2, FlowsOfForwarding
  <2>6. Summands(c) /\ Summands(c)'
    BY SummandsAre, SummandsAreNext DEF AllSummands
  <2>7. Accounted(c)' => Accounted(c) /\ ClientSum(c)' = ClientSum(c)
    <3>1. Incoming(c, "ack")' = Incoming(c, "ack")
      BY <2>4, <2>5, <2>6 DEF Summands
    <3> QED
      BY <2>1, <2>5, <3>1, HoldingStays DEF Accounted, ClientSum
  <2>8. CASE c # d
    <3>1. Incoming(c, "data")' = Incoming(c, "data")
      BY <2>4, <2>5, <2>6, <2>8 DEF Summands
    <3>2. inbox'[c] = inbox[c]
      BY <1>2, <2>2, <2>8 DEF Forward, Shape
    <3>3. ServerSum(c)' = ServerSum(c)
      BY <2>1, <2>5, <3>1, <3>2, HoldingStays DEF ServerSum
    <3> QED
      BY <2>1, <2>7, <3>3, Balanced, HoldingStays
  <2>9. CASE c = d /\ OwnsInbox(d)
    <3>1. inbox'[c] = Append(inbox[c], n)
      BY <1>2, <2>2, <2>9 DEF Forward, Shape
    <3>2. ByteCount(inbox'[c]) = ByteCount(inbox[c]) + n
      BY <2>3, <3>1, Queues, CountOfAppended
    <3>3. Incoming(c, "data")' + n = Incoming(c, "data")
      BY <2>4, <2>5, <2>9
    <3> HIDE DEF n
    <3>4. ServerSum(c)' = ServerSum(c)
      BY <2>1, <2>3, <2>5, <2>6, <3>2, <3>3, HoldingStays DEF ServerSum, Summands
    <3> QED
      BY <2>1, <2>7, <3>4, Balanced, HoldingStays
  <2>10. CASE c = d /\ ~ OwnsInbox(d)
    <3>1. At(c) # "none"
      BY <2>1, <2>10 DEF Life
    <3>2. At(c)' \in Gone
      BY <2>1, <2>10, <3>1 DEF OwnsInbox, Gone, At
    <3> QED
      BY <2>7, <3>2, Balanced
  <2> QED
    BY <2>8, <2>9, <2>10
<1>3. ASSUME NEW d \in Channels, OnCreate(d)
      PROVE  Conserved(c)'
  <2>1. /\ capacity' = capacity /\ inbox' = inbox /\ server' = server
        /\ table' = table \cup {d} /\ Goto(d, "connecting", 0)
        /\ Receives(d, "create") /\ loop' = loop /\ up' = up /\ out' = out
    BY <1>3 DEF OnCreate
  <2>2. /\ loop.at = "select" /\ down # <<>> /\ down' = Tail(down)
        /\ Head(down).group = d /\ Head(down).data.kind = "create"
    BY <2>1, ReceivingKeepsShape
  <2>3. \A kind \in {"data", "ack"} : Share(Head(down), c, kind) = 0
    BY <2>1, ReceivedShares
  <2>4. Summands(c) /\ Summands(c)'
    BY SummandsAre, SummandsAreNext DEF AllSummands
  <2>5. \A kind \in {"data", "ack"} :
          /\ Outgoing(c, kind)' = Outgoing(c, kind)
          /\ Incoming(c, kind)' + Share(Head(down), c, kind) = Incoming(c, kind)
    BY <2>1, <2>2, FlowsOfReceiving
  <2>6. \A kind \in {"data", "ack"} : Incoming(c, kind)' = Incoming(c, kind)
    BY <2>3, <2>4, <2>5 DEF Summands
  <2>7. CASE c = d
    <3>1. At(c) = "none"
      BY <2>2, <2>7, FirstIsCreate
    <3>2. At(c)' = "connecting"
      BY <2>1, <2>7 DEF Goto, At, Shape, HandlerShape
    <3>3. \A places \in {{"sendData"}, {"writing", "sendAck"}} :
            HeldBytes(c, places)' = HeldBytes(c, places)
      BY <3>1, <3>2 DEF HeldBytes
    <3> QED
      BY <2>1, <2>5, <2>6, <3>1, <3>3, ApartBalanced DEF Accounted, Gone
  <2>8. CASE c # d
    <3>1. handler'[c] = handler[c]
      BY <2>1, <2>8 DEF Goto, Shape, HandlerShape
    <3> QED
      BY <2>1, <2>5, <2>6, <2>8, <3>1, ApartBalanced, HoldingStays DEF Accounted
  <2> QED
    BY <2>7, <2>8
<1>4. ASSUME NEW d \in Channels, OnData(d)
      PROVE  Conserved(c)'
  <2>1. /\ capacity' = capacity /\ inbox' = inbox /\ server' = server
        /\ table' = table /\ handler' = handler
        /\ Receives(d, "data") /\ up' = up /\ out' = out
        /\ IF d \in table THEN Deal("forwarding", Head(down)) ELSE loop' = loop
    BY <1>4 DEF OnData
  <2>2. /\ loop.at = "select" /\ down # <<>> /\ down' = Tail(down)
        /\ Head(down).group = d /\ Head(down).data.kind = "data"
    BY <2>1, ReceivingKeepsShape
  <2>3. \A kind \in {"data", "ack"} :
          Share(Head(down), c, kind) = IF c = d /\ kind = "data" THEN Head(down).data.n ELSE 0
    BY <2>1, ReceivedShares
  <2>4. Summands(c) /\ Summands(c)'
    BY SummandsAre, SummandsAreNext DEF AllSummands
  <2>5. CASE d \in table
    <3>1. loop'.at = "forwarding" /\ loop'.msg = Head(down) /\ loop' # loop
      BY <2>1, <2>2, <2>5 DEF Deal
    <3>2. \A kind \in {"data", "ack"} :
            Outgoing(c, kind)' = Outgoing(c, kind) /\ Incoming(c, kind)' = Incoming(c, kind)
      BY <2>1, <2>2, <3>1, FlowsOfReceiving
    <3> QED
      BY <2>1, <3>2, ApartBalanced, HoldingStays DEF Accounted
  <2>6. CASE d \notin table
    <3>1. \A kind \in {"data", "ack"} :
            /\ Outgoing(c, kind)' = Outgoing(c, kind)
            /\ Incoming(c, kind)' + Share(Head(down), c, kind) = Incoming(c, kind)
      BY <2>1, <2>2, <2>6, FlowsOfReceiving
    <3>2. Incoming(c, "ack")' = Incoming(c, "ack")
      BY <2>3, <2>4, <3>1 DEF Summands
    <3>3. CASE c = d
      <4>1. At(c) # "none"
        BY <2>2, <3>3, FirstIsCreate
      <4>2. Mentions(down, c)
        BY <2>2, <3>3, OrderOfPopped DEF Shape
      <4>3. ~ OwnsInbox(c)
        BY <2>6, <3>3, <4>2 DEF Life
      <4>4. At(c)' \in Gone
        BY <2>1, <4>1, <4>3 DEF OwnsInbox, Gone, At
      <4>5. Accounted(c)' => Accounted(c) /\ ClientSum(c)' = ClientSum(c)
        BY <2>1, <3>1, <3>2, HoldingStays DEF Accounted, ClientSum
      <4> QED
        BY <4>4, <4>5, Balanced
    <3>4. CASE c # d
      <4>1. Incoming(c, "data")' = Incoming(c, "data")
        BY <2>3, <2>4, <3>1, <3>4 DEF Summands
      <4> QED
        BY <2>1, <3>1, <3>2, <4>1, ApartBalanced, HoldingStays DEF Accounted
    <3> QED
      BY <3>3, <3>4
  <2> QED
    BY <2>5, <2>6
<1>5. ASSUME NEW d \in Channels, OnEof(d)
      PROVE  Conserved(c)'
  <2>1. /\ capacity' = capacity /\ inbox' = inbox /\ server' = server
        /\ table' \subseteq table
        /\ Receives(d, "eof") /\ loop' = loop /\ up' = up /\ out' = out
        /\ handler' = handler \/ handler' = [handler EXCEPT ![d] = Woken(d)]
    BY <1>5 DEF OnEof, Notify
  <2>2. loop.at = "select" /\ down # <<>> /\ down' = Tail(down)
    BY <2>1, ReceivingKeepsShape
  <2>3. \A kind \in {"data", "ack"} : Share(Head(down), c, kind) = 0
    BY <2>1, ReceivedShares
  <2>4. Summands(c) /\ Summands(c)'
    BY SummandsAre, SummandsAreNext DEF AllSummands
  <2>5. \A kind \in {"data", "ack"} :
          /\ Outgoing(c, kind)' = Outgoing(c, kind)
          /\ Incoming(c, kind)' + Share(Head(down), c, kind) = Incoming(c, kind)
    BY <2>1, <2>2, FlowsOfReceiving
  <2>6. \A kind \in {"data", "ack"} : Incoming(c, kind)' = Incoming(c, kind)
    BY <2>3, <2>4, <2>5 DEF Summands
  <2>7. /\ At(c)' = "none" <=> At(c) = "none"
        /\ At(c)' \in Gone <=> At(c) \in Gone
        /\ \A places \in {{"sendData"}, {"writing", "sendAck"}} :
             HeldBytes(c, places)' = HeldBytes(c, places)
    BY <2>1, WakingHoldsNothing
  <2> QED
    BY <2>1, <2>5, <2>6, <2>7, ApartBalanced DEF Accounted
<1>6. ASSUME NEW d \in Channels, OnAck(d)
      PROVE  Conserved(c)'
  <2> DEFINE n == Head(down).data.n
  <2>1. /\ inbox' = inbox /\ server' = server /\ table' = table
        /\ Receives(d, "ack") /\ loop' = loop /\ up' = up /\ out' = out
        /\ handler' = handler \/ handler' = [handler EXCEPT ![d] = Woken(d)]
        /\ capacity' = IF d \in table THEN [capacity EXCEPT ![d] = @ + n] ELSE capacity
    BY <1>6 DEF OnAck, Notify
  <2>2. loop.at = "select" /\ down # <<>> /\ down' = Tail(down)
        /\ Head(down).group = d /\ Head(down).data.kind = "ack"
    BY <2>1, ReceivingKeepsShape
  <2>3. /\ \A kind \in {"data", "ack"} :
             Share(Head(down), c, kind) = IF c = d /\ kind = "ack" THEN n ELSE 0
        /\ n \in Nat
    BY <2>1, ReceivedShares
  <2>4. Summands(c) /\ Summands(c)'
    BY SummandsAre, SummandsAreNext DEF AllSummands
  <2>5. \A kind \in {"data", "ack"} :
          /\ Outgoing(c, kind)' = Outgoing(c, kind)
          /\ Incoming(c, kind)' + Share(Head(down), c, kind) = Incoming(c, kind)
    BY <2>1, <2>2, FlowsOfReceiving
  <2>6. /\ At(c)' = "none" <=> At(c) = "none"
        /\ At(c)' \in Gone <=> At(c) \in Gone
        /\ HeldBytes(c, {"sendData"})' = HeldBytes(c, {"sendData"})
        /\ HeldBytes(c, {"writing", "sendAck"})' = HeldBytes(c, {"writing", "sendAck"})
    BY <2>1, WakingHoldsNothing
  <2> HIDE DEF n
  <2>7. Incoming(c, "data")' = Incoming(c, "data")
    BY <2>3, <2>4, <2>5 DEF Summands
  <2>8. ServerSum(c)' = ServerSum(c)
    BY <2>1, <2>5, <2>6, <2>7 DEF ServerSum
  <2>9. Accounted(c)' => Accounted(c) /\ ClientSum(c)' = ClientSum(c)
    <3>1. CASE c = d /\ d \in table
      <4>1. capacity'[c] = capacity[c] + n
        BY <2>1, <3>1 DEF Shape
      <4>2. Incoming(c, "ack")' + n = Incoming(c, "ack")
        BY <2>3, <2>5, <3>1
      <4>3. ClientSum(c)' = ClientSum(c)
        BY <2>3, <2>4, <2>5, <2>6, <4>1, <4>2 DEF ClientSum, Summands
      <4> QED
        BY <2>1, <2>6, <4>3 DEF Accounted
    <3>2. CASE c = d /\ d \notin table
      <4>1. At(c) # "none"
        BY <2>2, <3>2, FirstIsCreate
      <4> QED
        BY <2>1, <2>6, <3>2, <4>1 DEF Accounted
    <3>3. CASE c # d
      <4>1. capacity'[c] = capacity[c]
        BY <2>1, <3>3 DEF Shape
      <4>2. Incoming(c, "ack")' = Incoming(c, "ack")
        BY <2>3, <2>4, <2>5, <3>3 DEF Summands
      <4> QED
        BY <2>1, <2>5, <2>6, <4>1, <4>2 DEF Accounted, ClientSum
    <3> QED
      BY <3>1, <3>2, <3>3
  <2> QED
    BY <2>6, <2>8, <2>9, Balanced
<1> QED
  BY <1>1, <1>2, <1>3, <1>4, <1>5, <1>6 DEF LoopStep

(* A step of a handler as it appears on other channels, and on its own when it *)
(* moves no bytes.                                                             *)
LEMMA HandlersConserveOthers ==
  ASSUME Shape, Shape', NEW d \in Channels, HandlerStep(d),
         NEW c \in Channels \ {d}, Conserved(c)
  PROVE  Conserved(c)'
<1>1. /\ handler'[c] = handler[c] /\ (c \in table' <=> c \in table)
      /\ out'[c] = out[c] /\ inbox'[c] = inbox[c] /\ capacity'[c] = capacity[c]
      /\ loop' = loop /\ up' = up /\ down' = down /\ server' = server
  BY HandlersMind
<1>2. \A kind \in {"data", "ack"} :
        Outgoing(c, kind)' = Outgoing(c, kind) /\ Incoming(c, kind)' = Incoming(c, kind)
  BY <1>1, FlowsStay
<1> QED
  BY <1>1, <1>2, ApartBalanced, HoldingStays DEF Accounted

LEMMA GoingIs ==
  ASSUME Shape, NEW c \in Channels, NEW place, NEW n, Goto(c, place, n)
  PROVE  /\ At(c)' = place
         /\ \A places : HeldBytes(c, places)' = IF place \in places THEN n ELSE 0
<1>1. handler'[c] = [at |-> place, n |-> n]
  BY DEF Goto, Shape, HandlerShape
<1> QED
  BY <1>1 DEF At, HeldBytes, Bytes

LEMMA HandlersConserve ==
  ASSUME Shape, Shape', NEW c \in Channels, HandlerStep(c), Conserved(c)
  PROVE  Conserved(c)'
<1>1. /\ At(c) # "none" /\ At(c)' # "none" /\ (c \in table' => c \in table)
      /\ loop' = loop /\ up' = up /\ down' = down /\ server' = server
  BY HandlersMind
<1>2. Accounted(c)' => Accounted(c)
  BY <1>1 DEF Accounted
<1>3. out'[c] = out[c] => \A kind \in {"data", "ack"} :
        Outgoing(c, kind)' = Outgoing(c, kind) /\ Incoming(c, kind)' = Incoming(c, kind)
  BY <1>1, FlowsStay
<1>4. \A places : HeldBytes(c, places) = IF At(c) \in places THEN Bytes(c) ELSE 0
  BY DEF HeldBytes
<1>5. Summands(c) /\ Summands(c)'
  BY SummandsAre, SummandsAreNext DEF AllSummands
<1>6. CASE \/ Connect(c) \/ SeeOpen(c) \/ SeeClosed(c) \/ Register(c)
           \/ ReadLocal(c) \/ ReadEof(c) \/ ReadError(c) \/ End(c)
  <2>1. capacity' = capacity /\ inbox' = inbox /\ out' = out
    BY <1>6 DEF Connect, SeeOpen, SeeClosed, Register, ReadLocal, ReadEof, ReadError, End
  <2>2. /\ At(c) \notin {"sendData", "writing", "sendAck"}
        /\ At(c) \in Gone => At(c) = "ending"
    BY <1>6 DEF Connect, SeeOpen, SeeClosed, Register, ReadLocal, ReadEof, ReadError, End,
                InSelect, Gone
  <2>3. \E place, n : /\ Goto(c, place, n)
                      /\ place \notin {"sendData", "writing", "sendAck"}
                      /\ At(c) = "ending" => place = "over"
    BY <1>6 DEF Connect, SeeOpen, SeeClosed, Register, ReadLocal, ReadEof, ReadError, End,
                InSelect
  <2>4. PICK place, n : /\ Goto(c, place, n)
                        /\ place \notin {"sendData", "writing", "sendAck"}
                        /\ At(c) = "ending" => place = "over"
    BY <2>3
  <2>5. At(c)' = place
    BY <2>4, GoingIs
  <2>6. \A places \in {{"sendData"}, {"writing", "sendAck"}} :
          HeldBytes(c, places)' = 0 /\ HeldBytes(c, places) = 0
    BY <1>4, <2>2, <2>4, GoingIs
  <2>7. At(c)' \notin Gone => At(c) \notin Gone
    BY <2>2, <2>4, <2>5 DEF Gone
  <2> QED
    BY <1>1, <1>2, <1>3, <2>1, <2>6, <2>7, ApartBalanced
<1>7. CASE Reserve(c)
  <2>1. /\ At(c) = "reserving" /\ inbox' = inbox /\ out' = out
        /\ Bytes(c) \in Nat
    BY <1>7 DEF Reserve, Shape, HandlerShape, Bytes
  <2>2. \A places \in {{"sendData"}, {"writing", "sendAck"}} : HeldBytes(c, places) = 0
    BY <1>4, <2>1
  <2>3. CASE /\ capacity' = capacity
             /\ Goto(c, "ending", 0) \/ Goto(c, "capGap", Bytes(c))
    <3>1. \A places \in {{"sendData"}, {"writing", "sendAck"}} : HeldBytes(c, places)' = 0
      BY <2>3, GoingIs
    <3> QED
      BY <1>1, <1>2, <1>3, <2>1, <2>2, <2>3, <3>1, ApartBalanced DEF Gone
  <2>4. CASE capacity' = [capacity EXCEPT ![c] = @ - Bytes(c)] /\ Goto(c, "sendData", Bytes(c))
    <3>1. HeldBytes(c, {"sendData"})' = Bytes(c) /\ HeldBytes(c, {"writing", "sendAck"})' = 0
      BY <2>4, GoingIs
    <3>2. capacity'[c] = capacity[c] - Bytes(c)
      BY <2>4 DEF Shape
    <3>3. ClientSum(c)' = ClientSum(c)
      BY <1>3, <1>5, <2>1, <2>2, <3>1, <3>2 DEF ClientSum, Summands
    <3>4. ServerSum(c)' = ServerSum(c)
      BY <1>1, <1>3, <2>1, <2>2, <3>1 DEF ServerSum
    <3> QED
      BY <1>2, <2>1, <3>3, <3>4, Balanced DEF Gone
  <2> QED
    BY <1>7, <2>3, <2>4 DEF Reserve
<1>8. CASE TakeInbox(c)
  <2> DEFINE n == Head(inbox[c])
  <2>1. /\ At(c) \in {"select", "parked"} /\ inbox[c] # <<>> /\ capacity' = capacity
        /\ out' = out /\ Goto(c, "writing", n)
    BY <1>8 DEF TakeInbox, InSelect
  <2>2. inbox'[c] = Tail(inbox[c])
    BY <1>8 DEF TakeInbox, Shape
  <2>3. inbox[c] \in Seq(Shares)
    BY Queues
  <2>4. ByteCount(inbox[c]) = n + ByteCount(inbox'[c])
    BY <2>1, <2>2, <2>3, CountOfPopped
  <2>5. n \in Nat
    <3>1. n \in Shares
      BY <2>1, <2>3
    <3> QED
      BY <3>1, SizeFacts
  <2>6. HeldBytes(c, {"sendData"})' = 0 /\ HeldBytes(c, {"writing", "sendAck"})' = n
    BY <2>1, GoingIs
  <2>7. HeldBytes(c, {"sendData"}) = 0 /\ HeldBytes(c, {"writing", "sendAck"}) = 0
    BY <1>4, <2>1
  <2> HIDE DEF n
  <2>8. ClientSum(c)' = ClientSum(c)
    BY <1>3, <2>1, <2>6, <2>7 DEF ClientSum
  <2>9. ServerSum(c)' = ServerSum(c)
    BY <1>1, <1>3, <1>5, <2>1, <2>4, <2>5, <2>6, <2>7 DEF ServerSum, Summands
  <2> QED
    BY <1>2, <2>1, <2>8, <2>9, Balanced DEF Gone
<1>9. CASE Write(c)
  <2>1. /\ At(c) = "writing" /\ inbox' = inbox /\ out' = out /\ capacity' = capacity
        /\ Goto(c, "sendAck", Bytes(c)) \/ Goto(c, "sendErr", 0)
    BY <1>9 DEF Write
  <2>2. HeldBytes(c, {"sendData"})' = 0 /\ HeldBytes(c, {"sendData"}) = 0
    BY <1>4, <2>1, GoingIs
  <2>3. ClientSum(c)' = ClientSum(c)
    BY <1>3, <2>1, <2>2 DEF ClientSum
  <2>4. CASE Goto(c, "sendAck", Bytes(c))
    <3>1. HeldBytes(c, {"writing", "sendAck"})' = HeldBytes(c, {"writing", "sendAck"})
      BY <1>4, <2>1, <2>4, GoingIs
    <3>2. ServerSum(c)' = ServerSum(c)
      BY <1>1, <1>3, <2>1, <3>1 DEF ServerSum
    <3> QED
      BY <1>2, <2>1, <2>3, <3>2, Balanced DEF Gone
  <2>5. CASE Goto(c, "sendErr", 0)
    <3>1. At(c)' = "sendErr"
      BY <2>5, GoingIs
    <3> QED
      BY <1>2, <2>3, <3>1, Balanced DEF Gone
  <2> QED
    BY <2>1, <2>4, <2>5
<1>10. CASE Send(c)
  <2>1. /\ capacity' = capacity /\ inbox' = inbox /\ Goto(c, AfterSend(c), 0)
        /\ At(c) \in {"sendData", "sendAck", "sendEof", "sendErr"}
    BY <1>10 DEF Send
  <2>2. \A kind \in {"data", "ack"} :
          /\ Outgoing(c, kind)' = Outgoing(c, kind) + (IF SendKind(c) = kind THEN Bytes(c) ELSE 0)
          /\ Incoming(c, kind)' = Incoming(c, kind)
    BY <1>10, FlowsOfSending
  <2>3. Bytes(c) \in Nat
    BY DEF Shape, HandlerShape, Bytes
  <2>4. /\ SendKind(c) = "data" <=> At(c) = "sendData"
        /\ SendKind(c) = "ack" <=> At(c) = "sendAck"
        /\ AfterSend(c) \in {"select", "ending"}
        /\ AfterSend(c) = "select" <=> At(c) \in {"sendData", "sendAck"}
    BY <1>10, <2>1, SentBy
  <2>5. /\ At(c)' = AfterSend(c)
        /\ HeldBytes(c, {"sendData"})' = 0 /\ HeldBytes(c, {"writing", "sendAck"})' = 0
    BY <2>1, <2>4, GoingIs
  <2>6. /\ HeldBytes(c, {"sendData"}) = IF At(c) = "sendData" THEN Bytes(c) ELSE 0
        /\ HeldBytes(c, {"writing", "sendAck"}) = IF At(c) = "sendAck" THEN Bytes(c) ELSE 0
    BY <1>4, <2>1
  <2>7. Outgoing(c, "data")' = Outgoing(c, "data") + HeldBytes(c, {"sendData"})
    BY <2>2, <2>4, <2>6
  <2>8. Outgoing(c, "ack")' = Outgoing(c, "ack") + HeldBytes(c, {"writing", "sendAck"})
    BY <2>2, <2>4, <2>6
  <2>9. ClientSum(c)' = ClientSum(c)
    BY <1>5, <2>1, <2>2, <2>5, <2>7 DEF ClientSum, Summands
  <2>10. ServerSum(c)' = ServerSum(c)
    BY <1>1, <1>5, <2>1, <2>2, <2>5, <2>8 DEF ServerSum, Summands
  <2>11. At(c)' \notin Gone => At(c) \notin Gone
    BY <2>1, <2>4, <2>5 DEF Gone
  <2> QED
    BY <1>2, <2>9, <2>10, <2>11, Balanced
<1> QED
  BY <1>6, <1>7, <1>8, <1>9, <1>10 DEF HandlerStep

LEMMA EnvironmentConserves ==
  ASSUME Shape, Shape', NEW d \in Channels, ServiceStep(d) \/ ServerStep(d),
         NEW c \in Channels, Life(c), Conserved(c)
  PROVE  Conserved(c)'
<1>1. /\ table' = table /\ capacity' = capacity /\ inbox' = inbox /\ handler' = handler
      /\ out' = out /\ loop' = loop /\ up' = up
  BY DEF ServiceStep, ServiceEnds, ServerStep, ServerOpens, ServerSends, ServerCloses, clientVars
<1>2. At(c)' = At(c) /\ \A places : HeldBytes(c, places)' = HeldBytes(c, places)
  BY <1>1, HoldingStays
<1>3. \A kind \in {"data", "ack"} : Outgoing(c, kind)' = Outgoing(c, kind)
  BY <1>1 DEF Outgoing, Held
<1>4. Summands(c) /\ Summands(c)'
  BY SummandsAre, SummandsAreNext DEF AllSummands
<1>5. \A kind, n : Share(Msg(d, kind, n), c, "ack") = (IF c = d /\ kind = "ack" THEN n ELSE 0)
                   /\ Share(Msg(d, kind, n), c, "data") = (IF c = d /\ kind = "data" THEN n ELSE 0)
  BY DEF Share, Msg
<1>6. CASE ServiceStep(d)
  <2>1. server' = server /\ down' = down
    BY <1>6 DEF ServiceStep, ServiceEnds
  <2>2. \A kind \in {"data", "ack"} : Incoming(c, kind)' = Incoming(c, kind)
    BY <1>1, <2>1, FlowsStay
  <2> QED
    BY <1>1, <1>2, <1>3, <2>1, <2>2, ApartBalanced DEF Accounted
<1>7. CASE ServerOpens(d) \/ ServerCloses(d)
  <2>1. \E kind \in {"create", "eof"} : down' = Append(down, Msg(d, kind, 0))
    BY <1>7 DEF ServerOpens, ServerCloses
  <2>2. Msg(d, "create", 0) \in DownMessage /\ Msg(d, "eof", 0) \in DownMessage
    BY DEF Msg, DownMessage, DownBody
  <2>3. PICK m \in DownMessage : /\ down' = Append(down, m)
                                 /\ Share(m, c, "ack") = 0 /\ Share(m, c, "data") = 0
    BY <1>5, <2>1, <2>2
  <2>4. \A kind \in {"data", "ack"} : Incoming(c, kind)' = Incoming(c, kind) + Share(m, c, kind)
    BY <1>1, <2>3, FlowsOfSaying
  <2>5. \A kind \in {"data", "ack"} : Incoming(c, kind)' = Incoming(c, kind)
    BY <1>4, <2>3, <2>4 DEF Summands
  <2>6. server'[c].credit = server[c].credit
    <3>1. \E state : server' = [server EXCEPT ![d].state = state]
      BY <1>7 DEF ServerOpens, ServerCloses
    <3> QED
      BY <3>1 DEF Shape, EndsShape
  <2>7. server'[c].state = "open" => server[c].state = "open" \/ server[c].state = "new"
    BY <1>7 DEF ServerOpens, ServerCloses, Shape, EndsShape
  <2>8. Accounted(c)' => Accounted(c)
    BY <1>1, <1>2, <2>7 DEF Accounted, Life
  <2> QED
    BY <1>1, <1>2, <1>3, <2>5, <2>6, <2>8, ApartBalanced
<1>8. CASE ServerSends(d)
  <2>1. PICK n \in 1..ServerWindow :
          /\ n <= server[d].credit
          /\ server' = [server EXCEPT ![d].credit = @ - n, ![d].left = @ - n]
          /\ down' = Append(down, Msg(d, "data", n))
    BY <1>8 DEF ServerSends
  <2>2. n \in Sizes /\ n \in Nat
    BY SizesArePositive DEF Sizes
  <2> DEFINE m == Msg(d, "data", n)
  <2>3. m \in DownMessage
    BY <2>2 DEF Msg, DownMessage, DownBody
  <2>4. Share(m, c, "ack") = 0 /\ Share(m, c, "data") = IF c = d THEN n ELSE 0
    BY <1>5
  <2>5. down' = Append(down, m)
    BY <2>1
  <2> HIDE DEF m
  <2>6. \A kind \in {"data", "ack"} : Incoming(c, kind)' = Incoming(c, kind) + Share(m, c, kind)
    BY <1>1, <2>3, <2>5, FlowsOfSaying
  <2>7. /\ server'[c].state = server[c].state
        /\ server'[c].credit = IF c = d THEN server[c].credit - n ELSE server[c].credit
    <3> DEFINE credit == server[d].credit - n
               left == server[d].left - n
    <3>1. server' = [server EXCEPT ![d] = [server[d] EXCEPT !.credit = credit, !.left = left]]
      BY <2>1 DEF Shape, EndsShape
    <3>2. server[d] \in [state : {"new", "open", "closed"}, credit : Nat, left : Nat]
      BY DEF Shape, EndsShape
    <3> HIDE DEF credit, left
    <3>3. server'[c] = IF c = d THEN [server[d] EXCEPT !.credit = credit, !.left = left]
                       ELSE server[c]
      BY <3>1 DEF Shape, EndsShape
    <3>4. c = d => server'[c].state = server[c].state /\ server'[c].credit = credit
      BY <3>2, <3>3
    <3> QED
      BY <3>3, <3>4 DEF credit
  <2>8. Incoming(c, "ack")' = Incoming(c, "ack")
    BY <1>4, <2>4, <2>6 DEF Summands
  <2>9. ClientSum(c)' = ClientSum(c)
    BY <1>1, <1>2, <1>3, <2>8 DEF ClientSum
  <2>10. server'[c].credit + Incoming(c, "data")' = server[c].credit + Incoming(c, "data")
    BY <1>4, <2>2, <2>4, <2>6, <2>7 DEF Summands
  <2>11. ServerSum(c)' = ServerSum(c)
    BY <1>1, <1>2, <1>3, <2>10 DEF ServerSum
  <2> QED
    BY <1>1, <1>2, <2>7, <2>9, <2>11, Balanced DEF Accounted
<1> QED
  BY <1>6, <1>7, <1>8 DEF ServerStep

LEMMA TakingConserves ==
  ASSUME Shape, Shape', ServerTakes, NEW c \in Channels, Life(c), Conserved(c)
  PROVE  Conserved(c)'
<1> DEFINE d == Head(up).group
           kind == Head(up).data.kind
           n == Head(up).data.n
<1>1. /\ table' = table /\ capacity' = capacity /\ inbox' = inbox /\ handler' = handler
      /\ out' = out /\ loop' = loop
  BY DEF ServerTakes, clientVars
<1>2. At(c)' = At(c) /\ \A places : HeldBytes(c, places)' = HeldBytes(c, places)
  BY <1>1, HoldingStays
<1>3. Summands(c) /\ Summands(c)'
  BY SummandsAre, SummandsAreNext DEF AllSummands
<1>4. d \in Channels /\ n \in Nat
  BY ServerTaking, MessageFacts, SizeFacts
<1>5. \A k \in {"data", "ack"} :
        Outgoing(c, k)' + Share(Head(up), c, k) = Outgoing(c, k)
  BY FlowsOfTaking
<1>6. \A k \in {"data", "ack"} : Share(Head(up), c, k) = IF c = d /\ kind = k THEN n ELSE 0
  BY DEF Share
<1>7. c = d => At(c) # "none"
  <2>1. c = d => Mentions(up, c)
    BY ServerTaking, OrderOfPopped DEF Shape
  <2> QED
    BY <2>1 DEF Life
<1>8. kind = "data" => Msg(d, "ack", n) \in DownMessage
  BY ServerTaking
<1>9. \/ /\ kind = "data" /\ server' = server
         /\ down' = IF server[d].state = "open" THEN Append(down, Msg(d, "ack", n)) ELSE down
      \/ kind = "ack" /\ down' = down /\ server' = [server EXCEPT ![d].credit = @ + n]
      \/ kind = "eof" /\ down' = down /\ server' = [server EXCEPT ![d].state = "closed"]
  BY DEF ServerTakes
<1> HIDE DEF d, kind, n
<1>10. CASE c # d
  <2>1. \A k \in {"data", "ack"} : Outgoing(c, k)' = Outgoing(c, k)
    BY <1>3, <1>5, <1>6, <1>10 DEF Summands
  <2>2. server'[c] = server[c]
    BY <1>9, <1>10 DEF Shape, EndsShape
  <2>3. \A k \in {"data", "ack"} : Incoming(c, k)' = Incoming(c, k)
    <3>1. CASE down' = down
      BY <1>1, <3>1 DEF Incoming, Held
    <3>2. CASE kind = "data" /\ down' = Append(down, Msg(d, "ack", n))
      <4>1. \A k \in {"data", "ack"} : Share(Msg(d, "ack", n), c, k) = 0
        BY <1>10 DEF Share, Msg
      <4>2. \A k \in {"data", "ack"} :
              Incoming(c, k)' = Incoming(c, k) + Share(Msg(d, "ack", n), c, k)
        BY <1>1, <1>8, <3>2, FlowsOfSaying
      <4> QED
        BY <1>3, <4>1, <4>2 DEF Summands
    <3> QED
      BY <1>9, <3>1, <3>2
  <2> QED
    BY <1>1, <1>2, <2>1, <2>2, <2>3, ApartBalanced DEF Accounted
<1>11. CASE c = d /\ kind = "data" /\ server[d].state = "open"
  <2> DEFINE m == Msg(d, "ack", n)
  <2>1. server' = server /\ down' = Append(down, m) /\ m \in DownMessage
    BY <1>8, <1>9, <1>11
  <2>2. Share(m, c, "ack") = n /\ Share(m, c, "data") = 0
    BY <1>11 DEF Share, Msg
  <2> HIDE DEF m
  <2>3. \A k \in {"data", "ack"} : Incoming(c, k)' = Incoming(c, k) + Share(m, c, k)
    BY <1>1, <2>1, FlowsOfSaying
  <2>4. /\ Outgoing(c, "data")' + n = Outgoing(c, "data")
        /\ Outgoing(c, "ack")' = Outgoing(c, "ack")
    BY <1>3, <1>5, <1>6, <1>11 DEF Summands
  <2>5. /\ Incoming(c, "ack")' = Incoming(c, "ack") + n
        /\ Incoming(c, "data")' = Incoming(c, "data")
    BY <1>3, <2>2, <2>3 DEF Summands
  <2>6. ClientSum(c)' = ClientSum(c)
    BY <1>1, <1>2, <1>3, <1>4, <2>4, <2>5 DEF ClientSum, Summands
  <2>7. ServerSum(c)' = ServerSum(c)
    BY <1>1, <1>2, <2>1, <2>4, <2>5 DEF ServerSum
  <2> QED
    BY <1>1, <1>2, <2>1, <2>6, <2>7, Balanced DEF Accounted
<1>12. CASE c = d /\ ~ (kind = "data" /\ server[d].state = "open")
  <2>1. down' = down
    BY <1>9, <1>12
  <2>2. \A k \in {"data", "ack"} : Incoming(c, k)' = Incoming(c, k)
    BY <1>1, <2>1 DEF Incoming, Held
  <2>3. Accounted(c)' => kind = "ack" /\ Accounted(c)
    BY <1>1, <1>2, <1>4, <1>7, <1>9, <1>12 DEF Accounted, Shape, EndsShape
  <2>4. kind = "ack" => ClientSum(c)' = ClientSum(c)
    <3>1. kind = "ack" => Outgoing(c, "data")' = Outgoing(c, "data")
      BY <1>3, <1>5, <1>6 DEF Summands
    <3> QED
      BY <1>1, <1>2, <2>2, <3>1 DEF ClientSum
  <2>5. server'[c].credit + Outgoing(c, "ack")' = server[c].credit + Outgoing(c, "ack")
    <3>1. server'[c].credit = IF kind = "ack" THEN server[c].credit + n ELSE server[c].credit
      <4>1. /\ c \in Channels /\ server \in [Channels -> [state : {"new", "open", "closed"}, credit : Nat, left : Nat]]
        BY DEF Shape, EndsShape
      <4>2. CASE kind # "ack" /\ (server' = server \/ server' = [server EXCEPT ![c].state = "closed"])
        BY <4>1, <4>2
      <4>3. CASE kind = "ack" /\ server' = [server EXCEPT ![c].credit = @ + n]
        BY <4>1, <4>3
      <4> QED
        BY <1>9, <1>12, <4>2, <4>3
    <3>2. Outgoing(c, "ack")' + (IF kind = "ack" THEN n ELSE 0) = Outgoing(c, "ack")
      BY <1>5, <1>6, <1>12
    <3> QED
      BY <1>3, <1>4, <3>1, <3>2 DEF Summands
  <2>6. ServerSum(c)' = ServerSum(c)
    BY <1>1, <1>2, <1>3, <2>2, <2>5 DEF ServerSum, Summands
  <2> QED
    BY <1>2, <2>3, <2>4, <2>6, Balanced
<1> QED
  BY <1>10, <1>11, <1>12

-----------------------------------------------------------------------------
LEMMA InitConserves ==
  ASSUME Init, NEW c \in Channels
  PROVE  Conserved(c)
<1>1. /\ up = <<>> /\ down = <<>> /\ inbox[c] = <<>> /\ out[c] = <<>>
      /\ loop.at = "select" /\ handler[c].at = "none"
      /\ capacity[c] = Window /\ server[c].credit = ServerWindow
  BY UpMessages DEF Init, Fifo!Init
<1>2. Held("sending") = <<>> /\ Held("forwarding") = <<>>
  BY <1>1 DEF Held
<1>3. \A kind : Total(<<>>, c, kind) = 0
  BY TotalOfNothing
<1>4. \A kind : Outgoing(c, kind) = 0 /\ Incoming(c, kind) = 0
  <2> DEFINE e == <<>>
  <2>1. /\ up = e /\ down = e /\ out[c] = e /\ Held("sending") = e /\ Held("forwarding") = e
        /\ \A kind : Total(e, c, kind) = 0
    BY <1>1, <1>2, <1>3
  <2> HIDE DEF e
  <2> QED
    BY <2>1 DEF Outgoing, Incoming
<1>5. ByteCount(inbox[c]) = 0
  BY <1>1, CountOfNothing
<1>6. \A places \in {{"sendData"}, {"writing", "sendAck"}} : HeldBytes(c, places) = 0
  BY <1>1 DEF HeldBytes, At
<1> QED
  BY <1>1, <1>4, <1>5, <1>6, SizesArePositive DEF Conserved, ClientSum, ServerSum

LEMMA InitInv == Init => IInv
BY InitShape, InitLife, InitConserves DEF IInv

LEMMA NextKeepsInv == IInv /\ [Next]_vars => IInv'
<1> SUFFICES ASSUME IInv, [Next]_vars
             PROVE  IInv'
  OBVIOUS
<1>1. Shape /\ Shape'
  BY NextKeepsShape DEF IInv
<1>2. \A c \in Channels : Life(c)'
  BY <1>1, NextLivesOn DEF IInv
<1>3. ASSUME NEW c \in Channels
      PROVE  Conserved(c)'
  <2>1. Life(c) /\ Conserved(c)
    BY DEF IInv
  <2>2. CASE LoopStep
    BY <1>1, <2>1, <2>2, LoopConserves
  <2>3. CASE ServerTakes
    BY <1>1, <2>1, <2>3, TakingConserves
  <2>4. ASSUME NEW d \in Channels, HandlerStep(d)
        PROVE  Conserved(c)'
    BY <1>1, <2>1, <2>4, HandlersConserve, HandlersConserveOthers
  <2>5. ASSUME NEW d \in Channels, ServiceStep(d) \/ ServerStep(d)
        PROVE  Conserved(c)'
    BY <1>1, <2>1, <2>5, EnvironmentConserves
  <2>6. CASE UNCHANGED vars
    <3>1. \A kind \in {"data", "ack"} :
            Outgoing(c, kind)' = Outgoing(c, kind) /\ Incoming(c, kind)' = Incoming(c, kind)
      BY <2>6, FlowsStay DEF vars, clientVars
    <3> QED
      BY <2>1, <2>6, <3>1, ApartBalanced, HoldingStays DEF vars, clientVars, Accounted
  <2> QED
    BY <2>2, <2>3, <2>4, <2>5, <2>6 DEF Next
<1> QED
  BY <1>1, <1>2, <1>3 DEF IInv

LEMMA InvHolds == Spec => []IInv
BY InitInv, NextKeepsInv, PTL DEF Spec

(* Whatever channels are created, used, closed and broken in which order, no   *)
(* byte of a window is lost or counted twice between the capacity, the handler,*)
(* the queues, the connection and the server: add_capacity (data.rs:27-31)     *)
(* neither overfills the window nor lets it starve.                            *)
THEOREM WindowsAreConserved == Spec => []WindowsConserved
<1>1. IInv => WindowsConserved
  <2> SUFFICES ASSUME IInv
               PROVE  WindowsConserved
    OBVIOUS
  <2>1. table \subseteq Channels /\ \A c \in Channels : Conserved(c)
    BY DEF IInv, Shape
  <2>2. ClientWindowConserved
    BY <2>1 DEF Conserved, ClientWindowConserved, ClientSum
  <2>3. ServerWindowConserved
    BY <2>1 DEF Conserved, ServerWindowConserved, ServerSum
  <2> QED
    BY <2>2, <2>3 DEF WindowsConserved
<1> QED
  BY <1>1, InvHolds, PTL

(* What a handler waits for is what one read returned (client.rs:609-624), so  *)
(* that an unused window always covers it.                                     *)
ReadsFit ==
  \A c \in Channels : At(c) \in {"reserving", "capGap", "waiting"} => Bytes(c) <= MaxRead

LEMMA ReadsStayFitting ==
  ASSUME Shape, ReadsFit, [Next]_vars
  PROVE  ReadsFit'
<1> SUFFICES ASSUME NEW c \in Channels, At(c)' \in {"reserving", "capGap", "waiting"}
             PROVE  Bytes(c)' <= MaxRead
  BY DEF ReadsFit
<1>1. handler \in [Channels -> [at : Places, n : Nat]]
  BY DEF Shape, HandlerShape
<1>2. CASE handler' = handler
  BY <1>2 DEF ReadsFit, At, Bytes
<1>3. CASE \E d \in Channels : handler' = [handler EXCEPT ![d] = Woken(d)]
  <2>1. PICK d \in Channels : handler' = [handler EXCEPT ![d] = Woken(d)]
    BY <1>3
  <2>2. CASE c # d
    BY <1>1, <2>1, <2>2 DEF ReadsFit, At, Bytes
  <2>3. CASE c = d
    <3>1. handler[c]' = Woken(c)
      BY <1>1, <2>1, <2>3
    <3>2. Bytes(c)' = Bytes(c) /\ (At(c)' = At(c) \/ At(c) \in {"parked", "waiting"})
      BY <1>1, <3>1 DEF Woken, At, Bytes
    <3>3. At(c) # "parked"
      BY <1>1, <3>1 DEF Woken, At
    <3> QED
      BY <3>2, <3>3 DEF ReadsFit
  <2> QED
    BY <2>2, <2>3
<1>4. ASSUME NEW d \in Channels, OnCreate(d)
      PROVE  Bytes(c)' <= MaxRead
  BY <1>1, <1>4 DEF OnCreate, Goto, ReadsFit, At, Bytes
<1>5. ASSUME NEW d \in Channels, HandlerStep(d)
      PROVE  Bytes(c)' <= MaxRead
  <2>1. CASE c # d
    <3>1. handler'[c] = handler[c]
      BY <1>1, <1>5, <2>1 DEF HandlerStep, Connect, SeeOpen, SeeClosed, Register, ReadLocal,
        ReadEof, ReadError, Reserve, TakeInbox, Write, Send, End, Goto
    <3> QED
      BY <3>1 DEF ReadsFit, At, Bytes
  <2>2. CASE c = d
    <3>1. CASE ReadLocal(d)
      <4>1. PICK n \in 1..MaxRead : Goto(d, "reserving", n)
        BY <3>1 DEF ReadLocal
      <4> QED
        BY <1>1, <2>2, <4>1, SizesArePositive DEF Goto, Bytes
    <3>2. CASE Register(d)
      BY <1>1, <2>2, <3>2 DEF Register, Goto, ReadsFit, At, Bytes
    <3>3. CASE Reserve(d)
      BY <1>1, <2>2, <3>3 DEF Reserve, Goto, ReadsFit, At, Bytes
    <3>4. CASE Send(d)
      <4>1. AfterSend(d) \in {"select", "ending"} /\ Goto(d, AfterSend(d), 0)
        BY <3>4 DEF Send, AfterSend
      <4> QED
        BY <1>1, <2>2, <4>1 DEF Goto, At
    <3>5. CASE Connect(d) \/ SeeOpen(d) \/ SeeClosed(d) \/ ReadEof(d) \/ ReadError(d)
                 \/ TakeInbox(d) \/ Write(d) \/ End(d)
      BY <1>1, <2>2, <3>5 DEF Connect, SeeOpen, SeeClosed, ReadEof, ReadError,
        TakeInbox, Write, End, Goto, At
    <3> QED
      BY <1>5, <3>1, <3>2, <3>3, <3>4, <3>5 DEF HandlerStep
  <2> QED
    BY <2>1, <2>2
<1>6. CASE LoopStep
  <2>1. \/ handler' = handler
        \/ \E d \in Channels : handler' = [handler EXCEPT ![d] = Woken(d)]
        \/ \E d \in Channels : OnCreate(d)
    BY <1>6 DEF LoopStep, TakeOut, SendOut, Forward, OnData, OnEof, OnAck, Notify
  <2> QED
    BY <1>2, <1>3, <1>4, <2>1
<1>7. CASE ServerTakes \/ \E d \in Channels : ServiceStep(d) \/ ServerStep(d)
  <2>1. handler' = handler
    BY <1>7 DEF ServerTakes, ServiceStep, ServiceEnds, ServerStep, ServerOpens, ServerSends,
      ServerCloses, clientVars
  <2> QED
    BY <1>2, <2>1
<1>8. CASE UNCHANGED vars
  BY <1>2, <1>8 DEF vars, clientVars
<1> QED
  BY <1>5, <1>6, <1>7, <1>8 DEF Next

(* What wait_for_capacity (data.rs:39-75) waits for, and a server without      *)
(* credit, is under way: a wakeup comes as long as tasks and connection move   *)
(* on, and only a notification in the gap or a circle of full queues stops it. *)
THEOREM WaitingIsForSomething == Spec => []WaitersAreOwedAcks
<1>1. Init => Awake /\ ReadsFit
  BY DEF Init, Awake, ReadsFit, At
<1>2. IInv /\ Awake /\ [Next]_vars => Awake'
  BY NextStaysAwake DEF IInv
<1>3. IInv /\ ReadsFit /\ [Next]_vars => ReadsFit'
  BY ReadsStayFitting DEF IInv
<1>4. IInv /\ Awake /\ ReadsFit => WaitersAreOwedAcks
  <2> SUFFICES ASSUME IInv, Awake, ReadsFit, NEW c \in Channels
               PROVE  /\ At(c) = "waiting" /\ c \notin missed /\ server[c].state = "open"
                           => Outgoing(c, "data") + Incoming(c, "ack") > 0
                      /\ server[c].credit = 0 /\ At(c) \notin {"sendErr", "ending", "over"}
                           => Incoming(c, "data") + ByteCount(inbox[c])
                                + HeldBytes(c, {"writing", "sendAck"}) + Outgoing(c, "ack") > 0
    BY DEF WaitersAreOwedAcks
  <2>1. Life(c) /\ Conserved(c) /\ Summands(c)
    BY SummandsAre DEF IInv, AllSummands
  <2>2. /\ Window \in Nat /\ MaxRead \in Nat /\ ServerWindow \in Nat
        /\ MaxRead <= Window /\ ServerWindow >= 1
    BY SizesArePositive, ReadFitsWindow
  <2>3. ASSUME At(c) = "waiting", c \notin missed, server[c].state = "open"
        PROVE  Outgoing(c, "data") + Incoming(c, "ack") > 0
    <3>1. c \in table
      BY <2>1, <2>3 DEF Life, OwnsInbox
    <3>2. ClientSum(c) = Window
      BY <2>1, <2>3, <3>1 DEF Conserved
    <3>3. capacity[c] < Bytes(c) /\ Bytes(c) <= MaxRead /\ Bytes(c) \in Nat
      BY <2>3 DEF Awake, ReadsFit, IInv, Shape, HandlerShape, Bytes
    <3>4. HeldBytes(c, {"sendData"}) = 0
      BY <2>3 DEF HeldBytes
    <3> QED
      BY <2>1, <2>2, <3>2, <3>3, <3>4 DEF ClientSum, Summands
  <2>4. ASSUME server[c].credit = 0, At(c) \notin {"sendErr", "ending", "over"}
        PROVE  Incoming(c, "data") + ByteCount(inbox[c])
                 + HeldBytes(c, {"writing", "sendAck"}) + Outgoing(c, "ack") > 0
    <3>1. ServerSum(c) = ServerWindow
      BY <2>1, <2>4 DEF Conserved
    <3> QED
      BY <2>1, <2>2, <2>4, <3>1 DEF ServerSum, Summands
  <2> QED
    BY <2>3, <2>4
<1> QED
  BY <1>1, <1>2, <1>3, <1>4, InvHolds, PTL DEF Spec
=============================================================================
