--------------------------- MODULE EndpointProofs ---------------------------
(***************************************************************************)
(* Proofs about an endpoint's sockets, for any number of peers, messages   *)
(* and concurrent calls: the listener's accept loop and its steering of    *)
(* datagrams (AcceptLoop), the split of a stack in two (Split, as Sp), the *)
(* cache of TCP connections (TcpWrap, as Tw) and the TLS tunnels under a   *)
(* connection (GhostTunnel, as Gh).                                        *)
(***************************************************************************)
EXTENDS AcceptLoop, TLAPS

\* The datagrams of an address that have left the socket.
Left(a) == Len(chan[a]) + Len(rx[a]) + lost[a]

\* The types, with any number of datagrams.
AcceptTypes ==
    /\ sent \in [Addr -> Nat] /\ lost \in [Addr -> Nat] /\ used \in [Addr -> Nat]
    /\ sk \in Seq(Addr \X Nat)
    /\ chan \in [Addr -> Seq(Nat)] /\ rx \in [Addr -> Seq(Nat)]
    /\ fut \in [Addr -> {"none", "new", "idle", "woken", "done"}]
    /\ known \in [Addr -> BOOLEAN] /\ live \in [Addr -> BOOLEAN]

\* A channel without a connection is empty, so is that of an idle future, and a future takes
\* no more than it needs.
Emptied == \A a \in Addr : /\ IsNew(a) \/ fut[a] = "idle" => chan[a] = <<>>
                           /\ used[a] <= Need[a]

\* The socket holds, in order, the datagrams of an address that have not left it.
SocketKept(a) ==
    /\ Left(a) <= sent[a]
    /\ \A i \in 1..Len(sk) : sk[i][1] = a => Left(a) < sk[i][2] /\ sk[i][2] <= sent[a]
    /\ \A n \in (Left(a) + 1)..sent[a] : \E i \in 1..Len(sk) : sk[i] = <<a, n>>
    /\ \A i, j \in 1..Len(sk) : i < j /\ sk[i][1] = a /\ sk[j][1] = a => sk[i][2] < sk[j][2]

\* What was received is older than what waits, and both are in order.
Rising(s) == \A i, j \in 1..Len(s) : i < j => s[i] < s[j]
InOrder(a) ==
    /\ Rising(rx[a]) /\ Rising(chan[a])
    /\ \A i \in 1..Len(rx[a]) : rx[a][i] <= Left(a)
    /\ \A i \in 1..Len(chan[a]) : chan[a][i] <= Left(a)
    /\ \A i \in 1..Len(rx[a]) : \A j \in 1..Len(chan[a]) : rx[a][i] < chan[a][j]

\* The inductive invariant.
AcceptInv == AcceptTypes /\ Emptied /\ \A a \in Addr : SocketKept(a) /\ InOrder(a)

\* What the negotiation with an address consumes, is a number of datagrams.
NeedAssumption == Need \in [Addr -> Nat]

\* What two sequences of numbers are, put together.
LEMMA Joined ==
    ASSUME NEW r \in Seq(Nat), NEW t \in Seq(Nat)
    PROVE  /\ r \o t \in Seq(Nat)
           /\ Len(r \o t) = Len(r) + Len(t)
           /\ \A i \in 1..(Len(r) + Len(t)) :
                 (r \o t)[i] = IF i <= Len(r) THEN r[i] ELSE t[i - Len(r)]
OBVIOUS

\* ... and with one more at the end.
LEMMA Appended ==
    ASSUME NEW c \in Seq(Nat), NEW n \in Nat
    PROVE  /\ Append(c, n) \in Seq(Nat) /\ Len(Append(c, n)) = Len(c) + 1
           /\ \A i \in 1..(Len(c) + 1) : Append(c, n)[i] = IF i = Len(c) + 1 THEN n ELSE c[i]
OBVIOUS

\* A future, or the application, takes the first k datagrams of the channel.
TookFirst(r, c, k, r2, c2) ==
    /\ r2 \in Seq(Nat) /\ c2 \in Seq(Nat) /\ Len(r2) = Len(r) + k /\ Len(c2) = Len(c) - k
    /\ \A i \in 1..(Len(r) + k) : r2[i] = IF i <= Len(r) THEN r[i] ELSE c[i - Len(r)]
    /\ \A i \in 1..(Len(c) - k) : c2[i] = c[k + i]

\* It is what the two subsequences of PollFut are.
LEMMA Taken ==
    ASSUME NEW r \in Seq(Nat), NEW c \in Seq(Nat), NEW k \in 0..Len(c)
    PROVE  TookFirst(r, c, k, r \o SubSeq(c, 1, k), SubSeq(c, k + 1, Len(c)))
<1> DEFINE t == SubSeq(c, 1, k)
           u == SubSeq(c, k + 1, Len(c))
<1>1. t \in Seq(Nat) /\ Len(t) = k /\ \A i \in 1..k : t[i] = c[i]
    OBVIOUS
<1>2. u \in Seq(Nat) /\ Len(u) = Len(c) - k /\ \A i \in 1..(Len(c) - k) : u[i] = c[k + i]
    OBVIOUS
<1> HIDE DEF t, u
<1>3. /\ r \o t \in Seq(Nat) /\ Len(r \o t) = Len(r) + Len(t)
      /\ \A i \in 1..(Len(r) + Len(t)) : (r \o t)[i] = IF i <= Len(r) THEN r[i] ELSE t[i - Len(r)]
    BY <1>1, Joined, Zenon
<1>4. Len(r) \in Nat
    OBVIOUS
<1>5. ASSUME NEW i \in 1..(Len(r) + k)
      PROVE  (r \o t)[i] = IF i <= Len(r) THEN r[i] ELSE c[i - Len(r)]
    <2>1. (r \o t)[i] = IF i <= Len(r) THEN r[i] ELSE t[i - Len(r)]
        BY <1>1, <1>3, Zenon
    <2>2. ~(i <= Len(r)) => i - Len(r) \in 1..k
        BY <1>4
    <2>3. ~(i <= Len(r)) => t[i - Len(r)] = c[i - Len(r)]
        BY <1>1, <2>2, Zenon
    <2> QED
        BY <2>1, <2>3, Zenon
<1> QED
    <2> DEFINE rt == r \o t
    <2>1. /\ rt \in Seq(Nat) /\ Len(rt) = Len(r) + k
          /\ \A i \in 1..(Len(r) + k) : rt[i] = IF i <= Len(r) THEN r[i] ELSE c[i - Len(r)]
        BY <1>1, <1>3, <1>5, Zenon
    <2> HIDE DEF rt
    <2>2. TookFirst(r, c, k, rt, u)
        BY <1>2, <2>1, Zenon DEF TookFirst
    <2> QED
        BY <2>2, Zenon DEF rt, t, u

\* One more of the first of three counts.
LEMMA ThreeCounts == \A x, y, z \in Nat : x + y + z \in Nat /\ (x + 1) + y + z = (x + y + z) + 1
OBVIOUS

\* The counts are numbers.
LEMMA Counts ==
    ASSUME AcceptTypes, NEW b \in Addr
    PROVE  /\ chan[b] \in Seq(Nat) /\ rx[b] \in Seq(Nat)
           /\ Len(chan[b]) \in Nat /\ Len(rx[b]) \in Nat /\ lost[b] \in Nat /\ sent[b] \in Nat
           /\ Left(b) \in Nat
<1>1. chan[b] \in Seq(Nat) /\ rx[b] \in Seq(Nat) /\ lost[b] \in Nat /\ sent[b] \in Nat
    BY Zenon DEF AcceptTypes
<1>2. Len(chan[b]) \in Nat /\ Len(rx[b]) \in Nat
    BY <1>1
<1>3. Left(b) \in Nat
    BY <1>1, <1>2, ThreeCounts, Zenon DEF Left
<1> QED
    BY <1>1, <1>2, <1>3, Zenon

\* An update of one address.
LEMMA Updated ==
    ASSUME NEW S, NEW f \in [Addr -> S], NEW a \in Addr, NEW v \in S, NEW g,
           g = [f EXCEPT ![a] = v]
    PROVE  g \in [Addr -> S] /\ g[a] = v /\ \A b \in Addr \ {a} : g[b] = f[b]
BY Zenon

\* What a step does not touch of an address stays right.
LEMMA LeftSame ==
    ASSUME NEW b \in Addr, chan'[b] = chan[b], rx'[b] = rx[b], lost'[b] = lost[b]
    PROVE  Left(b)' = Left(b)
BY Zenon DEF Left
\* ... its datagrams in the socket,
LEMMA SocketSame ==
    ASSUME NEW b \in Addr, SocketKept(b), sk' = sk, sent' = sent, Left(b)' = Left(b)
    PROVE  SocketKept(b)'
BY Zenon DEF SocketKept
\* ... and the order of those that left it.
LEMMA OrderSame ==
    ASSUME NEW b \in Addr, InOrder(b), rx'[b] = rx[b], chan'[b] = chan[b], Left(b)' = Left(b)
    PROVE  InOrder(b)'
BY Zenon DEF InOrder

\* A datagram reaches the socket: it is the next one.
LEMMA ArriveKept ==
    ASSUME AcceptInv, NEW a \in Addr, Arrive(a)
    PROVE  AcceptInv'
<1>1. /\ sent \in [Addr -> Nat] /\ sk \in Seq(Addr \X Nat)
      /\ chan \in [Addr -> Seq(Nat)] /\ rx \in [Addr -> Seq(Nat)] /\ lost \in [Addr -> Nat]
    BY Zenon DEF AcceptInv, AcceptTypes
<1>2. /\ sent' = [sent EXCEPT ![a] = @ + 1] /\ sk' = Append(sk, <<a, sent[a] + 1>>)
      /\ UNCHANGED <<known, live, chan, fut, used, rx, lost>>
    BY Zenon DEF Arrive
<1>3. /\ sent' \in [Addr -> Nat] /\ \A b \in Addr : sent[b] <= sent'[b]
      /\ sent'[a] = sent[a] + 1 /\ \A b \in Addr \ {a} : sent'[b] = sent[b]
    <2>1. sent[a] + 1 \in Nat
        BY <1>1
    <2>2. /\ sent' \in [Addr -> Nat] /\ sent'[a] = sent[a] + 1
          /\ \A b \in Addr \ {a} : sent'[b] = sent[b]
        BY <1>1, <1>2, <2>1, Updated, Zenon
    <2>3. ASSUME NEW b \in Addr PROVE sent[b] <= sent'[b]
        <3>1. sent[b] \in Nat
            BY <1>1, Zenon
        <3> QED
            BY <2>2, <3>1
    <2> QED
        BY <2>2, <2>3, Zenon
<1>4. ASSUME NEW b \in Addr PROVE Left(b) \in Nat /\ Left(b)' = Left(b)
    <2>1. Left(b) \in Nat
        BY Counts, Zenon DEF AcceptInv
    <2>2. Left(b)' = Left(b)
        BY <1>2, Zenon DEF Left
    <2> QED
        BY <2>1, <2>2, Zenon
<1> DEFINE d == <<a, sent[a] + 1>>
<1>5. d \in Addr \X Nat /\ d[1] = a /\ d[2] = sent[a] + 1
    BY <1>1
<1>6. /\ sk' \in Seq(Addr \X Nat) /\ Len(sk') = Len(sk) + 1 /\ sk'[Len(sk) + 1] = d
      /\ \A i \in 1..Len(sk) : sk'[i] = sk[i]
    <2> HIDE DEF d
    <2> QED
        BY <1>1, <1>2, <1>5 DEF d
<1>7. Len(sk) \in Nat /\ \A i \in 1..Len(sk) : sk[i] \in Addr \X Nat
    BY <1>1
<1>8. \A e \in Addr \X Nat : e[1] \in Addr /\ e[2] \in Nat
    BY Zenon
<1>9. ASSUME NEW b \in Addr PROVE SocketKept(b)'
    <2>1. /\ Left(b) <= sent[b]
          /\ \A i \in 1..Len(sk) : sk[i][1] = b => Left(b) < sk[i][2] /\ sk[i][2] <= sent[b]
          /\ \A n \in (Left(b) + 1)..sent[b] : \E i \in 1..Len(sk) : sk[i] = <<b, n>>
          /\ \A i, j \in 1..Len(sk) : i < j /\ sk[i][1] = b /\ sk[j][1] = b => sk[i][2] < sk[j][2]
        BY Zenon DEF AcceptInv, SocketKept
    <2>2. /\ Left(b) \in Nat /\ Left(b)' = Left(b) /\ sent[b] \in Nat /\ sent'[b] \in Nat
          /\ sent[b] <= sent'[b]
          /\ (b = a => sent'[b] = sent[b] + 1) /\ (b # a => sent'[b] = sent[b])
        <3>1. sent[b] \in Nat /\ sent'[b] \in Nat
            BY <1>1, <1>3, Zenon
        <3>2. (b = a => sent'[b] = sent[b] + 1) /\ (b # a => sent'[b] = sent[b])
            BY <1>3, Zenon
        <3> QED
            BY <1>3, <1>4, <3>1, <3>2, Zenon
    <2> HIDE DEF d
    <2>3. ASSUME NEW i \in 1..Len(sk'), sk'[i][1] = b
          PROVE  Left(b) < sk'[i][2] /\ sk'[i][2] <= sent'[b]
        <3>1. CASE i \in 1..Len(sk)
            <4>1. sk'[i] = sk[i] /\ sk[i][2] \in Nat
                BY <1>6, <1>7, <1>8, <3>1, Zenon
            <4> QED
                BY <2>1, <2>2, <2>3, <3>1, <4>1
        <3>2. CASE i = Len(sk) + 1
            <4>1. b = a /\ sk'[i][2] = sent[b] + 1
                BY <1>5, <1>6, <2>3, <3>2, Zenon
            <4> QED
                BY <2>1, <2>2, <4>1
        <3> QED
            BY <1>6, <1>7, <3>1, <3>2
    <2>4. ASSUME NEW n \in (Left(b) + 1)..sent'[b]
          PROVE  \E i \in 1..Len(sk') : sk'[i] = <<b, n>>
        <3>1. CASE n \in (Left(b) + 1)..sent[b]
            <4>1. PICK i \in 1..Len(sk) : sk[i] = <<b, n>>
                BY <2>1, <3>1, Zenon
            <4>2. i \in 1..Len(sk') /\ sk'[i] = <<b, n>>
                BY <1>6, <1>7, <4>1, SMTT(30)
            <4> QED
                BY <4>2, Zenon
        <3>2. CASE n \notin (Left(b) + 1)..sent[b]
            <4>1. b = a /\ n = sent[a] + 1
                BY <2>2, <3>2
            <4>2. Len(sk) + 1 \in 1..Len(sk') /\ sk'[Len(sk) + 1] = <<b, n>>
                BY <1>6, <1>7, <4>1 DEF d
            <4> QED
                BY <4>2, Zenon
        <3> QED
            BY <3>1, <3>2, Zenon
    <2>5. ASSUME NEW i \in 1..Len(sk'), NEW j \in 1..Len(sk'), i < j, sk'[i][1] = b, sk'[j][1] = b
          PROVE  sk'[i][2] < sk'[j][2]
        <3>1. i \in 1..Len(sk)
            BY <1>6, <1>7, <2>5
        <3>2. sk'[i] = sk[i] /\ sk[i][2] \in Nat
            <4>1. sk'[i] = sk[i]
                BY <1>6, <3>1, Zenon
            <4> QED
                BY <1>7, <1>8, <3>1, <4>1, Zenon
        <3>3. CASE j \in 1..Len(sk)
            <4>1. sk'[j] = sk[j]
                BY <1>6, <3>3, Zenon
            <4> QED
                BY <2>1, <2>5, <3>1, <3>2, <3>3, <4>1, Zenon
        <3>4. CASE j = Len(sk) + 1
            <4>1. b = a /\ sk'[j][2] = sent[b] + 1
                BY <1>5, <1>6, <2>5, <3>4, Zenon
            <4>2. sk[i][2] <= sent[b]
                BY <2>1, <2>5, <3>1, <3>2, Zenon
            <4> QED
                BY <2>2, <3>2, <4>1, <4>2
        <3> QED
            BY <1>6, <1>7, <3>3, <3>4
    <2>6. Left(b)' <= sent'[b]
        BY <2>1, <2>2
    <2> QED
        BY <2>2, <2>3, <2>4, <2>5, <2>6, Zenon DEF SocketKept
<1>10. AcceptTypes'
    BY <1>2, <1>3, <1>6, Zenon DEF AcceptInv, AcceptTypes
<1>11. Emptied'
    BY <1>2, Zenon DEF AcceptInv, Emptied, IsNew
<1>12. ASSUME NEW b \in Addr PROVE InOrder(b)'
    <2>1. InOrder(b) /\ rx'[b] = rx[b] /\ chan'[b] = chan[b]
        BY <1>2, Zenon DEF AcceptInv
    <2> QED
        BY <1>4, <2>1, OrderSame, Zenon
<1> QED
    BY <1>9, <1>10, <1>11, <1>12, Zenon DEF AcceptInv

\* The first datagram of the socket goes to the channel of its address: it is the next one.
\* The listener takes the datagram that is next for its address, and appends it to the
\* channel of that address's connection, which is empty if it is new.
LEMMA SteerKept ==
    ASSUME NeedAssumption, AcceptInv, NEW here, NEW next, Steer(here, next)
    PROVE  AcceptInv'
<1>1. /\ sent \in [Addr -> Nat] /\ sk \in Seq(Addr \X Nat) /\ used \in [Addr -> Nat]
      /\ chan \in [Addr -> Seq(Nat)] /\ rx \in [Addr -> Seq(Nat)] /\ lost \in [Addr -> Nat]
      /\ fut \in [Addr -> {"none", "new", "idle", "woken", "done"}]
      /\ known \in [Addr -> BOOLEAN] /\ live \in [Addr -> BOOLEAN]
    BY Zenon DEF AcceptInv, AcceptTypes
<1>2. sk # <<>> /\ sk' = Tail(sk) /\ UNCHANGED <<sent, rx, lost>> /\ Head(sk) = sk[1]
    BY <1>1 DEF Steer
<1>3. Len(sk) \in Nat /\ 1 \in 1..Len(sk) /\ \A i \in 1..Len(sk) : sk[i] \in Addr \X Nat
    <2>1. sk \in Seq(Addr \X Nat) /\ sk # <<>>
        BY <1>1, <1>2, Zenon
    <2> QED
        BY <2>1
<1>4. \A e \in Addr \X Nat : e[1] \in Addr /\ e[2] \in Nat /\ e = <<e[1], e[2]>>
    OBVIOUS
<1>5. PICK a \in Addr, n \in Nat : sk[1] = <<a, n>>
    BY <1>3, <1>4, Zenon
<1>6. /\ sk' \in Seq(Addr \X Nat) /\ Len(sk') = Len(sk) - 1
      /\ \A i \in 1..Len(sk') : sk'[i] = sk[i + 1] /\ i + 1 \in 1..Len(sk)
    BY <1>1, <1>2, <1>3
<1>7. ToExisting(a, n) \/ ToNew(a, n, next)
    BY <1>2, <1>5 DEF Steer
<1>8. chan' = [chan EXCEPT ![a] = Append(chan[a], n)]
    <2>1. CASE ToExisting(a, n)
        BY <2>1, Zenon DEF ToExisting
    <2>2. CASE ToNew(a, n, next)
        <3>1. chan[a] = <<>>
            BY <1>5, <2>2, Zenon DEF ToNew, AcceptInv, Emptied
        <3>2. <<n>> = Append(<<>>, n)
            OBVIOUS
        <3> QED
            BY <2>2, <3>1, <3>2, Zenon DEF ToNew
    <2> QED
        BY <1>7, <2>1, <2>2, Zenon
<1>9. /\ chan' \in [Addr -> Seq(Nat)] /\ Len(chan'[a]) = Len(chan[a]) + 1
      /\ \A i \in 1..(Len(chan[a]) + 1) :
            chan'[a][i] = IF i = Len(chan[a]) + 1 THEN n ELSE chan[a][i]
      /\ \A b \in Addr \ {a} : chan'[b] = chan[b]
    <2>1. chan[a] \in Seq(Nat)
        BY <1>1, Zenon
    <2> DEFINE c == Append(chan[a], n)
    <2>2. /\ c \in Seq(Nat) /\ Len(c) = Len(chan[a]) + 1
          /\ \A i \in 1..(Len(chan[a]) + 1) :
               c[i] = IF i = Len(chan[a]) + 1 THEN n ELSE chan[a][i]
        BY <2>1, Appended, Zenon
    <2>3. chan' = [chan EXCEPT ![a] = c]
        BY <1>8, Zenon
    <2> HIDE DEF c
    <2>4. chan' \in [Addr -> Seq(Nat)] /\ chan'[a] = c /\ \A b \in Addr \ {a} : chan'[b] = chan[b]
        BY <1>1, <2>2, <2>3, Updated, ZenonT(30)
    <2> QED
        BY <2>2, <2>4, Zenon
<1>10. /\ \A b \in Addr : Left(b) \in Nat /\ (b # a => Left(b)' = Left(b))
       /\ Left(a)' = Left(a) + 1
    <2>1. rx' = rx /\ lost' = lost
        BY <1>2, Zenon
    <2>2. Len(chan'[a]) = Len(chan[a]) + 1 /\ \A b \in Addr \ {a} : chan'[b] = chan[b]
        BY <1>9, Zenon
    <2>3. \A b \in Addr : Left(b) \in Nat
        BY Counts, Zenon DEF AcceptInv
    <2>4. \A b \in Addr \ {a} : Left(b)' = Left(b)
        BY <2>1, <2>2, Zenon DEF Left
    <2>5. Len(chan[a]) \in Nat /\ Len(rx[a]) \in Nat /\ lost[a] \in Nat
        BY <1>5, Counts, Zenon DEF AcceptInv
    <2>6. Left(a)' = (Len(chan[a]) + 1) + Len(rx[a]) + lost[a]
        BY <2>1, <2>2, Zenon DEF Left
    <2>7. Left(a)' = Left(a) + 1
        <3>1. (Len(chan[a]) + 1) + Len(rx[a]) + lost[a]
                = (Len(chan[a]) + Len(rx[a]) + lost[a]) + 1
            <4> DEFINE x == Len(chan[a])
                       y == Len(rx[a])
                       z == lost[a]
            <4>1. x \in Nat /\ y \in Nat /\ z \in Nat
                BY <2>5, Zenon
            <4> HIDE DEF x, y, z
            <4>2. (x + 1) + y + z = (x + y + z) + 1
                BY ONLY <4>1, SMT
            <4> QED
                BY <4>2, Zenon DEF x, y, z
        <3> QED
            BY <2>6, <3>1, Zenon DEF Left
    <2> QED
        BY <2>3, <2>4, <2>7, Zenon
<1>11. \A b \in Addr :
         /\ Left(b) <= sent[b] /\ sent[b] \in Nat
         /\ \A i \in 1..Len(sk) : sk[i][1] = b => Left(b) < sk[i][2] /\ sk[i][2] <= sent[b]
         /\ \A m \in (Left(b) + 1)..sent[b] : \E i \in 1..Len(sk) : sk[i] = <<b, m>>
         /\ \A i, j \in 1..Len(sk) : i < j /\ sk[i][1] = b /\ sk[j][1] = b => sk[i][2] < sk[j][2]
    BY <1>1, Zenon DEF AcceptInv, SocketKept
<1>12. n = Left(a) + 1
    <2>1. Left(a) < n /\ n <= sent[a] /\ Left(a) \in Nat /\ sent[a] \in Nat
        <3>1. sk[1][1] = a /\ sk[1][2] = n
            BY <1>5
        <3> QED
            BY <1>3, <1>5, <1>10, <1>11, <3>1, Zenon
    <2>2. PICK i \in 1..Len(sk) : sk[i] = <<a, Left(a) + 1>>
        <3>1. Left(a) + 1 \in (Left(a) + 1)..sent[a]
            BY <1>5, <2>1
        <3> QED
            BY <1>5, <1>11, <3>1, Zenon
    <2>3. CASE i = 1
        BY <1>5, <2>2, <2>3
    <2>4. CASE i # 1
        <3>1. 1 < i /\ sk[1][1] = a /\ sk[i][1] = a /\ sk[i][2] = Left(a) + 1
            BY <1>3, <1>5, <2>2, <2>4
        <3>2. n < Left(a) + 1
            BY <1>3, <1>5, <1>11, <3>1
        <3> QED
            BY <1>5, <2>1, <3>2
    <2> QED
        BY <2>3, <2>4, Zenon
<1>13. ASSUME NEW b \in Addr PROVE SocketKept(b)'
    <2>1. /\ Left(b) \in Nat /\ Left(b)' \in Nat /\ sent[b] \in Nat /\ Left(b) <= Left(b)'
          /\ (b # a => Left(b)' = Left(b)) /\ (b = a => Left(b)' = n)
        BY <1>5, <1>10, <1>11, <1>12
    <2>2. Left(b)' <= sent[b]
        <3>1. n <= sent[a]
            BY <1>3, <1>5, <1>11
        <3> QED
            BY <1>11, <2>1, <3>1, Zenon
    <2>3. ASSUME NEW i \in 1..Len(sk'), sk'[i][1] = b
          PROVE  Left(b)' < sk'[i][2] /\ sk'[i][2] <= sent[b]
        <3>1. sk'[i] = sk[i + 1] /\ i + 1 \in 1..Len(sk) /\ sk[i + 1][2] \in Nat
            BY <1>3, <1>4, <1>6, Zenon
        <3>2. Left(b) < sk'[i][2] /\ sk'[i][2] <= sent[b]
            BY <1>11, <2>3, <3>1, Zenon
        <3>3. b = a => n < sk'[i][2]
            <4>1. 1 < i + 1 /\ sk[1][1] = a /\ sk[1][2] = n
                BY <1>5
            <4> QED
                BY <1>3, <1>11, <2>3, <3>1, <4>1, Zenon
        <3> QED
            BY <2>1, <3>2, <3>3, Zenon
    <2>4. ASSUME NEW m \in (Left(b)' + 1)..sent[b]
          PROVE  \E i \in 1..Len(sk') : sk'[i] = <<b, m>>
        <3>1. m \in (Left(b) + 1)..sent[b] /\ (b = a => m # n)
            BY <2>1
        <3>2. PICK i \in 1..Len(sk) : sk[i] = <<b, m>>
            BY <1>11, <3>1, Zenon
        <3>3. i # 1
            BY <1>5, <3>1, <3>2
        <3>4. i - 1 \in 1..Len(sk')
            BY <1>3, <1>6, <3>3
        <3>5. sk'[i - 1] = sk[(i - 1) + 1]
            BY <1>6, <3>4, Zenon
        <3>6. (i - 1) + 1 = i
            BY <3>2
        <3> QED
            BY <3>2, <3>4, <3>5, <3>6, Zenon
    <2>5. ASSUME NEW i \in 1..Len(sk'), NEW j \in 1..Len(sk'), i < j, sk'[i][1] = b, sk'[j][1] = b
          PROVE  sk'[i][2] < sk'[j][2]
        <3>1. /\ sk'[i] = sk[i + 1] /\ sk'[j] = sk[j + 1] /\ i + 1 < j + 1
              /\ i + 1 \in 1..Len(sk) /\ j + 1 \in 1..Len(sk)
            BY <1>6, <2>5, SMTT(30)
        <3> QED
            BY <1>11, <2>5, <3>1, Zenon
    <2> QED
        BY <1>2, <2>2, <2>3, <2>4, <2>5, Zenon DEF SocketKept
<1>14. ASSUME NEW b \in Addr PROVE InOrder(b)'
    <2>1. /\ Rising(rx[b]) /\ Rising(chan[b]) /\ rx[b] \in Seq(Nat) /\ chan[b] \in Seq(Nat)
          /\ \A i \in 1..Len(rx[b]) : rx[b][i] <= Left(b)
          /\ \A i \in 1..Len(chan[b]) : chan[b][i] <= Left(b)
          /\ \A i \in 1..Len(rx[b]) : \A j \in 1..Len(chan[b]) : rx[b][i] < chan[b][j]
        BY <1>1, Zenon DEF AcceptInv, InOrder
    <2>2. CASE b # a
        <3>1. InOrder(b) /\ rx'[b] = rx[b] /\ chan'[b] = chan[b] /\ Left(b)' = Left(b)
            BY <1>2, <1>9, <1>10, <2>2, Zenon DEF AcceptInv
        <3> QED
            BY <3>1, OrderSame, Zenon
    <2>3. CASE b = a
        <3>1. /\ Left(a) \in Nat /\ Left(a)' = n /\ n = Left(a) + 1 /\ Len(chan[a]) \in Nat
              /\ rx'[a] = rx[a] /\ Len(chan'[a]) = Len(chan[a]) + 1
            <4>1. Len(chan[a]) \in Nat
                BY <1>5, Counts, Zenon DEF AcceptInv
            <4>2. rx'[a] = rx[a] /\ Len(chan'[a]) = Len(chan[a]) + 1
                BY <1>2, <1>9, Zenon
            <4> QED
                BY <1>10, <1>12, <4>1, <4>2, Zenon
        <3>8. /\ \A i \in 1..Len(chan[a]) : chan[a][i] \in Nat
              /\ \A i \in 1..Len(rx[a]) : rx[a][i] \in Nat
            BY <2>1, <2>3, SMTT(30)
        <3>6. /\ \A i \in 1..Len(chan[a]) : chan[a][i] \in Nat /\ chan[a][i] < n
              /\ \A i \in 1..Len(rx[a]) : rx[a][i] \in Nat /\ rx[a][i] < n
            <4>1. \A x \in Nat : x <= Left(a) => x < n
                BY <3>1
            <4>2. /\ \A i \in 1..Len(rx[a]) : rx[a][i] <= Left(a)
                  /\ \A i \in 1..Len(chan[a]) : chan[a][i] <= Left(a)
                BY <2>1, <2>3, Zenon
            <4> QED
                BY <3>8, <4>1, <4>2, Zenon
        <3>7. \A i \in 1..Len(chan'[a]) :
                 \/ i \in 1..Len(chan[a]) /\ chan'[a][i] = chan[a][i]
                 \/ i = Len(chan[a]) + 1 /\ chan'[a][i] = n
            <4> SUFFICES ASSUME NEW i \in 1..(Len(chan[a]) + 1)
                         PROVE  \/ i \in 1..Len(chan[a]) /\ chan'[a][i] = chan[a][i]
                                \/ i = Len(chan[a]) + 1 /\ chan'[a][i] = n
                BY <3>1, Zenon
            <4>1. chan'[a][i] = IF i = Len(chan[a]) + 1 THEN n ELSE chan[a][i]
                BY <1>9, Zenon
            <4>2. i = Len(chan[a]) + 1 \/ i \in 1..Len(chan[a])
                BY <3>1
            <4> QED
                BY <3>1, <4>1, <4>2, Zenon
        <3>2. Rising(chan'[a])
            <4> SUFFICES ASSUME NEW i \in 1..Len(chan'[a]), NEW j \in 1..Len(chan'[a]), i < j
                         PROVE  chan'[a][i] < chan'[a][j]
                BY Zenon DEF Rising
            <4>1. i \in 1..Len(chan[a]) /\ chan'[a][i] = chan[a][i]
                BY <3>1, <3>7
            <4>2. CASE j \in 1..Len(chan[a]) /\ chan'[a][j] = chan[a][j]
                BY <2>1, <2>3, <4>1, <4>2, Zenon DEF Rising
            <4>3. CASE chan'[a][j] = n
                BY <3>6, <4>1, <4>3, Zenon
            <4> QED
                BY <3>7, <4>2, <4>3, Zenon
        <3>3. \A i \in 1..Len(rx[a]) : rx[a][i] <= n
            BY <3>1, <3>6
        <3>4. \A i \in 1..Len(chan'[a]) : chan'[a][i] <= n
            <4>1. \A i \in 1..Len(chan[a]) : chan[a][i] <= n
                BY <3>6
            <4> QED
                BY <3>7, <4>1
        <3>5. \A i \in 1..Len(rx[a]) : \A j \in 1..Len(chan'[a]) : rx[a][i] < chan'[a][j]
            BY <2>1, <2>3, <3>6, <3>7, Zenon
        <3> QED
            BY <2>1, <2>3, <3>1, <3>2, <3>3, <3>4, <3>5, Zenon DEF InOrder
    <2> QED
        BY <2>2, <2>3, Zenon
<1>15. AcceptTypes'
    <2>1. \/ UNCHANGED <<known, live>>
          \/ known' = [known EXCEPT ![a] = TRUE] /\ live' = [live EXCEPT ![a] = TRUE]
        BY <1>7, Zenon DEF ToExisting, ToNew
    <2>2. known' \in [Addr -> BOOLEAN] /\ live' \in [Addr -> BOOLEAN]
        BY <1>1, <2>1, Zenon
    <2>6. used' = used \/ used' = [used EXCEPT ![a] = 0]
        BY <1>7, Zenon DEF ToExisting, ToNew
    <2>7. used \in [Addr -> Nat]
        BY <1>1, Zenon
    <2>3. used' \in [Addr -> Nat]
        BY <2>6, <2>7
    <2>4. \/ fut' = [fut EXCEPT ![a] = "new"] \/ fut' = [fut EXCEPT ![a] = "woken"]
          \/ fut' = [fut EXCEPT ![a] = fut[a]]
        BY <1>7, Zenon DEF ToExisting, ToNew
    <2>5. fut' \in [Addr -> {"none", "new", "idle", "woken", "done"}]
        BY <1>1, <2>4, Zenon
    <2> QED
        BY <1>1, <1>2, <1>6, <1>9, <2>2, <2>3, <2>5, Zenon DEF AcceptTypes
<1>16. ASSUME NEW b \in Addr
       PROVE  /\ IsNew(b)' \/ fut'[b] = "idle" => chan'[b] = <<>>
              /\ used'[b] <= Need[b]
    <2>1. /\ IsNew(b) \/ fut[b] = "idle" => chan[b] = <<>>
          /\ used[b] <= Need[b]
        BY Zenon DEF AcceptInv, Emptied
    <2>2. CASE b # a
        <3>1. known'[b] = known[b] /\ live'[b] = live[b] /\ fut'[b] = fut[b] /\ used'[b] = used[b]
            <4>1. CASE ToExisting(a, n)
                BY <1>1, <2>2, <4>1, Zenon DEF ToExisting
            <4>2. CASE ToNew(a, n, next)
                BY <1>1, <2>2, <4>2, Zenon DEF ToNew
            <4> QED
                BY <1>7, <4>1, <4>2, Zenon
        <3> QED
            BY <1>9, <2>1, <2>2, <3>1, Zenon DEF IsNew
    <2>3. CASE b = a /\ ToExisting(a, n)
        <3>1. UNCHANGED <<known, live, used>> /\ ~IsNew(a) /\ fut'[a] # "idle"
            BY <1>1, <2>3, Zenon DEF ToExisting
        <3> QED
            BY <2>1, <2>3, <3>1, Zenon DEF IsNew
    <2>4. CASE b = a /\ ToNew(a, n, next)
        <3>1. known'[a] = TRUE /\ live'[a] = TRUE /\ fut'[a] = "new" /\ used'[a] = 0
            BY <1>1, <2>4, Zenon DEF ToNew
        <3>2. Need[a] \in Nat
            BY <1>5, Zenon DEF NeedAssumption
        <3> QED
            BY <2>4, <3>1, <3>2 DEF IsNew
    <2> QED
        BY <1>7, <2>2, <2>3, <2>4, Zenon
<1> QED
    BY <1>13, <1>14, <1>15, <1>16, Zenon DEF AcceptInv, Emptied

\* Somebody takes the first k datagrams of a channel.
LEMMA TakeKept ==
    ASSUME AcceptInv, NEW a \in Addr, NEW k \in 0..Len(chan[a]),
           rx' = [rx EXCEPT ![a] = rx[a] \o SubSeq(chan[a], 1, k)],
           chan' = [chan EXCEPT ![a] = SubSeq(chan[a], k + 1, Len(chan[a]))],
           UNCHANGED <<sent, sk, lost>>
    PROVE  /\ rx' \in [Addr -> Seq(Nat)] /\ chan' \in [Addr -> Seq(Nat)]
           /\ Len(chan'[a]) = Len(chan[a]) - k
           /\ \A b \in Addr : SocketKept(b)' /\ InOrder(b)'
<1> DEFINE r == rx[a]
           c == chan[a]
           r2 == r \o SubSeq(c, 1, k)
           c2 == SubSeq(c, k + 1, Len(c))
<1>1. chan \in [Addr -> Seq(Nat)] /\ rx \in [Addr -> Seq(Nat)]
    BY Zenon DEF AcceptInv, AcceptTypes
<1>2. /\ r \in Seq(Nat) /\ c \in Seq(Nat) /\ Len(c) \in Nat /\ Len(r) \in Nat
      /\ lost[a] \in Nat /\ Left(a) \in Nat
    BY Counts, Zenon DEF AcceptInv
<1>3. rx' = [rx EXCEPT ![a] = r2] /\ chan' = [chan EXCEPT ![a] = c2] /\ k \in 0..Len(c)
    BY Zenon
<1> HIDE DEF r, c
<1>4. /\ r2 \in Seq(Nat) /\ c2 \in Seq(Nat) /\ Len(r2) = Len(r) + k /\ Len(c2) = Len(c) - k
      /\ \A i \in 1..(Len(r) + k) : r2[i] = IF i <= Len(r) THEN r[i] ELSE c[i - Len(r)]
      /\ \A i \in 1..(Len(c) - k) : c2[i] = c[k + i]
    <2>1. TookFirst(r, c, k, r2, c2)
        BY <1>2, <1>3, Taken, Zenon
    <2> HIDE DEF r2, c2
    <2> QED
        BY <2>1, Zenon DEF TookFirst
<1>5. /\ \A i \in 1..Len(r) : r[i] \in Nat
      /\ \A i \in 1..Len(c) : c[i] \in Nat
    BY <1>2, SMTT(30)
<1> HIDE DEF r2, c2
<1>6. /\ rx' \in [Addr -> Seq(Nat)] /\ chan' \in [Addr -> Seq(Nat)]
      /\ rx'[a] = r2 /\ chan'[a] = c2
      /\ \A b \in Addr \ {a} : rx'[b] = rx[b] /\ chan'[b] = chan[b]
    <2>1. r2 \in Seq(Nat) /\ c2 \in Seq(Nat)
        BY <1>4, Zenon
    <2>2. rx' \in [Addr -> Seq(Nat)] /\ rx'[a] = r2 /\ \A b \in Addr \ {a} : rx'[b] = rx[b]
        <3>1. /\ a \in Addr /\ rx \in [Addr -> Seq(Nat)] /\ r2 \in Seq(Nat)
              /\ rx' = [rx EXCEPT ![a] = r2]
            BY <1>1, <1>3, <2>1, Zenon
        <3> QED
            BY ONLY <3>1, Updated, Zenon
    <2>3. /\ chan' \in [Addr -> Seq(Nat)] /\ chan'[a] = c2
          /\ \A b \in Addr \ {a} : chan'[b] = chan[b]
        <3>1. /\ a \in Addr /\ chan \in [Addr -> Seq(Nat)] /\ c2 \in Seq(Nat)
              /\ chan' = [chan EXCEPT ![a] = c2]
            BY <1>1, <1>3, <2>1, Zenon
        <3> QED
            BY ONLY <3>1, Updated, Zenon
    <2> QED
        BY <2>2, <2>3, Zenon
<1>7. \A b \in Addr : Left(b)' = Left(b)
    <2>1. \A b \in Addr \ {a} : Left(b)' = Left(b)
        BY <1>6, LeftSame, Zenon
    <2>2. \A x, y, z, v \in Nat : v \in 0..x => (x - v) + (y + v) + z = x + y + z
        OBVIOUS
    <2>3. Left(a)' = (Len(c) - k) + (Len(r) + k) + lost[a]
        BY <1>4, <1>6, Zenon DEF Left
    <2>4. k \in Nat /\ k \in 0..Len(c)
        BY <1>2, <1>3
    <2>5. Left(a) = Len(c) + Len(r) + lost[a]
        BY Zenon DEF Left, r, c
    <2>6. Left(a)' = Left(a)
        BY <1>2, <2>2, <2>3, <2>4, <2>5
    <2> QED
        BY <2>1, <2>6, Zenon
<1>8. \A b \in Addr : SocketKept(b)'
    BY <1>7, SocketSame, Zenon DEF AcceptInv
<1>9. /\ \A i, j \in 1..Len(r) : i < j => r[i] < r[j]
      /\ \A i, j \in 1..Len(c) : i < j => c[i] < c[j]
      /\ \A i \in 1..Len(r) : r[i] <= Left(a)
      /\ \A i \in 1..Len(c) : c[i] <= Left(a)
      /\ \A i \in 1..Len(r) : \A j \in 1..Len(c) : r[i] < c[j]
    <2>1. InOrder(a)
        BY Zenon DEF AcceptInv
    <2> QED
        BY <2>1, Zenon DEF InOrder, Rising, r, c
<1>10. ASSUME NEW i \in 1..Len(r2)
       PROVE  \/ i \in 1..Len(r) /\ r2[i] = r[i]
              \/ i - Len(r) \in 1..k /\ r2[i] = c[i - Len(r)]
    <2>1. i \in 1..(Len(r) + k)
        BY <1>4, Zenon
    <2>2. r2[i] = IF i <= Len(r) THEN r[i] ELSE c[i - Len(r)]
        BY <1>4, <2>1, Zenon
    <2>3. Len(r) \in Nat /\ k \in Nat
        BY <1>2, <1>3
    <2>4. i \in 1..Len(r) \/ (~(i <= Len(r)) /\ i - Len(r) \in 1..k)
        BY <2>1, <2>3
    <2>5. i \in 1..Len(r) => i <= Len(r)
        BY <2>3
    <2> QED
        BY <2>2, <2>4, <2>5, Zenon
<1>11. ASSUME NEW i \in 1..Len(c2)
       PROVE  k + i \in (k + 1)..Len(c) /\ c2[i] = c[k + i]
    <2>1. i \in 1..(Len(c) - k) /\ k \in Nat /\ Len(c) \in Nat
        BY <1>2, <1>3, <1>4
    <2>2. c2[i] = c[k + i]
        BY <1>4, <2>1, Zenon
    <2>3. k + i \in (k + 1)..Len(c)
        BY <2>1
    <2> QED
        BY <2>2, <2>3, Zenon
<1>12. 1..k \subseteq 1..Len(c) /\ (k + 1)..Len(c) \subseteq 1..Len(c)
    BY <1>2, <1>3
<1>13. \A i, j \in 1..Len(r2) : i < j => r2[i] < r2[j]
    <2> SUFFICES ASSUME NEW i \in 1..Len(r2), NEW j \in 1..Len(r2), i < j PROVE r2[i] < r2[j]
        BY Zenon
    <2>1. CASE j \in 1..Len(r) /\ r2[j] = r[j]
        <3>1. i \in 1..Len(r) /\ r2[i] = r[i]
            <4>1. i <= Len(r) /\ i - Len(r) \notin 1..k
                BY <1>2, <2>1, SMTT(30)
            <4> QED
                BY <1>10, <4>1, Zenon
        <3> QED
            BY <1>9, <2>1, <3>1, Zenon
    <2>2. CASE j - Len(r) \in 1..k /\ r2[j] = c[j - Len(r)]
        <3>1. j - Len(r) \in 1..Len(c)
            BY <1>12, <2>2, Zenon
        <3>2. CASE i \in 1..Len(r) /\ r2[i] = r[i]
            BY <1>9, <2>2, <3>1, <3>2, Zenon
        <3>3. CASE i - Len(r) \in 1..k /\ r2[i] = c[i - Len(r)]
            <4>1. i - Len(r) \in 1..Len(c) /\ i - Len(r) < j - Len(r)
                <5>1. i - Len(r) \in 1..Len(c)
                    BY <1>12, <3>3, Zenon
                <5> QED
                    BY <1>2, <5>1
            <4> QED
                BY <1>9, <2>2, <3>1, <3>3, <4>1, Zenon
        <3> QED
            BY <1>10, <3>2, <3>3, Zenon
    <2> QED
        BY <1>10, <2>1, <2>2, Zenon
<1>14. \A i, j \in 1..Len(c2) : i < j => c2[i] < c2[j]
    <2> SUFFICES ASSUME NEW i \in 1..Len(c2), NEW j \in 1..Len(c2), i < j PROVE c2[i] < c2[j]
        OBVIOUS
    <2>1. k + i \in 1..Len(c) /\ k + j \in 1..Len(c) /\ k + i < k + j
        BY <1>3, <1>11, <1>12
    <2> QED
        BY <1>9, <1>11, <2>1, Zenon
<1>15. \A i \in 1..Len(r2) : r2[i] <= Left(a)
    BY <1>9, <1>10, <1>12, Zenon
<1>16. \A i \in 1..Len(c2) : c2[i] <= Left(a)
    BY <1>9, <1>11, <1>12, Zenon
<1>17. \A i \in 1..Len(r2) : \A j \in 1..Len(c2) : r2[i] < c2[j]
    <2> SUFFICES ASSUME NEW i \in 1..Len(r2), NEW j \in 1..Len(c2) PROVE r2[i] < c2[j]
        BY Zenon
    <2>1. k + j \in (k + 1)..Len(c) /\ k + j \in 1..Len(c) /\ c2[j] = c[k + j]
        BY <1>11, <1>12, Zenon
    <2>2. CASE i \in 1..Len(r) /\ r2[i] = r[i]
        BY <1>9, <2>1, <2>2, Zenon
    <2>3. CASE i - Len(r) \in 1..k /\ r2[i] = c[i - Len(r)]
        <3>1. i - Len(r) \in 1..Len(c) /\ i - Len(r) < k + j
            BY <1>3, <1>12, <2>1, <2>3, SMTT(30)
        <3> QED
            BY <1>9, <2>1, <2>3, <3>1, Zenon
    <2> QED
        BY <1>10, <2>2, <2>3, Zenon
<1>18. \A b \in Addr : InOrder(b)'
    <2>1. ASSUME NEW b \in Addr, b # a PROVE InOrder(b)'
        <3>1. InOrder(b) /\ rx'[b] = rx[b] /\ chan'[b] = chan[b]
            BY <1>6, <2>1, Zenon DEF AcceptInv
        <3> QED
            BY <1>7, <3>1, OrderSame, Zenon
    <2>2. Rising(r2) /\ Rising(c2)
        BY <1>13, <1>14, Zenon DEF Rising
    <2>3. rx'[a] = r2 /\ chan'[a] = c2 /\ Left(a)' = Left(a)
        BY <1>6, <1>7, Zenon
    <2>4. InOrder(a)'
        BY <1>15, <1>16, <1>17, <2>2, <2>3, Zenon DEF InOrder
    <2> QED
        BY <2>1, <2>4, Zenon
<1> QED
    BY <1>4, <1>6, <1>8, <1>18, Zenon DEF c

\* A future that is polled takes what it needs, or all there is.
LEMMA PollFutKept == ASSUME NeedAssumption, AcceptInv, NEW a \in Addr, PollFut(a) PROVE AcceptInv'
<1> DEFINE n == Len(chan[a])
           w == Need[a] - used[a]
           k == IF n < w THEN n ELSE w
<1>1. n \in Nat /\ Need[a] \in Nat /\ used[a] \in Nat /\ used[a] <= Need[a]
    BY Counts, Zenon DEF AcceptInv, AcceptTypes, Emptied, NeedAssumption
<1>2. /\ rx' = [rx EXCEPT ![a] = rx[a] \o SubSeq(chan[a], 1, k)]
      /\ chan' = [chan EXCEPT ![a] = SubSeq(chan[a], k + 1, Len(chan[a]))]
      /\ used' = [used EXCEPT ![a] = used[a] + k]
      /\ fut' = [fut EXCEPT ![a] = IF used[a] + k = Need[a] THEN "done" ELSE "idle"]
      /\ UNCHANGED <<sent, sk, known, live, lost>>
    BY Zenon DEF PollFut
<1>3. k \in 0..n /\ used[a] + k \in Nat /\ used[a] + k <= Need[a]
      /\ (used[a] + k # Need[a] => k = n)
    <2> HIDE DEF n
    <2> QED
        BY <1>1
<1> HIDE DEF k
<1>4. /\ rx' \in [Addr -> Seq(Nat)] /\ chan' \in [Addr -> Seq(Nat)] /\ Len(chan'[a]) = n - k
      /\ \A b \in Addr : SocketKept(b)' /\ InOrder(b)'
    BY <1>2, <1>3, TakeKept, Zenon
<1>5. AcceptTypes'
    <2>1. fut' \in [Addr -> {"none", "new", "idle", "woken", "done"}] /\ used' \in [Addr -> Nat]
        <3>1. /\ fut \in [Addr -> {"none", "new", "idle", "woken", "done"}]
              /\ used \in [Addr -> Nat]
            BY Zenon DEF AcceptInv, AcceptTypes
        <3>2. (IF used[a] + k = Need[a] THEN "done" ELSE "idle")
                 \in {"none", "new", "idle", "woken", "done"}
            BY Zenon
        <3> QED
            BY <1>2, <1>3, <3>1, <3>2, Updated, Zenon
    <2> QED
        BY <1>2, <1>4, <2>1, Zenon DEF AcceptInv, AcceptTypes
<1>6. ASSUME NEW b \in Addr
      PROVE  /\ IsNew(b)' \/ fut'[b] = "idle" => chan'[b] = <<>>
             /\ used'[b] <= Need[b]
    <2>1. /\ IsNew(b) \/ fut[b] = "idle" => chan[b] = <<>>
          /\ used[b] <= Need[b]
        BY Zenon DEF AcceptInv, Emptied
    <2>2. CASE b # a
        <3>1. fut'[b] = fut[b] /\ used'[b] = used[b] /\ chan'[b] = chan[b]
            BY <1>2, <2>2, Zenon DEF AcceptInv, AcceptTypes
        <3> QED
            BY <1>2, <2>1, <3>1, Zenon DEF IsNew
    <2>3. CASE b = a
        <3>1. /\ fut'[a] = IF used[a] + k = Need[a] THEN "done" ELSE "idle"
              /\ used'[a] = used[a] + k
            BY <1>2, Zenon DEF AcceptInv, AcceptTypes
        <3>2. k = n => chan'[a] = <<>>
            <4>1. chan'[a] \in Seq(Nat) /\ (k = n => Len(chan'[a]) = 0)
                BY <1>1, <1>4
            <4> QED
                BY <4>1
        <3>3. IsNew(a) => n = 0
            BY <2>1, <2>3
        <3>4. n = 0 => k = n
            BY <1>1, <1>3
        <3> QED
            BY <1>2, <1>3, <2>3, <3>1, <3>2, <3>3, <3>4 DEF IsNew
    <2> QED
        BY <2>2, <2>3, Zenon
<1> QED
    BY <1>4, <1>5, <1>6, Zenon DEF AcceptInv, Emptied

\* The application's recv takes all there is.
LEMMA AppRecvKept == ASSUME AcceptInv, NEW a \in Addr, AppRecv(a) PROVE AcceptInv'
<1> DEFINE c == chan[a]
<1>1. c \in Seq(Nat) /\ Len(c) \in Nat
    BY Counts, Zenon DEF AcceptInv
<1>2. /\ rx' = [rx EXCEPT ![a] = rx[a] \o c] /\ chan' = [chan EXCEPT ![a] = <<>>]
      /\ UNCHANGED <<sent, sk, known, live, fut, used, lost>>
    BY Zenon DEF AppRecv
<1>3. SubSeq(c, 1, Len(c)) = c /\ SubSeq(c, Len(c) + 1, Len(c)) = <<>> /\ Len(c) \in 0..Len(c)
    <2> HIDE DEF c
    <2> QED
        BY <1>1
<1>4. /\ rx' \in [Addr -> Seq(Nat)] /\ chan' \in [Addr -> Seq(Nat)]
      /\ \A b \in Addr : SocketKept(b)' /\ InOrder(b)'
    BY <1>2, <1>3, TakeKept, Zenon
<1>5. AcceptTypes'
    BY <1>2, <1>4, Zenon DEF AcceptInv, AcceptTypes
<1>6. \A b \in Addr : chan'[b] \in {chan[b], <<>>}
    BY <1>2, Zenon DEF AcceptInv, AcceptTypes
<1>7. Emptied'
    BY <1>2, <1>6, Zenon DEF AcceptInv, Emptied, IsNew
<1> QED
    BY <1>4, <1>5, <1>7, Zenon DEF AcceptInv

\* A connection that is dropped loses what was in its channel.
LEMMA DropKept == ASSUME AcceptInv, NEW a \in Addr, DropConn(a) PROVE AcceptInv'
<1> DEFINE c == chan[a]
<1>1. /\ Len(c) \in Nat /\ Len(rx[a]) \in Nat /\ lost[a] \in Nat
      /\ \A b \in Addr : Left(b) \in Nat
    BY Counts, Zenon DEF AcceptInv
<1>2. /\ live' = [live EXCEPT ![a] = FALSE] /\ lost' = [lost EXCEPT ![a] = @ + Len(c)]
      /\ chan' = [chan EXCEPT ![a] = <<>>] /\ UNCHANGED <<sent, sk, known, fut, used, rx>>
    BY Zenon DEF DropConn
<1>3. /\ chan'[a] = <<>> /\ lost'[a] = lost[a] + Len(c) /\ Len(<<>>) = 0
      /\ \A b \in Addr \ {a} : chan'[b] = chan[b] /\ lost'[b] = lost[b] /\ live'[b] = live[b]
    BY <1>2, Zenon DEF AcceptInv, AcceptTypes
<1>4. \A b \in Addr : Left(b)' = Left(b)
    <2>1. \A b \in Addr \ {a} : Left(b)' = Left(b)
        BY <1>2, <1>3, LeftSame, Zenon
    <2>2. Left(a)' = 0 + Len(rx[a]) + (lost[a] + Len(c))
        BY <1>2, <1>3, Zenon DEF Left
    <2>3. Left(a)' = Left(a)
        <3>1. \A x, y, z \in Nat : 0 + y + (z + x) = x + y + z
            OBVIOUS
        <3>2. Left(a) = Len(c) + Len(rx[a]) + lost[a]
            BY Zenon DEF Left
        <3> HIDE DEF c
        <3>3. 0 + Len(rx[a]) + (lost[a] + Len(c)) = Len(c) + Len(rx[a]) + lost[a]
            BY <1>1, <3>1, ZenonT(30)
        <3> QED
            BY <2>2, <3>2, <3>3, Zenon
    <2> QED
        BY <2>1, <2>3, Zenon
<1>5. AcceptTypes'
    <2>1. live' \in [Addr -> BOOLEAN]
        BY <1>2, Zenon DEF AcceptInv, AcceptTypes
    <2>2. lost' \in [Addr -> Nat] /\ chan' \in [Addr -> Seq(Nat)]
        <3>1. lost \in [Addr -> Nat] /\ chan \in [Addr -> Seq(Nat)] /\ <<>> \in Seq(Nat)
            BY DEF AcceptInv, AcceptTypes
        <3>2. lost[a] + Len(c) \in Nat
            BY <1>1
        <3> HIDE DEF c
        <3> QED
            BY <1>2, <3>1, <3>2, Updated, Zenon
    <2> QED
        BY <1>2, <2>1, <2>2, Zenon DEF AcceptInv, AcceptTypes
<1>6. Emptied'
    BY <1>2, <1>3, Zenon DEF AcceptInv, Emptied, IsNew
<1>7. \A b \in Addr : SocketKept(b)'
    BY <1>2, <1>4, SocketSame, Zenon DEF AcceptInv
<1>8. ASSUME NEW b \in Addr PROVE InOrder(b)'
    <2>1. CASE b # a
        BY <1>2, <1>3, <1>4, <2>1, OrderSame, Zenon DEF AcceptInv
    <2>2. CASE b = a
        <3>1. \A i \in 1..Len(chan'[a]) : FALSE
            BY <1>3
        <3> QED
            BY <1>2, <1>4, <2>2, <3>1, Zenon DEF AcceptInv, InOrder, Rising
    <2> QED
        BY <2>1, <2>2, Zenon
<1> QED
    BY <1>5, <1>6, <1>7, <1>8, Zenon DEF AcceptInv

\* A listener that has received nothing.
LEMMA AcceptInit == NeedAssumption /\ Init => AcceptInv
<1> SUFFICES ASSUME NeedAssumption, Init PROVE AcceptInv
    BY Zenon
<1>1. AcceptTypes /\ Emptied
    BY DEF Init, AcceptTypes, Emptied, NeedAssumption
<1>2. Len(<<>>) = 0
    BY Zenon
<1>3. \A a \in Addr : chan[a] = <<>> /\ rx[a] = <<>> /\ lost[a] = 0 /\ sent[a] = 0 /\ sk = <<>>
    BY Zenon DEF Init
<1>4. \A a \in Addr : Left(a) = 0
    <2>1. 0 + 0 + 0 = 0
        OBVIOUS
    <2> QED
        BY <1>2, <1>3, <2>1, Zenon DEF Left
<1> QED
    BY <1>1, <1>2, <1>3, <1>4 DEF AcceptInv, SocketKept, InOrder, Rising

\* Every step of the listener, its futures, the application and the network.
LEMMA AcceptNext == ASSUME NeedAssumption, AcceptInv, [Next]_vars PROVE AcceptInv'
<1> DEFINE listener == <<sent, sk, known, live, chan, fut, used, rx, lost>>
<1>1. CASE UNCHANGED listener
    <2>1. \A b \in Addr : Left(b)' = Left(b)
        BY <1>1, LeftSame, Zenon
    <2>2. AcceptTypes' /\ Emptied'
        BY <1>1, Zenon DEF AcceptInv, AcceptTypes, Emptied, IsNew
    <2>3. \A b \in Addr : SocketKept(b)' /\ InOrder(b)'
        BY <1>1, <2>1, SocketSame, OrderSame, Zenon DEF AcceptInv
    <2> QED
        BY <2>2, <2>3, Zenon DEF AcceptInv
<1>2. \/ UNCHANGED listener
      \/ \E here, next : Steer(here, next)
      \/ \E a \in Addr : Arrive(a) \/ PollFut(a) \/ AppRecv(a) \/ DropConn(a)
    BY Zenon DEF Next, Task, PollStream, PollStreamAgain, SteerPending, FutsPending, Wake, vars
<1> QED
    BY <1>1, <1>2, ArriveKept, SteerKept, PollFutKept, AppRecvKept, DropKept, Zenon

\* Every datagram that reached the socket waits there, was given to a connection of its address,
\* or was dropped with one, whatever the addresses and what their negotiations consume.
THEOREM NoDatagramIsLost == ASSUME NeedAssumption PROVE Spec => []NoDatagramVanishes
<1>1. AcceptInv => NoDatagramVanishes
    <2> SUFFICES ASSUME AcceptInv, NEW a \in Addr
                 PROVE  /\ {sk[i][2] : i \in InSk(a)} = (Left(a) + 1)..sent[a]
                        /\ \A i, j \in InSk(a) : i < j => sk[i][2] < sk[j][2]
        BY Zenon DEF NoDatagramVanishes, Left
    <2>0. \A i, j \in InSk(a) : i < j => sk[i][2] < sk[j][2]
        BY Zenon DEF AcceptInv, SocketKept, InSk
    <2>1. Left(a) \in Nat /\ sent[a] \in Nat
        BY Counts, Zenon DEF AcceptInv
    <2>2. \A i \in 1..Len(sk) : sk[i][1] = a => Left(a) < sk[i][2] /\ sk[i][2] <= sent[a]
        BY Zenon DEF AcceptInv, SocketKept
    <2>3. \A n \in (Left(a) + 1)..sent[a] : \E i \in 1..Len(sk) : sk[i] = <<a, n>>
        BY Zenon DEF AcceptInv, SocketKept
    <2>4. \A i \in 1..Len(sk) : sk[i][2] \in Nat
        <3>1. sk \in Seq(Addr \X Nat)
            BY Zenon DEF AcceptInv, AcceptTypes
        <3>2. \A i \in 1..Len(sk) : sk[i] \in Addr \X Nat
            BY <3>1
        <3> QED
            BY <3>2, Zenon
    <2>5. \A i \in InSk(a) : sk[i][2] \in (Left(a) + 1)..sent[a]
        BY <2>1, <2>2, <2>4 DEF InSk
    <2>6. \A n \in (Left(a) + 1)..sent[a] : \E i \in InSk(a) : sk[i][2] = n
        <3> SUFFICES ASSUME NEW n \in (Left(a) + 1)..sent[a]
                     PROVE  \E i \in InSk(a) : sk[i][2] = n
            BY Zenon
        <3>1. PICK i \in 1..Len(sk) : sk[i] = <<a, n>>
            BY <2>3, Zenon
        <3>2. sk[i][1] = a /\ sk[i][2] = n
            BY <3>1
        <3> QED
            BY <3>1, <3>2, Zenon DEF InSk
    <2>7. {sk[i][2] : i \in InSk(a)} = (Left(a) + 1)..sent[a]
        BY <2>5, <2>6, Zenon
    <2> QED
        BY <2>0, <2>7, Zenon
<1>2. AcceptInv /\ [Next]_vars => AcceptInv'
    BY AcceptNext, Zenon
<1>3. Init => AcceptInv
    BY AcceptInit, Zenon
<1> QED
    BY <1>1, <1>2, <1>3, PTL DEF Spec

\* The connections of an address see its datagrams in the order they arrived, none twice.
THEOREM DatagramsAreInOrder == ASSUME NeedAssumption PROVE Spec => []SteeredInOrder
<1>1. AcceptInv => SteeredInOrder
    <2> SUFFICES ASSUME AcceptInv, NEW a \in Addr, NEW i \in 1..(Len(rx[a] \o chan[a]) - 1)
                 PROVE  (rx[a] \o chan[a])[i] < (rx[a] \o chan[a])[i + 1]
        BY Zenon DEF SteeredInOrder
    <2> DEFINE r == rx[a]
               c == chan[a]
               s == r \o c
    <2>1. r \in Seq(Nat) /\ c \in Seq(Nat) /\ Len(r) \in Nat /\ Len(c) \in Nat
        BY Counts, Zenon DEF AcceptInv
    <2>2. /\ \A m, j \in 1..Len(r) : m < j => r[m] < r[j]
          /\ \A m, j \in 1..Len(c) : m < j => c[m] < c[j]
          /\ \A m \in 1..Len(r) : \A j \in 1..Len(c) : r[m] < c[j]
        BY Zenon DEF AcceptInv, InOrder, Rising
    <2> HIDE DEF r, c
    <2>3. /\ Len(s) = Len(r) + Len(c)
          /\ \A m \in 1..(Len(r) + Len(c)) : s[m] = IF m <= Len(r) THEN r[m] ELSE c[m - Len(r)]
        BY <2>1, Joined, Zenon
    <2>4. i \in 1..(Len(s) - 1)
        BY Zenon DEF r, c
    <2> HIDE DEF s
    <2>5. i \in 1..(Len(r) + Len(c)) /\ i + 1 \in 1..(Len(r) + Len(c))
        BY <2>1, <2>3, <2>4
    <2>6. /\ s[i] = IF i <= Len(r) THEN r[i] ELSE c[i - Len(r)]
          /\ s[i + 1] = IF i + 1 <= Len(r) THEN r[i + 1] ELSE c[(i + 1) - Len(r)]
        BY <2>3, <2>5, Zenon
    <2>7. CASE i + 1 <= Len(r)
        <3>1. i \in 1..Len(r) /\ i + 1 \in 1..Len(r) /\ i <= Len(r) /\ i < i + 1
            BY <2>1, <2>5, <2>7
        <3>2. s[i] < s[i + 1]
            BY <2>2, <2>6, <2>7, <3>1, Zenon
        <3> QED
            BY <3>2, Zenon DEF s, r, c
    <2>8. CASE i = Len(r)
        <3>1. /\ i \in 1..Len(r) /\ i <= Len(r)
              /\ ~(i + 1 <= Len(r)) /\ (i + 1) - Len(r) \in 1..Len(c)
            BY <2>1, <2>5, <2>8
        <3>2. s[i] < s[i + 1]
            BY <2>2, <2>6, <3>1, Zenon
        <3> QED
            BY <3>2, Zenon DEF s, r, c
    <2>9. CASE i > Len(r)
        <3>1. /\ ~(i <= Len(r)) /\ ~(i + 1 <= Len(r)) /\ i - Len(r) < (i + 1) - Len(r)
              /\ i - Len(r) \in 1..Len(c) /\ (i + 1) - Len(r) \in 1..Len(c)
            BY <2>1, <2>5, <2>9
        <3>2. s[i] < s[i + 1]
            BY <2>2, <2>6, <3>1, Zenon
        <3> QED
            BY <3>2, Zenon DEF s, r, c
    <2>10. i + 1 <= Len(r) \/ i = Len(r) \/ i > Len(r)
        BY <2>1, <2>5
    <2> QED
        BY <2>7, <2>8, <2>9, <2>10, Zenon
<1>2. AcceptInv /\ [Next]_vars => AcceptInv'
    BY AcceptNext
<1>3. Init => AcceptInv
    BY AcceptInit
<1> QED
    BY <1>1, <1>2, <1>3, PTL DEF Spec

\* Datagrams never wait for a future that is not going to be polled.
THEOREM IdleFuturesHaveNothingToDo == ASSUME NeedAssumption PROVE Spec => []IdleHasNothingToDo
<1>1. AcceptInv => IdleHasNothingToDo
    BY Zenon DEF AcceptInv, Emptied, IdleHasNothingToDo
<1>2. AcceptInv /\ [Next]_vars => AcceptInv'
    BY AcceptNext
<1>3. Init => AcceptInv
    BY AcceptInit
<1> QED
    BY <1>1, <1>2, <1>3, PTL DEF Spec

-----------------------------------------------------------------------------
(* Split, as Sp, for any messages, calls and capacities *)

CONSTANTS Receiver, Cap, Slots, MayCancel, MayFail
VARIABLES starter, down, up, n_sent, out, n_in, inc, held, idx, got
Sp == INSTANCE Split

\* A sequence without its first number.
LEMMA Shortened ==
    ASSUME NEW c \in Seq(Nat), c # <<>>
    PROVE  /\ Tail(c) \in Seq(Nat) /\ Len(c) \in Nat \ {0} /\ Len(Tail(c)) = Len(c) - 1
           /\ Head(c) = c[1] /\ \A i \in 1..(Len(c) - 1) : Tail(c)[i] = c[i + 1]
OBVIOUS

\* The numbers from k + 1 on.
From(s, k) == s \in Seq(Nat) /\ \A i \in 1..Len(s) : s[i] = k + i

\* The next number keeps it so,
LEMMA FromAppend ==
    ASSUME NEW s, NEW k \in Nat, From(s, k), NEW n, n = k + Len(s) + 1
    PROVE  From(Append(s, n), k) /\ Len(Append(s, n)) = Len(s) + 1 /\ Len(s) \in Nat
<1>1. s \in Seq(Nat) /\ Len(s) \in Nat
    BY DEF From
<1>2. n \in Nat
    BY <1>1
<1> DEFINE t == Append(s, n)
<1>3. /\ t \in Seq(Nat) /\ Len(t) = Len(s) + 1
      /\ \A i \in 1..(Len(s) + 1) : t[i] = IF i = Len(s) + 1 THEN n ELSE s[i]
    BY <1>1, <1>2, Appended
<1>4. \A i \in 1..Len(s) : s[i] = k + i
    BY Zenon DEF From
<1> HIDE DEF t
<1>5. ASSUME NEW i \in 1..Len(t) PROVE t[i] = k + i
    <2>1. i \in 1..(Len(s) + 1) /\ t[i] = IF i = Len(s) + 1 THEN n ELSE s[i]
        BY <1>3, Zenon
    <2>2. CASE i = Len(s) + 1
        BY <1>1, <2>1, <2>2
    <2>3. CASE i # Len(s) + 1
        <3>1. i \in 1..Len(s)
            BY <1>1, <2>1, <2>3
        <3> QED
            BY <1>4, <2>1, <2>3, <3>1, Zenon
    <2> QED
        BY <2>2, <2>3, Zenon
<1>6. From(t, k)
    BY <1>3, <1>5, Zenon DEF From
<1> QED
    BY <1>1, <1>3, <1>6, Zenon DEF t

\* ... so does taking the first one,
LEMMA FromTail ==
    ASSUME NEW s, NEW k \in Nat, From(s, k), s # <<>>
    PROVE  /\ From(Tail(s), k + 1) /\ Head(s) = k + 1 /\ Len(Tail(s)) = Len(s) - 1
           /\ Len(s) \in Nat \ {0}
<1>1. s \in Seq(Nat) /\ \A i \in 1..Len(s) : s[i] = k + i
    BY Zenon DEF From
<1> DEFINE t == Tail(s)
<1>2. /\ t \in Seq(Nat) /\ Len(s) \in Nat \ {0} /\ Len(t) = Len(s) - 1
      /\ Head(s) = s[1] /\ \A i \in 1..(Len(s) - 1) : t[i] = s[i + 1]
    BY <1>1, Shortened, Zenon
<1> HIDE DEF t
<1>3. Head(s) = k + 1
    BY <1>1, <1>2
<1>4. ASSUME NEW i \in 1..Len(t) PROVE t[i] = (k + 1) + i
    <2>1. i \in 1..(Len(s) - 1) /\ i + 1 \in 1..Len(s)
        BY <1>2
    <2>2. t[i] = s[i + 1] /\ s[i + 1] = k + (i + 1)
        BY <1>1, <1>2, <2>1, Zenon
    <2> QED
        BY <2>1, <2>2
<1>5. From(t, k + 1)
    BY <1>2, <1>4, Zenon DEF From
<1> QED
    BY <1>2, <1>3, <1>5, Zenon DEF t

\* ... and putting the numbers that follow behind.
LEMMA FromJoin ==
    ASSUME NEW s, NEW t, NEW k \in Nat, From(s, k), From(t, k + Len(s))
    PROVE  From(s \o t, k) /\ Len(s \o t) = Len(s) + Len(t)
<1>1. /\ s \in Seq(Nat) /\ Len(s) \in Nat /\ t \in Seq(Nat) /\ Len(t) \in Nat
      /\ \A i \in 1..Len(s) : s[i] = k + i
      /\ \A i \in 1..Len(t) : t[i] = (k + Len(s)) + i
    BY DEF From
<1> DEFINE u == s \o t
<1>2. /\ u \in Seq(Nat) /\ Len(u) = Len(s) + Len(t)
      /\ \A i \in 1..(Len(s) + Len(t)) : u[i] = IF i <= Len(s) THEN s[i] ELSE t[i - Len(s)]
    BY <1>1, Joined, Zenon
<1> HIDE DEF u
<1>3. ASSUME NEW i \in 1..Len(u) PROVE u[i] = k + i
    <2>1. i \in 1..(Len(s) + Len(t)) /\ u[i] = IF i <= Len(s) THEN s[i] ELSE t[i - Len(s)]
        BY <1>2, Zenon
    <2>2. CASE i <= Len(s)
        BY <1>1, <2>1, <2>2
    <2>3. CASE ~(i <= Len(s))
        <3>1. i - Len(s) \in 1..Len(t)
            BY <1>1, <2>1, <2>3
        <3>2. u[i] = (k + Len(s)) + (i - Len(s))
            BY <1>1, <2>1, <2>3, <3>1, Zenon
        <3> QED
            BY <1>1, <2>1, <3>2
    <2> QED
        BY <2>2, <2>3, Zenon
<1>4. From(u, k)
    BY <1>2, <1>3, Zenon DEF From
<1> QED
    BY <1>2, <1>4, Zenon DEF u

\* Numbers from 1 on are Upto.
LEMMA FromZero ==
    ASSUME NEW s, From(s, 0) PROVE s = Sp!Upto(Len(s))
<1>1. s \in Seq(Nat) /\ Len(s) \in Nat /\ \A i \in 1..Len(s) : s[i] = 0 + i
    BY DEF From
<1>2. \A i \in 1..Len(s) : s[i] = i
    BY <1>1
<1>3. s = [i \in 1..Len(s) |-> s[i]]
    BY <1>1
<1> QED
    BY <1>2, <1>3, Zenon DEF Sp!Upto

-----------------------------------------------------------------------------
\* What was accepted for sending is below or in the channel, in order; what the peer sent was
\* returned, is in the channel, with the task, or waits below, in order.
Busy == IF held = 0 THEN 0 ELSE 1
DownKept == From(out, 0) /\ From(down, Len(out)) /\ n_sent = Len(out) + Len(down)
UpKept ==
    /\ held \in Nat /\ From(got, 0) /\ From(up, Len(got))
    /\ held # 0 => held = Len(got) + Len(up) + 1
    /\ From(inc, Len(got) + Len(up) + Busy)
    /\ n_in = Len(got) + Len(up) + Busy + Len(inc)

\* The counts are numbers.
LEMMA Lens == /\ DownKept => Len(out) \in Nat /\ Len(down) \in Nat /\ n_sent \in Nat
              /\ UpKept => /\ Len(got) \in Nat /\ Len(up) \in Nat /\ Len(inc) \in Nat
                           /\ Busy \in Nat /\ n_in \in Nat
<1>1. ASSUME NEW s, NEW k, From(s, k) PROVE Len(s) \in Nat
    BY <1>1 DEF From
<1>2. DownKept => Len(out) \in Nat /\ Len(down) \in Nat
    BY <1>1, Zenon DEF DownKept
<1>3. UpKept => Len(got) \in Nat /\ Len(up) \in Nat /\ Len(inc) \in Nat
    BY <1>1, Zenon DEF UpKept
<1>4. Busy \in Nat
    BY Zenon DEF Busy
<1>5. \A a, b, c, d \in Nat : a + b \in Nat /\ a + b + c + d \in Nat
    OBVIOUS
<1> QED
    <2>1. DownKept => n_sent \in Nat
        BY <1>2, <1>5, Zenon DEF DownKept
    <2>2. UpKept => n_in \in Nat
        <3>1. UpKept => n_in = Len(got) + Len(up) + Busy + Len(inc)
            BY Zenon DEF UpKept
        <3> QED
            BY <1>3, <1>4, <3>1
    <2> QED
        BY <1>2, <1>3, <1>4, <2>1, <2>2, Zenon

\* A message is put in the downward channel, or goes from it to the inner stack.
LEMMA DownStep ==
    ASSUME DownKept, Sp!Push \/ Sp!RunDown \/ UNCHANGED <<down, out, n_sent>> PROVE DownKept'
<1>1. From(out, 0) /\ From(down, Len(out)) /\ n_sent = Len(out) + Len(down)
    BY Zenon DEF DownKept
<1>2. Len(out) \in Nat /\ Len(down) \in Nat
    BY Lens, Zenon
<1>3. CASE UNCHANGED <<down, out, n_sent>>
    BY <1>1, <1>3, Zenon DEF DownKept
<1>4. CASE Sp!Push
    <2>1. /\ out' = out
          /\ \/ UNCHANGED <<down, n_sent>>
             \/ n_sent' = n_sent + 1 /\ down' = Append(down, n_sent + 1)
        BY <1>4, Zenon DEF Sp!Push
    <2>2. /\ From(Append(down, n_sent + 1), Len(out))
          /\ Len(Append(down, n_sent + 1)) = Len(down) + 1
        BY <1>1, <1>2, FromAppend, Zenon
    <2>3. CASE n_sent' = n_sent + 1 /\ down' = Append(down, n_sent + 1)
        <3>1. From(down', Len(out)) /\ Len(down') = Len(down) + 1
            BY <2>2, <2>3, Zenon
        <3>2. n_sent' = Len(out) + Len(down')
            BY <1>1, <1>2, <2>3, <3>1
        <3> QED
            BY <1>1, <2>1, <3>1, <3>2, Zenon DEF DownKept
    <2> QED
        BY <1>3, <2>1, <2>3, Zenon
<1>5. CASE Sp!RunDown
    <2>1. down # <<>> /\ out' = Append(out, Head(down)) /\ down' = Tail(down) /\ n_sent' = n_sent
        BY <1>5, Zenon DEF Sp!RunDown
    <2>2. /\ From(Tail(down), Len(out) + 1) /\ Head(down) = Len(out) + 1
          /\ Len(Tail(down)) = Len(down) - 1
        BY <1>1, <1>2, <2>1, FromTail, Zenon
    <2>3. From(Append(out, Head(down)), 0) /\ Len(Append(out, Head(down))) = Len(out) + 1
        <3>1. Head(down) = 0 + Len(out) + 1
            BY <1>2, <2>2
        <3>2. From(out, 0)
            BY <1>1, Zenon
        <3>3. 0 \in Nat
            BY Zenon
        <3> QED
            BY <3>1, <3>2, <3>3, FromAppend, Zenon
    <2>4. /\ From(out', 0) /\ From(down', Len(out'))
          /\ Len(out') = Len(out) + 1 /\ Len(down') = Len(down) - 1
        BY <2>1, <2>2, <2>3, Zenon
    <2>5. n_sent' = n_sent
        BY <2>1, Zenon
    <2>6. n_sent' = Len(out') + Len(down')
        BY <1>1, <1>2, <2>4, <2>5
    <2> QED
        BY <2>4, <2>6, Zenon DEF DownKept
<1> QED
    BY <1>3, <1>4, <1>5, Zenon

\* A message arrives, is taken by the background task, put in the upward channel, or returned.
LEMMA UpStep ==
    ASSUME UpKept, \/ Sp!RunUp \/ Sp!PushUp \/ Sp!PeerSends
                   \/ \E r \in Receiver : up # <<>> /\ Sp!Take(r)
                   \/ UNCHANGED <<got, up, held, inc, n_in>>
    PROVE  UpKept'
<1>1. /\ held \in Nat /\ From(got, 0) /\ From(up, Len(got))
      /\ held # 0 => held = Len(got) + Len(up) + 1
      /\ From(inc, Len(got) + Len(up) + Busy)
      /\ n_in = Len(got) + Len(up) + Busy + Len(inc)
    BY Zenon DEF UpKept
<1>2. Len(got) \in Nat /\ Len(up) \in Nat /\ Len(inc) \in Nat /\ Busy \in Nat
    BY Lens, Zenon
<1>3. CASE UNCHANGED <<got, up, held, inc, n_in>>
    BY <1>1, <1>3, Zenon DEF UpKept, Busy
<1>4. CASE Sp!RunUp
    <2>1. /\ held = 0 /\ inc # <<>> /\ held' = Head(inc) /\ inc' = Tail(inc)
          /\ UNCHANGED <<up, got, n_in>>
        BY <1>4, Zenon DEF Sp!RunUp
    <2>2. Busy = 0
        BY <2>1, Zenon DEF Busy
    <2>3. From(inc, Len(got) + Len(up))
        BY <1>1, <1>2, <2>2
    <2>4. /\ From(Tail(inc), Len(got) + Len(up) + 1) /\ Head(inc) = Len(got) + Len(up) + 1
          /\ Len(Tail(inc)) = Len(inc) - 1
        BY <1>2, <2>1, <2>3, FromTail
    <2>5. /\ held' = Len(got) + Len(up) + 1 /\ held' # 0 /\ held' \in Nat
          /\ From(inc', Len(got) + Len(up) + 1) /\ Len(inc') = Len(inc) - 1
        <3>1. Len(got) + Len(up) + 1 \in Nat \ {0}
            BY <1>2
        <3> QED
            BY <2>1, <2>4, <3>1, Zenon
    <2>6. Busy' = 1
        BY <2>5, Zenon DEF Busy
    <2>8. UNCHANGED <<up, got, n_in>>
        BY <2>1, Zenon
    <2>7. n_in' = Len(got) + Len(up) + 1 + Len(inc')
        BY <1>1, <1>2, <2>2, <2>5, <2>8
    <2> QED
        BY <1>1, <2>5, <2>6, <2>7, <2>8, Zenon DEF UpKept
<1>5. CASE Sp!PushUp
    <2>1. /\ held # 0 /\ up' = Append(up, held) /\ held' = 0 /\ UNCHANGED <<inc, got, n_in>>
        BY <1>5, Zenon DEF Sp!PushUp
    <2>2. Busy = 1 /\ Busy' = 0
        BY <2>1, Zenon DEF Busy
    <2>3. From(up', Len(got)) /\ Len(up') = Len(up) + 1
        BY <1>1, <1>2, <2>1, FromAppend, Zenon
    <2>4. From(inc', Len(got) + Len(up') + 0)
        <3>1. Len(got) + Len(up) + 1 = Len(got) + Len(up') + 0
            BY <1>2, <2>3
        <3> QED
            BY <1>1, <2>1, <2>2, <3>1, Zenon
    <2>5. n_in' = Len(got) + Len(up') + 0 + Len(inc')
        BY <1>1, <1>2, <2>1, <2>2, <2>3
    <2> QED
        BY <1>1, <2>1, <2>2, <2>3, <2>4, <2>5, Zenon DEF UpKept
<1>6. CASE Sp!PeerSends
    <2>1. /\ n_in' = n_in + 1 /\ inc' = Append(inc, n_in + 1) /\ UNCHANGED <<up, got, held>>
        BY <1>6, Zenon DEF Sp!PeerSends
    <2> DEFINE k == Len(got) + Len(up) + Busy
    <2>2. k \in Nat /\ n_in + 1 = k + Len(inc) + 1 /\ Busy' = Busy
        BY <1>1, <1>2, <2>1 DEF Busy
    <2>3. From(inc', k) /\ Len(inc') = Len(inc) + 1
        BY <1>1, <2>1, <2>2, FromAppend, Zenon
    <2>4. n_in' = k + Len(inc')
        BY <1>1, <1>2, <2>1, <2>3
    <2> QED
        BY <1>1, <2>1, <2>2, <2>3, <2>4, Zenon DEF UpKept
<1>7. ASSUME NEW r \in Receiver, up # <<>>, Sp!Take(r) PROVE UpKept'
    <2>1. up' = Tail(up) /\ got' = Append(got, Head(up)) /\ UNCHANGED <<inc, held, n_in>>
        BY <1>7, Zenon DEF Sp!Take
    <2>2. From(up', Len(got) + 1) /\ Head(up) = Len(got) + 1 /\ Len(up') = Len(up) - 1
        BY <1>1, <1>2, <1>7, <2>1, FromTail, Zenon
    <2>3. From(got', 0) /\ Len(got') = Len(got) + 1
        <3>1. Head(up) = 0 + Len(got) + 1
            BY <1>2, <2>2
        <3> QED
            BY <1>1, <2>1, <3>1, FromAppend
    <2>4. Len(got') + Len(up') = Len(got) + Len(up) /\ Busy' = Busy
        <3>1. Busy' = Busy
            BY <2>1, Zenon DEF Busy
        <3> QED
            BY <1>2, <2>2, <2>3, <3>1
    <2> QED
        BY <1>1, <2>1, <2>2, <2>3, <2>4, Zenon DEF UpKept
<1> QED
    BY <1>3, <1>4, <1>5, <1>6, <1>7, Zenon

\* Who changes what.
LEMMA SplitMoves ==
    ASSUME [Sp!Next]_Sp!vars
    PROVE  /\ Sp!Push \/ Sp!RunDown \/ UNCHANGED <<down, out, n_sent>>
           /\ \/ Sp!RunUp \/ Sp!PushUp \/ Sp!PeerSends
              \/ \E r \in Receiver : up # <<>> /\ Sp!Take(r)
              \/ UNCHANGED <<got, up, held, inc, n_in>>
<1>1. ASSUME NEW r \in Receiver, Sp!Recv(r)
      PROVE  /\ UNCHANGED <<down, out, n_sent>>
             /\ (up # <<>> /\ Sp!Take(r)) \/ UNCHANGED <<got, up, held, inc, n_in>>
    BY <1>1, Zenon DEF Sp!Recv, Sp!First, Sp!Wait, Sp!Drain, Sp!Take, Sp!chans
<1>2. ASSUME NEW c \in Sp!Caller, Sp!Call(c) \/ Sp!Poll(c) \/ Sp!Cancel(c)
      PROVE  UNCHANGED <<down, out, n_sent>> /\ UNCHANGED <<got, up, held, inc, n_in>>
    BY <1>2, Zenon DEF Sp!Call, Sp!Poll, Sp!Cancel, Sp!chans
<1>3. Sp!Push \/ Sp!RunDown => UNCHANGED <<got, up, held, inc, n_in>>
    BY Zenon DEF Sp!Push, Sp!RunDown
<1>4. Sp!RunUp \/ Sp!PushUp \/ Sp!PeerSends => UNCHANGED <<down, out, n_sent>>
    BY Zenon DEF Sp!RunUp, Sp!PushUp, Sp!PeerSends
<1>5. UNCHANGED Sp!vars \/ Sp!RunFails =>
        UNCHANGED <<down, out, n_sent>> /\ UNCHANGED <<got, up, held, inc, n_in>>
    BY Zenon DEF Sp!vars, Sp!RunFails, Sp!chans
<1> QED
    BY <1>1, <1>2, <1>3, <1>4, <1>5, Zenon DEF Sp!Next, Sp!Run

\* Nothing starts anywhere.
LEMMA FromNothing == \A k : From(<<>>, k) /\ Len(<<>>) = 0
BY DEF From

\* Cutting the stack in two repeats and reorders nothing that was accepted for sending,
\* whichever calls are dropped half way, wherever the lower stack fails and whatever the
\* capacity: what did not leave is the end of it.
THEOREM SendsAreInOrder == Sp!Spec => []Sp!SentInOrder
<1>1. Sp!Init => DownKept
    BY FromNothing DEF Sp!Init, DownKept
<1>2. DownKept /\ [Sp!Next]_Sp!vars => DownKept'
    BY SplitMoves, DownStep, Zenon
<1>3. DownKept => Sp!SentInOrder
    <2> SUFFICES ASSUME DownKept PROVE out \o down = Sp!Upto(n_sent)
        BY Zenon DEF Sp!SentInOrder
    <2>1. /\ From(out, 0) /\ From(down, Len(out))
          /\ n_sent = Len(out) + Len(down) /\ Len(out) \in Nat
        BY Lens, Zenon DEF DownKept
    <2>2. 0 + Len(out) = Len(out)
        BY <2>1
    <2>3. From(out \o down, 0) /\ Len(out \o down) = n_sent
        BY <2>1, <2>2, FromJoin, Zenon
    <2> QED
        BY <2>3, FromZero, Zenon
<1> QED
    BY <1>1, <1>2, <1>3, PTL DEF Sp!Spec

\* ... and what the peer sent is taken by recv, or on its way up, in order.
THEOREM ReceivesAreInOrder == Sp!Spec => []Sp!ReceivedInOrder
<1>1. Sp!Init => UpKept
    BY FromNothing DEF Sp!Init, UpKept, Busy
<1>2. UpKept /\ [Sp!Next]_Sp!vars => UpKept'
    BY SplitMoves, UpStep, Zenon
<1>3. UpKept => Sp!ReceivedInOrder
    <2> DEFINE h == IF held = 0 THEN <<>> ELSE <<held>>
    <2> SUFFICES ASSUME UpKept PROVE ((got \o up) \o h) \o inc = Sp!Upto(n_in)
        BY Zenon DEF Sp!ReceivedInOrder
    <2>1. /\ held \in Nat /\ From(got, 0) /\ From(up, Len(got))
          /\ held # 0 => held = Len(got) + Len(up) + 1
          /\ From(inc, Len(got) + Len(up) + Busy)
          /\ n_in = Len(got) + Len(up) + Busy + Len(inc)
        BY Zenon DEF UpKept
    <2>2. Len(got) \in Nat /\ Len(up) \in Nat /\ Len(inc) \in Nat /\ Busy \in Nat
        BY Lens, Zenon
    <2>3. From(got \o up, 0) /\ Len(got \o up) = Len(got) + Len(up)
        <3>1. 0 + Len(got) = Len(got)
            BY <2>2
        <3> QED
            BY <2>1, <3>1, FromJoin, Zenon
    <2>4. From(h, Len(got) + Len(up)) /\ Len(h) = Busy
        <3>1. CASE held = 0
            BY <3>1, FromNothing, Zenon DEF Busy
        <3>2. CASE held # 0
            <4>1. h = <<held>> /\ Busy = 1 /\ held = Len(got) + Len(up) + 1
                BY <2>1, <3>2, Zenon DEF Busy
            <4>2. <<held>> \in Seq(Nat) /\ Len(<<held>>) = 1 /\ <<held>>[1] = held
                BY <2>1
            <4> QED
                BY <4>1, <4>2 DEF From
        <3> QED
            BY <3>1, <3>2, Zenon
    <2> DEFINE a == got \o up
    <2> HIDE DEF a, h
    <2>5. From(a \o h, 0) /\ Len(a \o h) = Len(got) + Len(up) + Busy
        <3>1. 0 + Len(a) = Len(got) + Len(up) /\ From(a, 0)
            BY <2>2, <2>3 DEF a
        <3>2. From(a \o h, 0) /\ Len(a \o h) = Len(a) + Len(h)
            BY <2>4, <3>1, FromJoin, Zenon
        <3>3. Len(a) = Len(got) + Len(up)
            BY <2>3, Zenon DEF a
        <3> QED
            BY <2>4, <3>2, <3>3, Zenon
    <2> DEFINE b == a \o h
    <2> HIDE DEF b
    <2>6. From(b \o inc, 0) /\ Len(b \o inc) = n_in
        <3>1. From(b, 0) /\ Len(b) = Len(got) + Len(up) + Busy
            BY <2>5, Zenon DEF b
        <3>2. 0 + Len(b) = Len(got) + Len(up) + Busy
            BY <2>2, <3>1
        <3> QED
            BY <2>1, <3>1, <3>2, FromJoin, Zenon
    <2>7. b \o inc = Sp!Upto(n_in)
        BY <2>6, FromZero, Zenon
    <2> QED
        BY <2>7, Zenon DEF a, b
<1> QED
    BY <1>1, <1>2, <1>3, PTL DEF Sp!Spec

\* Neither channel exceeds its capacity.
THEOREM ChannelsAreBounded == ASSUME Cap \in Nat PROVE Sp!Spec => []Sp!Backpressure
<1> DEFINE Bounded == Sp!Backpressure /\ DownKept /\ UpKept
<1>1. Sp!Init => Bounded
    BY FromNothing DEF Sp!Init, Sp!Backpressure, DownKept, UpKept, Busy
<1>2. Bounded /\ [Sp!Next]_Sp!vars => Bounded'
    <2> SUFFICES ASSUME Sp!Backpressure, DownKept, UpKept, [Sp!Next]_Sp!vars PROVE Bounded'
        BY Zenon
    <2>1. DownKept' /\ UpKept'
        BY SplitMoves, DownStep, UpStep, Zenon
    <2>2. /\ Len(down) \in Nat /\ Len(up) \in Nat /\ Len(up) <= Cap /\ Len(down) <= Cap
          /\ down \in Seq(Nat) /\ up \in Seq(Nat) /\ held \in Nat /\ n_sent \in Nat
        BY Lens, Zenon DEF Sp!Backpressure, DownKept, UpKept, From
    <2>3. Len(down') <= Cap
        <3>1. CASE UNCHANGED <<down, out, n_sent>>
            BY <2>2, <3>1, Zenon
        <3>2. CASE Sp!RunDown
            <4>1. down # <<>> /\ down' = Tail(down)
                BY <3>2, Zenon DEF Sp!RunDown
            <4>2. Len(Tail(down)) = Len(down) - 1
                BY <2>2, <4>1, Shortened, Zenon
            <4> QED
                BY <2>2, <4>1, <4>2
        <3>3. CASE Sp!Push
            <4>1. down' = down \/ (Len(down) < Cap /\ down' = Append(down, n_sent + 1))
                BY <3>3, Zenon DEF Sp!Push
            <4>2. Len(Append(down, n_sent + 1)) = Len(down) + 1
                BY <2>2, Appended
            <4> QED
                BY <2>2, <4>1, <4>2
        <3> QED
            BY <3>1, <3>2, <3>3, SplitMoves, Zenon
    <2>4. Len(up') <= Cap
        <3>1. CASE up' = up
            BY <2>2, <3>1, Zenon
        <3>2. CASE up # <<>> /\ up' = Tail(up)
            <4>1. Len(Tail(up)) = Len(up) - 1
                BY <2>2, <3>2, Shortened, Zenon
            <4> QED
                BY <2>2, <3>2, <4>1
        <3>3. CASE Len(up) < Cap /\ up' = Append(up, held)
            <4>1. Len(Append(up, held)) = Len(up) + 1
                BY <2>2, Appended, Zenon
            <4> QED
                BY <2>2, <3>3, <4>1
        <3> QED
            BY <3>1, <3>2, <3>3, SplitMoves, Zenon DEF Sp!RunUp, Sp!PushUp, Sp!PeerSends, Sp!Take
    <2> QED
        BY <2>1, <2>3, <2>4, Zenon DEF Sp!Backpressure
<1> QED
    BY <1>1, <1>2, PTL DEF Sp!Spec

\* A receiver that waits has written nothing, and one that goes on has room or had one slot.
RoomInv ==
    /\ idx \in [Receiver -> Nat]
    /\ pc \in [Sp!Caller -> {"idle", "called", "push", "first", "wait", "drain", "panic"}]
    /\ \A r \in Receiver : /\ pc[r] = "wait" => idx[r] = 0
                           /\ pc[r] = "drain" => idx[r] < Slots[r] \/ Slots[r] = 1
                           /\ pc[r] = "panic" => Slots[r] = 1

\* One receiver writes a message, or goes on.
LEMMA RoomKept ==
    ASSUME RoomInv, NEW r \in Receiver, NEW l \in {"idle", "wait", "drain", "panic"},
           NEW n \in Nat,
           l = "wait" => n = 0, l = "drain" => n < Slots[r] \/ Slots[r] = 1,
           l = "panic" => Slots[r] = 1,
           pc' = [pc EXCEPT ![r] = l], idx' = [idx EXCEPT ![r] = n]
    PROVE  RoomInv'
<1>1. r \in Sp!Caller
    BY Zenon DEF Sp!Caller
<1>2. /\ idx' \in [Receiver -> Nat]
      /\ pc' \in [Sp!Caller -> {"idle", "called", "push", "first", "wait", "drain", "panic"}]
    BY <1>1, Zenon DEF RoomInv
<1>3. ASSUME NEW q \in Receiver
      PROVE  /\ pc'[q] = "wait" => idx'[q] = 0
             /\ pc'[q] = "drain" => idx'[q] < Slots[q] \/ Slots[q] = 1
             /\ pc'[q] = "panic" => Slots[q] = 1
    <2>1. q \in Sp!Caller
        BY Zenon DEF Sp!Caller
    <2>2. CASE q = r
        BY <1>1, <2>2, Zenon DEF RoomInv
    <2>3. CASE q # r
        BY <2>1, <2>3, Zenon DEF RoomInv
    <2> QED
        BY <2>2, <2>3, Zenon
<1> QED
    BY <1>2, <1>3, Zenon DEF RoomInv

\* Whatever buffers the callers bring, a burst overruns only a buffer of one slot.
THEOREM BurstsFit == ASSUME Slots \in [Receiver -> Nat \ {0}] PROVE Sp!Spec => []Sp!BurstFits
<1>1. Sp!Init => RoomInv
    BY DEF Sp!Init, RoomInv, Sp!Caller
<1>2. RoomInv /\ [Sp!Next]_Sp!vars => RoomInv'
    <2> SUFFICES ASSUME RoomInv, [Sp!Next]_Sp!vars PROVE RoomInv'
        BY Zenon
    <2>1. CASE UNCHANGED <<idx, pc>>
        BY <2>1, Zenon DEF RoomInv
    <2>2. ASSUME NEW c \in Sp!Caller, Sp!Call(c) \/ Sp!Poll(c) \/ Sp!Cancel(c) PROVE RoomInv'
        <3>1. /\ idx' = idx
              /\ \E l \in {"called", "push", "first", "idle"} : pc' = [pc EXCEPT ![c] = l]
            BY <2>2, Zenon DEF Sp!Call, Sp!Poll, Sp!Cancel
        <3> QED
            BY <3>1 DEF RoomInv
    <2>3. CASE Sp!Push
        <3>1. idx' = idx /\ pc' = [pc EXCEPT !["sender"] = "idle"]
            BY <2>3, Zenon DEF Sp!Push
        <3>2. "sender" \in Sp!Caller
            BY Zenon DEF Sp!Caller
        <3> QED
            BY <3>1, <3>2 DEF RoomInv
    <2>4. ASSUME NEW r \in Receiver, Sp!Recv(r) PROVE RoomInv'
        <3>0. idx[r] \in Nat /\ idx = [idx EXCEPT ![r] = idx[r]]
            BY Zenon DEF RoomInv
        <3>s. Slots[r] \in Nat /\ 0 < Slots[r]
            OBVIOUS
        <3>1. CASE Sp!First(r)
            <4>1. /\ \E l \in {"wait", "drain"} : pc' = [pc EXCEPT ![r] = l]
                  /\ idx' = [idx EXCEPT ![r] = 0]
                BY <3>1, Zenon DEF Sp!First
            <4>2. 0 \in Nat
                OBVIOUS
            <4> QED
                BY <3>s, <4>1, <4>2, RoomKept, Zenon
        <3>2. CASE Sp!Wait(r)
            <4>1. \/ idx' = [idx EXCEPT ![r] = idx[r] + 1] /\ pc' = [pc EXCEPT ![r] = "drain"]
                  \/ idx' = [idx EXCEPT ![r] = idx[r]] /\ pc' = [pc EXCEPT ![r] = "idle"]
                BY <3>0, <3>2, Zenon DEF Sp!Wait, Sp!Take
            <4>2. idx[r] = 0
                BY <3>2, Zenon DEF Sp!Wait, RoomInv
            <4>3. idx[r] + 1 \in Nat /\ (idx[r] + 1 < Slots[r] \/ Slots[r] = 1)
                BY <3>s, <4>2
            <4> QED
                BY <3>0, <4>1, <4>3, RoomKept, Zenon
        <3>3. CASE Sp!Drain(r)
            <4>1. \/ /\ idx' = [idx EXCEPT ![r] = idx[r] + 1]
                     /\ \/ pc' = [pc EXCEPT ![r] = "panic"] /\ idx[r] >= Slots[r]
                        \/ pc' = [pc EXCEPT ![r] = "idle"]
                        \/ pc' = [pc EXCEPT ![r] = "drain"] /\ ~(idx[r] + 1 >= Slots[r])
                  \/ idx' = [idx EXCEPT ![r] = idx[r]] /\ pc' = [pc EXCEPT ![r] = "idle"]
                BY <3>0, <3>3, Zenon DEF Sp!Drain, Sp!Take
            <4>2. idx[r] < Slots[r] \/ Slots[r] = 1
                BY <3>3, Zenon DEF Sp!Drain, RoomInv
            <4>3. /\ idx[r] + 1 \in Nat
                  /\ idx[r] >= Slots[r] => Slots[r] = 1
                  /\ ~(idx[r] + 1 >= Slots[r]) => idx[r] + 1 < Slots[r]
                BY <3>0, <3>s, <4>2
            <4> QED
                BY <3>0, <4>1, <4>3, RoomKept, Zenon
        <3> QED
            BY <2>4, <3>1, <3>2, <3>3, Zenon DEF Sp!Recv
    <2>5. Sp!Run \/ Sp!PeerSends \/ UNCHANGED Sp!vars => UNCHANGED <<idx, pc>>
        BY Zenon DEF Sp!Run, Sp!RunDown, Sp!RunUp, Sp!PushUp, Sp!RunFails, Sp!PeerSends, Sp!vars
    <2> QED
        BY <2>1, <2>2, <2>3, <2>4, <2>5, Zenon DEF Sp!Next
<1>3. RoomInv => Sp!BurstFits
    BY Zenon DEF RoomInv, Sp!BurstFits
<1> QED
    BY <1>1, <1>2, <1>3, PTL DEF Sp!Spec

-----------------------------------------------------------------------------
(* TcpWrap, as Tw, for any peers *)

CONSTANTS Peer, Mismatched, Overlap
VARIABLES client, wrap, backlog, cached_conns, holder, waiters
Tw == INSTANCE TcpWrap

\* The elements of a sequence,
Items(s) == {s[i] : i \in DOMAIN s}

\* ... which differ.
Distinct(s) == \A i, j \in 1..Len(s) : s[i] = s[j] => i = j

\* One more at the end of such a sequence, which it does not have yet.
LEMMA DistinctAppend ==
    ASSUME NEW S, NEW s \in Seq(S), NEW x \in S, Distinct(s), x \notin Items(s)
    PROVE  /\ Append(s, x) \in Seq(S) /\ Distinct(Append(s, x))
           /\ Items(Append(s, x)) = Items(s) \cup {x}
<1> DEFINE t == Append(s, x)
<1>1. /\ t \in Seq(S) /\ Len(t) = Len(s) + 1 /\ Len(s) \in Nat
      /\ t[Len(s) + 1] = x /\ \A i \in 1..Len(s) : t[i] = s[i]
    OBVIOUS
<1>2. DOMAIN s = 1..Len(s) /\ DOMAIN t = 1..(Len(s) + 1)
    BY <1>1
<1> HIDE DEF t
<1>3. \A i \in 1..(Len(s) + 1) : i = Len(s) + 1 \/ i \in 1..Len(s)
    BY <1>1
<1>4. Len(s) + 1 \in 1..(Len(s) + 1) /\ 1..Len(s) \subseteq 1..(Len(s) + 1)
    BY <1>1
<1>5. \A i \in 1..Len(s) : s[i] # x
    BY <1>2, Zenon DEF Items
<1>6. Distinct(t)
    BY <1>1, <1>3, <1>5, Zenon DEF Distinct
<1>7. Items(t) = Items(s) \cup {x}
    BY <1>1, <1>2, <1>3, <1>4, Zenon DEF Items
<1> QED
    BY <1>1, <1>6, <1>7, Zenon DEF t

\* What is left without the first.
LEMMA DistinctTail ==
    ASSUME NEW S, NEW s \in Seq(S), Distinct(s), s # <<>>
    PROVE  /\ Head(s) \in S /\ Head(s) \in Items(s)
           /\ Tail(s) \in Seq(S) /\ Distinct(Tail(s))
           /\ Items(Tail(s)) = Items(s) \ {Head(s)}
<1> DEFINE t == Tail(s)
<1>1. /\ t \in Seq(S) /\ Len(t) = Len(s) - 1 /\ Len(s) \in Nat \ {0}
      /\ Head(s) = s[1] /\ \A i \in 1..(Len(s) - 1) : t[i] = s[i + 1]
    OBVIOUS
<1>2. DOMAIN s = 1..Len(s) /\ DOMAIN t = 1..(Len(s) - 1)
    BY <1>1
<1>0. Head(s) \in S
    BY <1>1
<1> HIDE DEF t
<1>6. Distinct(t)
    <2> SUFFICES ASSUME NEW i \in 1..Len(t), NEW j \in 1..Len(t), t[i] = t[j] PROVE i = j
        BY Zenon DEF Distinct
    <2>1. i + 1 \in 1..Len(s) /\ j + 1 \in 1..Len(s) /\ s[i + 1] = s[j + 1]
        BY <1>1
    <2>2. i + 1 = j + 1
        BY <2>1, Zenon DEF Distinct
    <2> QED
        BY <1>1, <2>2
<1>7. ASSUME NEW x \in Items(t) PROVE x \in Items(s) /\ x # Head(s)
    <2>1. PICK i \in 1..(Len(s) - 1) : x = t[i]
        BY <1>2, Zenon DEF Items
    <2>2. x = s[i + 1] /\ i + 1 \in 1..Len(s) /\ 1 \in 1..Len(s) /\ i + 1 # 1
        BY <1>1, <2>1
    <2> QED
        BY <1>1, <1>2, <2>2, Zenon DEF Items, Distinct
<1>8. ASSUME NEW x \in Items(s), x # Head(s) PROVE x \in Items(t)
    <2>1. PICK i \in 1..Len(s) : x = s[i]
        BY <1>2, Zenon DEF Items
    <2>2. i - 1 \in 1..(Len(s) - 1) /\ (i - 1) + 1 = i
        BY <1>1, <1>8, <2>1
    <2>3. t[i - 1] = x
        BY <1>1, <2>1, <2>2, Zenon
    <2> QED
        BY <1>2, <2>2, <2>3, Zenon DEF Items
<1>9. Items(t) = Items(s) \ {Head(s)}
    BY <1>7, <1>8, Zenon
<1>10. Head(s) \in Items(s)
    <2>1. 1 \in 1..Len(s)
        BY <1>1
    <2> QED
        BY <1>1, <1>2, <2>1, Zenon DEF Items
<1> QED
    BY <1>0, <1>1, <1>6, <1>9, <1>10, Zenon DEF t

\* The types.
WrapStates == {"none", "lock", "accept", "open", "failed"}
WrapTypes ==
    /\ client \in [Peer -> {"negotiating", "connecting", "open", "failed"}]
    /\ wrap \in [Peer -> WrapStates]
    /\ backlog \in Seq(Peer) /\ waiters \in Seq(Peer) /\ Distinct(backlog) /\ Distinct(waiters)

\* Who waits for the listener's lock is who says so.
WaitersWait == \A p \in Items(waiters) : wrap[p] = "lock"

\* The server has the connection of a connected client in one place, and of others none.
OnePlace(p) ==
    \/ client[p] # "open" /\ p \notin Items(backlog) /\ p \notin cached_conns /\ wrap[p] # "open"
    \/ client[p] = "open" /\ p \in Items(backlog) /\ p \notin cached_conns /\ wrap[p] # "open"
    \/ client[p] = "open" /\ p \notin Items(backlog) /\ p \in cached_conns /\ wrap[p] # "open"
    \/ client[p] = "open" /\ p \notin Items(backlog) /\ p \notin cached_conns /\ wrap[p] = "open"

\* The inductive invariant.
WrapInv == WrapTypes /\ WaitersWait /\ \A p \in Peer : OnePlace(p)

\* Nobody is connected at first.
LEMMA WrapInit == Tw!Init => WrapInv
<1> SUFFICES ASSUME Tw!Init PROVE WrapInv
    OBVIOUS
<1>1. <<>> \in Seq(Peer) /\ Distinct(<<>>)
    BY DEF Distinct
<1>2. Items(<<>>) = {}
    BY DEF Items
<1> QED
    BY <1>1, <1>2, Zenon DEF Tw!Init, WrapInv, WrapTypes, WrapStates, WaitersWait, OnePlace

\* One wrap goes on.
LEMMA WrapMoves ==
    ASSUME WrapTypes, NEW p \in Peer, NEW v \in WrapStates,
           wrap' = [wrap EXCEPT ![p] = v]
    PROVE  /\ wrap' \in [Peer -> WrapStates] /\ wrap'[p] = v
           /\ \A q \in Peer \ {p} : wrap'[q] = wrap[q]
BY Zenon DEF WrapTypes

\* A wrap fails, with its connection where it was.
LEMMA WrapFails ==
    ASSUME WrapInv, NEW p \in Peer, wrap' = [wrap EXCEPT ![p] = "failed"],
           wrap[p] \in {"none", "accept"}, Items(waiters) \subseteq Peer,
           UNCHANGED <<client, backlog, cached_conns, waiters>>
    PROVE  WrapInv'
<1>0. WrapTypes /\ WaitersWait /\ \A q \in Peer : OnePlace(q)
    BY Zenon DEF WrapInv
<1>1. /\ wrap' \in [Peer -> WrapStates] /\ wrap'[p] = "failed"
      /\ \A q \in Peer \ {p} : wrap'[q] = wrap[q]
    BY <1>0, WrapMoves, Zenon DEF WrapStates
<1> QED
    BY <1>0, <1>1 DEF WrapInv, WrapTypes, WaitersWait, OnePlace

\* Every step keeps it.
LEMMA WrapNext == ASSUME WrapInv, [Tw!Next]_(Tw!vars) PROVE WrapInv'
<1>0. WrapTypes /\ WaitersWait /\ \A p \in Peer : OnePlace(p)
    BY Zenon DEF WrapInv
<1>01. Items(waiters) \subseteq Peer
    BY <1>0 DEF WrapTypes, Items
<1>1. ASSUME NEW p \in Peer, Tw!ClientWrap(p) \/ Tw!ConnectFails(p) PROVE WrapInv'
    BY <1>0, <1>1, Zenon
       DEF Tw!ClientWrap, Tw!ConnectFails, WrapInv, WrapTypes, WaitersWait, OnePlace
<1>2. ASSUME NEW p \in Peer, Tw!Connect(p) PROVE WrapInv'
    <2>1. p \notin Items(backlog)
        BY <1>0, <1>2, Zenon DEF Tw!Connect, OnePlace
    <2>2. /\ backlog' \in Seq(Peer) /\ Distinct(backlog')
          /\ Items(backlog') = Items(backlog) \cup {p}
        <3>1. backlog \in Seq(Peer) /\ Distinct(backlog) /\ backlog' = Append(backlog, p)
            BY <1>0, <1>2, Zenon DEF Tw!Connect, WrapTypes
        <3> QED
            BY <2>1, <3>1, DistinctAppend
    <2> QED
        BY <1>0, <1>2, <2>2, Zenon DEF Tw!Connect, WrapInv, WrapTypes, WaitersWait, OnePlace
<1>3. ASSUME NEW p \in Peer, Tw!ServerWrap(p) PROVE WrapInv'
    <2>1. CASE p \in cached_conns \ Mismatched
        <3>1. wrap' = [wrap EXCEPT ![p] = "open"] /\ wrap[p] = "none"
              /\ cached_conns' = cached_conns \ {p} /\ UNCHANGED <<client, backlog, waiters>>
            BY <1>3, <2>1, Zenon DEF Tw!ServerWrap
        <3>2. /\ wrap' \in [Peer -> WrapStates] /\ wrap'[p] = "open"
              /\ \A q \in Peer \ {p} : wrap'[q] = wrap[q]
            BY <1>0, <3>1, WrapMoves, Zenon DEF WrapStates
        <3>3. p \notin Items(waiters)
            BY <1>0, <3>1, Zenon DEF WaitersWait
        <3> QED
            BY <1>0, <2>1, <1>01, <3>1, <3>2, <3>3 DEF WrapInv, WrapTypes, WaitersWait, OnePlace
    <2>2. CASE p \notin cached_conns \cup Mismatched
        <3>1. p \notin Items(waiters)
            BY <1>0, <1>3, Zenon DEF Tw!ServerWrap, WaitersWait
        <3>2. /\ waiters' \in Seq(Peer) /\ Distinct(waiters')
              /\ Items(waiters') = Items(waiters) \cup {p}
            <4>1. waiters \in Seq(Peer) /\ Distinct(waiters) /\ waiters' = Append(waiters, p)
                BY <1>0, <1>3, <2>2, Zenon DEF Tw!ServerWrap, WrapTypes
            <4> QED
                BY <3>1, <4>1, DistinctAppend
        <3> QED
            <4>1. wrap' = [wrap EXCEPT ![p] = "lock"] /\ wrap[p] = "none"
                  /\ UNCHANGED <<client, backlog, cached_conns>>
                BY <1>3, <2>2, Zenon DEF Tw!ServerWrap
            <4>2. /\ wrap' \in [Peer -> WrapStates] /\ wrap'[p] = "lock"
                  /\ \A q \in Peer \ {p} : wrap'[q] = wrap[q]
                BY <1>0, <4>1, WrapMoves, Zenon DEF WrapStates
            <4> QED
                BY <1>0, <1>01, <3>1, <3>2, <4>1, <4>2
                   DEF WrapInv, WrapTypes, WaitersWait, OnePlace
    <2>3. CASE p \in Mismatched
        <3>1. /\ wrap' = [wrap EXCEPT ![p] = "failed"] /\ wrap[p] = "none"
              /\ UNCHANGED <<client, backlog, cached_conns, waiters>>
            BY <1>3, <2>3, Zenon DEF Tw!ServerWrap
        <3> QED
            BY <1>0, <1>01, <3>1, WrapFails, Zenon
    <2> QED
        BY <2>1, <2>2, <2>3, Zenon
<1>4. CASE Tw!Lock
    <2>1. /\ Head(waiters) \in Peer /\ Head(waiters) \in Items(waiters)
          /\ waiters' \in Seq(Peer) /\ Distinct(waiters')
          /\ Items(waiters') = Items(waiters) \ {Head(waiters)}
        BY <1>0, <1>4, DistinctTail, Zenon DEF Tw!Lock, WrapTypes
    <2>2. wrap[Head(waiters)] = "lock"
        BY <1>0, <2>1, Zenon DEF WaitersWait
    <2> QED
        <3>1. /\ wrap' = [wrap EXCEPT ![Head(waiters)] = "accept"]
              /\ UNCHANGED <<client, backlog, cached_conns>>
            BY <1>4, Zenon DEF Tw!Lock
        <3>2. /\ wrap' \in [Peer -> WrapStates]
              /\ wrap'[Head(waiters)] = "accept"
              /\ \A q \in Peer \ {Head(waiters)} : wrap'[q] = wrap[q]
            BY <1>0, <2>1, <3>1, WrapMoves, Zenon DEF WrapStates
        <3> QED
            BY <1>0, <1>01, <2>1, <2>2, <3>1, <3>2
               DEF WrapInv, WrapTypes, WaitersWait, OnePlace
<1>5. ASSUME NEW p \in Peer, Tw!Accept(p) PROVE WrapInv'
    <2>1. /\ Head(backlog) \in Peer /\ Head(backlog) \in Items(backlog)
          /\ backlog' \in Seq(Peer) /\ Distinct(backlog')
          /\ Items(backlog') = Items(backlog) \ {Head(backlog)}
        BY <1>0, <1>5, DistinctTail, Zenon DEF Tw!Accept, WrapTypes
    <2>2. CASE Head(backlog) = p
        <3>1. /\ wrap' = [wrap EXCEPT ![p] = "open"] /\ wrap[p] = "accept"
              /\ UNCHANGED <<client, cached_conns, waiters>>
            BY <1>5, <2>2, Zenon DEF Tw!Accept
        <3>2. /\ wrap' \in [Peer -> WrapStates] /\ wrap'[p] = "open"
              /\ \A q \in Peer \ {p} : wrap'[q] = wrap[q]
            BY <1>0, <3>1, WrapMoves, Zenon DEF WrapStates
        <3> QED
            BY <1>0, <1>01, <2>1, <2>2, <3>1, <3>2
               DEF WrapInv, WrapTypes, WaitersWait, OnePlace
    <2>3. CASE Head(backlog) # p
        BY <1>0, <1>5, <2>1, <2>3, Zenon
           DEF Tw!Accept, WrapInv, WrapTypes, WaitersWait, OnePlace
    <2> QED
        BY <2>2, <2>3
<1>7. ASSUME NEW p \in Peer, Tw!AcceptFails(p) PROVE WrapInv'
    <2>1. /\ wrap' = [wrap EXCEPT ![p] = "failed"] /\ wrap[p] = "accept"
          /\ UNCHANGED <<client, backlog, cached_conns, waiters>>
        BY <1>7, Zenon DEF Tw!AcceptFails
    <2> QED
        BY <1>0, <1>01, <2>1, WrapFails, Zenon
<1>6. CASE UNCHANGED Tw!vars
    BY <1>0, <1>6, Zenon DEF Tw!vars, WrapInv, WrapTypes, WaitersWait, OnePlace
<1> QED
    BY <1>1, <1>2, <1>3, <1>4, <1>5, <1>6, <1>7, Zenon DEF Tw!Next, Tw!Client, Tw!Server

\* Every connected client has exactly one connection, whichever wraps and sockets fail.
THEOREM ConnectionsAreKept == Tw!Spec => []Tw!ConnectionKept
<1>1. WrapInv => Tw!ConnectionKept
    <2> SUFFICES ASSUME WrapInv, NEW p \in Peer, client[p] = "open"
                 PROVE  \E x \in Tw!Places(p) : Tw!Places(p) = {x}
        BY Zenon DEF Tw!ConnectionKept
    <2>1. OnePlace(p)
        BY Zenon DEF WrapInv
    <2> QED
        <3>1. \E x : Tw!Places(p) = {x}
            BY <2>1 DEF Tw!Places, OnePlace, Tw!Range, Items
        <3> QED
            BY <3>1, Zenon
<1> QED
    BY WrapInit, WrapNext, <1>1, PTL DEF Tw!Spec

-----------------------------------------------------------------------------
(* GhostTunnel, as Gh, for any tunnels, peers and requests *)

CONSTANTS Sides, MaxReq, MayClose, None
VARIABLES tunnel, process, cn, conns, state, inbox, made, todo, answers
Gh == INSTANCE GhostTunnel

\* How far a tunnel may be; a process belongs to one that has not failed.
TunnelStates == {"none", "spawned", "up", "ok", "err", "taken"}
Running == {"spawned", "up", "ok", "taken"}

\* While the tunnels are set up, one that was started and has not failed has its process; once
\* connect_wrap was called, each has come to an end, and an open connection has them all.
TunnelInv ==
    /\ tunnel \in [Sides -> TunnelStates] /\ process \subseteq Sides
    /\ \A s \in process : tunnel[s] \in Running
    /\ cn = "none" => \A s \in Sides : /\ tunnel[s] # "taken"
                                       /\ tunnel[s] \in Running => s \in process
    /\ cn # "none" => \A s \in Sides : tunnel[s] \notin {"none", "spawned", "up"}
    /\ cn = "open" => process = Sides /\ \A s \in Sides : tunnel[s] = "taken"

\* A tunnel goes on.
LEMMA TunnelMoves ==
    ASSUME TunnelInv, NEW s \in Sides, NEW v \in TunnelStates \ {"taken"},
           tunnel' = [tunnel EXCEPT ![s] = v], UNCHANGED cn,
           cn = "none", process' = IF v \in Running THEN process \cup {s} ELSE process \ {s}
    PROVE  TunnelInv'
<1>1. /\ tunnel' \in [Sides -> TunnelStates] /\ tunnel'[s] = v
      /\ \A r \in Sides \ {s} : tunnel'[r] = tunnel[r]
    BY Zenon DEF TunnelInv
<1> QED
    BY <1>1 DEF TunnelInv

\* Every step keeps this.
LEMMA TunnelNext == ASSUME TunnelInv, [Gh!Next]_(Gh!vars) PROVE TunnelInv'
<1>1. ASSUME NEW s \in Sides, Gh!Spawn(s) PROVE TunnelInv'
    <2>1. /\ tunnel' = [tunnel EXCEPT ![s] = "spawned"] /\ UNCHANGED cn /\ cn = "none"
          /\ process' = process \cup {s}
        BY <1>1, Zenon DEF Gh!Spawn
    <2> QED
        BY <2>1, TunnelMoves, Zenon DEF TunnelStates, Running
<1>2. ASSUME NEW s \in Sides, Gh!WaitUp(s) PROVE TunnelInv'
    <2>1. /\ tunnel' = [tunnel EXCEPT ![s] = "up"] /\ UNCHANGED <<cn, process>>
          /\ tunnel[s] = "spawned"
        BY <1>2, Zenon DEF Gh!WaitUp
    <2>2. cn = "none" /\ s \in process
        BY <2>1 DEF TunnelInv, Running
    <2> QED
        BY <2>1, <2>2, TunnelMoves, Zenon DEF TunnelStates, Running
<1>3. ASSUME NEW s \in Sides, Gh!Connect(s) PROVE TunnelInv'
    <2>1. tunnel' = [tunnel EXCEPT ![s] = "ok"] /\ UNCHANGED <<cn, process>> /\ tunnel[s] = "up"
        BY <1>3, Zenon DEF Gh!Connect
    <2>2. cn = "none" /\ s \in process
        BY <2>1 DEF TunnelInv, Running
    <2> QED
        BY <2>1, <2>2, TunnelMoves, Zenon DEF TunnelStates, Running
<1>4. ASSUME NEW s \in Sides, Gh!Fail(s) PROVE TunnelInv'
    <2>1. /\ tunnel' = [tunnel EXCEPT ![s] = "err"] /\ UNCHANGED cn
          /\ tunnel[s] \in {"spawned", "up"}
          /\ process' = process \ {s}
        BY <1>4, Zenon DEF Gh!Fail
    <2>2. cn = "none"
        BY <2>1 DEF TunnelInv
    <2> QED
        BY <2>1, <2>2, TunnelMoves, Zenon DEF TunnelStates, Running
<1>5. CASE Gh!ConnectWrap
    <2>1. /\ cn = "none" /\ \A s \in Sides : tunnel[s] \in {"ok", "err"}
          /\ cn' = IF \E s \in Sides : tunnel[s] = "err" THEN "error" ELSE "open"
          /\ process' = process \ {s \in Sides \cap {"listen"} : cn' = "error" /\ tunnel[s] = "ok"}
          /\ tunnel' = IF cn' = "open" THEN [s \in Sides |-> "taken"] ELSE tunnel
        BY <1>5, Zenon DEF Gh!ConnectWrap, Gh!Picked
    <2>2. CASE \E s \in Sides : tunnel[s] = "err"
        <3>1. cn' = "error" /\ tunnel' = tunnel /\ process' \subseteq process
            BY <2>1, <2>2
        <3> QED
            BY <2>1, <3>1 DEF TunnelInv
    <2>3. CASE ~\E s \in Sides : tunnel[s] = "err"
        <3>1. cn' = "open" /\ tunnel' = [s \in Sides |-> "taken"] /\ process' = process
            BY <2>1, <2>3
        <3>2. process = Sides
            BY <2>1, <2>3 DEF TunnelInv, Running
        <3> QED
            BY <3>1, <3>2 DEF TunnelInv, Running, TunnelStates
    <2> QED
        BY <2>2, <2>3
<1>6. ASSUME UNCHANGED <<tunnel, process, cn>> PROVE TunnelInv'
    BY <1>6, Zenon DEF TunnelInv
<1>7. ASSUME NEW p \in Peer, Gh!Dial(p) \/ Gh!Request(p) \/ Gh!Close(p)
      PROVE  UNCHANGED <<tunnel, process, cn>>
    BY <1>7, Zenon DEF Gh!Dial, Gh!Request, Gh!Close
<1>8. ASSUME NEW i \in DOMAIN conns, Gh!Recv(i) \/ Gh!RemoveConn(i)
      PROVE  UNCHANGED <<tunnel, process, cn>>
    BY <1>8, Zenon DEF Gh!Recv, Gh!RemoveConn
<1>9. Gh!Accept \/ Gh!Send \/ UNCHANGED Gh!vars => UNCHANGED <<tunnel, process, cn>>
    BY Zenon DEF Gh!Accept, Gh!Send, Gh!vars
<1> QED
    BY <1>1, <1>2, <1>3, <1>4, <1>5, <1>6, <1>7, <1>8, <1>9, Zenon DEF Gh!Next

\* Every process has a handle, and an open connection all its tunnels.
THEOREM TunnelsAreHeld == Gh!Spec => []Gh!TunnelsHeld
<1>1. Gh!Init => TunnelInv
    BY DEF Gh!Init, TunnelInv, TunnelStates, Running
<1>2. TunnelInv => Gh!TunnelsHeld
    BY Zenon DEF TunnelInv, Gh!TunnelsHeld, Running
<1> QED
    BY <1>1, <1>2, TunnelNext, PTL DEF Gh!Spec

\* A request in the server's hands.
Asked == [from : Peer, req : Nat, addr : Nat]

\* The requests of a peer that are in the server's hands.
InHand(p) == IF todo # None /\ todo.from = p THEN 1 ELSE 0

\* What a peer sent was answered in order, then one may be in the server's hands, and the rest
\* is to be read.
PeerInv(p) ==
    /\ answers[p] \in Seq(Peer \X Nat) /\ \A i \in 1..Len(answers[p]) : answers[p][i] = <<p, i>>
    /\ From(inbox[p], Len(answers[p]) + InHand(p))
    /\ made[p] = Len(answers[p]) + InHand(p) + Len(inbox[p])

\* The request in the server's hands is the next one of its peer, and its address is still the
\* position of that peer's stream.
HandInv ==
    todo # None => /\ todo \in Asked
                   /\ todo.addr \in 1..Len(conns) /\ conns[todo.addr] = todo.from
                   /\ todo.req = Len(answers[todo.from]) + 1

\* The inductive invariant.
AskInv ==
    /\ made \in [Peer -> Nat] /\ inbox \in [Peer -> Seq(Nat)]
    /\ answers \in [Peer -> Seq(Peer \X Nat)]
    /\ conns \in Seq(Peer) /\ backlog \in Seq(Peer)
    /\ HandInv /\ \A p \in Peer : PeerInv(p)

\* A sequence of peers without its first, with one more, or without the one at a position.
LEMMA PeerSeqs ==
    ASSUME NEW s \in Seq(Peer)
    PROVE  /\ \A p \in Peer : Append(s, p) \in Seq(Peer)
           /\ s # <<>> => Head(s) \in Peer /\ Tail(s) \in Seq(Peer)
           /\ \A i \in 1..Len(s) :
                 s[i] \in Peer /\ SubSeq(s, 1, i - 1) \o SubSeq(s, i + 1, Len(s)) \in Seq(Peer)
<1>1. ASSUME NEW i \in 1..Len(s)
      PROVE  s[i] \in Peer /\ SubSeq(s, 1, i - 1) \o SubSeq(s, i + 1, Len(s)) \in Seq(Peer)
    <2>1. SubSeq(s, 1, i - 1) \in Seq(Peer) /\ SubSeq(s, i + 1, Len(s)) \in Seq(Peer)
        OBVIOUS
    <2> QED
        BY <2>1
<1>2. s # <<>> => Head(s) \in Peer /\ Tail(s) \in Seq(Peer)
    OBVIOUS
<1> QED
    BY <1>1, <1>2

\* What a step does not touch of a peer stays right.
LEMMA PeerSame ==
    ASSUME NEW p \in Peer, PeerInv(p), answers'[p] = answers[p], inbox'[p] = inbox[p],
           made'[p] = made[p], InHand(p)' = InHand(p)
    PROVE  PeerInv(p)'
BY Zenon DEF PeerInv

\* The numbers of a peer are numbers.
LEMMA PeerNumbers ==
    ASSUME AskInv, NEW p \in Peer
    PROVE  Len(answers[p]) \in Nat /\ Len(inbox[p]) \in Nat /\ InHand(p) \in {0, 1}
<1>1. answers[p] \in Seq(Peer \X Nat) /\ inbox[p] \in Seq(Nat)
    BY Zenon DEF AskInv
<1> QED
    BY <1>1 DEF InHand

\* A number that moves from one summand to another.
LEMMA OneMoves == \A x, y \in Nat : x + 0 + y = x + 1 + (y - 1)
OBVIOUS

\* A peer makes a request.
LEMMA RequestKept == ASSUME AskInv, NEW p \in Peer, Gh!Request(p) PROVE AskInv'
<1>1. /\ made' = [made EXCEPT ![p] = made[p] + 1]
      /\ inbox' = [inbox EXCEPT ![p] = Append(inbox[p], made[p] + 1)]
      /\ UNCHANGED <<backlog, conns, todo, answers>>
    BY Zenon DEF Gh!Request
<1>2. /\ Len(answers[p]) \in Nat /\ Len(inbox[p]) \in Nat /\ InHand(p) \in {0, 1}
      /\ made[p] \in Nat /\ inbox[p] \in Seq(Nat)
    BY PeerNumbers, Zenon DEF AskInv
<1>3. PeerInv(p) /\ made \in [Peer -> Nat] /\ inbox \in [Peer -> Seq(Nat)]
    BY Zenon DEF AskInv
<1> DEFINE k == Len(answers[p]) + InHand(p)
           b == Append(inbox[p], made[p] + 1)
<1>4. k \in Nat /\ made[p] = k + Len(inbox[p]) /\ From(inbox[p], k)
    <2>1. made[p] = Len(answers[p]) + InHand(p) + Len(inbox[p]) /\ From(inbox[p], k)
        BY <1>3, Zenon DEF PeerInv
    <2> QED
        BY <1>2, <2>1
<1>5. From(b, k) /\ Len(b) = Len(inbox[p]) + 1
    <2>1. made[p] + 1 = k + Len(inbox[p]) + 1
        BY <1>4, Zenon
    <2> QED
        BY <1>4, <2>1, FromAppend, Zenon
<1>6. made[p] + 1 \in Nat /\ made[p] + 1 = k + Len(b)
    BY <1>2, <1>4, <1>5
<1>7. b \in Seq(Nat)
    BY <1>5, Zenon DEF From
<1>8. /\ made' \in [Peer -> Nat] /\ made'[p] = made[p] + 1
      /\ \A q \in Peer \ {p} : made'[q] = made[q]
    BY <1>1, <1>3, <1>6, Zenon
<1>9. /\ inbox' \in [Peer -> Seq(Nat)] /\ inbox'[p] = b
      /\ \A q \in Peer \ {p} : inbox'[q] = inbox[q]
    BY <1>1, <1>3, <1>7, Zenon
<1> HIDE DEF b
<1>10. \A q \in Peer : InHand(q)' = InHand(q)
    BY <1>1, Zenon DEF InHand
<1>11. PeerInv(p)'
    BY <1>1, <1>3, <1>5, <1>6, <1>8, <1>9, <1>10, Zenon DEF PeerInv
<1>12. \A q \in Peer : PeerInv(q)'
    BY <1>1, <1>8, <1>9, <1>10, <1>11, PeerSame, Zenon DEF AskInv
<1>13. HandInv'
    BY <1>1, Zenon DEF AskInv, HandInv
<1> QED
    BY <1>1, <1>8, <1>9, <1>12, <1>13, Zenon DEF AskInv

\* The server reads the request of the stream at position i, and gets i with it.
LEMMA RecvKept ==
    ASSUME "send" \notin Sides, None \notin Asked, AskInv, NEW i \in DOMAIN conns, Gh!Recv(i)
    PROVE  AskInv'
<1>0. i \in 1..Len(conns) /\ conns[i] \in Peer /\ i \in Nat
    BY DEF AskInv
<1>p. PICK p \in Peer : p = conns[i]
    BY <1>0, Zenon
<1> DEFINE b == inbox[p]
           a == Len(answers[p])
<1>1. /\ todo = None /\ b # <<>> /\ todo' = [from |-> p, req |-> Head(b), addr |-> i]
      /\ inbox' = [inbox EXCEPT ![p] = Tail(b)]
      /\ UNCHANGED <<backlog, conns, made, answers>>
    BY <1>p, Zenon DEF Gh!Recv, Gh!Address
<1>2. a \in Nat /\ Len(b) \in Nat /\ inbox \in [Peer -> Seq(Nat)] /\ PeerInv(p)
    BY <1>0, PeerNumbers, Zenon DEF AskInv
<1>3. InHand(p) = 0
    BY <1>1, Zenon DEF InHand
<1>4. a + 0 = a
    BY <1>2
<1>5. From(b, a) /\ made[p] = a + 0 + Len(b)
    BY <1>2, <1>3, <1>4, Zenon DEF PeerInv
<1>6. From(Tail(b), a + 1) /\ Head(b) = a + 1 /\ Len(Tail(b)) = Len(b) - 1
    BY <1>1, <1>2, <1>5, FromTail, Zenon
<1>7. Tail(b) \in Seq(Nat)
    BY <1>6, Zenon DEF From
<1>8. /\ inbox' \in [Peer -> Seq(Nat)] /\ inbox'[p] = Tail(b)
      /\ \A q \in Peer \ {p} : inbox'[q] = inbox[q]
    BY <1>0, <1>1, <1>2, <1>7, Zenon
<1>9. todo' \in Asked /\ todo'.from = p /\ todo'.req = a + 1 /\ todo'.addr = i /\ todo' # None
    <2>1. a + 1 \in Nat
        BY <1>2
    <2> QED
        BY <1>0, <1>1, <1>6, <2>1 DEF Asked
<1>10. InHand(p)' = 1
    BY <1>9, Zenon DEF InHand
<1>11. \A q \in Peer \ {p} : InHand(q)' = InHand(q)
    BY <1>1, <1>9, Zenon DEF InHand
<1>12. made[p] = a + 1 + Len(Tail(b))
    BY <1>2, <1>5, <1>6, OneMoves, Zenon
<1> HIDE DEF b
<1>13. PeerInv(p)'
    BY <1>1, <1>2, <1>6, <1>8, <1>10, <1>12, Zenon DEF PeerInv
<1>14. \A q \in Peer : PeerInv(q)'
    BY <1>1, <1>8, <1>11, <1>13, PeerSame, Zenon DEF AskInv
<1>15. HandInv'
    <2>1. conns'[i] = p /\ i \in 1..Len(conns') /\ Len(answers'[p]) = a
        BY <1>0, <1>1, <1>p, Zenon
    <2> QED
        BY <1>9, <2>1, Zenon DEF HandInv
<1> QED
    BY <1>1, <1>8, <1>14, <1>15, Zenon DEF AskInv

\* The server answers.
LEMMA SendKept ==
    ASSUME None \notin Asked, AskInv, Gh!Send PROVE AskInv'
<1>1. todo # None /\ todo' = None /\ UNCHANGED <<backlog, conns, inbox, made>>
    BY Zenon DEF Gh!Send
<1>2. /\ todo \in Asked /\ todo.addr \in 1..Len(conns) /\ conns[todo.addr] = todo.from
      /\ todo.req = Len(answers[todo.from]) + 1 /\ answers \in [Peer -> Seq(Peer \X Nat)]
    BY <1>1, Zenon DEF AskInv, HandInv
<1>3. todo.from \in Peer /\ todo.req \in Nat /\ todo.addr # 0
    BY <1>2 DEF Asked
<1>p. PICK p \in Peer : p = todo.from
    BY <1>3, Zenon
<1> DEFINE a == answers[p]
           x == <<p, todo.req>>
<1>4. answers' = [answers EXCEPT ![p] = Append(a, x)]
    BY <1>2, <1>3, <1>p, Zenon DEF Gh!Send, Gh!Outgoing
<1>5. Len(a) \in Nat /\ Len(inbox[p]) \in Nat /\ PeerInv(p) /\ a \in Seq(Peer \X Nat)
    BY <1>2, <1>3, PeerNumbers, Zenon DEF AskInv
<1>6. /\ x \in Peer \X Nat /\ Append(a, x) \in Seq(Peer \X Nat) /\ Len(Append(a, x)) = Len(a) + 1
      /\ \A i \in 1..(Len(a) + 1) : Append(a, x)[i] = IF i = Len(a) + 1 THEN x ELSE a[i]
    <2>1. x \in Peer \X Nat
        BY <1>3, Zenon
    <2> HIDE DEF x, a
    <2> QED
        BY <1>5, <2>1
<1>7. /\ answers' \in [Peer -> Seq(Peer \X Nat)] /\ answers'[p] = Append(a, x)
      /\ \A q \in Peer \ {p} : answers'[q] = answers[q]
    BY <1>2, <1>3, <1>4, <1>6, Zenon
<1>8. InHand(p) = 1 /\ \A q \in Peer : InHand(q)' = 0 /\ (q # p => InHand(q) = 0)
    BY <1>1, <1>p, Zenon DEF InHand
<1>9. \A i \in 1..Len(answers'[p]) : answers'[p][i] = <<p, i>>
    <2> SUFFICES ASSUME NEW i \in 1..Len(answers'[p]) PROVE answers'[p][i] = <<p, i>>
        BY Zenon
    <2>1. i \in 1..(Len(a) + 1) /\ answers'[p][i] = IF i = Len(a) + 1 THEN x ELSE a[i]
        BY <1>6, <1>7, Zenon
    <2>2. CASE i = Len(a) + 1
        BY <1>2, <1>p, <2>1, <2>2, Zenon
    <2>3. CASE i # Len(a) + 1
        <3>1. i \in 1..Len(a)
            BY <1>5, <2>1, <2>3
        <3> QED
            BY <1>5, <2>1, <2>3, <3>1, Zenon DEF PeerInv
    <2> QED
        BY <2>2, <2>3, Zenon
<1>10. /\ From(inbox[p], Len(answers'[p]) + 0)
       /\ made[p] = Len(answers'[p]) + 0 + Len(inbox[p])
    <2>1. From(inbox[p], Len(a) + 1) /\ made[p] = Len(a) + 1 + Len(inbox[p])
        BY <1>5, <1>8, Zenon DEF PeerInv
    <2>2. Len(answers'[p]) = Len(a) + 1
        BY <1>6, <1>7, Zenon
    <2>3. Len(answers'[p]) + 0 = Len(a) + 1
        BY <1>5, <2>2
    <2> QED
        BY <2>1, <2>3, Zenon
<1> HIDE DEF a, x
<1>11. PeerInv(p)'
    BY <1>1, <1>3, <1>7, <1>8, <1>9, <1>10, Zenon DEF PeerInv
<1>12. \A q \in Peer : PeerInv(q)'
    BY <1>1, <1>7, <1>8, <1>11, PeerSame, Zenon DEF AskInv
<1>13. HandInv'
    BY <1>1, Zenon DEF HandInv
<1> QED
    BY <1>1, <1>7, <1>12, <1>13, Zenon DEF AskInv

\* Every step keeps the invariant.
LEMMA AskNext ==
    ASSUME "send" \notin Sides, None \notin Asked, AskInv, [Gh!Next]_(Gh!vars) PROVE AskInv'
<1>1. ASSUME UNCHANGED <<inbox, made, todo, answers>>, conns' \in Seq(Peer), backlog' \in Seq(Peer),
             todo = None \/ conns' = conns
      PROVE  AskInv'
    <2>1. \A p \in Peer : InHand(p)' = InHand(p)
        BY <1>1, Zenon DEF InHand
    <2>2. \A p \in Peer : PeerInv(p)'
        BY <1>1, <2>1, PeerSame, Zenon DEF AskInv
    <2> QED
        BY <1>1, <2>2, Zenon DEF AskInv, HandInv
<1>2. conns \in Seq(Peer) /\ backlog \in Seq(Peer)
    BY Zenon DEF AskInv
<1>3. ASSUME NEW s \in Sides, Gh!Spawn(s) \/ Gh!WaitUp(s) \/ Gh!Connect(s) \/ Gh!Fail(s)
      PROVE  UNCHANGED Gh!data
    BY <1>3, Zenon DEF Gh!Spawn, Gh!WaitUp, Gh!Connect, Gh!Fail
<1>4. Gh!ConnectWrap \/ UNCHANGED Gh!vars => UNCHANGED Gh!data
    BY Zenon DEF Gh!ConnectWrap, Gh!vars, Gh!data
<1>5. ASSUME UNCHANGED Gh!data PROVE AskInv'
    BY <1>1, <1>2, <1>5, Zenon DEF Gh!data
<1>6. ASSUME NEW p \in Peer, Gh!Dial(p) PROVE AskInv'
    <2>1. /\ UNCHANGED <<inbox, made, todo, answers, conns>> /\ backlog' = Append(backlog, p)
        BY <1>6, Zenon DEF Gh!Dial
    <2> QED
        BY <1>1, <1>2, <2>1, PeerSeqs, Zenon
<1>7. ASSUME NEW p \in Peer, Gh!Close(p) PROVE AskInv'
    BY <1>1, <1>2, <1>7, Zenon DEF Gh!Close
<1>8. CASE Gh!Accept
    <2>1. /\ UNCHANGED <<inbox, made, todo, answers>> /\ todo = None /\ backlog # <<>>
          /\ conns' = Append(conns, Head(backlog)) /\ backlog' = Tail(backlog)
        BY <1>8, Zenon DEF Gh!Accept
    <2> QED
        BY <1>1, <1>2, <2>1, PeerSeqs, Zenon
<1>9. ASSUME NEW i \in DOMAIN conns, Gh!RemoveConn(i) PROVE AskInv'
    <2>1. /\ UNCHANGED <<inbox, made, todo, answers, backlog>> /\ todo = None
          /\ conns' = SubSeq(conns, 1, i - 1) \o SubSeq(conns, i + 1, Len(conns))
        BY <1>9, Zenon DEF Gh!RemoveConn
    <2>2. i \in 1..Len(conns)
        BY <1>2
    <2> QED
        BY <1>1, <1>2, <2>1, <2>2, PeerSeqs, Zenon
<1> QED
    BY <1>3, <1>4, <1>5, <1>6, <1>7, <1>8, <1>9, RequestKept, RecvKept, SendKept, Zenon DEF Gh!Next

\* A server without a sending tunnel answers whoever asked, in order.
THEOREM AskersAreAnswered ==
    ASSUME None \notin Asked PROVE Gh!Spec => []Gh!AnswersReachAsker
<1>1. CASE "send" \in Sides
    <2>1. Gh!AnswersReachAsker
        BY <1>1, Zenon DEF Gh!AnswersReachAsker
    <2> QED
        BY <2>1, PTL
<1>2. CASE "send" \notin Sides
    <2>1. Gh!Init => AskInv
        <3> SUFFICES ASSUME Gh!Init PROVE AskInv
            BY Zenon
        <3>1. /\ backlog = <<>> /\ conns = <<>> /\ inbox = [p \in Peer |-> <<>>]
              /\ made = [p \in Peer |-> 0] /\ todo = None /\ answers = [p \in Peer |-> <<>>]
            BY Zenon DEF Gh!Init
        <3>2. \A p \in Peer : PeerInv(p)
            BY <3>1 DEF PeerInv, InHand, From
        <3> QED
            BY <3>1, <3>2 DEF AskInv, HandInv
    <2>2. AskInv => Gh!AnswersReachAsker
        <3> SUFFICES ASSUME AskInv, NEW p \in Peer, NEW i \in DOMAIN answers[p]
                     PROVE  answers[p][i] = <<p, i>>
            BY Zenon DEF Gh!AnswersReachAsker
        <3>1. PeerInv(p)
            BY Zenon DEF AskInv
        <3>2. i \in 1..Len(answers[p])
            BY <3>1 DEF PeerInv
        <3> QED
            BY <3>1, <3>2, Zenon DEF PeerInv
    <2>3. AskInv /\ [Gh!Next]_(Gh!vars) => AskInv'
        BY <1>2, AskNext, Zenon
    <2> QED
        BY <2>1, <2>2, <2>3, PTL DEF Gh!Spec
<1> QED
    BY <1>1, <1>2, Zenon
=============================================================================
