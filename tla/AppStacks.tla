----------------------------- MODULE AppStacks -----------------------------
(***************************************************************************)
(* Stacks for StackAlgorithms: all small ones (SmallStacks), and those     *)
(* that the applications of the repository negotiate: the log              *)
(* pipeline (elk-app-logparser), the key-value store and throughput-bench. *)
(* AppPairs are the pairs of a client and a server that meet;              *)
(* StackAlgorithms computes what becomes of them.                          *)
(*                                                                         *)
(* wrap puts a chunnel at the head of a CxList: the head of a stack is     *)
(* next to the network.  Chunnels without a capability (SerializeChunnel,  *)
(* ConnectChunnel, the TCP wrappers, LocalNameChunnel, NoOpChunnel,        *)
(* Nothing) keep their place in a stack but are not negotiated.            *)
(***************************************************************************)
EXTENDS Sequences, SequencesExt

-----------------------------------------------------------------------------
(* A family of small stacks.  Capability "a" has two implementations, "b" one, "s" is *)
(* one-sided with a universe of two.                                                  *)
NoCap == "none"
Univ == [c \in {"a", "b", "s"} |-> IF c = "s" THEN {1, 2} ELSE {}]

Leaf(c, i, avail) == [t |-> "leaf", cap |-> c, impl |-> i, avail |-> avail]
CxNil == Leaf(NoCap, "CxNil", <<>>)
A1 == Leaf("a", "A1", <<1>>)
A2 == Leaf("a", "A2", <<1>>)
B == Leaf("b", "B", <<1>>)
S1 == Leaf("s", "S1", <<1>>)
S2 == Leaf("s", "S2", <<2>>)

Select(l, r, p) == [t |-> "select", left |-> l, right |-> r, prefer |-> p]
List(h, tl) == [t |-> "list", head |-> h, tail |-> tl]

Heads ==
    {CxNil, A1, A2, B, S1, [t |-> "none"]}
        \union {Select(x, y, "left") : x \in {CxNil, A1, A2, B}, y \in {CxNil, A1, A2, S1}}
        \union {Select(A1, A2, "right"), Select(List(A1, B), List(A2, CxNil), "left")}

SmallStacks ==
    {List(h, CxNil) : h \in Heads} \union {List(h, List(x, CxNil)) : h \in Heads, x \in {B, S2}}

-----------------------------------------------------------------------------
(* What the applications' stacks are built from. *)
AppUniv == [c \in {"enc", "quic", "rel", "shard"} |-> IF c = "shard" THEN {1} ELSE {}]

\* CxList::from(s[1]).wrap(s[2])...
Wrap(s) == FoldLeft(LAMBDA acc, c : List(c, acc), CxNil, s)

\* Chunnels that have a capability.
TLSChunnel == Leaf("enc", "TLS", <<1>>)
QuicChunnel == Leaf("quic", "QUIC", <<1>>)
KvReliabilityChunnel == Leaf("rel", "Kv", <<1, 2>>)
ClientShard == Leaf("shard", "ClientShard", <<1>>)
CanonicalShard == Leaf("shard", "ShardCanonicalServer", <<1>>)
NothingShard == Leaf("shard", "Nothing", <<>>)

\* Chunnels that have none.
Plain(name) == Leaf(NoCap, name, <<>>)
SerializeChunnel == Plain("Serialize")
Nothing == Plain("Nothing")
NoneOf == [t |-> "none"]

\* Select::from prefers its left side.
SelectFrom(l, r) == Select(l, r, "left")

EncrSpec == {"AllowNone", "AutoOnly", "TlsOnly", "QuicOnly"}

-----------------------------------------------------------------------------
(* elk-app-logparser *)

ConnectTls == Wrap(<<TLSChunnel, Plain("TcpWrapClient")>>)
ConnectEither == Wrap(<<SelectFrom(QuicChunnel, ConnectTls), Plain("Connect")>>)
ConnectQuic == Wrap(<<QuicChunnel, Plain("Connect")>>)

ListenTls == Wrap(<<TLSChunnel, Plain("TcpWrapServer")>>)
ListenEither == SelectFrom(QuicChunnel, ListenTls)

ClientEncryption(spec) ==
    [AllowNone |-> SelectFrom(Nothing, ConnectEither), AutoOnly |-> ConnectEither,
     TlsOnly |-> ConnectTls, QuicOnly |-> ConnectQuic][spec]

ServerEncryption(spec) ==
    [AllowNone |-> SelectFrom(Nothing, ListenEither), AutoOnly |-> ListenEither,
     TlsOnly |-> ListenTls, QuicOnly |-> QuicChunnel][spec]

\* connect: client sharding is an alternative to encryption, and only with AllowNone.
LogClient(spec, redis) ==
    LET enc == Wrap(<<SerializeChunnel, ClientEncryption(spec)>>) IN
    IF spec = "AllowNone"
    THEN SelectFrom(Wrap(<<IF redis THEN ClientShard ELSE NoneOf, SerializeChunnel>>), enc)
    ELSE enc

\* single_worker and serve_canonical.
LogWorker(spec) == Wrap(<<SerializeChunnel, ServerEncryption(spec)>>)
LogCanonical(spec) == Wrap(<<CanonicalShard, SerializeChunnel, ServerEncryption(spec)>>)

\* connect_local and serve_local.
LocalPart(local) ==
    <<Plain("EstOutputRateSerialize")>> \o IF local THEN <<Plain("LocalName")>> ELSE <<>>
LocalClient(spec, local) == Wrap(LocalPart(local) \o <<ClientEncryption(spec)>>)
LocalServer(spec, local) == Wrap(LocalPart(local) \o <<ServerEncryption(spec)>>)

-----------------------------------------------------------------------------
(* kvstore *)

KvBelow == Wrap(<<KvReliabilityChunnel, SerializeChunnel>>)

KvNonShard == KvBelow
KvShardClient == Wrap(<<SelectFrom(ClientShard, NothingShard), KvBelow>>)

KvShard == KvBelow
KvCanonical == Wrap(<<CanonicalShard, KvReliabilityChunnel, SerializeChunnel>>)
KvLoadBalancer(opt) ==
    IF opt THEN Wrap(<<CanonicalShard, KvReliabilityChunnel>>)
    ELSE Wrap(<<CanonicalShard, KvReliabilityChunnel, SerializeChunnel>>)

-----------------------------------------------------------------------------
(* throughput-bench *)

NoOps(depth) ==
    IF depth = 0 THEN Nothing
    ELSE IF depth = 1 THEN Plain("NoOp0")
    ELSE Wrap([i \in 1..depth |-> Plain(<<"NoOp0", "NoOp1", "NoOp2", "NoOp3", "NoOp4">>[i])])

-----------------------------------------------------------------------------
LogPairs ==
    {<<LogClient(c, r), s>> : c \in EncrSpec, r \in BOOLEAN,
                              s \in {LogWorker(e) : e \in EncrSpec}
                                        \union {LogCanonical(e) : e \in EncrSpec}}

LocalPairs ==
    {<<LocalClient(c, l), LocalServer(s, m)>> : c \in EncrSpec, s \in EncrSpec,
                                                l \in BOOLEAN, m \in BOOLEAN}

KvPairs ==
    {KvNonShard, KvShardClient}
        \X ({KvShard, KvCanonical} \union {KvLoadBalancer(o) : o \in BOOLEAN})

BenchPairs == {<<NoOps(c), NoOps(s)>> : c \in 0..5, s \in 0..5}

AppPairs == LogPairs \union LocalPairs \union KvPairs \union BenchPairs
=============================================================================
