----------------------------- MODULE MCChunnels -----------------------------
(***************************************************************************)
(* The components that do not interact, for TLC.  One run checks them side *)
(* by side: Init chooses one, which then takes all steps, so that the state *)
(* space is the sum of theirs.  The variables of the one chosen are the slots *)
(* s1, s2, ... in the order of its `vars`; the others are absent.          *)
(***************************************************************************)
EXTENDS Integers, Sequences, FiniteSets, AppStacks

CONSTANTS
    p1, t1, t2, k1, k2, NoVal

VARIABLES which,
          s1, s2, s3, s4, s5, s6, s7, s8, s9, s10, s11, s12, s13, s14, s15, s16, s17, s18,
          s19, s20, s21, s22, s23

slots ==
    <<s1, s2, s3, s4, s5, s6, s7, s8, s9, s10, s11, s12, s13, s14, s15, s16, s17, s18, s19,
      s20, s21, s22, s23>>

Ordered == INSTANCE OrderedChunnel WITH
    Peer <- {p1}, Task <- {t1, t2}, MaxSeq <- 3, Slots <- 2, Copies <- 2, HoleThresh <- 1,
    NoThresh <- NoVal, snd_nxt <- s1, net <- s2, made <- s3, expected_recv <- s4,
    recvd <- s5, returned <- s6, pc <- s7, batch <- s8, slot_idx <- s9

Amo == INSTANCE AtMostOnce WITH
    MaxSeq <- 2, MaxTime <- 7, Sunset <- 2, Slots <- 2, CoarseClock <- FALSE,
    next_seq <- s1, net <- s2, now <- s3, last_update <- s4, deliver_times <- s5,
    delivered <- s6, batch <- s7, last <- s8

Kv == INSTANCE KvClient WITH
    None <- NoVal, Req <- {k1, k2}, Puts <- {k1}, MaxSend <- 2, Cap <- 1, Slots <- 2,
    MayDrop <- {k2}, pc <- s1, n_sent <- s2, reqs <- s3, rsps <- s4, store <- s5,
    sends <- s6, done_tx <- s7, got <- s8, recvs <- s9, inflight <- s10, sent <- s11,
    answer <- s12, panicked <- s13

OneRtt == INSTANCE Handshake WITH
    Client <- {k1, k2}, ZeroRtt <- {}, Compatible <- {k1}, StaleNonce <- {}, Proxied <- {},
    MaxSend <- 2, MaxData <- 1, Lossy <- TRUE, Faults <- {"send", "wrap"}, cl <- s1,
    n_offer <- s2, n_data <- s3, success <- s4, c2s <- s5, s2c <- s6, srv <- s7,
    pending <- s8, app_rx <- s9, cl_rx <- s10, broken <- s11

ZeroRtt == INSTANCE Handshake WITH
    Client <- {k1, k2}, ZeroRtt <- {k1}, Compatible <- {}, StaleNonce <- {k1} \X {1, 2},
    Proxied <- {k2}, MaxSend <- 3, MaxData <- 2, Lossy <- TRUE,
    Faults <- {"send", "wrap"}, cl <- s1, n_offer <- s2, n_data <- s3, success <- s4, c2s <- s5,
    s2c <- s6, srv <- s7, pending <- s8, app_rx <- s9, cl_rx <- s10, broken <- s11

Accept == INSTANCE AcceptLoop WITH
    Addr <- {k1, k2}, MaxMsg <- 3, Need <- [x \in {k1, k2} |-> IF x = k1 THEN 2 ELSE 1],
    MayDrop <- {k2}, sent <- s1, sk <- s2, known <- s3, live <- s4, chan <- s5, fut <- s6,
    used <- s7, rx <- s8, lost <- s9, pc <- s10, wk <- s11, notified <- s12

Split == INSTANCE Split WITH
    Receiver <- {t1, t2}, MaxMsg <- 3, Cap <- 1, Slots <- (t1 :> 1 @@ t2 :> 2),
    MayCancel <- TRUE, MayFail <- TRUE,
    starter <- s1, down <- s2, up <- s3, n_sent <- s4, out <- s5, n_in <- s6, inc <- s7,
    held <- s8, pc <- s9, idx <- s10, got <- s11

Upgrade == INSTANCE UpgradeConn WITH
    None <- NoVal, Caller <- {t1, t2}, Nonce <- 0..2, Bad <- {2}, MaxMsg <- 2,
    MayCancel <- TRUE, nonce <- s1, unseen <- s2, curr_nonce <- s3, in_progress <- s4,
    queued <- s5, current <- s6, changed <- s7, sl <- s8, cl <- s9, pc <- s10, msgs <- s11,
    n_msgs <- s12

Alg == INSTANCE StackAlgorithms WITH
    NoCap <- NoCap, Univ <- Univ, Pairs <- SmallStacks \X SmallStacks, cstack <- s1,
    sstack <- s2, phase <- s3, picked <- s4, nonce <- s5, reply <- s6

ChanT == INSTANCE ChanTransport WITH
    Client <- {k1, k2}, MaxListen <- 2, MaxMsg <- 2, Size <- 2, Slots <- 1, current <- s1,
    listeners <- s2, offered <- s3, pc <- s4, at <- s5, accepted <- s6, chan <- s7,
    n_sent <- s8, held <- s9, got <- s10

Inject == INSTANCE InjectWithChannel WITH
    Caller <- {t1}, MaxMsg <- 3, MayCancel <- TRUE, oneshot <- s1, flag <- s2, inner <- s3,
    n_in <- s4, pc <- s5, got <- s6, panicked <- s7

LocalN == INSTANCE LocalName WITH
    Addr <- {k1, k2}, MaxPath <- 2, MaxQuery <- 2, table <- s1, n_path <- s2,
    listening <- s3, ctl <- s4, cache <- s5, rev <- s6, queue <- s7,
    outcome <- s8

Shen == INSTANCE ShenangoKv WITH
    Req <- {k1, k2}, MaxSend <- 2, None <- NoVal, pc <- s1, n_sent <- s2, reqs <- s3,
    rsps <- s4, sends <- s5, snd <- s6, recvs <- s7, rt <- s8, r_hold <- s9, mt <- s10,
    m_hold <- s11, inflight <- s12, got <- s13

Shard == INSTANCE Sharding WITH
    Client <- {k1, k2}, Direct <- {k2}, Key <- {<<1, 1, 1, 1>>, <<1, 1, 2, 1>>, <<1>>},
    Raw <- FALSE, OFFSET <- 0, MayFail <- TRUE, IdleExit <- TRUE, MaxReq <- 2, redis <- s1,
    srv <- s2, todo <- s3, failed <- s4, known <- s5, plan <- s6, sent <- s7, inbox <- s8,
    direct <- s9, fwd <- s10, served <- s11, answered <- s12

Swap == INSTANCE DatapathSwap WITH
    Thread <- {k1, k2, p1}, Trig <- k1, Obj <- 1..3, Owner <- <<k1, k2, p1>>,
    Streams <- {}, MaxSwap <- 2, MayFail <- TRUE, flag <- s1, waiting <- s2, pc <- s3,
    obj <- s4, gen <- s5, up <- s6, dp <- s7, chan <- s8, todo <- s9, parked <- s10

Lock == INSTANCE DatapathLock WITH
    Conn <- {k1, k2}, MultiThread <- TRUE, MaxSwap <- 1, MayFail <- TRUE, rd <- s1, wr <- s2,
    preempt <- s3, sent <- s4, trig <- s5, gen <- s6, up <- s7, dp <- s8, snd <- s9

Inline == INSTANCE DpdkInline WITH
    Remote <- {k1, k2}, Server <- p1, None <- NoVal, LocalPort <- 1, Ephemeral <- {1, 2},
    Burst <- 2, Cap <- 3, ClosedCap <- 4, MaxPkt <- 3, MaxConnect <- 1, kind <- s1,
    nic <- s2, stash <- s3, conns <- s4, newq <- s5, closedq <- s6, conn_count <- s7,
    pool <- s8, stuck <- s9, stream_err <- s10, n_pkt <- s11, n_connect <- s12,
    last <- s13, delivery <- s14

Steer == INSTANCE DpdkThreads WITH
    Thread <- {1, 2}, Ephemeral <- {1, 2}, LocalPort <- {2, 3}, NumQueues <- 2,
    Mlx <- TRUE, MaxOps <- 4, mempools <- s1, dpdk_state <- s2, ephemeral_ports <- s3,
    objs <- s4, queues <- s5, rule <- s6, shutdown <- s7, n_ops <- s8

Iok == INSTANCE IoKernel WITH
    Caller <- {1, 2}, MaxStart <- 3, lock <- s1, handle <- s2, kernel <- s3,
    stopping <- s4, pc <- s5, mine <- s6, n_start <- s7

Tcp == INSTANCE TcpCn WITH
    Hdr <- 2, Size <- <<1, 2, 1>>, MaxSize <- 2, Cap <- 4, Slots <- 1, MayCut <- FALSE,
    msg <- s1, wrote <- s2, closed <- s3, stream <- s4, ready <- s5, pc <- s6, hdr <- s7,
    body <- s8, expect <- s9, slots <- s10, got <- s11

TcpBurst == INSTANCE TcpCn WITH
    Hdr <- 1, Size <- <<1, 2, 1>>, MaxSize <- 2, Cap <- 4, Slots <- 2, MayCut <- TRUE,
    msg <- s1, wrote <- s2, closed <- s3, stream <- s4, ready <- s5, pc <- s6, hdr <- s7,
    body <- s8, expect <- s9, slots <- s10, got <- s11

TcpW == INSTANCE TcpWrap WITH
    Peer <- {k1, k2, p1}, Mismatched <- {p1}, Overlap <- TRUE, MayFail <- TRUE,
    client <- s1, wrap <- s2, backlog <- s3, cached_conns <- s4, holder <- s5, waiters <- s6

Sqs == INSTANCE SqsQueue WITH
    Task <- {t1, t2}, Dest <- <<k1, k1, k2, k1>>, Body <- <<1, 2, 3, 2>>, Batch <- 2,
    Slots <- (t1 :> 1 @@ t2 :> 2), Fifo <- TRUE, MayFail <- TRUE, MayCancel <- TRUE,
    None <- NoVal, rest <- s1, pend <- s2, sending <- s3, ctr <- s4, dedup <- s5, queue <- s6,
    out <- s7, fut <- s8, lock <- s9, pc <- s10, held <- s11, sent <- s12, returned <- s13,
    gone <- s14

Pub == INSTANCE PubSub WITH
    Task <- {t1, t2}, Dest <- <<k1, k2>>, Group <- <<1, 1>>, MayMiss <- {k2}, Slots <- 2,
    MaxOut <- 2, MayFail <- TRUE, MayCancel <- TRUE, None <- NoVal, spc <- s1,
    missing <- s2, topics <- s3, todo <- s4, batches <- s5, backlog <- s6, handed <- s7,
    pc <- s8, got <- s9, cache <- s10, lock <- s11, acked <- s12, returned <- s13

Kaf == INSTANCE Kafka WITH
    Task <- {t1}, Group <- <<k1, NoVal, k1, k2>>, Partition <- 1..2,
    PartOf <- [g \in {k1, k2} |-> IF g = k1 THEN 1 ELSE 2], Cap <- 2, Slots <- 2,
    Reuse <- FALSE, MayFail <- TRUE, MayRebalance <- TRUE, None <- NoVal, todo <- s1,
    spc <- s2, inflight <- s3, undelivered <- s4, log <- s5, pos <- s6, slots <- s7,
    rebalanced <- s8, returned <- s9

Quic == INSTANCE QuicConn WITH
    Script <- [client |-> <<<<"send", "send">>, <<"recv", "recv">>>>,
        server |-> <<<<"send">>, <<"recv">>>>],
    Burst <- 3, Cap <- 2, Slots <- 2, pc <- s1, calls <- s2, lock <- s3, left <- s4,
    flights <- s5, out <- s6, dgrams <- s7, wire <- s8, inbox <- s9, made <- s10,
    dropped <- s11, got <- s12

ShenSk == INSTANCE ShenangoSk WITH
    Caller <- {t1, t2}, Remote <- {k1, k2}, MaxMsg <- 2, MaxConn <- 3, Cap <- 2,
    Slots <- 2, MayDrop <- TRUE, MayClose <- TRUE, None <- NoVal, runtime <- s1,
    asks <- s2, sent <- s3, wire <- s4, remotes <- s5, chan <- s6, conns <- s7,
    stream <- s8, pc <- s9, hand <- s10, got <- s11, lost <- s12

Tls == INSTANCE TlsConn WITH
    Script <- [client |-> <<<<"send", "send">>, <<"recv", "recv">>>>, server |-> <<<<"recv",
        "send", "recv", "send">>>>],
    Burst <- 2, Slots <- 2, pc <- s1, calls <- s2, lock <- s3, flights <- s4, out <- s5,
    plain <- s6, wire <- s7, made <- s8, got <- s9, failed <- s10

Ghost == INSTANCE GhostTunnel WITH
    Sides <- {"listen"}, Peer <- {k1, k2}, MaxReq <- 2, MayFail <- {"listen"},
    MayClose <- {k1}, None <- NoVal, tunnel <- s1, process <- s2, cn <- s3, backlog <- s4,
    conns <- s5, state <- s6, inbox <- s7, made <- s8, todo <- s9, answers <- s10

GhostBoth == INSTANCE GhostTunnel WITH
    Sides <- {"listen", "send"}, Peer <- {k1, k2}, MaxReq <- 1,
    MayFail <- {"listen", "send"}, MayClose <- {k1}, None <- NoVal, tunnel <- s1,
    process <- s2, cn <- s3, backlog <- s4, conns <- s5, state <- s6, inbox <- s7,
    made <- s8, todo <- s9, answers <- s10

Data == INSTANCE DataStack WITH
    Task <- {t1, t2},
    Stacks <- {<<"udp">>, <<"unix">>, <<"steered">>, <<"unix", "project">>, <<"udp",
        "bincode">>, <<"udp", "bincode", "left">>, <<"steered", "bincode", "right",
        "base64">>},
    Kinds <- {"good", "unnamed", "unserializable", "nobincode", "nobase64", "left", "right"},
    Size <- <<2, 1, 2, 1>>, Slots <- 3, Burst <- 2, None <- NoVal, stack <- s1, kind <- s2,
    pending <- s3, next <- s4, sk <- s5, buf <- s6, returned <- s7, came <- s8,
    failed <- s9

Apps == INSTANCE StackAlgorithms WITH
    NoCap <- NoCap, Univ <- AppUniv, Pairs <- AppPairs, cstack <- s1, sstack <- s2,
    phase <- s3, picked <- s4, nonce <- s5, reply <- s6

Ingest == INSTANCE LogIngest WITH
    Limit <- 5, Burst <- 2, Slots <- 2, Thresh <- 2, MaxBytes <- 4, Size <- <<1, 2, 4>>,
    NoIp <- {2}, Lossy <- TRUE, MayFail <- TRUE, None <- NoVal, rem <- s1, made <- s2,
    waiting <- s3, net <- s4, back <- s5, worker <- s6, received <- s7, to_process <- s8,
    processing <- s9, acks <- s10, acked <- s11, published <- s12

Parser == INSTANCE LogParser WITH
    Line <- <<[group |-> <<1>>, ts |-> 1, kind |-> "ok"], [group |-> <<1>>, ts |-> 3,
        kind |-> "ok"], [group |-> <<1, 2>>, ts |-> 1, kind |-> "ok"], [group |-> <<1>>,
        ts |-> 2, kind |-> "ok"], [group |-> <<1, 2>>, ts |-> 2, kind |-> "bad"],
        [group |-> <<1, 2>>, ts |-> 3, kind |-> "ok"], [group |-> <<1>>, ts |-> 4,
        kind |-> "mismatch"], [group |-> <<1>>, ts |-> 5, kind |-> "ok"], [group |-> <<1,
        2>>, ts |-> 6, kind |-> "ok"]>>,
    Slots <- 2, MaxSlots <- 4, Lossy <- TRUE, None <- NoVal, next <- s1, buf <- s2,
    rates <- s3, tot <- s4, timer <- s5, wire <- s6, lost <- s7, observed <- s8,
    handled <- s9, recorded <- s10, panicked <- s11

Manager == INSTANCE ConnManager WITH
    KafkaOffered <- TRUE, MaxNp <- 3, MaxEvents <- 3, MayFail <- TRUE, Remote <- TRUE,
    stack <- s1, pending <- s2, current <- s3, changed <- s4, polled <- s5, watcher <- s6,
    np <- s7, np_new <- s8, trans <- s9, want <- s10, monitor <- s11, ids <- s12,
    events <- s13, panicked <- s14, missed <- s15, replaced <- s16, skipped <- s17

Bulk == INSTANCE Transfer WITH
    Paths <- {"chunnel", "plain", "dpdk", "shenango", "shenangort", "tcp"},
    NumClients <- 2, Threads <- 1, Size <- 3, Pkt <- 2, Burst <- 2, MaxRetx <- 1,
    MaxLost <- 1, MayFail <- TRUE, Spaced <- TRUE, path <- s1, cpc <- s2, got <- s3,
    pkts <- s4, retx <- s5, gave_up <- s6, up <- s7, down <- s8, spc <- s9,
    remaining <- s10, lost <- s11, lost_fin <- s12, active <- s13, wg <- s14, report <- s15

KvService == INSTANCE ShenangoShard WITH
    Client <- {k1}, ShardId <- {1, 2},
    Kinds <- {"shard", "unfit", "zero", "stale", "fiat"}, MaxTries <- 2, MaxSend <- 2,
    MaxReq <- 2, MaxLost <- 1, MayFail <- TRUE, None <- NoVal, kind <- s1, cl <- s2,
    tries <- s3, waiting <- s4, success <- s5, n_sent <- s6, req <- s7, dest <- s8,
    answered <- s9, up <- s10, down <- s11, data <- s12, srv <- s13, dialing <- s14,
    wg <- s15, nonces <- s16, failed <- s17, known <- s18, conn <- s19, injected <- s20,
    served <- s21, dropped <- s22, lost <- s23

SwapStream == INSTANCE DatapathSwap WITH
    Thread <- {k1, k2}, Trig <- k1, Obj <- 1..3, Owner <- <<k1, k2, k2>>, Streams <- {3},
    MaxSwap <- 2, MayFail <- TRUE, flag <- s1, waiting <- s2, pc <- s3, obj <- s4, gen <- s5,
    up <- s6, dp <- s7, chan <- s8, todo <- s9, parked <- s10

\* The slots from the k-th on, which a component with fewer variables does not use.
Rest18 == <<s18, s19, s20, s21, s22, s23>>
Rest16 == <<s16, s17, Rest18>>
Rest15 == <<s15, Rest16>>
Rest14 == <<s14, Rest15>>
Rest13 == <<s13, Rest14>>
Rest12 == <<s12, Rest13>>
Rest11 == <<s11, Rest12>>
Rest10 == <<s10, Rest11>>
Rest9 == <<s9, Rest10>>
Rest8 == <<s8, Rest9>>
Rest7 == <<s7, Rest8>>
Absent18 == s18 = 0 /\ s19 = 0 /\ s20 = 0 /\ s21 = 0 /\ s22 = 0 /\ s23 = 0
Absent16 == s16 = 0 /\ s17 = 0 /\ Absent18
Absent15 == s15 = 0 /\ Absent16
Absent14 == s14 = 0 /\ Absent15
Absent13 == s13 = 0 /\ Absent14
Absent12 == s12 = 0 /\ Absent13
Absent11 == s11 = 0 /\ Absent12
Absent10 == s10 = 0 /\ Absent11
Absent9 == s9 = 0 /\ Absent10
Absent8 == s8 = 0 /\ Absent9
Absent7 == s7 = 0 /\ Absent8

Init ==
    \/ /\ which = "ordered" /\ Ordered!Init /\ Absent10
    \/ /\ which = "atmostonce" /\ Amo!Init /\ Absent9
    \/ /\ which = "kvclient" /\ Kv!Init /\ Absent14
    \/ /\ which = "onertt" /\ OneRtt!Init /\ Absent12
    \/ /\ which = "zerortt" /\ ZeroRtt!Init /\ Absent12
    \/ /\ which = "accept" /\ Accept!Init /\ Absent13
    \/ /\ which = "split" /\ Split!Init /\ Absent12
    \/ /\ which = "upgrade" /\ Upgrade!Init /\ Absent13
    \/ /\ which = "stacks" /\ Alg!Init /\ Absent7
    \/ /\ which = "chan" /\ ChanT!Init /\ Absent11
    \/ /\ which = "inject" /\ Inject!Init /\ Absent8
    \/ /\ which = "localname" /\ LocalN!Init /\ Absent9
    \/ /\ which = "shenango" /\ Shen!Init /\ Absent14
    \/ /\ which = "sharding" /\ Shard!Init /\ Absent13
    \/ /\ which = "swap" /\ Swap!Init /\ Absent11
    \/ /\ which = "lock" /\ Lock!Init /\ Absent10
    \/ /\ which = "inline" /\ Inline!Init /\ Absent15
    \/ /\ which = "steering" /\ Steer!Init /\ Absent9
    \/ /\ which = "iokernel" /\ Iok!Init /\ Absent8
    \/ /\ which = "tcp" /\ Tcp!Init /\ Absent12
    \/ /\ which = "tcpburst" /\ TcpBurst!Init /\ Absent12
    \/ /\ which = "tcpwrap" /\ TcpW!Init /\ Absent7
    \/ /\ which = "sqs" /\ Sqs!Init /\ Absent15
    \/ /\ which = "pubsub" /\ Pub!Init /\ Absent14
    \/ /\ which = "kafka" /\ Kaf!Init /\ Absent10
    \/ /\ which = "quic" /\ Quic!Init /\ Absent13
    \/ /\ which = "shensk" /\ ShenSk!Init /\ Absent13
    \/ /\ which = "tls" /\ Tls!Init /\ Absent11
    \/ /\ which = "ghost" /\ Ghost!Init /\ Absent11
    \/ /\ which = "ghostboth" /\ GhostBoth!Init /\ Absent11
    \/ /\ which = "datastack" /\ Data!Init /\ Absent10
    \/ /\ which = "apps" /\ Apps!Init /\ Absent7
    \/ /\ which = "ingest" /\ Ingest!Init /\ Absent13
    \/ /\ which = "parser" /\ Parser!Init /\ Absent12
    \/ /\ which = "manager" /\ Manager!Init /\ Absent18
    \/ /\ which = "transfer" /\ Bulk!Init /\ Absent16
    \/ /\ which = "shenshard" /\ KvService!Init
    \/ /\ which = "swapstream" /\ SwapStream!Init /\ Absent11

OrderedNext ==
    /\ which = "ordered" /\ Ordered!Next
    /\ UNCHANGED <<which, Rest10>>
AmoNext ==
    /\ which = "atmostonce" /\ Amo!Next
    /\ UNCHANGED <<which, Rest9>>
KvNext ==
    /\ which = "kvclient" /\ Kv!Next
    /\ UNCHANGED <<which, Rest14>>
OneRttNext ==
    /\ which = "onertt" /\ OneRtt!Next
    /\ UNCHANGED <<which, Rest12>>
ZeroRttNext ==
    /\ which = "zerortt" /\ ZeroRtt!Next
    /\ UNCHANGED <<which, Rest12>>
AcceptNext ==
    /\ which = "accept" /\ Accept!Next
    /\ UNCHANGED <<which, Rest13>>
SplitNext ==
    /\ which = "split" /\ Split!Next
    /\ UNCHANGED <<which, Rest12>>
UpgradeNext ==
    /\ which = "upgrade" /\ Upgrade!Next
    /\ UNCHANGED <<which, Rest13>>
AlgNext ==
    /\ which = "stacks" /\ Alg!Next
    /\ UNCHANGED <<which, Rest7>>
ChanTNext ==
    /\ which = "chan" /\ ChanT!Next
    /\ UNCHANGED <<which, Rest11>>
InjectNext ==
    /\ which = "inject" /\ Inject!Next
    /\ UNCHANGED <<which, Rest8>>
LocalNNext ==
    /\ which = "localname" /\ LocalN!Next
    /\ UNCHANGED <<which, Rest9>>
ShenNext ==
    /\ which = "shenango" /\ Shen!Next
    /\ UNCHANGED <<which, Rest14>>
ShardNext ==
    /\ which = "sharding" /\ Shard!Next
    /\ UNCHANGED <<which, Rest13>>
SwapNext ==
    /\ which = "swap" /\ Swap!Next
    /\ UNCHANGED <<which, Rest11>>
LockNext ==
    /\ which = "lock" /\ Lock!Next
    /\ UNCHANGED <<which, Rest10>>
InlineNext ==
    /\ which = "inline" /\ Inline!Next
    /\ UNCHANGED <<which, Rest15>>
SteerNext ==
    /\ which = "steering" /\ Steer!Next
    /\ UNCHANGED <<which, Rest9>>
IokNext ==
    /\ which = "iokernel" /\ Iok!Next
    /\ UNCHANGED <<which, Rest8>>
TcpNext ==
    /\ which = "tcp" /\ Tcp!Next
    /\ UNCHANGED <<which, Rest12>>
TcpBurstNext ==
    /\ which = "tcpburst" /\ TcpBurst!Next
    /\ UNCHANGED <<which, Rest12>>
TcpWNext ==
    /\ which = "tcpwrap" /\ TcpW!Next
    /\ UNCHANGED <<which, Rest7>>
SqsNext ==
    /\ which = "sqs" /\ Sqs!Next
    /\ UNCHANGED <<which, Rest15>>
PubNext ==
    /\ which = "pubsub" /\ Pub!Next
    /\ UNCHANGED <<which, Rest14>>
KafNext ==
    /\ which = "kafka" /\ Kaf!Next
    /\ UNCHANGED <<which, Rest10>>
QuicNext ==
    /\ which = "quic" /\ Quic!Next
    /\ UNCHANGED <<which, Rest13>>
ShenSkNext ==
    /\ which = "shensk" /\ ShenSk!Next
    /\ UNCHANGED <<which, Rest13>>
TlsNext ==
    /\ which = "tls" /\ Tls!Next
    /\ UNCHANGED <<which, Rest11>>
GhostNext ==
    /\ which = "ghost" /\ Ghost!Next
    /\ UNCHANGED <<which, Rest11>>
GhostBothNext ==
    /\ which = "ghostboth" /\ GhostBoth!Next
    /\ UNCHANGED <<which, Rest11>>
DataNext ==
    /\ which = "datastack" /\ Data!Next
    /\ UNCHANGED <<which, Rest10>>
AppsNext ==
    /\ which = "apps" /\ Apps!Next
    /\ UNCHANGED <<which, Rest7>>
IngestNext ==
    /\ which = "ingest" /\ Ingest!Next
    /\ UNCHANGED <<which, Rest13>>
ParserNext ==
    /\ which = "parser" /\ Parser!Next
    /\ UNCHANGED <<which, Rest12>>
ManagerNext ==
    /\ which = "manager" /\ Manager!Next
    /\ UNCHANGED <<which, Rest18>>
BulkNext ==
    /\ which = "transfer" /\ Bulk!Next
    /\ UNCHANGED <<which, Rest16>>
KvServiceNext ==
    /\ which = "shenshard" /\ KvService!Next
    /\ UNCHANGED <<which>>
SwapStreamNext ==
    /\ which = "swapstream" /\ SwapStream!Next
    /\ UNCHANGED <<which, Rest11>>

Next ==
    \/ OrderedNext
    \/ AmoNext
    \/ KvNext
    \/ OneRttNext
    \/ ZeroRttNext
    \/ AcceptNext
    \/ SplitNext
    \/ UpgradeNext
    \/ AlgNext
    \/ ChanTNext
    \/ InjectNext
    \/ LocalNNext
    \/ ShenNext
    \/ ShardNext
    \/ SwapNext
    \/ LockNext
    \/ InlineNext
    \/ SteerNext
    \/ IokNext
    \/ TcpNext
    \/ TcpBurstNext
    \/ TcpWNext
    \/ SqsNext
    \/ PubNext
    \/ KafNext
    \/ QuicNext
    \/ ShenSkNext
    \/ TlsNext
    \/ GhostNext
    \/ GhostBothNext
    \/ DataNext
    \/ AppsNext
    \/ IngestNext
    \/ ParserNext
    \/ ManagerNext
    \/ BulkNext
    \/ KvServiceNext
    \/ SwapStreamNext

Spec == Init /\ [][Next]_<<which, slots>>

\* Every component's state is well formed.
TypeOK ==
    /\ which = "ordered" => Ordered!TypeOK
    /\ which = "atmostonce" => Amo!TypeOK
    /\ which = "kvclient" => Kv!TypeOK
    /\ which = "onertt" => OneRtt!TypeOK
    /\ which = "zerortt" => ZeroRtt!TypeOK
    /\ which = "accept" => Accept!TypeOK
    /\ which = "split" => Split!TypeOK
    /\ which = "upgrade" => Upgrade!TypeOK
    /\ which = "stacks" => Alg!TypeOK
    /\ which = "chan" => ChanT!TypeOK
    /\ which = "inject" => Inject!TypeOK
    /\ which = "localname" => LocalN!TypeOK
    /\ which = "shenango" => Shen!TypeOK
    /\ which = "sharding" => Shard!TypeOK
    /\ which = "swap" => Swap!TypeOK
    /\ which = "lock" => Lock!TypeOK
    /\ which = "inline" => Inline!TypeOK
    /\ which = "steering" => Steer!TypeOK
    /\ which = "iokernel" => Iok!TypeOK
    /\ which = "tcp" => Tcp!TypeOK
    /\ which = "tcpburst" => TcpBurst!TypeOK
    /\ which = "tcpwrap" => TcpW!TypeOK
    /\ which = "sqs" => Sqs!TypeOK
    /\ which = "pubsub" => Pub!TypeOK
    /\ which = "kafka" => Kaf!TypeOK
    /\ which = "quic" => Quic!TypeOK
    /\ which = "shensk" => ShenSk!TypeOK
    /\ which = "tls" => Tls!TypeOK
    /\ which = "ghost" => Ghost!TypeOK
    /\ which = "ghostboth" => GhostBoth!TypeOK
    /\ which = "datastack" => Data!TypeOK
    /\ which = "apps" => Apps!TypeOK
    /\ which = "ingest" => Ingest!TypeOK
    /\ which = "parser" => Parser!TypeOK
    /\ which = "manager" => Manager!TypeOK
    /\ which = "transfer" => Bulk!TypeOK
    /\ which = "shenshard" => KvService!TypeOK
    /\ which = "swapstream" => SwapStream!TypeOK

\* Whoever promises order keeps it: what a peer sent is passed on in the order it was sent, with
\* nothing twice and only those gaps that the component says it makes.
DeliveredInOrder ==
    \* OrderedChunnel: segments are returned in order, skipping only over the threshold.
    /\ which = "ordered" => Ordered!InOrder
    \* AddrSteer: a peer's datagrams reach its connections in order, none twice.
    /\ which = "accept" => Accept!SteeredInOrder
    \* Split: what was accepted for sending is passed down, in order.
    /\ which = "split" => Split!SentInOrder
    \* Split: what the peer sent is passed up, in order.
    /\ which = "split" => Split!ReceivedInOrder
    \* TcpCn: a recv into one slot returns the messages as they were sent.
    /\ which = "tcp" => Tcp!Framed
    \* TcpCn: with headers that arrive whole, so does a recv into several slots.
    /\ which = "tcpburst" => TcpBurst!Framed
    \* OrderedSqsChunnel: the messages of a FIFO queue are returned in order.
    /\ which = "sqs" => Sqs!FifoReturns
    \* KafkaConn: the messages of a group are returned in order until the consumer is assigned
    \* anew.
    /\ which = "kafka" => Kaf!GroupsInOrder
    \* QuicConn: datagrams arrive once and in order, except those that found the queue full.
    /\ which = "quic" => Quic!DatagramsKept
    \* ShenangoUdpReqChunnel: a remote's datagrams are returned in order and once.
    /\ which = "shensk" => ShenSk!RemoteInOrder
    \* TLSConnection: messages are returned whole and in order if the server does not send
    \* first.
    /\ which = "tls" => Tls!MessagesWhole
    \* UdpSk, UnixSk and the chunnels without state: messages are returned whole, once and in
    \* order.
    /\ which = "datastack" => Data!ReturnedWhole
    \* serve_one_cn: lines are published once and in the order of their arrival.
    /\ which = "ingest" => Ingest!LinesInOrder
    \* logparser: lines are handled in order, and none stays in the buffer.
    /\ which = "parser" => Parser!BufferEmptied

\* What a component has taken is held somewhere until it is passed on, whatever is cancelled, and
\* whoever ends has all that it asked for.
NothingLost ==
    \* AddrSteer: a datagram is lost only in the channel of a connection that is dropped.
    /\ which = "accept" => Accept!NoDatagramVanishes
    \* ChanChunnel: nothing sent is lost, repeated or invented.
    /\ which = "chan" => ChanT!NothingLost
    \* InjectWithChannel: the datagram that was put back is returned once.
    /\ which = "inject" => Inject!InjectedOnce
    \* TcpChunnelWrapServer: an accepted connection goes to the wrap of its peer or is cached.
    /\ which = "tcpwrap" => TcpW!ConnectionKept
    \* SqsChunnel: a message that a queue accepted is in the queue, in a call's hands or
    \* returned, unless a call that had deleted it was dropped, failed or had too few slots, or
    \* a FIFO queue took it for a repetition.
    /\ which = "sqs" => Sqs!SentIsKept
    \* PubSubConn: an acknowledged message is cached or returned, whatever is cancelled.
    /\ which = "pubsub" => Pub!AckedIsKept
    \* KafkaConn: a send that returned Ok has delivered every message.
    /\ which = "kafka" => Kaf!OkMeansDelivered
    \* ShenangoUdpReqChunnel: a datagram is lost only in the channel of a connection that is
    \* dropped.
    /\ which = "shensk" => ShenSk!DatagramKept
    \* The same: a message is lost only with the burst of one that a layer refuses.
    /\ which = "datastack" => Data!LostOnlyWithRefused
    \* throughput-bench: a client that ends has counted all that it asked for, if nothing was
    \* lost.
    /\ which = "transfer" => Bulk!WholeDownload
    \* shenango-bertha: what a shard takes from the network is executed, the datagram that
    \* started the connection too.
    /\ which = "shenshard" => KvService!TakenIsServed

\* A response or acknowledgement is there for the request that it answers, and is made once,
\* whichever task, thread or stream takes it off the connection.
AnswersKept ==
    \* KvReliability: a request that was told of its response finds it in the channel.
    /\ which = "kvclient" => Kv!ToldMeansQueued
    \* KvReliability of shenango-bertha: a response taken by any thread is not lost to its
    \* request.
    /\ which = "shenango" => Shen!AnswerNotLost
    \* TlsConn over ghostunnel: a response goes to the stream of its request.
    /\ which = "ghost" => Ghost!AnswersReachAsker
    \* serve_one_cn: a line is acknowledged once, at once or when the batch in hand is done.
    /\ which = "ingest" => Ingest!OneAckPerLine
    \* logparser and consumer: a client's samples are counted once, and as that client's.
    /\ which = "parser" => Parser!SamplesCounted
    \* throughput-bench: a server ends when its client has the fin or has it coming, or has
    \* repeated its request.
    /\ which = "transfer" => Bulk!FinHeard
    \* shenango-bertha: a client waits in vain for its reply only if it was lost or an abandoned
    \* thread took it.
    /\ which = "shenshard" => KvService!WaitsForReply

\* A replacement of a connection's lower half, or the newest request for one, is never missed.
UpdatesKept ==
    \* UpgradeEitherConn: no cancellation and no interleaving drops an upgrade that was begun.
    /\ which = "upgrade" => Upgrade!UpgradeNotForgotten
    \* UpgradeEitherConn: the newest nonce is in use, being put in use, or will be noticed.
    /\ which = "upgrade" => Upgrade!NothingMissed
    \* DpdkReqDatapath without locks, a connection per thread: none misses the replacement of
    \* its datapath.
    /\ which = "swap" => Swap!NoUpdateLost
    \* conn_negotiation_manager: as long as no transition that waited was dropped for a newer
    \* one, what is under way was asked for last, for the number of participants seen last.
    /\ which = "manager" => Manager!NewestAsked
    \* switcher_lockfree: a thread with a connection and a stream gets the updates of both.
    /\ which = "swapstream" => SwapStream!NoUpdateLost

\* The expects, unwraps and unreachables that the code relies on fail only for the cause named
\* here.  (Others: BoundsKept has the overrun of Split, OneUserIsSafe of MCProgress the unwrap of
\* UpgradeEitherConn.)
PanicsHaveCause ==
    \* KvReliability, MsgIdMatcher: no late or repeated response meets a dropped receiver unless
    \* a request was abandoned.
    /\ which = "kvclient" => Kv!NoPanic
    \* TcpCn: recv panics only if its peer went away within a message.
    /\ which = "tcpburst" => TcpBurst!PanicIfCut
    \* monomorphize: the expectations of the choice of a stack never fail.
    /\ which = "stacks" => Alg!NoPickPanic
    \* InjectWithChannel: with one receiver the oneshot channel is not polled again.
    /\ which = "inject" => Inject!NoInjectPanic
    \* ShenangoUdpReqChunnel: the receive thread lives as long as somebody accepts connections.
    /\ which = "shensk" => ShenSk!ThreadLives
    \* logparser: no rate is computed over negative time.
    /\ which = "parser" => Parser!TimeGoesOn
    \* conn_negotiation_manager: a transition's answer finds the one who asked, unless the
    \* manager dropped it because the number of participants changed meanwhile.
    /\ which = "manager" => Manager!AskerWaits

\* An end that believes a connection established has a peer that agreed to it, and who starts
\* together waits for all.
ConnectedHasPeer ==
    \* negotiate_client: a client that believes negotiation succeeded has a matching peer, which
    \* has the connection, is wrapping it, or failed to after it had told the client.
    /\ which = "onertt" => OneRtt!OpenOnBothSides
    \* Zero-rtt negotiation: so has a client whose nonce was acknowledged.
    /\ which = "zerortt" => ZeroRtt!OpenOnBothSides
    \* RendezvousChannel: a connected client has a peer, unless its listener was dropped.
    /\ which = "chan" => ChanT!ConnectedHasPeer
    \* throughput-bench: no client asks before all are connected.
    /\ which = "transfer" => Bulk!StartTogether

\* A refused client reaches nothing, a client takes no refusal for another, and an accepted
\* client's connection opens.
RefusalsHold ==
    \* negotiate_server: nothing of a client that was refused reaches the application.
    /\ which = "onertt" => OneRtt!NothingFromRefused
    \* Zero-rtt negotiation: nor does anything of one whose nonces were all refused.
    /\ which = "zerortt" => ZeroRtt!NothingFromRefused
    \* Zero-rtt negotiation: however often it is refused, a client takes for the fate of its
    \* nonce that of the last one.
    /\ which = "zerortt" => ZeroRtt!FateOfLastNonce
    \* shenango-bertha: a client that the server accepts gets the shard list, and its connection
    \* opens.
    /\ which = "shenshard" => KvService!AcceptedOpens

\* Whatever is kept back is waited for: no wakeup, timer or acknowledgement that would release it
\* is lost.
IdleHasNothingToDo ==
    \* AndThenConcurrent: a future that sleeps has no datagram waiting.
    /\ which = "accept" => Accept!IdleHasNothingToDo
    \* serve_one_cn: lines and acknowledgements wait only for a batch in hand.
    /\ which = "ingest" => Ingest!KeptBackIsPending
    \* logparser: samples that are held wait for a timer that runs.
    /\ which = "parser" => Parser!HeldIsTimed

\* What the client's stack requires of its peer, the stack that the server chose provides, and
\* negotiation fails only if there is a reason.  The converse is not so: a server may end up with
\* a two-sided capability that its client does without (MCProgress!TwoSidedMatch).
NeedsMet ==
    \* monomorphize: every client stack in a reply works with the server's choice.
    /\ which = "stacks" => Alg!ReplyFits
    \* The stack that the client applies after negotiating works with the server's choice.
    /\ which = "stacks" => Alg!ClientNeedsMet
    \* The client can apply a stack of the reply.
    /\ which = "stacks" => Alg!ReplyApplies
    \* The applications' stacks: a client that has any two-sided capability has the same ones as
    \* the server.
    /\ which = "apps" => Apps!BareOrMatched
    \* The applications' stacks: only unfit stacks, or a server that can do without any
    \* capability, make for a refusal.
    /\ which = "apps" => Apps!RefusedForCause

\* Whoever shards, a key has one shard.
OneShardPerKey ==
    \* ShardCanonicalServer and ClientShardChunnelClient compute the same shard for a key, or
    \* panic both if it is too short to have one.  (ShardCanonicalServerRaw does not:
    \* MCProgress!OneShardPerKey.)
    /\ which = "sharding" => Shard!OneShardPerKey

\* A shard is never surprised by a client that was told to come.
DirectIsExpected ==
    \* ShardCanonicalServer: a shard knows the nonce of a client before the client can use it.
    /\ which = "sharding" => Shard!DirectIsExpected
    \* shenango-bertha: a client that has negotiated is known to every shard that could be
    \* reached before it sends there, and its requests are not discarded.
    /\ which = "shenshard" => KvService!ShardsTold

\* Two records that a component keeps of the same thing agree.
ViewsAgree ==
    \* AtMostOnceChunnel: the two records of what was returned agree.
    /\ which = "atmostonce" => Amo!RecordsAgree
    \* UpgradeEitherConn: UpgradeHandle::current tells which side is in use.
    /\ which = "upgrade" => Upgrade!HandleShowsCurrent
    \* LocalNameCn: replies from a path that the cache may send to are attributed.
    /\ which = "localname" => LocalN!CachedPathKnown
    \* KafkaConn: a message is returned with its own group, into fresh slots.
    /\ which = "kafka" => Kaf!OwnGroup
    \* conn_negotiation_manager: the state that is shown is the connection's, or its change
    \* waits to be read, or was made by another thread before gcp_changed was polled again.
    /\ which = "manager" => Manager!StateShown

\* A flow, a port and a packet have the one owner that the tables say.
FlowsOwned ==
    \* DpdkState: a packet is returned to the connection of its flow.
    /\ which = "inline" => Inline!RightConnection
    \* DpdkState: a flow with a slot has a connection or is waiting to be accepted.
    /\ which = "inline" => Inline!FlowFound
    \* StreamState: the count of connections is exact, notifications included.
    /\ which = "inline" => Inline!CountIsExact
    \* DpdkState: a peer is announced once, and the only thread never blocks on the channel that
    \* it drains itself.
    /\ which = "inline" => Inline!AnnouncedOnce
    \* DpdkInlineChunnel: a port's packets are steered to the threads that have an object on it.
    /\ which = "steering" => Steer!SteeredToOwners
    \* DpdkInlineChunnel: no ephemeral port is in use twice.
    /\ which = "steering" => Steer!PortsDistinct

\* No thread uses a datapath that was torn down.
UseIsLive ==
    \* DpdkReqDatapath without locks, if every thread has one connection and no stream: no thread
    \* uses a datapath that is torn down or replaced.  (With two: MCProgress!UseIsLive.)
    /\ which = "swap" => Swap!UseIsLive

\* There is one I/O kernel or tunnel at a time; it runs while, and only while, somebody holds its
\* handle.
OneKernel ==
    \* iokernel_restart: at most one I/O kernel runs, and it is the one that the handle is of.
    /\ which = "iokernel" => Iok!OneKernel
    \* TLSChunnel over ghostunnel: processes run while their handles are held, and only then.
    /\ which = "ghost" => Ghost!TunnelsHeld
    \* TLSChunnel over ghostunnel: processes run while their handles are held, and only then.
    /\ which = "ghostboth" => GhostBoth!TunnelsHeld

\* Buffers, channels, records and counters stay within their bounds.
BoundsKept ==
    \* OrderedChunnel: a burst has room in the caller's buffer.
    /\ which = "ordered" => Ordered!BufferFits
    \* AtMostOnceChunnel: nothing older than the horizon survives a prune.
    /\ which = "atmostonce" => Amo!MemoryIsBounded
    \* Split: neither channel exceeds its capacity.
    /\ which = "split" => Split!Backpressure
    \* Split: a burst fits a buffer of two slots or more (with one, recv can write past the end).
    /\ which = "split" => Split!BurstFits
    \* shenangort: the server's WaitGroup does not fall below zero when clients ask one after
    \* the other.
    /\ which = "transfer" => Bulk!CounterKept

\* A message is returned once per copy, and a burst that cannot be sent whole is not begun.
PublishedOnce ==
    \* PubSubConn: no copy of a message is returned twice.  (A copy that the service delivers
    \* again is another one: OrderedPubSubChunnel passes it on, although it offers AtMostOnce.)
    /\ which = "pubsub" => Pub!CopiesReturnedOnce
    \* PubSubConn: if the topic of a message is missing, nothing of the burst is published.
    /\ which = "pubsub" => Pub!MissingStopsAll

\* At most once within the time horizon.
AtMostOncePerHorizon ==
    [][
      \* AtMostOnceChunnel: a message is returned again only after the time horizon.
      /\ which = "atmostonce" => Amo!ReturnedAgainLate
    ]_slots

\* What is newer is not replaced by what is older.
MovesForward ==
    [][
      \* LocalNameCn: the cache goes back to a path that was replaced only if another thread
      \* applied a newer answer between the two locks of query_ctl.
      /\ which = "localname" => LocalN!CacheForward
      \* DpdkState: the packets of a flow are returned in the order they came.
      /\ which = "inline" => Inline!FlowInOrder
    ]_slots

\* A resource is not replaced or declared gone under its user.
NotPulledAway ==
    [][
      \* DpdkReqDatapath with locks: a connection is not replaced while an operation holds it.
      /\ which = "lock" => Lock!NotReplacedWhileHeld
      \* do_shutdown: returns when no kernel runs.
      /\ which = "iokernel" => Iok!ShutDownMeansGone
    ]_slots

=============================================================================
