----------------------------- MODULE MCProgress -----------------------------
(***************************************************************************)
(* The progress of the components that do not interact, for TLC.  As in    *)
(* MCChunnels, Init chooses one component, which then takes all steps.  The *)
(* fairness is that of the executor, of the threads and of the peers.      *)
(* At the end are the instances in which TLC finds the code at odds with   *)
(* what it says of itself, outside the rendezvous; each of those has a     *)
(* specification of its own.                                               *)
(***************************************************************************)
EXTENDS Integers, Sequences, FiniteSets, AppStacks

CONSTANTS
    p1, t1, t2, k1, k2, NoVal

VARIABLES which,
          s1, s2, s3, s4, s5, s6, s7, s8, s9, s10, s11, s12, s13, s14, s15, s16, s17, s18,
          s19, s20, s21, s22, s23

slots ==
    <<s1, s2, s3, s4, s5, s6, s7, s8, s9, s10, s11, s12, s13, s14, s15, s16, s17, s18, s19,
      s20, s21, s22, s23>>

Tls == INSTANCE TlsConn WITH
    Script <- [client |-> <<<<"send", "recv", "send", "recv">>>>, server |-> <<<<"recv",
        "send", "recv", "send">>>>],
    Burst <- 1, Slots <- 2, pc <- s1, calls <- s2, lock <- s3, flights <- s4, out <- s5,
    plain <- s6, wire <- s7, made <- s8, got <- s9, failed <- s10

Ingest == INSTANCE LogIngest WITH
    Limit <- 6, Burst <- 2, Slots <- 2, Thresh <- 2, MaxBytes <- 4, Size <- <<1, 2>>,
    NoIp <- {}, Lossy <- FALSE, MayFail <- FALSE, None <- NoVal, rem <- s1, made <- s2,
    waiting <- s3, net <- s4, back <- s5, worker <- s6, received <- s7, to_process <- s8,
    processing <- s9, acks <- s10, acked <- s11, published <- s12

Parser == INSTANCE LogParser WITH
    Line <- <<[group |-> <<1>>, ts |-> 1, kind |-> "ok"], [group |-> <<1, 2>>, ts |-> 2,
        kind |-> "ok"], [group |-> <<1>>, ts |-> 3, kind |-> "ok"], [group |-> <<1, 2>>,
        ts |-> 4, kind |-> "ok"], [group |-> <<1>>, ts |-> 5, kind |-> "ok"]>>,
    Slots <- 2, MaxSlots <- 2, Lossy <- FALSE, None <- NoVal, next <- s1, buf <- s2,
    rates <- s3, tot <- s4, timer <- s5, wire <- s6, lost <- s7, observed <- s8,
    handled <- s9, recorded <- s10, panicked <- s11

Manager == INSTANCE ConnManager WITH
    KafkaOffered <- TRUE, MaxNp <- 3, MaxEvents <- 2, MayFail <- FALSE, Remote <- FALSE,
    stack <- s1, pending <- s2, current <- s3, changed <- s4, polled <- s5, watcher <- s6,
    np <- s7, np_new <- s8, trans <- s9, want <- s10, monitor <- s11, ids <- s12,
    events <- s13, panicked <- s14, missed <- s15, replaced <- s16, skipped <- s17

Bulk == INSTANCE Transfer WITH
    Paths <- {"chunnel", "tcp"}, NumClients <- 3, Threads <- 2, Size <- 1, Pkt <- 2,
    Burst <- 2, MaxRetx <- 0, MaxLost <- 0, MayFail <- FALSE, Spaced <- TRUE, path <- s1,
    cpc <- s2, got <- s3, pkts <- s4, retx <- s5, gave_up <- s6, up <- s7, down <- s8,
    spc <- s9, remaining <- s10, lost <- s11, lost_fin <- s12, active <- s13, wg <- s14,
    report <- s15

KvService == INSTANCE ShenangoShard WITH
    Client <- {k1, k2}, ShardId <- {1, 2}, Kinds <- {"shard", "unfit"}, MaxTries <- 1,
    MaxSend <- 1, MaxReq <- 1, MaxLost <- 0, MayFail <- FALSE, None <- NoVal, kind <- s1,
    cl <- s2, tries <- s3, waiting <- s4, success <- s5, n_sent <- s6, req <- s7,
    dest <- s8, answered <- s9, up <- s10, down <- s11, data <- s12, srv <- s13,
    dialing <- s14, wg <- s15, nonces <- s16, failed <- s17, known <- s18, conn <- s19,
    injected <- s20, served <- s21, dropped <- s22, lost <- s23

Rdv == INSTANCE Rendezvous WITH
    Client <- {k1, k2, p1}, Entry <- {t1, t2}, None <- NoVal,
    Solo <- [c \in {k1, k2, p1} |-> t1], Offers <- [c \in {k1, k2, p1} |-> {t1, t2}],
    Composite <- {t1, t2}, MayStall <- {}, MaxRound <- 4, addr <- s1, roundctr <- s2,
    members <- s3, stale <- s4, joinlock <- s5, staged <- s6, committed <- s7, pc <- s8,
    ctx <- s9, curr_entry <- s10, curr_round <- s11, want <- s12, at <- s13, del <- s14,
    dead <- s15

Ordered == INSTANCE OrderedChunnel WITH
    Peer <- {p1}, Task <- {t1, t2}, MaxSeq <- 3, Slots <- 2, Copies <- 1,
    HoleThresh <- NoVal, NoThresh <- NoVal, snd_nxt <- s1, net <- s2, made <- s3,
    expected_recv <- s4, recvd <- s5, returned <- s6, pc <- s7, batch <- s8, slot_idx <- s9

Kv == INSTANCE KvClient WITH
    None <- NoVal, Req <- {k1, k2}, Puts <- {k1}, MaxSend <- 2, Cap <- 4, Slots <- 2,
    MayDrop <- {}, pc <- s1, n_sent <- s2, reqs <- s3, rsps <- s4, store <- s5,
    sends <- s6, done_tx <- s7, got <- s8, recvs <- s9, inflight <- s10, sent <- s11,
    answer <- s12, panicked <- s13

OneRtt == INSTANCE Handshake WITH
    Client <- {k1, k2}, ZeroRtt <- {}, Compatible <- {k1}, StaleNonce <- {}, Proxied <- {},
    MaxSend <- 2, MaxData <- 1, Lossy <- FALSE, Faults <- {"wrap"}, cl <- s1,
    n_offer <- s2, n_data <- s3, success <- s4, c2s <- s5, s2c <- s6, srv <- s7,
    pending <- s8, app_rx <- s9, cl_rx <- s10, broken <- s11

ZeroRtt == INSTANCE Handshake WITH
    Client <- {k1, k2}, ZeroRtt <- {k1}, Compatible <- {}, StaleNonce <- {k1} \X {1, 2},
    Proxied <- {k2}, MaxSend <- 2, MaxData <- 1, Lossy <- FALSE,
    Faults <- {"wrap"}, cl <- s1, n_offer <- s2, n_data <- s3, success <- s4, c2s <- s5,
    s2c <- s6, srv <- s7, pending <- s8, app_rx <- s9, cl_rx <- s10, broken <- s11

Split == INSTANCE Split WITH
    Receiver <- {t1}, MaxMsg <- 3, Cap <- 1, Slots <- (t1 :> 2),
    MayCancel <- FALSE, MayFail <- FALSE, starter <- s1, down <- s2, up <- s3, n_sent <- s4,
    out <- s5, n_in <- s6, inc <- s7, held <- s8, pc <- s9, idx <- s10, got <- s11

Upgrade == INSTANCE UpgradeConn WITH
    None <- NoVal, Caller <- {t1}, Nonce <- 0..2, Bad <- {}, MaxMsg <- 2, MayCancel <- FALSE,
    nonce <- s1, unseen <- s2, curr_nonce <- s3, in_progress <- s4, queued <- s5,
    current <- s6, changed <- s7, sl <- s8, cl <- s9, pc <- s10, msgs <- s11, n_msgs <- s12

ChanT == INSTANCE ChanTransport WITH
    Client <- {k1, k2, t1}, MaxListen <- 1, MaxMsg <- 0, Size <- 1, Slots <- 1,
    current <- s1, listeners <- s2, offered <- s3, pc <- s4, at <- s5, accepted <- s6,
    chan <- s7, n_sent <- s8, held <- s9, got <- s10

LocalN == INSTANCE LocalName WITH
    Addr <- {k1}, MaxPath <- 2, MaxQuery <- 2, table <- s1, n_path <- s2,
    listening <- s3, ctl <- s4, cache <- s5, rev <- s6, queue <- s7,
    outcome <- s8

Shen == INSTANCE ShenangoKv WITH
    Req <- {k1, k2}, MaxSend <- 2, None <- NoVal, pc <- s1, n_sent <- s2, reqs <- s3,
    rsps <- s4, sends <- s5, snd <- s6, recvs <- s7, rt <- s8, r_hold <- s9, mt <- s10,
    m_hold <- s11, inflight <- s12, got <- s13

Shard == INSTANCE Sharding WITH
    Client <- {k1, k2}, Direct <- {k2}, Key <- {<<1, 1, 1, 1>>}, Raw <- FALSE, OFFSET <- 0,
    MayFail <- FALSE, IdleExit <- FALSE, MaxReq <- 1, redis <- s1, srv <- s2, todo <- s3,
    failed <- s4, known <- s5, plan <- s6, sent <- s7, inbox <- s8, direct <- s9,
    fwd <- s10, served <- s11, answered <- s12

Swap == INSTANCE DatapathSwap WITH
    Thread <- {k1, k2, p1}, Trig <- k1, Obj <- 1..3, Owner <- <<k1, k2, p1>>,
    Streams <- {}, MaxSwap <- 1, MayFail <- FALSE, flag <- s1, waiting <- s2, pc <- s3,
    obj <- s4, gen <- s5, up <- s6, dp <- s7, chan <- s8, todo <- s9, parked <- s10

Lock == INSTANCE DatapathLock WITH
    Conn <- {k1, k2}, MultiThread <- FALSE, MaxSwap <- 2, MayFail <- TRUE, rd <- s1, wr <- s2,
    preempt <- s3, sent <- s4, trig <- s5, gen <- s6, up <- s7, dp <- s8, snd <- s9

Iok == INSTANCE IoKernel WITH
    Caller <- {1}, MaxStart <- 3, lock <- s1, handle <- s2, kernel <- s3, stopping <- s4,
    pc <- s5, mine <- s6, n_start <- s7

Tcp == INSTANCE TcpCn WITH
    Hdr <- 2, Size <- <<1, 2, 1>>, MaxSize <- 2, Cap <- 4, Slots <- 1, MayCut <- FALSE,
    msg <- s1, wrote <- s2, closed <- s3, stream <- s4, ready <- s5, pc <- s6, hdr <- s7,
    body <- s8, expect <- s9, slots <- s10, got <- s11

TcpW == INSTANCE TcpWrap WITH
    Peer <- {k1, k2, p1}, Mismatched <- {p1}, Overlap <- FALSE, MayFail <- FALSE,
    client <- s1, wrap <- s2, backlog <- s3, cached_conns <- s4, holder <- s5, waiters <- s6

Sqs == INSTANCE SqsQueue WITH
    Task <- {t1}, Dest <- <<k1, k2, k1>>, Body <- <<1, 2, 3>>, Batch <- 2, Slots <- (t1 :> 2),
    Fifo <- FALSE, MayFail <- FALSE, MayCancel <- FALSE, None <- NoVal, rest <- s1,
    pend <- s2, sending <- s3, ctr <- s4, dedup <- s5, queue <- s6, out <- s7, fut <- s8,
    lock <- s9, pc <- s10, held <- s11, sent <- s12, returned <- s13, gone <- s14

Pub == INSTANCE PubSub WITH
    Task <- {t1}, Dest <- <<k1, k1, k2>>, Group <- <<1, 1, 1>>, MayMiss <- {}, Slots <- 2,
    MaxOut <- 1, MayFail <- FALSE, MayCancel <- FALSE, None <- NoVal, spc <- s1,
    missing <- s2, topics <- s3, todo <- s4, batches <- s5, backlog <- s6, handed <- s7,
    pc <- s8, got <- s9, cache <- s10, lock <- s11, acked <- s12, returned <- s13

Quic == INSTANCE QuicConn WITH
    Script <- [client |-> <<<<"send", "recv", "send", "recv">>>>, server |-> <<<<"recv",
        "send", "recv", "send">>>>],
    Burst <- 1, Cap <- 2, Slots <- 2, pc <- s1, calls <- s2, lock <- s3, left <- s4,
    flights <- s5, out <- s6, dgrams <- s7, wire <- s8, inbox <- s9, made <- s10,
    dropped <- s11, got <- s12

\* The slots from the k-th on, which a component with fewer variables does not use.
Rest18 == <<s18, s19, s20, s21, s22, s23>>
Rest16 == <<s16, s17, Rest18>>
Rest15 == <<s15, Rest16>>
Rest14 == <<s14, Rest15>>
Rest13 == <<s13, Rest14>>
Rest12 == <<s12, Rest13>>
Rest11 == <<s11, Rest12>>
Rest10 == <<s10, Rest11>>
Rest9 == <<s9, Rest10>>
Rest8 == <<s8, Rest9>>
Rest7 == <<s7, Rest8>>
Absent18 == s18 = 0 /\ s19 = 0 /\ s20 = 0 /\ s21 = 0 /\ s22 = 0 /\ s23 = 0
Absent16 == s16 = 0 /\ s17 = 0 /\ Absent18
Absent15 == s15 = 0 /\ Absent16
Absent14 == s14 = 0 /\ Absent15
Absent13 == s13 = 0 /\ Absent14
Absent12 == s12 = 0 /\ Absent13
Absent11 == s11 = 0 /\ Absent12
Absent10 == s10 = 0 /\ Absent11
Absent9 == s9 = 0 /\ Absent10
Absent8 == s8 = 0 /\ Absent9
Absent7 == s7 = 0 /\ Absent8

Init ==
    \/ /\ which = "tls" /\ Tls!Init /\ Absent11
    \/ /\ which = "ingest" /\ Ingest!Init /\ Absent13
    \/ /\ which = "parser" /\ Parser!Init /\ Absent12
    \/ /\ which = "manager" /\ Manager!Init /\ Absent18
    \/ /\ which = "transfer" /\ Bulk!Init /\ Absent16
    \/ /\ which = "shenshard" /\ KvService!Init
    \/ /\ which = "rendezvous" /\ Rdv!Init /\ Absent16
    \/ /\ which = "ordered" /\ Ordered!Init /\ Absent10
    \/ /\ which = "kvclient" /\ Kv!Init /\ Absent14
    \/ /\ which = "onertt" /\ OneRtt!Init /\ Absent12
    \/ /\ which = "zerortt" /\ ZeroRtt!Init /\ Absent12
    \/ /\ which = "split" /\ Split!Init /\ Absent12
    \/ /\ which = "upgrade" /\ Upgrade!Init /\ Absent13
    \/ /\ which = "chan" /\ ChanT!Init /\ Absent11
    \/ /\ which = "localname" /\ LocalN!Init /\ Absent9
    \/ /\ which = "shenango" /\ Shen!Init /\ Absent14
    \/ /\ which = "sharding" /\ Shard!Init /\ Absent13
    \/ /\ which = "swap" /\ Swap!Init /\ Absent11
    \/ /\ which = "lock" /\ Lock!Init /\ Absent10
    \/ /\ which = "iokernel" /\ Iok!Init /\ Absent8
    \/ /\ which = "tcp" /\ Tcp!Init /\ Absent12
    \/ /\ which = "tcpwrap" /\ TcpW!Init /\ Absent7
    \/ /\ which = "sqs" /\ Sqs!Init /\ Absent15
    \/ /\ which = "pubsub" /\ Pub!Init /\ Absent14
    \/ /\ which = "quic" /\ Quic!Init /\ Absent13

TlsNext ==
    /\ which = "tls" /\ Tls!Next
    /\ UNCHANGED <<which, Rest11>>
IngestNext ==
    /\ which = "ingest" /\ Ingest!Next
    /\ UNCHANGED <<which, Rest13>>
ParserNext ==
    /\ which = "parser" /\ Parser!Next
    /\ UNCHANGED <<which, Rest12>>
ManagerNext ==
    /\ which = "manager" /\ Manager!Next
    /\ UNCHANGED <<which, Rest18>>
BulkNext ==
    /\ which = "transfer" /\ Bulk!Next
    /\ UNCHANGED <<which, Rest16>>
KvServiceNext ==
    /\ which = "shenshard" /\ KvService!Next
    /\ UNCHANGED <<which>>
RdvNext ==
    /\ which = "rendezvous" /\ Rdv!NextQuiet(k1)
    /\ UNCHANGED <<which, Rest16>>
OrderedNext ==
    /\ which = "ordered" /\ Ordered!NextReliable
    /\ UNCHANGED <<which, Rest10>>
KvNext ==
    /\ which = "kvclient" /\ Kv!NextFairLoss
    /\ UNCHANGED <<which, Rest14>>
OneRttNext ==
    /\ which = "onertt" /\ OneRtt!Next
    /\ UNCHANGED <<which, Rest12>>
ZeroRttNext ==
    /\ which = "zerortt" /\ ZeroRtt!Next
    /\ UNCHANGED <<which, Rest12>>
SplitNext ==
    /\ which = "split" /\ Split!Next
    /\ UNCHANGED <<which, Rest12>>
UpgradeNext ==
    /\ which = "upgrade" /\ Upgrade!Next
    /\ UNCHANGED <<which, Rest13>>
ChanTNext ==
    /\ which = "chan" /\ ChanT!Next
    /\ UNCHANGED <<which, Rest11>>
LocalNNext ==
    /\ which = "localname" /\ LocalN!Next
    /\ UNCHANGED <<which, Rest9>>
ShenNext ==
    /\ which = "shenango" /\ Shen!NextTimely
    /\ UNCHANGED <<which, Rest14>>
ShardNext ==
    /\ which = "sharding" /\ Shard!Next
    /\ UNCHANGED <<which, Rest13>>
SwapNext ==
    /\ which = "swap" /\ Swap!Next
    /\ UNCHANGED <<which, Rest11>>
LockNext ==
    /\ which = "lock" /\ Lock!Next
    /\ UNCHANGED <<which, Rest10>>
IokNext ==
    /\ which = "iokernel" /\ Iok!Next
    /\ UNCHANGED <<which, Rest8>>
TcpNext ==
    /\ which = "tcp" /\ Tcp!Next
    /\ UNCHANGED <<which, Rest12>>
TcpWNext ==
    /\ which = "tcpwrap" /\ TcpW!Next
    /\ UNCHANGED <<which, Rest7>>
SqsNext ==
    /\ which = "sqs" /\ Sqs!Next
    /\ UNCHANGED <<which, Rest15>>
PubNext ==
    /\ which = "pubsub" /\ Pub!Next
    /\ UNCHANGED <<which, Rest14>>
QuicNext ==
    /\ which = "quic" /\ Quic!Next
    /\ UNCHANGED <<which, Rest13>>

Next ==
    \/ TlsNext
    \/ IngestNext
    \/ ParserNext
    \/ ManagerNext
    \/ BulkNext
    \/ KvServiceNext
    \/ RdvNext
    \/ OrderedNext
    \/ KvNext
    \/ OneRttNext
    \/ ZeroRttNext
    \/ SplitNext
    \/ UpgradeNext
    \/ ChanTNext
    \/ LocalNNext
    \/ ShenNext
    \/ ShardNext
    \/ SwapNext
    \/ LockNext
    \/ IokNext
    \/ TcpNext
    \/ TcpWNext
    \/ SqsNext
    \/ PubNext
    \/ QuicNext

\* A component that is not chosen never takes a step, and its actions are not enabled.
vars == <<which, slots>>
InTls(A) == which = "tls" /\ A /\ UNCHANGED <<which, Rest11>>
InIngest(A) == which = "ingest" /\ A /\ UNCHANGED <<which, Rest13>>
InParser(A) == which = "parser" /\ A /\ UNCHANGED <<which, Rest12>>
InManager(A) == which = "manager" /\ A /\ UNCHANGED <<which, Rest18>>
InBulk(A) == which = "transfer" /\ A /\ UNCHANGED <<which, Rest16>>
InKvService(A) == which = "shenshard" /\ A /\ UNCHANGED <<which>>
InRdv(A) == which = "rendezvous" /\ A /\ UNCHANGED <<which, Rest16>>
InOrdered(A) == which = "ordered" /\ A /\ UNCHANGED <<which, Rest10>>
InKv(A) == which = "kvclient" /\ A /\ UNCHANGED <<which, Rest14>>
InOneRtt(A) == which = "onertt" /\ A /\ UNCHANGED <<which, Rest12>>
InZeroRtt(A) == which = "zerortt" /\ A /\ UNCHANGED <<which, Rest12>>
InSplit(A) == which = "split" /\ A /\ UNCHANGED <<which, Rest12>>
InUpgrade(A) == which = "upgrade" /\ A /\ UNCHANGED <<which, Rest13>>
InChanT(A) == which = "chan" /\ A /\ UNCHANGED <<which, Rest11>>
InLocalN(A) == which = "localname" /\ A /\ UNCHANGED <<which, Rest9>>
InShen(A) == which = "shenango" /\ A /\ UNCHANGED <<which, Rest14>>
InShard(A) == which = "sharding" /\ A /\ UNCHANGED <<which, Rest13>>
InSwap(A) == which = "swap" /\ A /\ UNCHANGED <<which, Rest11>>
InLock(A) == which = "lock" /\ A /\ UNCHANGED <<which, Rest10>>
InIok(A) == which = "iokernel" /\ A /\ UNCHANGED <<which, Rest8>>
InTcp(A) == which = "tcp" /\ A /\ UNCHANGED <<which, Rest12>>
InTcpW(A) == which = "tcpwrap" /\ A /\ UNCHANGED <<which, Rest7>>
InSqs(A) == which = "sqs" /\ A /\ UNCHANGED <<which, Rest15>>
InPub(A) == which = "pubsub" /\ A /\ UNCHANGED <<which, Rest14>>
InQuic(A) == which = "quic" /\ A /\ UNCHANGED <<which, Rest13>>

\* Each end is one task, which the executor runs.
TlsFair(i) ==
    \/ i = 1 /\ Tls!Step("client", 1)
    \/ i = 2 /\ Tls!Step("server", 1)
\* The worker polls the connection and the publishing in one select, the producer is one task.
IngestFair(i) ==
    \/ i = 1 /\ \E n \in 1..2 : Ingest!Produce(n)
    \/ i = 2 /\ \E n \in 1..2 : Ingest!Recv(n)
    \/ i = 3 /\ Ingest!Published
    \/ i = 4 /\ Ingest!GetAcks
\* The timer fires, and the consumer's task takes what has come.
ParserFair(i) ==
    \/ i = 1 /\ Parser!Forward
    \/ i = 2 /\ Parser!Consume
\* The manager's task, its monitor and the users of the connection run.
ManagerFair(i) ==
    \/ i = 1 /\ Manager!Take
    \/ i = 2 /\ Manager!Commit
    \/ i = 3 /\ Manager!ParticipantsChanged
    \/ i = 4 /\ Manager!PollTransition
    \/ i = 5 /\ Manager!TransitionDone
    \/ i = 6 /\ Manager!PollChanged
    \/ i = 7 /\ Manager!GcpChanged
    \/ i = 8 /\ Manager!Upgrade
    \/ i = 9 /\ Manager!UpgradeInner
\* The tasks of the clients and of the server run, and nothing is lost.
BulkFair(i) ==
    \/ i = 1 /\ <<1, 1>> \in Bulk!Client /\ Bulk!Step(<<1, 1>>)
    \/ i = 2 /\ <<1, 2>> \in Bulk!Client /\ Bulk!Step(<<1, 2>>)
    \/ i = 3 /\ <<2, 1>> \in Bulk!Client /\ Bulk!Step(<<2, 1>>)
    \/ i = 4 /\ Bulk!Report
\* The threads run, nothing is lost and the shards are reachable.
KvServiceFair(i) ==
    \/ i = 1 /\ KvService!Progress(k1)
    \/ i = 2 /\ KvService!Progress(k2)
    \/ i = 3 /\ KvService!TryOnce(k1)
    \/ i = 4 /\ KvService!TryOnce(k2)
    \/ i = 5 /\ (\E s \in {1, 2} : KvService!SendReq(k1, s))
    \/ i = 6 /\ (\E s \in {1, 2} : KvService!SendReq(k2, s))
\* A client whose next Redis call, or due timer, stays possible performs it; the score of a
\* client that is gone grows old.
RdvFair(i) ==
    \/ i = 1 /\ Rdv!Step(k1)
    \/ i = 2 /\ Rdv!Step(k2)
    \/ i = 3 /\ Rdv!Step(p1)
    \/ i = 4 /\ Rdv!Expire(k1)
    \/ i = 5 /\ Rdv!Expire(k2)
    \/ i = 6 /\ Rdv!Expire(p1)
\* Some task is always in recv, and the executor runs it.
OrderedFair(i) ==
    \/ i = 1 /\ Ordered!Recv(t1)
    \/ i = 2 /\ Ordered!Recv(t2)
\* The executor runs a request's task (its timer included), and the server answers.
KvFair(i) ==
    \/ i = 1 /\ Kv!Task(k1)
    \/ i = 2 /\ Kv!Task(k2)
    \/ i = 3 /\ Kv!ServerCalls
\* The executor runs the client's task, the server's connection and its application.
OneRttFair(i) ==
    \/ i = 1 /\ (OneRtt!SendOffer(k1) \/ OneRtt!RecvReply(k1) \/ OneRtt!RecvOpen(k1))
    \/ i = 2 /\ (OneRtt!SendOffer(k2) \/ OneRtt!RecvReply(k2) \/ OneRtt!RecvOpen(k2))
    \/ i = 3 /\ (OneRtt!ServerRecv(k1) \/ OneRtt!WrapConn(k1))
    \/ i = 4 /\ (OneRtt!ServerRecv(k2) \/ OneRtt!WrapConn(k2))
    \/ i = 5 /\ OneRtt!AppRecv(k1)
    \/ i = 6 /\ OneRtt!AppRecv(k2)
\* The same.
ZeroRttFair(i) ==
    \/ i = 1 /\ (ZeroRtt!SendNonce(k1) \/ ZeroRtt!RecvOpen(k1))
    \/ i = 2 /\ (ZeroRtt!SendNonce(k2) \/ ZeroRtt!RecvOpen(k2))
    \/ i = 3 /\ (ZeroRtt!ServerRecv(k1) \/ ZeroRtt!WrapConn(k1))
    \/ i = 4 /\ (ZeroRtt!ServerRecv(k2) \/ ZeroRtt!WrapConn(k2))
    \/ i = 5 /\ ZeroRtt!AppRecv(k1)
    \/ i = 6 /\ ZeroRtt!AppRecv(k2)
\* The executor runs the spawned task and the callers; the receiver keeps calling recv.
SplitFair(i) ==
    \/ i = 1 /\ Split!Run
    \/ i = 2 /\ Split!Push
    \/ i = 3 /\ Split!Poll("sender")
    \/ i = 4 /\ Split!Poll(t1)
    \/ i = 5 /\ Split!Call(t1)
    \/ i = 6 /\ Split!Recv(t1)
\* One task that keeps calling; tokio's mutex is handed on.
UpgradeFair(i) ==
    \/ i = 1 /\ Upgrade!Send(t1)
    \/ i = 2 /\ Upgrade!Recv(t1)
    \/ i = 3 /\ Upgrade!Call(t1)
    \/ i = 4 /\ Upgrade!Grant
\* The listener's stream is polled and the clients' tasks run.
ChanTFair(i) ==
    \/ i = 1 /\ ChanT!Accept(1)
    \/ i = 2 /\ ChanT!Connect(k1)
    \/ i = 3 /\ ChanT!Connect(k2)
    \/ i = 4 /\ ChanT!Connect(t1)
    \/ i = 5 /\ ChanT!Notify(k1)
    \/ i = 6 /\ ChanT!Notify(k2)
    \/ i = 7 /\ ChanT!Notify(t1)
\* The application keeps sending, cache entries get old, and the spawned queries run.
LocalNFair(i) ==
    \/ i = 1 /\ LocalN!Send(k1)
    \/ i = 2 /\ LocalN!Expire(k1)
    \/ i = 3 /\ LocalN!Ask
    \/ i = 4 /\ LocalN!Serve
    \/ i = 5 /\ LocalN!Answer
    \/ i = 6 /\ LocalN!Apply
\* Shenango's scheduler runs every thread; the server answers.
ShenFair(i) ==
    \/ i = 1 /\ (Shen!SendMsg(k1) \/ Shen!SendReturns(k1) \/ Shen!RecvReturns(k1))
    \/ i = 2 /\ (Shen!SendMsg(k2) \/ Shen!SendReturns(k2) \/ Shen!RecvReturns(k2))
    \/ i = 3 /\ Shen!TimelyTimeout(k1)
    \/ i = 4 /\ Shen!TimelyTimeout(k2)
    \/ i = 5 /\ (Shen!Push(k1) \/ Shen!Match(k1))
    \/ i = 6 /\ (Shen!Push(k2) \/ Shen!Match(k2))
    \/ i = 7 /\ (Shen!CheckDone(k1) \/ Shen!Pop(k1) \/ Shen!CvWait(k1) \/ Shen!Deliver(k1))
    \/ i = 8 /\ (Shen!CheckDone(k2) \/ Shen!Pop(k2) \/ Shen!CvWait(k2) \/ Shen!Deliver(k2))
    \/ i = 9 /\ Shen!Server
\* The executor runs the server's tasks and the clients'.
ShardFair(i) ==
    \/ i = 1 /\ Shard!ServerStep(k1)
    \/ i = 2 /\ Shard!ServerStep(k2)
    \/ i = 3 /\ Shard!ClientStep(k1)
    \/ i = 4 /\ Shard!ClientStep(k2)
\* Every thread keeps polling its connections; the triggering thread goes on.
SwapFair(i) ==
    \/ i = 1 /\ (Swap!ShutDown \/ Swap!Start \/ Swap!Complete \/ Swap!Return)
    \/ i = 2 /\ Swap!Update(1)
    \/ i = 3 /\ Swap!Update(2)
    \/ i = 4 /\ Swap!Update(3)
    \/ i = 5 /\ Swap!Polling(k1)
    \/ i = 6 /\ Swap!Polling(k2)
    \/ i = 7 /\ Swap!Polling(p1)
\* The executor runs the readers and the tasks that join the locks; locks are handed on, and a
\* datapath that was torn down refuses the sends it has not taken.
LockFair(i) ==
    \/ i = 1 /\ Lock!Replace
    \/ i = 2 /\ (Lock!Call(k1) \/ Lock!Granted(k1) \/ Lock!Preempt(k1))
    \/ i = 3 /\ (Lock!Call(k2) \/ Lock!Granted(k2) \/ Lock!Preempt(k2))
    \/ i = 4 /\ Lock!SendDone(k1)
    \/ i = 5 /\ Lock!SendDone(k2)
    \/ i = 6 /\ Lock!JoinPolled(k1)
    \/ i = 7 /\ Lock!JoinPolled(k2)
    \/ i = 8 /\ Lock!Grant(k1)
    \/ i = 9 /\ Lock!Grant(k2)
\* The caller and the kernel's thread are scheduled.
IokFair(i) ==
    \/ i = 1 /\ Iok!Started(1)
    \/ i = 2 /\ Iok!Seen(1)
    \/ i = 3 /\ (Iok!Runs(1) \/ Iok!Exits(1) \/ Iok!Clears(1))
    \/ i = 4 /\ (Iok!Runs(2) \/ Iok!Exits(2) \/ Iok!Clears(2))
    \/ i = 5 /\ (Iok!Runs(3) \/ Iok!Exits(3) \/ Iok!Clears(3))
\* The sender and the receiver keep calling, and TCP delivers.
TcpFair(i) ==
    \/ i = 1 /\ Tcp!Write
    \/ i = 2 /\ Tcp!Recv
\* The clients connect and the server's wraps are run, one after the other.
TcpWFair(i) ==
    \/ i = 1 /\ TcpW!Lock
    \/ i = 2 /\ TcpW!Client(k1)
    \/ i = 3 /\ TcpW!Client(k2)
    \/ i = 4 /\ TcpW!Client(p1)
    \/ i = 5 /\ TcpW!Server(k1)
    \/ i = 6 /\ TcpW!Server(k2)
    \/ i = 7 /\ TcpW!Server(p1)
\* The application keeps calling recv, and the service answers.
SqsFair(i) ==
    \/ i = 1 /\ Sqs!Send
    \/ i = 2 /\ Sqs!Recv(t1)
    \/ i = 3 /\ Sqs!Serve(k1)
    \/ i = 4 /\ Sqs!Serve(k2)
    \/ i = 5 /\ Sqs!Select(t1, k1)
    \/ i = 6 /\ Sqs!Select(t1, k2)
\* The application keeps calling recv, and the service answers.
PubFair(i) ==
    \/ i = 1 /\ Pub!Recv(t1)
    \/ i = 2 /\ Pub!Pull(t1)
\* Each end is one task, which the executor runs.
QuicFair(i) ==
    \/ i = 1 /\ Quic!Step("client", 1)
    \/ i = 2 /\ Quic!Step("server", 1)

\* The i-th of the steps of the component chosen that are taken if they stay possible.
FairStep(i) ==
    CASE which = "tls" -> InTls(TlsFair(i))
      [] which = "ingest" -> InIngest(IngestFair(i))
      [] which = "parser" -> InParser(ParserFair(i))
      [] which = "manager" -> InManager(ManagerFair(i))
      [] which = "transfer" -> InBulk(BulkFair(i))
      [] which = "shenshard" -> InKvService(KvServiceFair(i))
      [] which = "rendezvous" -> InRdv(RdvFair(i))
      [] which = "ordered" -> InOrdered(OrderedFair(i))
      [] which = "kvclient" -> InKv(KvFair(i))
      [] which = "onertt" -> InOneRtt(OneRttFair(i))
      [] which = "zerortt" -> InZeroRtt(ZeroRttFair(i))
      [] which = "split" -> InSplit(SplitFair(i))
      [] which = "upgrade" -> InUpgrade(UpgradeFair(i))
      [] which = "chan" -> InChanT(ChanTFair(i))
      [] which = "localname" -> InLocalN(LocalNFair(i))
      [] which = "shenango" -> InShen(ShenFair(i))
      [] which = "sharding" -> InShard(ShardFair(i))
      [] which = "swap" -> InSwap(SwapFair(i))
      [] which = "lock" -> InLock(LockFair(i))
      [] which = "iokernel" -> InIok(IokFair(i))
      [] which = "tcp" -> InTcp(TcpFair(i))
      [] which = "tcpwrap" -> InTcpW(TcpWFair(i))
      [] which = "sqs" -> InSqs(SqsFair(i))
      [] which = "pubsub" -> InPub(PubFair(i))
      [] which = "quic" -> InQuic(QuicFair(i))

Fairness ==
    /\ \A i \in 1..11 : WF_vars(FairStep(i))
    \* A queued event is taken when the applier is back in its select, which polls the event
    \* stream before the timer.
    /\ SF_vars(InRdv(Rdv!DelEvent(k1)))
    /\ SF_vars(InRdv(Rdv!DelEvent(k2)))
    /\ SF_vars(InRdv(Rdv!DelEvent(p1)))

Spec == Init /\ [][Next]_vars /\ Fairness

\* Everything that was sent is received in the end, and every download ends.
EverythingReturned ==
    /\ []<>(
         \* TLSConnection: requests and responses between two ends that never overlap their
         \* calls get through.
         /\ which = "tls" => Tls!AllReturned
         \* logparser: samples do not stay, they are forwarded and consumed.
         /\ which = "parser" => Parser!Forwarded
         \* OrderedChunnel: over a transport that only reorders, every segment sent is returned.
         /\ which = "ordered" => \A n \in 1..3 : Ordered!Sent(p1, n) => Ordered!Returned(p1, n)
         \* Split: with a receiver that keeps receiving, everything accepted is passed on, both
         \* ways.
         /\ which = "split" => \A n \in 1..3 :
                /\ Split!Sent(n) => Split!PassedDown(n)
                /\ Split!Came(n) => Split!PassedUp(n)
         \* TcpCn: every message is returned by a recv into one slot.
         /\ which = "tcp" => \A n \in 1..3 : Tcp!Sent(n) => Tcp!Returned(n)
         \* SqsChunnel: every message that a queue accepted is returned.
         /\ which = "sqs" => \A n \in 1..3 : Sqs!Accepted(n) => Sqs!Returned(n)
         \* PubSubConn: every message that was published is returned.
         /\ which = "pubsub" => \A n \in 1..3 : Pub!Published(n) => Pub!Returned(n)
         \* QuicConn: requests and responses between two ends that never overlap their calls get
         \* through.
         /\ which = "quic" => Quic!AllReturned
       )
    /\ <>[](
         \* throughput-bench: all downloads end, at both ends, and are reported.
         /\ which = "transfer" => Bulk!Ended
       )

\* Every request is answered in the end.
EveryRequestAnswered ==
    /\ []<>(
         \* serve_one_cn: a producer is not held up forever by the acknowledgements kept back, if
         \* every line is shorter than a burst may be (of a chunk whose first line is not, nothing
         \* is sent, and the producer waits for an acknowledgement all the same).
         /\ which = "ingest" => Ingest!Producing
         \* KvClient: every request is answered if its last transmission gets through.
         /\ which = "kvclient" => \A r \in {k1, k2} : Kv!Done(r)
         \* KvClient of shenango-bertha: without a spurious retransmission every request is
         \* answered.
         /\ which = "shenango" => \A r \in {k1, k2} : Shen!Done(r)
         \* serve, serve_canonical, single_shard: with nothing lost, every request is answered.
         /\ which = "sharding" => \A c \in {k1, k2} : Shard!Answered(c)
       )
    /\ <>[](
         \* shenango-bertha: a client is refused or gets its requests answered by the shards.
         /\ which = "shenshard" => \A c \in {k1, k2} : KvService!Served(c)
       )

\* Every attempt to connect ends.
HandshakesEnd ==
    /\ []<>(
         \* negotiate_client returns if nothing is lost, however late it is.
         /\ which = "onertt" => \A c \in {k1, k2} : OneRtt!HasReturned(c)
         \* RendezvousChannel: connect returns if the listener that it found keeps accepting.
         /\ which = "chan" => \A c \in {k1, k2, t1} : ChanT!Returned(c)
         \* TcpChunnelWrapServer: wraps made one after the other all get their connection, but
         \* for the one whose address does not match.
         /\ which = "tcpwrap" => \A p \in {k1, k2} : TcpW!Wrapped(p)
       )
    /\ <>[](
         \* A zero-rtt client, refused more than once, learns the fate of its last nonce.
         /\ which = "zerortt" => ZeroRtt!Settled(k1)
       )

\* What a component has cached comes to agree with what is in force.
ViewsSettle ==
    /\ []<>(
         \* LocalNameCn: a service that went away does not make sends fail for ever.
         /\ which = "localname" => LocalN!Recovered
       )
    /\ <>[](
         \* conn_negotiation_manager: if no other participant transitions and no transition
         \* fails, the ordering, and the state shown, come to fit the number of participants,
         \* unless the manager panicked, Kafka is in use, the newest transition was given up
         \* with another stack pending, or a change was missed between two polls.
         /\ which = "manager" => Manager!Fitting
         \* LocalNameCn: when registrations stop, the cache comes to hold what the controller
         \* has.
         /\ which = "localname" => LocalN!Settled(k1)
       )
    \* UpgradeEitherConn: a connection in use reaches the newest stack.
    /\ \A n \in 0..2 : <>[](which = "upgrade" /\ Upgrade!Published(n))
                       => <>[](which = "upgrade" /\ Upgrade!InUse(n))

\* Every replacement of a stack or of a datapath ends.
TransitionsEnd ==
    /\ []<>(
         \* redis-basechunnel: if one client proposes while the others are idle, its transition
         \* ends, also when others exit before they accept.
         /\ which = "rendezvous" => \A c \in {k1, k2, p1} : ~Rdv!Holds(c)
         \* DpdkReqDatapath without locks: the first trigger_transition returns.
         /\ which = "swap" => ~Swap!Swapping
         \* DpdkReqDatapath with locks: on one thread a transition that was triggered ends.
         /\ which = "lock" => ~Lock!Joining
         \* do_shutdown: returns, if nobody starts the kernel again meanwhile.
         /\ which = "iokernel" => ~Iok!Spinning(1)
       )

\* With one task, or one thread, the stalls and panics of several do not happen.
OneUserIsSafe ==
    \* UpgradeEitherConn: if one task at a time uses the connection, no unwrap fails.
    /\ which = "upgrade" => Upgrade!NoUpgradePanic
    \* DpdkReqDatapath with locks: who makes the transition wait was asked to let go.
    /\ which = "lock" => Lock!HolderIsPreempted

-----------------------------------------------------------------------------
\* Two peers, of which k1 needs two datagrams for its negotiation and k2 one.
Accept == INSTANCE AcceptLoop WITH
    Addr <- {k1, k2}, Need <- [a \in {k1, k2} |-> IF a = k1 THEN 2 ELSE 1], MaxMsg <- 3,
    MayDrop <- {}, sent <- s1, sk <- s2, known <- s3, live <- s4, chan <- s5, fut <- s6,
    used <- s7, rx <- s8, lost <- s9, pc <- s10, wk <- s11, notified <- s12

InAccept(A) == A /\ UNCHANGED <<which, Rest13>>

\* The runtime polls a task that is scheduled; a peer sends all it has; the application reads.
SpecAccept ==
    /\ which = "accept" /\ Accept!Init /\ Absent13
    /\ [][InAccept(Accept!Next)]_vars
    /\ WF_vars(InAccept(Accept!Task))
    /\ \A a \in {k1, k2} :
         WF_vars(InAccept(Accept!Arrive(a))) /\ WF_vars(InAccept(Accept!AppRecv(a)))

\* "the stream is polled concurrently with the futures returned by `f`"
\* (and_then_concurrent.rs:14-15): a peer that sent enough for its negotiation is accepted.
EveryPeerAccepted == Accept!EveryPeerAccepted

-----------------------------------------------------------------------------
\* The pairs of applications that meet.
Apps == INSTANCE StackAlgorithms WITH
    Pairs <- AppPairs, Univ <- AppUniv, cstack <- s1, sstack <- s2, phase <- s3, picked <- s4,
    nonce <- s5, reply <- s6

SpecApps ==
    /\ which = "apps" /\ Apps!Init /\ Absent7
    /\ [][Apps!Next /\ UNCHANGED <<which, Rest7>>]_vars

\* "return None to force both sides to match" (tls-tunnel/src/lib.rs:21): of two ends that have
\* negotiated, both encrypt or none does.
TwoSidedMatch == Apps!TwoSidedMatch

-----------------------------------------------------------------------------
\* Sharding as kvstore's serve_lb sets it up, with the raw canonical server that reads the key
\* from the encoded message: two keys that differ in their third byte, a client of each kind.
RawShard == INSTANCE Sharding WITH
    Client <- {k1, k2}, Direct <- {k2}, Key <- {<<1, 1, 1, 1>>, <<1, 1, 2, 1>>}, Raw <- TRUE,
    OFFSET <- 18, MayFail <- FALSE, IdleExit <- FALSE, MaxReq <- 2, redis <- s1, srv <- s2,
    todo <- s3, failed <- s4, known <- s5, plan <- s6, sent <- s7, inbox <- s8, direct <- s9,
    fwd <- s10, served <- s11, answered <- s12

SpecRawShard ==
    /\ which = "rawshard" /\ RawShard!Init /\ Absent13
    /\ [][RawShard!Next /\ UNCHANGED <<which, Rest13>>]_vars

\* The raw server's "functionality is identical" (shard_raw.rs:8): a key has one shard, whoever
\* computes it.
OneShardPerKey == RawShard!OneShardPerKey

-----------------------------------------------------------------------------
\* A TCP chunnel whose recv has two slots: headers of two units, which may arrive one by one,
\* and three messages.
SlowTcp == INSTANCE TcpCn WITH
    Hdr <- 2, Size <- <<1, 2, 1>>, MaxSize <- 2, Cap <- 4, Slots <- 2, MayCut <- FALSE,
    msg <- s1, wrote <- s2, closed <- s3, stream <- s4, ready <- s5, pc <- s6, hdr <- s7,
    body <- s8, expect <- s9, slots <- s10, got <- s11

SpecSlowTcp ==
    /\ which = "slowtcp" /\ SlowTcp!Init /\ Absent12
    /\ [][SlowTcp!Next /\ UNCHANGED <<which, Rest12>>]_vars

\* "A message-oriented TCP Chunnel." (tcp/src/lib.rs:1): messages are returned as they were sent.
Framed == SlowTcp!Framed

-----------------------------------------------------------------------------
\* The lock-free switcher, with a thread that has two connections.
SwapTwice == INSTANCE DatapathSwap WITH
    Thread <- {k1, k2}, Trig <- k1, Obj <- 1..3, Owner <- <<k1, k2, k2>>, Streams <- {},
    MaxSwap <- 2, MayFail <- FALSE, flag <- s1, waiting <- s2, pc <- s3, obj <- s4, gen <- s5,
    up <- s6, dp <- s7, chan <- s8, todo <- s9, parked <- s10

SpecSwapTwice ==
    /\ which = "swaptwice" /\ SwapTwice!Init /\ Absent11
    /\ [][SwapTwice!Next /\ UNCHANGED <<which, Rest11>>]_vars

\* "any thread with send/recv operations is currently waiting in `maybe_swap_datapath` [...] and
\* is thus *not* accessing DPDK state" (switcher_lockfree/mod.rs:185-186).
UseIsLive == SwapTwice!UseIsLive
=============================================================================
