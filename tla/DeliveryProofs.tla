--------------------------- MODULE DeliveryProofs ---------------------------
(***************************************************************************)
(* Proofs about what is delivered to the application over a transport that *)
(* loses, reorders and duplicates.  OrderedChunnel, for any peers, tasks,  *)
(* buffer length and threshold: segments are returned in order.            *)
(* AtMostOnce, as Amo, for any horizon, number of messages and run of the  *)
(* clock: a message is not returned twice within the horizon, provided no  *)
(* two are stamped with the same instant.  ShenangoKv, as Kv, for any      *)
(* requests: an answer is not lost between the threads that pass it on.    *)
(***************************************************************************)
EXTENDS OrderedChunnel, WellFoundedInduction, SequenceTheorems, TLAPS

Constants == MaxSeq \in Nat /\ Slots \in Nat /\ (HoleThresh # NoThresh => HoleThresh \in Nat)

\* The inductive invariant.  expected_recv is the number after the last segment returned
\* (Expected), whichever task returned it; a task's slots and what it has to sort depend on
\* where it is.
Types ==
    /\ expected_recv \in [Peer -> Nat] /\ returned \in [Peer -> Seq(Nat)]
    /\ pc \in [Task -> {"peel", "await", "sort"}]
    /\ batch \in [Task -> Seq(Peer \X Seqno)] /\ slot_idx \in [Task -> Nat]
Expected ==
    \A p \in Peer : expected_recv[p] = IF Len(returned[p]) = 0 THEN 0
                                       ELSE returned[p][Len(returned[p])] + 1
Room ==
    \A t \in Task : /\ pc[t] # "sort" => batch[t] = <<>>
                    /\ pc[t] = "await" => slot_idx[t] = 0
IInv == Types /\ Expected /\ Room /\ InOrder /\ BufferFits

-----------------------------------------------------------------------------

\* A heap that holds something has a first segment.
LEMMA PeekInHeap ==
    ASSUME Constants, NEW p \in Peer, InHeap(p) # {}
    PROVE  Peek(p) \in Seqno
  <1>1. InHeap(p) \in SUBSET Nat /\ InHeap(p) \subseteq Seqno
    BY DEF InHeap, Seqno, Constants
  <1>2. \E s \in InHeap(p) : \A t \in InHeap(p) : s <= t
    <2> DEFINE Less == {ss \in Nat \X Nat : ss[1] < ss[2]}
    <2>1. IsWellFoundedOn(Less, Nat)
      BY NatLessThanWellFounded, Zenon DEF OpToRel
    <2> HIDE DEF Less
    <2> PICK s \in InHeap(p) : \A t \in InHeap(p) : ~(<<t, s>> \in Less)
      BY <1>1, <2>1, WFMin, Zenon
    <2>2. ASSUME NEW t \in InHeap(p) PROVE s <= t
      <3>1. ~(<<t, s>> \in Less) /\ <<t, s>> \in Nat \X Nat
        BY <1>1, Zenon
      <3>2. ~(t < s)
        BY <3>1, Zenon DEF Less
      <3> QED
        BY <1>1, <3>2
    <2> QED
      BY <2>2, Zenon
  <1> QED
    BY <1>1, <1>2, Zenon DEF Peek

\* Nothing was returned yet.
LEMMA InitIInv ==
    ASSUME Constants, Init
    PROVE  IInv
  BY DEF Constants, Init, IInv, Types, Expected, Room, InOrder, BufferFits

\* A segment that is next, or that ends a hole larger than the threshold, is returned in order.
LEMMA ReturnInOrder ==
    ASSUME Constants, Types, Expected, InOrder, NEW t \in Task, NEW p \in Peer, NEW s \in Nat,
           s = expected_recv[p] \/ GiveUp(p, s), Return(t, p, s)
    PROVE  /\ expected_recv' \in [Peer -> Nat] /\ returned' \in [Peer -> Seq(Nat)]
           /\ slot_idx' \in [Task -> Nat] /\ slot_idx' = [slot_idx EXCEPT ![t] = @ + 1]
           /\ Expected' /\ InOrder'
  <1> DEFINE old == returned[p]
             new == Append(old, s)
  <1>1. /\ expected_recv' = [expected_recv EXCEPT ![p] = s + 1]
        /\ returned' = [returned EXCEPT ![p] = new]
        /\ slot_idx' = [slot_idx EXCEPT ![t] = slot_idx[t] + 1]
    BY Zenon DEF Return
  <1>2. /\ new \in Seq(Nat) /\ Len(new) = Len(old) + 1 /\ Len(old) \in Nat
        /\ \A i \in 1..Len(old) : new[i] = old[i]
        /\ new[Len(old) + 1] = s /\ DOMAIN new = 1..(Len(old) + 1) /\ DOMAIN old = 1..Len(old)
    BY DEF Types
  <1>3. /\ expected_recv' \in [Peer -> Nat] /\ returned' \in [Peer -> Seq(Nat)]
        /\ slot_idx' \in [Task -> Nat] /\ slot_idx' = [slot_idx EXCEPT ![t] = @ + 1]
    BY <1>1, <1>2 DEF Types
  <1> HIDE DEF new
  <1>4. Expected'
    <2> SUFFICES ASSUME NEW q \in Peer
                 PROVE  expected_recv'[q] = IF Len(returned'[q]) = 0 THEN 0
                                            ELSE returned'[q][Len(returned'[q])] + 1
      BY Zenon DEF Expected
    <2>1. CASE q = p
      BY <1>1, <1>2, <2>1 DEF Types
    <2>2. CASE q # p
      BY <1>1, <2>2, Zenon DEF Types, Expected
    <2> QED
      BY <2>1, <2>2, Zenon
  <1>5. InOrder'
    <2> DEFINE Fits(x, e) == x = e \/ (HoleThresh # NoThresh /\ x > e + HoleThresh)
    <2> SUFFICES ASSUME NEW q \in Peer, NEW i \in DOMAIN returned'[q]
                 PROVE  Fits(returned'[q][i], IF i = 1 THEN 0 ELSE returned'[q][i - 1] + 1)
      BY Zenon DEF InOrder
    <2>1. CASE q # p
      <3>1. returned'[q] = returned[q]
        BY <1>1, <2>1, Zenon DEF Types
      <3>2. i \in DOMAIN returned[q]
        BY <3>1, Zenon
      <3>3. Fits(returned[q][i], IF i = 1 THEN 0 ELSE returned[q][i - 1] + 1)
        BY <3>2, Zenon DEF InOrder
      <3> HIDE DEF Fits
      <3> QED
        BY <3>1, <3>3, Zenon
    <2>2. CASE q = p /\ i <= Len(old)
      <3>1. returned'[q] = new
        BY <1>1, <2>2, Zenon DEF Types
      <3>2. i \in 1..Len(old) /\ (i # 1 => i - 1 \in 1..Len(old))
        BY <1>2, <2>2, <3>1, SMTT(30)
      <3>3. Fits(old[i], IF i = 1 THEN 0 ELSE old[i - 1] + 1)
        BY <1>2, <3>2, Zenon DEF InOrder
      <3> QED
        BY <1>2, <3>1, <3>2, <3>3, Zenon
    <2>3. CASE q = p /\ i = Len(old) + 1
      <3>1. returned'[q] = new /\ returned'[q][i] = s
        BY <1>1, <1>2, <2>3, Zenon DEF Types
      <3>2. (IF i = 1 THEN 0 ELSE new[i - 1] + 1) = expected_recv[p]
        <4>1. CASE Len(old) = 0
          BY <2>3, <4>1 DEF Expected
        <4>2. CASE Len(old) # 0
          <5>1. i # 1 /\ i - 1 = Len(old) /\ Len(old) \in 1..Len(old)
            BY <1>2, <2>3, <4>2
          <5> QED
            BY <1>2, <4>2, <5>1, Zenon DEF Expected
        <4> QED
          BY <4>1, <4>2, Zenon
      <3>3. Fits(s, expected_recv[p])
        BY Zenon DEF GiveUp, Constants, Types
      <3> QED
        BY <3>1, <3>2, <3>3, Zenon
    <2> QED
      BY <1>1, <1>2, <2>1, <2>2, <2>3 DEF Types
  <1> QED
    BY <1>3, <1>4, <1>5, Zenon

-----------------------------------------------------------------------------

\* A task peels the heaps.
LEMMA PeelIInv ==
    ASSUME Constants, IInv, NEW t \in Task,
           (\E p \in Peer : PopHead(t, p)) \/ PeelDone(t) \/ NeedFill(t) \/ Cancel(t)
    PROVE  IInv'
  <1>1. ASSUME NEW p \in Peer, PopHead(t, p) PROVE IInv'
    <2>1. Peek(p) \in Nat /\ (Peek(p) = expected_recv[p] \/ GiveUp(p, Peek(p)))
      BY <1>1, PeekInHeap DEF PopHead, Pop, Seqno, Constants
    <2>2. Return(t, p, Peek(p)) /\ UNCHANGED <<pc, batch>> /\ pc[t] = "peel" /\ slot_idx[t] < Slots
      BY <1>1, Zenon DEF PopHead
    <2>3. /\ expected_recv' \in [Peer -> Nat] /\ returned' \in [Peer -> Seq(Nat)]
          /\ slot_idx' \in [Task -> Nat] /\ slot_idx' = [slot_idx EXCEPT ![t] = @ + 1]
          /\ Expected' /\ InOrder'
      BY <2>1, <2>2, ReturnInOrder, Zenon DEF IInv
    <2>4. BufferFits'
      BY <2>2, <2>3, SMTT(30) DEF IInv, Types, Room, BufferFits, Constants
    <2> QED
      BY <2>2, <2>3, <2>4, Zenon DEF IInv, Types, Room
  <1>2. CASE PeelDone(t)
    BY <1>2 DEF PeelDone, RecvReturns, IInv, Types, Expected, Room, InOrder, BufferFits, Constants
  <1>3. CASE NeedFill(t) \/ Cancel(t)
    BY <1>3, Zenon DEF NeedFill, Cancel, IInv, Types, Expected, Room, InOrder, BufferFits
  <1> QED
    BY <1>1, <1>2, <1>3, Zenon

\* A burst comes from below and is sorted.
LEMMA SortIInv ==
    ASSUME Constants, IInv, NEW t \in Task, Fill(t) \/ SortHead(t) \/ SortDone(t)
    PROVE  IInv'
  <1>1. CASE Fill(t)
    <2> PICK n \in 1..Slots : \E b \in [1..n -> Peer \X Seqno] : batch' = [batch EXCEPT ![t] = b]
      BY <1>1, Zenon DEF Fill
    <2> PICK b \in [1..n -> Peer \X Seqno] : batch' = [batch EXCEPT ![t] = b]
      BY Zenon
    <2>1. b \in Seq(Peer \X Seqno) /\ Len(b) = n
      <3>1. n \in Nat /\ n <= Slots
        BY DEF Constants
      <3>2. b \in Seq(Peer \X Seqno)
        BY <3>1, SeqDef
      <3>3. Len(b) \in Nat /\ DOMAIN b = 1..Len(b) /\ DOMAIN b = 1..n
        BY <3>2, LenProperties, Zenon
      <3> QED
        BY <3>1, <3>2, <3>3
    <2>2. /\ pc[t] = "await" /\ pc' = [pc EXCEPT ![t] = "sort"]
          /\ UNCHANGED <<expected_recv, returned, slot_idx>>
      BY <1>1, Zenon DEF Fill
    <2>3. batch' \in [Task -> Seq(Peer \X Seqno)] /\ pc' \in [Task -> {"peel", "await", "sort"}]
      BY <2>1, <2>2, Zenon DEF IInv, Types
    <2>4. Types'
      BY <2>2, <2>3, Zenon DEF IInv, Types
    <2>5. Expected' /\ InOrder'
      BY <2>2, Zenon DEF IInv, Expected, InOrder
    <2>6. /\ pc'[t] = "sort" /\ batch'[t] = b
          /\ \A u \in Task : u # t => pc'[u] = pc[u] /\ batch'[u] = batch[u]
      <3>1. DOMAIN pc = Task /\ DOMAIN batch = Task
        BY Zenon DEF IInv, Types
      <3>2. pc'[t] = "sort" /\ \A u \in Task : u # t => pc'[u] = pc[u]
        BY <2>2, <3>1, Zenon
      <3>3. batch'[t] = b /\ \A u \in Task : u # t => batch'[u] = batch[u]
        BY <3>1, Zenon
      <3> QED
        BY <3>2, <3>3, Zenon
    <2>7. Room'
      BY <2>2, <2>6 DEF IInv, Room
    <2>8. BufferFits'
      <3>1. slot_idx[t] = 0 /\ slot_idx[t] + Len(b) <= Slots
        BY <2>1, <2>2 DEF IInv, Room, Constants
      <3>2. ASSUME NEW u \in Task PROVE slot_idx'[u] + Len(batch'[u]) <= Slots
        <4>1. CASE u = t
          BY <2>2, <2>6, <3>1, <4>1, Zenon
        <4>2. CASE u # t
          BY <2>2, <2>6, <4>2, Zenon DEF IInv, BufferFits
        <4> QED
          BY <4>1, <4>2, Zenon
      <3> QED
        BY <3>2, Zenon DEF BufferFits
    <2> QED
      BY <2>4, <2>5, <2>7, <2>8, Zenon DEF IInv
  <1>2. CASE SortHead(t)
    <2> DEFINE p == Head(batch[t])[1]
               s == Head(batch[t])[2]
    <2>1. /\ pc[t] = "sort" /\ pc' = pc /\ batch[t] # <<>>
          /\ batch' = [batch EXCEPT ![t] = Tail(@)]
          /\ \/ s = expected_recv[p] /\ Return(t, p, s)
             \/ UNCHANGED <<expected_recv, returned, slot_idx>>
      BY <1>2, Zenon DEF SortHead
    <2>2. batch[t] \in Seq(Peer \X Seqno)
      BY Zenon DEF IInv, Types
    <2>3. /\ p \in Peer /\ s \in Nat /\ Tail(batch[t]) \in Seq(Peer \X Seqno)
          /\ Len(Tail(batch[t])) = Len(batch[t]) - 1 /\ Len(batch[t]) \in Nat
      <3>1. Head(batch[t]) \in Peer \X Seqno
        BY <2>1, <2>2
      <3>2. Tail(batch[t]) \in Seq(Peer \X Seqno) /\ Len(Tail(batch[t])) = Len(batch[t]) - 1
        BY <2>1, <2>2
      <3> QED
        BY <2>2, <3>1, <3>2 DEF Seqno, Constants
    <2> HIDE DEF p, s
    <2>4. CASE s = expected_recv[p] /\ Return(t, p, s)
      <3>1. /\ expected_recv' \in [Peer -> Nat] /\ returned' \in [Peer -> Seq(Nat)]
            /\ slot_idx' \in [Task -> Nat] /\ slot_idx' = [slot_idx EXCEPT ![t] = @ + 1]
            /\ Expected' /\ InOrder'
        BY <2>3, <2>4, ReturnInOrder, Zenon DEF IInv
      <3>2. BufferFits'
        BY <2>1, <2>3, <3>1 DEF IInv, Types, BufferFits, Constants
      <3>3. batch' \in [Task -> Seq(Peer \X Seqno)] /\ Room'
        BY <2>1, <2>3, <3>1, Zenon DEF IInv, Types, Room
      <3> QED
        BY <2>1, <3>1, <3>2, <3>3, Zenon DEF IInv, Types
    <2>5. CASE UNCHANGED <<expected_recv, returned, slot_idx>>
      <3>1. BufferFits'
        BY <2>1, <2>3, <2>5 DEF IInv, Types, BufferFits, Constants
      <3>2. batch' \in [Task -> Seq(Peer \X Seqno)] /\ Room'
        BY <2>1, <2>3, <2>5, Zenon DEF IInv, Types, Room
      <3> QED
        BY <2>1, <2>5, <3>1, <3>2, Zenon DEF IInv, Types, Expected, InOrder
    <2> QED
      BY <2>1, <2>4, <2>5, Zenon
  <1>3. CASE SortDone(t)
    BY <1>3 DEF SortDone, RecvReturns, IInv, Types, Expected, Room, InOrder, BufferFits, Constants
  <1> QED
    BY <1>1, <1>2, <1>3, Zenon

\* Every step preserves the invariant; the sender and the transport do not touch the receiver.
LEMMA NextIInv ==
    ASSUME Constants, IInv, [Next]_vars
    PROVE  IInv'
  <1>1. CASE UNCHANGED receiver
    BY <1>1, Zenon DEF receiver, IInv, Types, Expected, Room, InOrder, BufferFits
  <1>2. CASE UNCHANGED vars
    BY <1>1, <1>2, Zenon DEF vars, receiver
  <1>3. CASE (\E p \in Peer : Send(p)) \/ \E p \in Peer, s \in Seqno : Duplicate(p, s) \/ Lose(p, s)
    BY <1>1, <1>3 DEF Send, Duplicate, Lose, receiver
  <1>4. ASSUME NEW t \in Task, Recv(t) \/ Cancel(t) PROVE IInv'
    BY <1>4, PeelIInv, SortIInv, Zenon DEF Recv
  <1> QED
    BY <1>2, <1>3, <1>4, Zenon DEF Next

-----------------------------------------------------------------------------

\* The segments of a peer are returned in the order sent, none twice, and with no gap that is
\* not larger than the threshold, whatever the transport does and however many tasks receive
\* (recv, tagger.rs:146-206).
THEOREM AlwaysInOrder ==
    ASSUME Constants
    PROVE  Spec => []InOrder
  <1>1. IInv => InOrder
    BY Zenon DEF IInv
  <1> QED
    BY <1>1, InitIInv, NextIInv, PTL DEF Spec

\* The index msgs_buf[slot_idx] is in bounds: a task never has more to sort than it has slots
\* (tagger.rs:187).
THEOREM SlotsSuffice ==
    ASSUME Constants
    PROVE  Spec => []BufferFits
  <1>1. IInv => BufferFits
    BY Zenon DEF IInv
  <1> QED
    BY <1>1, InitIInv, NextIInv, PTL DEF Spec

-----------------------------------------------------------------------------
(* The at-most-once receiver: its own constants and state, the segments of the transport and
   the batch under names of their own. *)

CONSTANTS MaxTime, Sunset, CoarseClock
VARIABLES next_seq, amo_net, now, last_update, deliver_times, delivered, amo_batch, last
Amo == INSTANCE AtMostOnce WITH net <- amo_net, batch <- amo_batch

\* What the constants have to be; that no two messages have one instant is not needed for
\* the bound on the memory.
AmoSizes == MaxSeq \in Nat /\ MaxTime \in Nat /\ Sunset \in Nat
AmoConstants == AmoSizes /\ ~CoarseClock

\* The inductive invariant.  RecordsAgree alone says nothing about when: the instant a message
\* is remembered with has to be the one at which it was last returned (Stamped), and what was
\* forgotten was forgotten because it is old (Forgotten).
Stamped ==
    \A t \in Amo!Time : deliver_times[t] # Amo!NoEntry =>
        deliver_times[t] \in delivered /\ last[deliver_times[t]] = t
Remembered ==
    \A s \in delivered : last[s] \in Amo!Time /\ deliver_times[last[s]] = s
Forgotten ==
    \A s \in Amo!Seqno : last[s] # Amo!Never /\ s \notin delivered => now - last[s] > Sunset
NotAhead ==
    \A t \in Amo!Time : t > now => deliver_times[t] = Amo!NoEntry
AmoInv == Amo!TypeOK /\ Stamped /\ Remembered /\ Forgotten /\ NotAhead

-----------------------------------------------------------------------------

\* A receiver that has heard nothing remembers nothing.
LEMMA InitAmo ==
    ASSUME AmoConstants, Amo!Init
    PROVE  AmoInv
  BY DEF AmoConstants, AmoSizes, Amo!Init, AmoInv, Amo!TypeOK, Stamped, Remembered, Forgotten, NotAhead,
         Amo!Time, Amo!Seqno, Amo!NoEntry, Amo!Never

\* Pruning keeps what is recent: maybe_update, whatever is to be recorded.
LEMMA AmoPrune ==
    ASSUME AmoConstants, Amo!TypeOK, NEW times \in [Amo!Time -> 0..MaxSeq],
           NEW seqs \in SUBSET Amo!Seqno,
           NEW l \in [Amo!Seqno -> Amo!Time \cup {Amo!Never}],
           \A t \in Amo!Time : times[t] # Amo!NoEntry => times[t] \in seqs /\ l[times[t]] = t,
           \A s \in seqs : l[s] \in Amo!Time /\ times[l[s]] = s,
           \A s \in Amo!Seqno : l[s] # Amo!Never /\ s \notin seqs => now - l[s] > Sunset,
           \A t \in Amo!Time : t > now => times[t] = Amo!NoEntry,
           Amo!MaybeUpdate(times, seqs), last' = l, now' = now,
           UNCHANGED <<next_seq, amo_net>>, amo_batch' \in SUBSET Amo!Seqno
    PROVE  AmoInv'
  <1> DEFINE kept == [t \in Amo!Time |-> IF Amo!Recent(t) THEN times[t] ELSE Amo!NoEntry]
  <1>1. last_update' \in Amo!Time \cup {Amo!Never}
    BY Zenon DEF Amo!MaybeUpdate, Amo!TypeOK
  <1>2. CASE ~Amo!PruneDue
    <2>1. deliver_times' = times /\ delivered' = seqs
      BY <1>2, Zenon DEF Amo!MaybeUpdate
    <2> QED
      BY <1>1, <2>1, Zenon DEF AmoInv, Amo!TypeOK, Stamped, Remembered, Forgotten, NotAhead
  <1>3. CASE Amo!PruneDue
    <2>1. deliver_times' = kept /\ delivered' = Amo!Values(kept)
      BY <1>3, Zenon DEF Amo!MaybeUpdate
    <2>2. kept \in [Amo!Time -> 0..MaxSeq] /\ Amo!Values(kept) \subseteq Amo!Seqno
      BY DEF Amo!Values, Amo!Seqno, Amo!NoEntry, AmoConstants, AmoSizes
    <2>3. \A t \in Amo!Time : kept[t] # Amo!NoEntry => Amo!Recent(t) /\ kept[t] = times[t]
      BY Zenon DEF Amo!NoEntry
    <2>4. Stamped'
      BY <2>1, <2>2, <2>3 DEF Stamped, Amo!Values
    <2>5. \A s \in Amo!Values(kept) : l[s] \in Amo!Time /\ kept[l[s]] = s
      BY <2>2, <2>3 DEF Amo!Values
    <2>6. Remembered'
      BY <2>1, <2>5, Zenon DEF Remembered
    <2>7. ASSUME NEW s \in Amo!Seqno, l[s] # Amo!Never, s \notin Amo!Values(kept)
          PROVE  now - l[s] > Sunset
      <3>1. CASE s \notin seqs
        BY <2>7, <3>1, Zenon
      <3>2. CASE s \in seqs
        <4>1. l[s] \in Amo!Time /\ times[l[s]] = s
          BY <3>2, Zenon
        <4>2. ~Amo!Recent(l[s])
          <5> SUFFICES ASSUME Amo!Recent(l[s]) PROVE FALSE
            BY Zenon
          <5>1. kept[l[s]] = s /\ s # Amo!NoEntry
            BY <4>1 DEF Amo!Seqno, Amo!NoEntry
          <5> QED
            BY <2>7, <4>1, <5>1 DEF Amo!Values
        <4> QED
          BY <4>1, <4>2 DEF Amo!Recent, Amo!Time, AmoConstants, AmoSizes, Amo!TypeOK
      <3> QED
        BY <3>1, <3>2, Zenon
    <2>8. Forgotten'
      BY <2>1, <2>7, Zenon DEF Forgotten
    <2>9. NotAhead'
      BY <2>1, <2>3, Zenon DEF NotAhead
    <2> QED
      BY <1>1, <2>1, <2>2, <2>4, <2>6, <2>8, <2>9 DEF AmoInv, Amo!TypeOK
  <1> QED
    BY <1>2, <1>3, Zenon

\* A message is filtered: is_new records it or refuses it, then maybe_update.
LEMMA AmoFilter ==
    ASSUME AmoConstants, AmoInv, NEW s \in Amo!Seqno, Amo!Filter(s)
    PROVE  AmoInv'
  <1>1. amo_batch' \in SUBSET Amo!Seqno /\ now' = now /\ UNCHANGED <<next_seq, amo_net>>
    BY Zenon DEF Amo!Filter, AmoInv, Amo!TypeOK
  <1>2. CASE s \in delivered
    <2>1. Amo!MaybeUpdate(deliver_times, delivered) /\ last' = last
      BY <1>2, Zenon DEF Amo!Filter
    <2> QED
      BY <1>1, <2>1, AmoPrune, Zenon DEF AmoInv, Amo!TypeOK, Stamped, Remembered, Forgotten, NotAhead
  <1>3. CASE s \notin delivered
    <2> DEFINE times == Amo!Record(s)
               seqs == delivered \cup {s}
               l == [last EXCEPT ![s] = now]
    <2>1. Amo!MaybeUpdate(times, seqs) /\ last' = l /\ deliver_times[now] = Amo!NoEntry
      BY <1>3, Zenon DEF Amo!Filter, AmoConstants, AmoSizes
    <2>2. /\ times \in [Amo!Time -> 0..MaxSeq] /\ seqs \in SUBSET Amo!Seqno
          /\ l \in [Amo!Seqno -> Amo!Time \cup {Amo!Never}] /\ now \in Amo!Time
      BY DEF Amo!Record, AmoInv, Amo!TypeOK, Amo!Seqno, AmoConstants, AmoSizes
    <2>3. \A t \in Amo!Time : times[t] # Amo!NoEntry => times[t] \in seqs /\ l[times[t]] = t
      <3> SUFFICES ASSUME NEW t \in Amo!Time, times[t] # Amo!NoEntry
                   PROVE  times[t] \in seqs /\ l[times[t]] = t
        BY Zenon
      <3>1. CASE t = now
        BY <2>2, <3>1, Zenon DEF Amo!Record, AmoInv, Amo!TypeOK
      <3>2. CASE t # now
        <4>1. times[t] = deliver_times[t] /\ times[t] \in Amo!Seqno
          BY <2>2, <3>2 DEF Amo!Record, AmoInv, Amo!TypeOK, Amo!Seqno, Amo!NoEntry, AmoConstants, AmoSizes
        <4>2. times[t] \in delivered /\ last[times[t]] = t
          BY <4>1, Zenon DEF AmoInv, Stamped
        <4>3. times[t] # s
          BY <1>3, <4>2, Zenon
        <4> QED
          BY <4>1, <4>2, <4>3, Zenon DEF AmoInv, Amo!TypeOK
      <3> QED
        BY <3>1, <3>2, Zenon
    <2>4. \A x \in seqs : l[x] \in Amo!Time /\ times[l[x]] = x
      <3> SUFFICES ASSUME NEW x \in seqs PROVE l[x] \in Amo!Time /\ times[l[x]] = x
        BY Zenon
      <3>1. CASE x = s
        BY <2>2, <3>1, Zenon DEF Amo!Record, AmoInv, Amo!TypeOK
      <3>2. CASE x # s
        <4>1. /\ l[x] = last[x] /\ last[x] \in Amo!Time
              /\ deliver_times[last[x]] = x /\ x \in Amo!Seqno
          BY <3>2, Zenon DEF AmoInv, Amo!TypeOK, Remembered
        <4>2. last[x] # now
          BY <2>1, <4>1 DEF Amo!Seqno, Amo!NoEntry
        <4> QED
          BY <2>2, <4>1, <4>2, Zenon DEF Amo!Record, AmoInv, Amo!TypeOK
      <3> QED
        BY <3>1, <3>2, Zenon
    <2>5. \A x \in Amo!Seqno : l[x] # Amo!Never /\ x \notin seqs => now - l[x] > Sunset
      BY Zenon DEF AmoInv, Forgotten, Amo!TypeOK
    <2>6. \A t \in Amo!Time : t > now => times[t] = Amo!NoEntry
      BY <2>2 DEF Amo!Record, AmoInv, NotAhead, Amo!TypeOK, Amo!Time, AmoConstants, AmoSizes
    <2> HIDE DEF times, seqs, l
    <2>7. Amo!TypeOK
      BY Zenon DEF AmoInv
    <2> QED
      BY <1>1, <2>1, <2>2, <2>3, <2>4, <2>5, <2>6, <2>7, AmoPrune
  <1> QED
    BY <1>2, <1>3, Zenon

\* Every step preserves the invariant.
LEMMA NextAmo ==
    ASSUME AmoConstants, AmoInv, [Amo!Next]_Amo!vars
    PROVE  AmoInv'
  <1>1. CASE UNCHANGED Amo!vars
    BY <1>1, Zenon DEF Amo!vars, AmoInv, Amo!TypeOK, Stamped, Remembered, Forgotten, NotAhead
  <1>2. CASE Amo!Send \/ Amo!Burst \/ \E s \in Amo!Seqno : Amo!Lose(s)
    <2>1. /\ next_seq' \in 0..MaxSeq
          /\ amo_net' \subseteq Amo!Seqno /\ amo_batch' \subseteq Amo!Seqno
          /\ last_update' = last_update
      <3>1. CASE Amo!Send
        BY <3>1 DEF Amo!Send, AmoInv, Amo!TypeOK, Amo!Seqno, AmoConstants, AmoSizes
      <3>2. CASE Amo!Burst
        BY <3>2, Zenon DEF Amo!Burst, AmoInv, Amo!TypeOK
      <3>3. CASE \E s \in Amo!Seqno : Amo!Lose(s)
        BY <3>3, Zenon DEF Amo!Lose, AmoInv, Amo!TypeOK
      <3> QED
        BY <1>2, <3>1, <3>2, <3>3, Zenon
    <2>2. UNCHANGED <<now, deliver_times, delivered, last>>
      BY <1>2, Zenon DEF Amo!Send, Amo!Burst, Amo!Lose
    <2> QED
      BY <2>1, <2>2, Zenon DEF AmoInv, Amo!TypeOK, Stamped, Remembered, Forgotten, NotAhead
  <1>3. CASE Amo!Tick
    <2>1. Amo!TypeOK' /\ now' = now + 1
      BY <1>3 DEF Amo!Tick, AmoInv, Amo!TypeOK, Amo!Time, AmoConstants, AmoSizes
    <2>2. Stamped' /\ Remembered'
      BY <1>3, Zenon DEF Amo!Tick, AmoInv, Stamped, Remembered
    <2>3. ASSUME NEW s \in Amo!Seqno, last'[s] # Amo!Never, s \notin delivered'
          PROVE  now' - last'[s] > Sunset
      <3>1. last' = last /\ delivered' = delivered /\ now' = now + 1
        BY <1>3, Zenon DEF Amo!Tick
      <3>2. now - last[s] > Sunset
        BY <2>3, <3>1, Zenon DEF AmoInv, Forgotten
      <3>3. now \in Int /\ last[s] \in Int /\ Sunset \in Int
        BY <2>3 DEF AmoInv, Amo!TypeOK, Amo!Time, Amo!Never, AmoConstants, AmoSizes
      <3> QED
        BY <3>1, <3>2, <3>3
    <2>4. Forgotten'
      BY <2>3, Zenon DEF Forgotten
    <2>5. NotAhead'
      <3>1. \A t \in Amo!Time : t > now + 1 => t > now
        BY DEF AmoInv, Amo!TypeOK, Amo!Time, AmoConstants, AmoSizes
      <3> QED
        BY <1>3, <2>1, <3>1, Zenon DEF Amo!Tick, AmoInv, NotAhead
    <2> QED
      BY <2>1, <2>2, <2>4, <2>5, Zenon DEF AmoInv
  <1>4. ASSUME NEW s \in Amo!Seqno, Amo!Filter(s) PROVE AmoInv'
    BY <1>4, AmoFilter, Zenon
  <1> QED
    BY <1>1, <1>2, <1>3, <1>4, Zenon DEF Amo!Next

-----------------------------------------------------------------------------
(* What is remembered is recent, whether or not two messages may have one instant *)

\* maybe_update keeps the shape of what it is given.
LEMMA PruneTyped ==
    ASSUME AmoSizes, Amo!TypeOK, NEW times \in [Amo!Time -> 0..MaxSeq],
           NEW seqs \in SUBSET Amo!Seqno, Amo!MaybeUpdate(times, seqs)
    PROVE  /\ deliver_times' \in [Amo!Time -> 0..MaxSeq] /\ delivered' \subseteq Amo!Seqno
           /\ last_update' \in Amo!Time \cup {Amo!Never}
  <1> DEFINE kept == [t \in Amo!Time |-> IF Amo!Recent(t) THEN times[t] ELSE Amo!NoEntry]
  <1>1. kept \in [Amo!Time -> 0..MaxSeq] /\ Amo!Values(kept) \subseteq Amo!Seqno
    BY DEF Amo!Values, Amo!Seqno, Amo!NoEntry, AmoSizes
  <1>2. deliver_times' \in {times, kept} /\ delivered' \in {seqs, Amo!Values(kept)}
    BY Zenon DEF Amo!MaybeUpdate
  <1>3. last_update' \in {now, last_update}
    BY Zenon DEF Amo!MaybeUpdate
  <1> HIDE DEF kept
  <1> QED
    BY <1>1, <1>2, <1>3, Zenon DEF Amo!TypeOK

\* Every step keeps the types.
LEMMA NextTyped ==
    ASSUME AmoSizes, Amo!TypeOK, [Amo!Next]_Amo!vars
    PROVE  Amo!TypeOK'
  <1>1. CASE UNCHANGED Amo!vars
    BY <1>1, Zenon DEF Amo!vars, Amo!TypeOK
  <1>2. CASE Amo!Send
    BY <1>2 DEF Amo!Send, Amo!TypeOK, Amo!Seqno, AmoSizes
  <1>3. CASE Amo!Burst
    BY <1>3, Zenon DEF Amo!Burst, Amo!TypeOK
  <1>4. CASE \E s \in Amo!Seqno : Amo!Lose(s)
    BY <1>4, Zenon DEF Amo!Lose, Amo!TypeOK
  <1>5. CASE Amo!Tick
    BY <1>5 DEF Amo!Tick, Amo!TypeOK, Amo!Time, AmoSizes
  <1>6. ASSUME NEW s \in Amo!Seqno, Amo!Filter(s) PROVE Amo!TypeOK'
    <2>1. Amo!Record(s) \in [Amo!Time -> 0..MaxSeq]
      BY DEF Amo!Record, Amo!Seqno, Amo!TypeOK, AmoSizes
    <2>2. \/ Amo!MaybeUpdate(deliver_times, delivered)
          \/ Amo!MaybeUpdate(Amo!Record(s), delivered \cup {s})
      BY <1>6, Zenon DEF Amo!Filter
    <2>3. /\ deliver_times' \in [Amo!Time -> 0..MaxSeq] /\ delivered' \subseteq Amo!Seqno
          /\ last_update' \in Amo!Time \cup {Amo!Never}
      BY <2>1, <2>2, PruneTyped, Zenon DEF Amo!TypeOK
    <2>4. /\ amo_batch' \subseteq Amo!Seqno /\ UNCHANGED <<next_seq, amo_net, now>>
          /\ last' \in [Amo!Seqno -> Amo!Time \cup {Amo!Never}]
      BY <1>6, Zenon DEF Amo!Filter, Amo!TypeOK
    <2> QED
      BY <2>3, <2>4, Zenon DEF Amo!TypeOK
  <1> QED
    BY <1>1, <1>2, <1>3, <1>4, <1>5, <1>6, Zenon DEF Amo!Next

\* The period of maybe_update has begun once something was recorded, and not in the future;
\* MemoryIsBounded is not inductive without it, since the first call only starts the period.
Started ==
    /\ last_update <= now
    /\ last_update = Amo!Never => \A t \in Amo!Time : deliver_times[t] = Amo!NoEntry

\* maybe_update keeps no instant older than the horizon when it starts a new period.
LEMMA PruneBounded ==
    ASSUME AmoSizes, Amo!TypeOK, Amo!MemoryIsBounded, Started,
           NEW times \in [Amo!Time -> 0..MaxSeq], NEW seqs,
           \A t \in Amo!Time : times[t] # Amo!NoEntry => t = now \/ deliver_times[t] # Amo!NoEntry,
           Amo!MaybeUpdate(times, seqs), now' = now
    PROVE  Amo!MemoryIsBounded' /\ Started'
  <1> DEFINE kept == [t \in Amo!Time |-> IF Amo!Recent(t) THEN times[t] ELSE Amo!NoEntry]
  <1>0. /\ now \in Int /\ Sunset \in Nat /\ last_update \in Int /\ now # Amo!Never
        /\ \A t \in Amo!Time : t \in Int
    BY DEF Amo!TypeOK, Amo!Time, Amo!Never, AmoSizes
  <1>1. CASE Amo!PruneDue
    <2>1. last_update' = now /\ deliver_times' = kept
      BY <1>1, Zenon DEF Amo!MaybeUpdate
    <2>2. ASSUME NEW t \in Amo!Time, kept[t] # Amo!NoEntry PROVE now - t <= Sunset
      <3>1. Amo!Recent(t)
        BY <2>2, Zenon
      <3> QED
        BY <1>0, <3>1 DEF Amo!Recent
    <2> HIDE DEF kept
    <2> QED
      BY <1>0, <2>1, <2>2 DEF Amo!MemoryIsBounded, Started
  <1>2. CASE ~Amo!PruneDue /\ last_update = Amo!Never
    <2>1. last_update' = now /\ deliver_times' = times
      BY <1>2, Zenon DEF Amo!MaybeUpdate
    <2>2. \A t \in Amo!Time : times[t] # Amo!NoEntry => t = now
      BY <1>2, Zenon DEF Started
    <2>3. now - now <= Sunset
      BY <1>0
    <2> QED
      BY <1>0, <2>1, <2>2, <2>3 DEF Amo!MemoryIsBounded, Started
  <1>3. CASE ~Amo!PruneDue /\ last_update # Amo!Never
    <2>1. last_update' = last_update /\ deliver_times' = times
      BY <1>3, Zenon DEF Amo!MaybeUpdate
    <2>2. last_update - now <= Sunset
      BY <1>0 DEF Started
    <2> QED
      BY <1>3, <2>1, <2>2, Zenon DEF Amo!MemoryIsBounded, Started
  <1> QED
    BY <1>1, <1>2, <1>3, Zenon

\* Every step keeps the memory bounded.
LEMMA NextBounded ==
    ASSUME AmoSizes, Amo!TypeOK, Amo!MemoryIsBounded, Started, [Amo!Next]_Amo!vars
    PROVE  Amo!MemoryIsBounded' /\ Started'
  <1>0. now \in Int /\ last_update \in Int
    BY DEF Amo!TypeOK, Amo!Time, Amo!Never, AmoSizes
  <1>1. CASE UNCHANGED <<last_update, deliver_times>> /\ (now' = now \/ now' = now + 1)
    BY <1>0, <1>1 DEF Amo!MemoryIsBounded, Started
  <1>2. CASE \/ Amo!Send \/ Amo!Tick \/ Amo!Burst \/ UNCHANGED Amo!vars
             \/ \E s \in Amo!Seqno : Amo!Lose(s)
    BY <1>1, <1>2, Zenon DEF Amo!Send, Amo!Tick, Amo!Burst, Amo!Lose, Amo!vars
  <1>3. ASSUME NEW s \in Amo!Seqno, Amo!Filter(s) PROVE Amo!MemoryIsBounded' /\ Started'
    <2>1. now' = now /\ now \in Amo!Time /\ deliver_times \in [Amo!Time -> 0..MaxSeq]
      BY <1>3, Zenon DEF Amo!Filter, Amo!TypeOK
    <2>2. CASE Amo!MaybeUpdate(deliver_times, delivered)
      BY <2>1, <2>2, PruneBounded, Zenon
    <2>3. CASE Amo!MaybeUpdate(Amo!Record(s), delivered \cup {s})
      <3>1. Amo!Record(s) \in [Amo!Time -> 0..MaxSeq]
        BY <2>1 DEF Amo!Record, Amo!Seqno, AmoSizes
      <3>2. \A t \in Amo!Time : Amo!Record(s)[t] # Amo!NoEntry =>
                                  t = now \/ deliver_times[t] # Amo!NoEntry
        BY <2>1, Zenon DEF Amo!Record
      <3> QED
        BY <2>1, <2>3, <3>1, <3>2, PruneBounded, Zenon
    <2> QED
      BY <1>3, <2>2, <2>3, Zenon DEF Amo!Filter
  <1> QED
    BY <1>2, <1>3, Zenon DEF Amo!Next

-----------------------------------------------------------------------------

\* A message that is returned twice is returned the second time more than the horizon after
\* the first, whatever the transport repeats and whenever is_new and maybe_update prune
\* (atmostonce.rs).
THEOREM NotTwiceWithinHorizon ==
    ASSUME AmoConstants
    PROVE  Amo!Spec => Amo!AtMostOncePerHorizon
  <1>1. AmoInv /\ [Amo!Next]_Amo!vars => [Amo!ReturnedAgainLate]_Amo!vars
    <2> SUFFICES ASSUME AmoInv, Amo!Next, NEW s \in Amo!Seqno, last[s] # Amo!Never,
                        last'[s] # last[s]
                 PROVE  last'[s] - last[s] > Sunset
      BY Zenon DEF Amo!ReturnedAgainLate
    <2>1. Amo!Filter(s) /\ s \notin delivered /\ last' = [last EXCEPT ![s] = now]
      BY Zenon DEF Amo!Next, Amo!Send, Amo!Tick, Amo!Burst, Amo!Lose, Amo!Filter, AmoInv, Amo!TypeOK
    <2> QED
      BY <2>1, Zenon DEF AmoInv, Amo!TypeOK, Forgotten
  <1> QED
    BY <1>1, InitAmo, NextAmo, PTL DEF Amo!Spec, Amo!AtMostOncePerHorizon

\* The set of known numbers and the map of instants never disagree: a prune that forgets an
\* instant forgets its number, and only that one (maybe_update, atmostonce.rs).
THEOREM RecordsAlwaysAgree ==
    ASSUME AmoConstants
    PROVE  Amo!Spec => []Amo!RecordsAgree
  <1>1. AmoInv => Amo!RecordsAgree
    <2> SUFFICES ASSUME AmoInv PROVE Amo!RecordsAgree
      BY Zenon
    <2>1. \A s \in delivered : s \in Amo!Values(deliver_times)
      BY DEF AmoInv, Amo!TypeOK, Remembered, Amo!Values, Amo!Seqno, Amo!NoEntry
    <2>2. \A s \in Amo!Values(deliver_times) : s \in delivered
      BY Zenon DEF AmoInv, Stamped, Amo!Values
    <2> QED
      BY <2>1, <2>2, Zenon DEF Amo!RecordsAgree
  <1> QED
    BY <1>1, InitAmo, NextAmo, PTL DEF Amo!Spec

\* The memory of the receiver is bounded in time: when maybe_update has started a period, no
\* instant that it keeps is older than the horizon, also if the clock gives two messages the
\* same instant (atmostonce.rs).
THEOREM MemoryStaysBounded ==
    ASSUME AmoSizes
    PROVE  Amo!Spec => []Amo!MemoryIsBounded
  <1>1. Amo!Init => Amo!TypeOK /\ Amo!MemoryIsBounded /\ Started
    BY DEF AmoSizes, Amo!Init, Amo!TypeOK, Amo!MemoryIsBounded, Started, Amo!Time, Amo!Seqno,
           Amo!Never, Amo!NoEntry
  <1> QED
    BY <1>1, NextTyped, NextBounded, PTL DEF Amo!Spec

-----------------------------------------------------------------------------
(* ShenangoKv, as Kv, for any requests and retransmissions *)

CONSTANTS Req, MaxSend, None
VARIABLES n_sent, reqs, rsps, sends, snd, recvs, rt, r_hold, mt, m_hold, inflight, got
Kv == INSTANCE ShenangoKv

\* Where the answer to a request may be, once it has come.
Stacked(r) == \E i \in DOMAIN recvs : recvs[i] = r
Kept(r) == r \in got \/ Stacked(r) \/ \E m \in Req : m_hold[m] = r

\* The inductive invariant.  Between Push and Match the send has not been told yet, so what a
\* receiving thread holds must already be kept (Pushed); a thread of recv_msg takes an answer
\* only when it holds none (Hands); only requests that were made are answered (Made).
KvTypes ==
    /\ pc \in [Req -> {"idle", "send", "await", "done"}]
    /\ \A q \in reqs \cup rsps : q[1] \in Req
    /\ inflight \subseteq Req /\ recvs \in Seq(Req)
    /\ rt \in [Req -> {"none", "recv", "match", "exit"}]
    /\ mt \in [Req -> {"none", "loop", "pop", "gap", "cv", "woken", "hold", "exit"}]
    /\ r_hold \in [Req -> Req \cup {None}] /\ m_hold \in [Req -> Req \cup {None}]
Made ==
    /\ \A q \in reqs \cup rsps : pc[q[1]] # "idle"
    /\ \A t \in Req : r_hold[t] \in Req => pc[r_hold[t]] # "idle"
Hands == \A m \in Req : /\ m_hold[m] # None => mt[m] = "hold"
                        /\ pc[m] \in {"idle", "send"} => mt[m] = "none"
Pushed == \A t \in Req : r_hold[t] \in inflight => Kept(r_hold[t])
Told == \A r \in inflight \ sends : Kept(r)
KvInv == KvTypes /\ Made /\ Hands /\ Pushed /\ Told

\* If what is kept stays kept, unless it is no longer waited for, so do Pushed and Told.
LEMMA StillKept ==
    ASSUME KvInv, inflight' \subseteq inflight, sends \subseteq sends', r_hold' = r_hold,
           \A r \in inflight' : Kept(r) => Kept(r)'
    PROVE  Pushed' /\ Told'
  BY Zenon DEF KvInv, Pushed, Told

\* send_msg's step.
LEMMA KvSend ==
    ASSUME None \notin Req, KvInv, NEW r \in Req, Kv!SendMsg(r)
    PROVE  KvInv'
  <1> USE DEF KvInv, KvTypes
  <1>1. /\ pc' = [pc EXCEPT ![r] = "send"] /\ pc[r] = "idle"
        /\ inflight' = inflight \cup {r} /\ sends' = sends \cup {r}
        /\ reqs' = reqs \cup {<<r, n_sent[r] + 1>>} /\ rsps' = rsps
        /\ rt' = [rt EXCEPT ![r] = "recv"]
        /\ UNCHANGED <<recvs, r_hold, mt, m_hold, got>>
    BY Zenon DEF Kv!SendMsg, Kv!Transmit
  <1>2. KvTypes'
    BY <1>1
  <1>3. Made'
    BY <1>1 DEF Made
  <1>4. Hands'
    BY <1>1, Zenon DEF Hands
  <1>5. \A x : Kept(x)' <=> Kept(x)
    BY <1>1, Zenon DEF Kept, Stacked
  <1>6. \A t \in Req : r_hold[t] # r
    BY <1>1, Zenon DEF Made
  <1>7. Pushed' /\ Told'
    BY <1>1, <1>5, <1>6, Zenon DEF Pushed, Told
  <1> QED
    BY <1>2, <1>3, <1>4, <1>7, Zenon

\* The steps that move no answer: a retransmission, send's return, and the loop of recv_msg.
LEMMA KvQuiet ==
    ASSUME None \notin Req, KvInv, NEW r \in Req,
           Kv!Timeout(r) \/ Kv!SendReturns(r) \/ Kv!CheckDone(r) \/ Kv!CvWait(r)
    PROVE  KvInv'
  <1>1. UNCHANGED <<rsps, sends, recvs, rt, r_hold, m_hold, inflight, got>>
    BY Zenon DEF Kv!Timeout, Kv!SendReturns, Kv!CheckDone, Kv!CvWait, Kv!network, Kv!reliability,
           Kv!matcher, Kv!Transmit
  <1>2. KvTypes' /\ Made' /\ Hands'
    <2> USE DEF KvInv, KvTypes, Made, Hands
    <2>1. CASE Kv!Timeout(r)
      BY <1>1, <2>1 DEF Kv!Timeout, Kv!Transmit, Kv!matcher
    <2>2. CASE Kv!SendReturns(r)
      BY <1>1, <2>2 DEF Kv!SendReturns, Kv!network
    <2>3. CASE Kv!CheckDone(r)
      BY <1>1, <2>3, Zenon DEF Kv!CheckDone, Kv!network
    <2>4. CASE Kv!CvWait(r)
      BY <1>1, <2>4, Zenon DEF Kv!CvWait, Kv!network
    <2> QED
      BY <2>1, <2>2, <2>3, <2>4
  <1>3. \A x : Kept(x) => Kept(x)'
    BY <1>1, Zenon DEF Kept, Stacked
  <1>4. Pushed' /\ Told'
    BY <1>1, <1>3, StillKept
  <1> QED
    BY <1>2, <1>4, Zenon DEF KvInv

\* A response is pushed, and one waiter is woken.
LEMMA KvPush ==
    ASSUME None \notin Req, KvInv, NEW r \in Req, Kv!Push(r)
    PROVE  KvInv'
  <1> USE DEF KvInv, KvTypes
  <1>1. PICK x \in rsps : /\ rsps' = rsps \ {x}
                          /\ recvs' = Append(recvs, x[1])
                          /\ r_hold' = [r_hold EXCEPT ![r] = x[1]]
    BY Zenon DEF Kv!Push
  <1>2. PICK w \in Kv!Waiters \cup {None} :
            mt' = [m \in Req |-> IF m = w THEN "woken" ELSE mt[m]]
    BY Zenon DEF Kv!Push
  <1>3. /\ rt' = [rt EXCEPT ![r] = "match"]
        /\ UNCHANGED <<pc, reqs, sends, m_hold, inflight, got>>
    BY Zenon DEF Kv!Push
  <1>4. KvTypes'
    <2>1. recvs' \in Seq(Req)
      BY <1>1
    <2>2. r_hold' \in [Req -> Req \cup {None}]
      BY <1>1, Zenon
    <2>3. mt' \in [Req -> {"none", "loop", "pop", "gap", "cv", "woken", "hold", "exit"}]
      BY <1>2, Zenon
    <2> QED
      BY <1>1, <1>3, <2>1, <2>2, <2>3
  <1>5. Made'
    BY <1>1, <1>3, Zenon DEF Made
  <1>6. Hands'
    BY <1>2, <1>3 DEF Hands, Kv!Waiters
  <1>7. Stacked(x[1])' /\ \A y : Stacked(y) => Stacked(y)'
    <2>0. recvs \in Seq(Req) /\ x[1] \in Req /\ recvs' = Append(recvs, x[1])
      BY <1>1, Zenon
    <2> HIDE DEF KvInv, KvTypes
    <2>1. /\ DOMAIN recvs' = 1..(Len(recvs) + 1) /\ recvs'[Len(recvs) + 1] = x[1]
          /\ DOMAIN recvs = 1..Len(recvs) /\ \A i \in DOMAIN recvs : recvs'[i] = recvs[i]
          /\ Len(recvs) \in Nat
      BY <2>0
    <2>2. Stacked(x[1])'
      <3>1. Len(recvs) + 1 \in 1..(Len(recvs) + 1)
        BY <2>1
      <3> QED
        BY <2>1, <3>1 DEF Stacked
    <2>3. ASSUME NEW y, Stacked(y) PROVE Stacked(y)'
      <3> PICK k \in DOMAIN recvs : recvs[k] = y
        BY <2>3, Zenon DEF Stacked
      <3>1. k \in DOMAIN recvs' /\ recvs'[k] = y
        BY <2>1
      <3> QED
        BY <3>1, Zenon DEF Stacked
    <2> QED
      BY <2>2, <2>3
  <1>8. Kept(x[1])' /\ \A y : Kept(y) => Kept(y)'
    BY <1>3, <1>7, Zenon DEF Kept
  <1>9. Pushed' /\ Told'
    BY <1>1, <1>3, <1>8, Zenon DEF Pushed, Told
  <1> QED
    BY <1>4, <1>5, <1>6, <1>9

\* A send is told: its answer was kept before.
LEMMA KvMatch ==
    ASSUME None \notin Req, KvInv, NEW r \in Req, Kv!Match(r)
    PROVE  KvInv'
  <1> USE DEF KvInv, KvTypes
  <1>1. /\ sends' = sends \ {r_hold[r]} /\ r_hold' = [r_hold EXCEPT ![r] = None]
        /\ UNCHANGED <<pc, reqs, rsps, recvs, mt, m_hold, inflight, got>>
    BY Zenon DEF Kv!Match, Kv!network, Kv!matcher
  <1>2. \E e \in {"exit", "recv"} : rt' = [rt EXCEPT ![r] = e]
    BY Zenon DEF Kv!Match
  <1>3. KvTypes' /\ Made' /\ Hands'
    BY <1>1, <1>2 DEF Made, Hands
  <1>4. \A x : Kept(x)' <=> Kept(x)
    BY <1>1, Zenon DEF Kept, Stacked
  <1>5. ASSUME NEW t \in Req, r_hold'[t] \in inflight'
        PROVE  Kept(r_hold[t])'
    <2>1. CASE t = r
      BY <1>1, <1>5, <2>1
    <2>2. CASE t # r
      BY <1>1, <1>4, <1>5, <2>2 DEF Pushed
    <2> QED
      BY <2>1, <2>2, Zenon
  <1>6. Told'
    BY <1>1, <1>4 DEF Told, Pushed
  <1> QED
    BY <1>3, <1>5, <1>6, Zenon DEF Pushed

\* recv_msg takes the last answer of recvs, or finds none.
LEMMA KvPop ==
    ASSUME None \notin Req, KvInv, NEW r \in Req, Kv!Pop(r)
    PROVE  KvInv'
  <1> USE DEF KvInv, KvTypes
  <1>0. UNCHANGED <<pc, reqs, rsps, sends, rt, r_hold, inflight, got>> /\ mt[r] \in {"pop", "woken"}
    BY Zenon DEF Kv!Pop, Kv!network, Kv!reliability
  <1>1. CASE recvs = <<>>
    <2>1. mt' = [mt EXCEPT ![r] = "gap"] /\ UNCHANGED <<recvs, m_hold>>
      BY <1>1, Zenon DEF Kv!Pop
    <2>2. KvTypes' /\ Made' /\ Hands'
      BY <1>0, <2>1 DEF Made, Hands
    <2>3. \A x : Kept(x) => Kept(x)'
      BY <1>0, <2>1 DEF Kept, Stacked
    <2> QED
      BY <1>0, <2>2, <2>3, StillKept
  <1>2. CASE recvs # <<>>
    <2> DEFINE n == Len(recvs)
    <2>1. /\ mt' = [mt EXCEPT ![r] = "hold"]
          /\ m_hold' = [m_hold EXCEPT ![r] = recvs[n]]
          /\ recvs' = SubSeq(recvs, 1, n - 1)
      BY <1>2, Zenon DEF Kv!Pop
    <2>2. n \in Nat /\ n > 0 /\ DOMAIN recvs = 1..n /\ recvs[n] \in Req
      BY <1>2, SMTT(30)
    <2>3. /\ recvs' \in Seq(Req) /\ DOMAIN recvs' = 1..(n - 1)
          /\ \A i \in 1..(n - 1) : recvs'[i] = recvs[i]
      BY <2>1, <2>2
    <2> HIDE DEF n
    <2>4. KvTypes'
      BY <1>0, <2>1, <2>2, <2>3, Zenon
    <2>5. Made' /\ Hands'
      BY <1>0, <2>1, Zenon DEF Made, Hands
    <2>6. m_hold[r] = None /\ m_hold'[r] = recvs[n] /\ \A m \in Req \ {r} : m_hold'[m] = m_hold[m]
      BY <1>0, <2>1, Zenon DEF Hands
    <2>7. ASSUME NEW x \in Req, Stacked(x) PROVE Stacked(x)' \/ m_hold'[r] = x
      <3> PICK i \in 1..n : recvs[i] = x
        BY <2>2, <2>7, ZenonT(30) DEF Stacked
      <3>1. i = n \/ i \in 1..(n - 1)
        BY <2>2
      <3> QED
        BY <2>3, <2>6, <3>1, Zenon DEF Stacked
    <2>8. ASSUME NEW x \in Req, NEW m \in Req, m_hold[m] = x PROVE m_hold'[m] = x
      BY <2>6, <2>8
    <2>9. \A x \in Req : Kept(x) => Kept(x)'
      BY <1>0, <2>7, <2>8 DEF Kept
    <2>10. Pushed' /\ Told'
      BY <1>0, <2>9, StillKept, SMTT(30)
    <2> QED
      BY <2>4, <2>5, <2>10
  <1> QED
    BY <1>1, <1>2

\* recv_msg hands an answer to the request that it answers, or drops it.
LEMMA KvDeliver ==
    ASSUME None \notin Req, KvInv, NEW r \in Req, Kv!Deliver(r)
    PROVE  KvInv'
  <1> USE DEF KvInv, KvTypes
  <1>1. /\ got' = got \cup ({m_hold[r]} \cap inflight)
        /\ m_hold' = [m_hold EXCEPT ![r] = None]
        /\ UNCHANGED <<pc, reqs, rsps, sends, rt, r_hold, recvs, inflight>>
    BY Zenon DEF Kv!Deliver, Kv!network, Kv!reliability
  <1>2. mt[r] = "hold" /\ \E e \in {"exit", "loop"} : mt' = [mt EXCEPT ![r] = e]
    BY Zenon DEF Kv!Deliver
  <1>3. KvTypes' /\ Made'
    BY <1>1, <1>2 DEF Made
  <1>4. Hands'
    BY <1>1, <1>2 DEF Hands
  <1>5. \A x \in inflight : Kept(x) => Kept(x)'
    BY <1>1 DEF Kept, Stacked
  <1>6. Pushed' /\ Told'
    BY <1>1, <1>5, StillKept, SMTT(30)
  <1> QED
    BY <1>3, <1>4, <1>6

\* do_req returns: nobody waits for the answer any more.
LEMMA KvReturn ==
    ASSUME None \notin Req, KvInv, NEW r \in Req, Kv!RecvReturns(r)
    PROVE  KvInv'
  <1> USE DEF KvInv, KvTypes
  <1>1. /\ pc' = [pc EXCEPT ![r] = "done"] /\ inflight' = inflight \ {r} /\ got' = got \ {r}
        /\ UNCHANGED <<reqs, rsps, sends, rt, r_hold, recvs, mt, m_hold>>
    BY Zenon DEF Kv!RecvReturns, Kv!network, Kv!reliability
  <1>2. KvTypes'
    BY <1>1, Zenon
  <1>3. Made' /\ Hands'
    BY <1>1 DEF Made, Hands
  <1>4. \A x \in inflight' : Kept(x) => Kept(x)'
    BY <1>1, Zenon DEF Kept, Stacked
  <1> QED
    BY <1>1, <1>2, <1>3, <1>4, StillKept

\* The network answers, and loses.
LEMMA KvNetwork ==
    ASSUME None \notin Req, KvInv, NEW q, Kv!Perconn(q) \/ Kv!Lose(q)
    PROVE  KvInv'
  <1>1. /\ reqs' \cup rsps' \subseteq reqs \cup rsps
        /\ UNCHANGED <<pc, sends, rt, r_hold, recvs, mt, m_hold, inflight, got>>
    BY Zenon DEF Kv!Perconn, Kv!Lose, Kv!reliability, Kv!matcher
  <1>2. KvTypes' /\ Made' /\ Hands'
    BY <1>1, Zenon DEF KvInv, KvTypes, Made, Hands
  <1>3. \A x : Kept(x) => Kept(x)'
    BY <1>1, Zenon DEF Kept, Stacked
  <1> QED
    BY <1>1, <1>2, <1>3, StillKept, Zenon DEF KvInv

\* Whichever request's thread takes a response, the request that it answers does not lose it: once
\* its send has been told, the response is delivered, in recvs, or in the hands of some thread
\* (shenango-bertha's KvReliability and MsgIdMatcher).
THEOREM AnswersAreKept ==
    ASSUME None \notin Req
    PROVE  Kv!Spec => []Kv!AnswerNotLost
  <1>1. Kv!Init => KvInv
    BY DEF Kv!Init, KvInv, KvTypes, Made, Hands, Pushed, Told
  <1>2. KvInv /\ [Kv!Next]_(Kv!vars) => KvInv'
    <2> SUFFICES ASSUME KvInv, [Kv!Next]_(Kv!vars) PROVE KvInv'
      BY Zenon
    <2>1. CASE UNCHANGED Kv!vars
      BY <2>1 DEF Kv!vars, KvInv, KvTypes, Made, Hands, Pushed, Told, Kept, Stacked
    <2>2. ASSUME NEW r \in Req, Kv!Thread(r) \/ Kv!Timeout(r) PROVE KvInv'
      BY <2>2, KvSend, KvQuiet, KvPush, KvMatch, KvPop, KvDeliver, KvReturn, Zenon DEF Kv!Thread
    <2> QED
      BY <2>1, <2>2, KvNetwork DEF Kv!Next
  <1>3. KvInv => Kv!AnswerNotLost
    BY Zenon DEF KvInv, KvTypes, Told, Kept, Stacked, Kv!AnswerNotLost
  <1> QED
    BY <1>1, <1>2, <1>3, PTL DEF Kv!Spec
=============================================================================
