-------------------------- MODULE StackAlgorithms --------------------------
(***************************************************************************)
(* How a client and a server choose their stacks: the enumeration of the   *)
(* stacks that a stack with Selects can become (get_offers.rs), the        *)
(* server's choice (server.rs, pick.rs), and the client's (client.rs,      *)
(* apply.rs).  Module Handshake treats this computation as one verdict.    *)
(*                                                                         *)
(* A stack is a tree of chunnels (leaf), CxLists, Selects and Options.  A  *)
(* chunnel has a capability, or NoCap (guid 0), and an implementation.     *)
(* impl_guid values are combined with XOR: a set of implementations and    *)
(* the symmetric difference stand for it, which supposes that no XOR of    *)
(* different guids is 0 by accident.  Univ[c] is the universe of a         *)
(* one-sided capability and {} for a two-sided one (sidedness None).       *)
(***************************************************************************)
EXTENDS Naturals, Sequences, FiniteSets, SequencesExt

CONSTANTS
    NoCap,      \* the capability guid 0
    Univ,       \* [capability -> its universe]
    Pairs       \* the pairs of stacks, <<client's, server's>>, that meet

VARIABLES
    cstack,     \* the client's stack
    sstack,     \* the server's stack
    phase,      \* how far the negotiation is
    picked,     \* the stack the server serves with
    nonce,      \* the StackNonce that the server's chunnels are told
    reply       \* the client StackNonces of ServerReply(Ok(..)), or of the ClientNonce

vars == <<cstack, sstack, phase, picked, nonce, reply>>

Empty == [c \in {} |-> 0]
Nil == [t |-> "leaf", cap |-> NoCap, impl |-> "CxNil", avail |-> <<>>]

-----------------------------------------------------------------------------
(* get_offers.rs *)

Flip(A, B) == SymDiff(A, B)

Merge(l, r) ==
    [c \in DOMAIN l \union DOMAIN r |->
        IF c \notin DOMAIN r THEN l[c]
        ELSE IF c \notin DOMAIN l THEN r[c]
        ELSE [r[c] EXCEPT !.impl = Flip(@, l[c].impl), !.avail = @ \o l[c].avail]]

LeafOffer(s) ==
    IF s.cap = NoCap THEN Empty
    ELSE [c \in {s.cap} |-> [impl |-> {s.impl}, univ |-> Univ[c], avail |-> s.avail]]

RECURSIVE Offers(_)
Offers(s) ==
    CASE s.t = "leaf"   -> <<LeafOffer(s)>>
      [] s.t = "select" -> Offers(s.left) \o Offers(s.right)
      [] s.t = "none"   -> <<>>
      [] s.t = "list"   ->
            LET hs == Offers(s.head)  ts == Offers(s.tail) IN
            FlattenSeq([i \in DOMAIN ts |-> [j \in DOMAIN hs |-> Merge(hs[j], ts[i])]])

-----------------------------------------------------------------------------
(* server.rs: stack_pair_valid and compare_offers *)

HaveAll(univ, joint) == \A x \in univ : x \in ToSet(joint)

StackPairValid(client, server) ==
    \A c \in DOMAIN client :
        LET offer == client[c] IN
        IF offer.univ # {}
        THEN HaveAll(offer.univ, offer.avail \o (IF c \in DOMAIN server
                                                 THEN server[c].avail ELSE <<>>))
        ELSE /\ c \in DOMAIN server
             /\ offer.impl = server[c].impl
             /\ ToSet(offer.avail) = ToSet(server[c].avail)

CompareOffers(cs, ss) ==
    FlattenSeq([i \in DOMAIN cs |->
        SelectSeq([j \in DOMAIN ss |-> <<cs[i], ss[j]>>],
                  LAMBDA p : StackPairValid(p[1], p[2]))])

-----------------------------------------------------------------------------
(* pick.rs.  A result is [ok, stack, pairs, touched]. *)

PickErr == [ok |-> FALSE, stack |-> Nil, pairs |-> <<>>, touched |-> {}]

\* The pair that a chunnel leaves of a pair, given that it keeps it.
LeafKeeps(s, p) ==
    IF s.cap \notin DOMAIN p[2] THEN s.cap \notin DOMAIN p[1]
    ELSE p[2][s.cap].univ = {} =>
            /\ s.cap \in DOMAIN p[1]
            /\ ToSet(p[1][s.cap].avail) = ToSet(p[2][s.cap].avail)

LeafLeaves(s, p) ==
    IF s.cap \in DOMAIN p[2] /\ p[2][s.cap].univ = {}
    THEN <<p[1], [p[2] EXCEPT ![s.cap].impl = Flip(@, {s.impl})]>>
    ELSE p

PickLeaf(s, pairs) ==
    IF s.cap = NoCap
    THEN [ok |-> TRUE, stack |-> s, pairs |-> pairs, touched |-> {}]
    ELSE LET kept == SelectSeq(pairs, LAMBDA p : LeafKeeps(s, p)) IN
         [ok |-> TRUE, stack |-> s, touched |-> {s.cap},
          pairs |-> [i \in DOMAIN kept |-> LeafLeaves(s, kept[i])]]

\* A mutant: an implementation that is not there counts as matched.
ImplUnchecked(c, p) == TRUE

\* The implementations of capability c match in a pair.
ImplMatched(c, p) ==
    \/ p[2][c].impl = {}
    \/ /\ p[2][c].univ # {}
       /\ IF c \in DOMAIN p[1]
          THEN Cardinality(ToSet(p[1][c].avail \o p[2][c].avail)) = Cardinality(p[2][c].univ)
          ELSE Len(p[2][c].avail) = Cardinality(p[2][c].univ)

PartialOk(touched, p) ==
    \A c \in touched : c \in DOMAIN p[1] /\ (c \in DOMAIN p[2] => ImplMatched(c, p))

\* A mutant: also a one-sided capability of the client must be in the server's stack.
CompleteOkAll(touched, p) ==
    /\ DOMAIN p[1] \subseteq touched
    /\ \A c \in touched : c \in DOMAIN p[2] /\ ImplMatched(c, p)

CompleteOk(touched, p) ==
    /\ \A c \in DOMAIN p[1] : p[1][c].univ # {} \/ c \in touched
    /\ \A c \in touched : c \in DOMAIN p[2] /\ ImplMatched(c, p)

\* Both checks end alike: none left is an error.
Left(r, pairs) == IF ~r.ok \/ pairs = <<>> THEN PickErr ELSE [r EXCEPT !.pairs = pairs]

CheckTouchedPartial(r) ==
    Left(r, SelectSeq(r.pairs, LAMBDA p : PartialOk(r.touched, p)))

CheckTouchedComplete(r) ==
    Left(r, SelectSeq(r.pairs, LAMBDA p : CompleteOk(r.touched, p)))

RECURSIVE Pick(_, _)
Pick(s, pairs) ==
    CASE s.t = "leaf" -> PickLeaf(s, pairs)
      [] s.t = "none" -> [ok |-> TRUE, stack |-> s, pairs |-> pairs, touched |-> {}]
      [] s.t = "list" ->
            LET h == Pick(s.head, pairs)
                t == Pick(s.tail, h.pairs)
            IN  IF ~h.ok THEN PickErr
                ELSE IF ~t.ok THEN PickErr
                ELSE [ok |-> TRUE, pairs |-> t.pairs, touched |-> h.touched \union t.touched,
                      stack |-> [t |-> "list", head |-> h.stack, tail |-> t.stack]]
      [] s.t = "select" ->
            LET first  == IF s.prefer = "left" THEN s.left ELSE s.right
                second == IF s.prefer = "left" THEN s.right ELSE s.left
                r == CheckTouchedPartial(Pick(first, pairs))
            IN  IF r.ok THEN r ELSE CheckTouchedPartial(Pick(second, pairs))

-----------------------------------------------------------------------------
(* server.rs: monomorphize *)

\* A mutant: the whole offer is compared, but pick has changed impl_guid.
FirstEqual(choice, options) == SelectInSeq(options, LAMBDA o : o = choice)

\* check_possibilities: the first option whose capabilities are all in the chosen one.
FirstWithin(choice, options) ==
    SelectInSeq(options, LAMBDA o :
        \A c \in DOMAIN o : c \in DOMAIN choice /\ choice[c].avail = o[c].avail)

Monomorphize(s, client_offers) ==
    LET options == Offers(s)
        r == CheckTouchedComplete(Pick(s, CompareOffers(client_offers, options)))
        i == FirstWithin(Last(r.pairs)[2], options)
    IN  IF ~r.ok THEN [res |-> "err"]
        ELSE IF i = 0 THEN [res |-> "panic"]
        ELSE [res |-> "ok", stack |-> r.stack, nonce |-> options[i],
              clients |-> [k \in DOMAIN r.pairs |-> r.pairs[k][1]]]

-----------------------------------------------------------------------------
(* apply.rs.  A result is [ok, stack, offer, touched, score]. *)

ApplyErr == [ok |-> FALSE, stack |-> Nil, offer |-> Empty, touched |-> {}, score |-> 0]

\* A mutant: a chunnel of a two-sided capability does not consume its implementation.
ApplyLeafKeeps(s, o) ==
    IF s.cap # NoCap /\ s.cap \notin DOMAIN o THEN ApplyErr
    ELSE [ok |-> TRUE, stack |-> s, touched |-> {s.cap} \ {NoCap}, score |-> 0, offer |-> o]

\* A mutant: a chunnel is applied whether or not the offer has its capability.
ApplyLeafAnyway(s, o) ==
    IF s.cap \in DOMAIN o /\ o[s.cap].univ = {}
    THEN [ok |-> TRUE, stack |-> s, touched |-> {s.cap}, score |-> 0,
          offer |-> [o EXCEPT ![s.cap].impl = Flip(@, {s.impl})]]
    ELSE [ok |-> TRUE, stack |-> s, offer |-> o, touched |-> {}, score |-> 0]

ApplyLeaf(s, o) ==
    IF s.cap = NoCap
    THEN [ok |-> TRUE, stack |-> s, offer |-> o, touched |-> {}, score |-> 0]
    ELSE IF s.cap \notin DOMAIN o THEN ApplyErr
    ELSE [ok |-> TRUE, stack |-> s, touched |-> {s.cap}, score |-> 0,
          offer |-> IF o[s.cap].univ = {}
                    THEN [o EXCEPT ![s.cap].impl = Flip(@, {s.impl})] ELSE o]

\* A mutant: apply is trusted without the check.
AppliedUnchecked(r) == r

CheckApplied(r) ==
    IF r.ok /\ \A c \in r.touched : r.offer[c].univ = {} => r.offer[c].impl = {}
    THEN r ELSE ApplyErr

RECURSIVE ApplyStack(_, _)
ApplyStack(s, o) ==
    CASE s.t = "leaf" -> ApplyLeaf(s, o)
      [] s.t = "none" -> [ok |-> TRUE, stack |-> s, offer |-> o, touched |-> {}, score |-> 0]
      [] s.t = "list" ->
            LET h == ApplyStack(s.head, o)
                t == ApplyStack(s.tail, h.offer)
            IN  IF ~h.ok THEN ApplyErr
                ELSE IF ~t.ok THEN ApplyErr
                ELSE [ok |-> TRUE, offer |-> t.offer, touched |-> h.touched \union t.touched,
                      score |-> h.score + t.score,
                      stack |-> [t |-> "list", head |-> h.stack, tail |-> t.stack]]
      [] s.t = "select" ->
            LET first  == IF s.prefer = "left" THEN s.left ELSE s.right
                second == IF s.prefer = "left" THEN s.right ELSE s.left
                r == CheckApplied(ApplyStack(first, o))
            IN  IF r.ok THEN [r EXCEPT !.score = @ + 1]
                ELSE CheckApplied(ApplyStack(second, o))

\* negotiate_client_fetch_nonce: the first of the highest score.
Best(rs) ==
    LET i == SelectInSeq(rs, LAMBDA r : r.ok /\ \A q \in ToSet(rs) : q.ok => q.score <= r.score)
    IN  IF i = 0 THEN ApplyErr ELSE rs[i]

-----------------------------------------------------------------------------
Init ==
    /\ \E p \in Pairs : cstack = p[1] /\ sstack = p[2]
    /\ phase = "start" /\ picked = Nil /\ nonce = Empty /\ reply = <<>>

\* The ClientOffer branch of negotiate_server_connection.
ServerChooses ==
    LET m == Monomorphize(sstack, Offers(cstack)) IN
    /\ phase = "start"
    /\ \/ /\ m.res = "ok" /\ phase' = "replied"
          /\ picked' = m.stack /\ nonce' = m.nonce /\ reply' = m.clients
       \/ /\ m.res # "ok" /\ phase' = [err |-> "refused", panic |-> "panic"][m.res]
          /\ UNCHANGED <<picked, nonce, reply>>
    /\ UNCHANGED <<cstack, sstack>>

\* negotiate_client_fetch_nonce: the client applies the stacks of the reply to its own.
ClientApplies ==
    LET tried == IF reply = <<>> THEN <<Empty>> ELSE reply
        b == Best([i \in DOMAIN tried |-> CheckApplied(ApplyStack(cstack, tried[i]))])
    IN
    /\ phase = "replied"
    /\ \/ b.ok /\ phase' = "agreed" /\ cstack' = b.stack
       \/ ~b.ok /\ phase' = "failed" /\ UNCHANGED cstack
    /\ UNCHANGED <<sstack, picked, nonce, reply>>

\* re_negotiate, after a stale ClientNonce was answered with the server's offers: the client
\* monomorphizes its stack with them, applies the nonce that this names, and sends what it
\* then has as the next ClientNonce.
ClientRenegotiates ==
    LET m == Monomorphize(cstack, Offers(sstack))
        a == ApplyStack(cstack, m.nonce)
    IN
    /\ phase = "start"
    /\ \/ /\ m.res = "ok" /\ a.ok /\ phase' = "asked"
          /\ cstack' = a.stack /\ reply' = Offers(a.stack)
       \/ /\ ~(m.res = "ok" /\ a.ok) /\ phase' = IF m.res = "panic" THEN "panic" ELSE "failed"
          /\ UNCHANGED <<cstack, reply>>
    /\ UNCHANGED <<sstack, picked, nonce>>

\* The ClientNonce branch of negotiate_server_connection.
ServerChecks ==
    LET m == Monomorphize(sstack, reply) IN
    /\ phase = "asked"
    /\ \/ m.res = "ok" /\ phase' = "agreed" /\ picked' = m.stack /\ nonce' = m.nonce
       \/ /\ m.res # "ok" /\ phase' = [err |-> "refused again", panic |-> "panic"][m.res]
          /\ UNCHANGED <<picked, nonce>>
    /\ UNCHANGED <<cstack, sstack, reply>>

Next == ServerChooses \/ ClientApplies \/ ClientRenegotiates \/ ServerChecks

Spec == Init /\ [][Next]_vars

-----------------------------------------------------------------------------
\* The offer of the chunnels of a stack that has no Select left; an Option None adds nothing.
RECURSIVE OfferOf(_)
OfferOf(s) ==
    CASE s.t = "leaf" -> LeafOffer(s)
      [] s.t = "none" -> Empty
      [] s.t = "list" -> Merge(OfferOf(s.head), OfferOf(s.tail))

\* No stack that s can become has a capability twice, or a one-sided one.
Regular(s) ==
    \A o \in ToSet(Offers(s)) : \A c \in DOMAIN o : o[c].univ = {} /\ Cardinality(o[c].impl) = 1

TypeOK ==
    /\ phase \in {"start", "replied", "refused", "panic", "agreed", "failed", "asked",
                  "refused again"}
    /\ \E p \in Pairs : p[2] = sstack

\* `expect("picked must be in choices")` and the assertion before it never fail, for any stacks.
NoPickPanic == phase # "panic"

\* Every client stack in a ServerReply works with the stack that the server serves with.  Over
\* one-sided capabilities this is not so: the pairs that pick leaves are not those of its choice.
ReplyFits ==
    (phase = "replied" /\ Regular(cstack) /\ Regular(sstack)) =>
        \A i \in DOMAIN reply : StackPairValid(reply[i], OfferOf(picked))

\* The stack that a client applies after negotiating, with or without a round trip, requires
\* nothing that the server's choice does not have (stack_pair_valid, server.rs).
ClientNeedsMet ==
    (phase = "agreed" /\ Regular(cstack) /\ Regular(sstack)) =>
        StackPairValid(OfferOf(cstack), OfferOf(picked))

\* After one round trip, the client can apply one of the stacks it is told, unless a capability
\* is in a stack twice.
ReplyApplies ==
    (phase = "failed" /\ reply # <<>>) => ~Regular(cstack)

TwoSided(o) == {c \in DOMAIN o : o[c].univ = {}}

\* get_offers.rs and the capability sets say of a capability without a universe that both sides
\* have to match.  The client's apply only looks at the capabilities of the side of a Select that
\* it tries first: if that side has none, it is taken whatever the server serves with.
TwoSidedMatch ==
    phase = "agreed" => TwoSided(OfferOf(cstack)) = TwoSided(OfferOf(picked))

\* With the applications' stacks that is the only way to differ: a client that ends up with some
\* two-sided capability (encryption, reliability) has those of the server, and no others.
BareOrMatched ==
    phase = "agreed" => TwoSided(OfferOf(cstack)) \in {{}, TwoSided(OfferOf(picked))}

\* An application's server refuses a client only if none of their stacks fit, or if it has itself
\* a stack without two-sided capabilities: pick takes that one before it looks at the client's.
RefusedForCause ==
    phase = "refused" =>
        \/ CompareOffers(Offers(cstack), Offers(sstack)) = <<>>
        \/ \E o \in ToSet(Offers(sstack)) : TwoSided(o) = {}
=============================================================================
