--------------------------- MODULE ProtocolProofs ----------------------------
(***************************************************************************)
(* What the parties of curv run with each other.  For every group order,   *)
(* any number of sessions and of changed messages, and any seeds: the      *)
(* first message a party takes binds what it ends up with, and two parties *)
(* that took each other's messages agree (TwoParty).  For every group of   *)
(* prime order, every ring of any size, and any hash: a ring signature     *)
(* closes at whichever place its signer stands, and no altered or          *)
(* misplaced one passes on its hashes (RingSignature).  For every prime    *)
(* order, number of parties, threshold, choice of points and number of     *)
(* reshares: shares validate by number of generation, enough of them give  *)
(* the secret back however they are put together, too few leave most       *)
(* secrets open, and checked ones give nothing else (Sharing and           *)
(* DealtSecret).                                                           *)
(***************************************************************************)
EXTENDS TwoParty, RingSignature, Sharing, PolynomialTheorems

-----------------------------------------------------------------------------
(* What messages and parties carry. *)

DLogProofs == [pk : Scalar, t : Int, verifies : BOOLEAN]
Body(b) ==
  CASE b = "commit"      -> [com : Scalar \X Blinds, verifies : BOOLEAN]
    [] b = "seed"        -> [seed : Scalar]
    [] b = "reveal"      -> [m : Scalar, com : Scalar \X Blinds, verifies : BOOLEAN]
    [] b = "commitments" -> [pk : Nat \X Blinds, pok : Int \X Blinds]
    [] b = "pok"         -> [proof : DLogProofs, share : Scalar]
    [] b = "decommit"    -> [pkBlind : Blinds, pokBlind : Blinds, share : Scalar, proof : DLogProofs]
    [] OTHER             -> [share : Scalar]

\* The messages of a protocol, and those that party 1 sends.
Kinds(p) == CASE p = "coin" -> {"commit", "seed", "reveal"}
              [] p = "dh"   -> {"share1", "share2"}
              [] OTHER      -> {"commitments", "pok", "decommit"}
OfOne == {"commit", "reveal", "share1", "commitments", "decommit"}
Envelope(b) == [by : {b}, session : Sessions, changed : BOOLEAN, body : Body(b)]

\* The party that sent a message, its secret, and what a message says it is.
Sender(m) == IF m.by \in OfOne THEN one[m.session] ELSE two[m.session]
Alive(party) == party.at \notin {"idle", "err", "panic"}
Own(party) == IF protocol = "coin" THEN party.seed ELSE party.secret
Claim(m) == CASE m.by \in {"commit", "reveal"} -> m.body.com[1]
              [] m.by = "seed" -> m.body.seed
              [] m.by = "commitments" -> m.body.pk[1]
              [] OTHER -> m.body.share

\* What a message says is its sender's own as long as that has not given up,
\* unless the message has been changed: then a coin's commitment still is, and
\* the commitment to a share opens to none.
Truthful(m) == m.by \in {"commit", "reveal"} \/ ~m.changed
MessageOK(m) ==
  /\ m.by \in Kinds(protocol) /\ m \in Envelope(m.by)
  /\ Sender(m).at # "idle"
  /\ Truthful(m) /\ Alive(Sender(m)) => Claim(m) = Own(Sender(m))
  /\ m.by = "reveal" /\ m.body.verifies => m.body.com[1] = m.body.m
  /\ m.by = "commitments" /\ m.changed => m.body.pk[1] >= Order

\* A function of the sessions.
OverSessions(side) == side = [i \in Sessions |-> side[i]]

OneOK(i) ==
  LET party == one[i]
      took(b) == party.peer \in msgs /\ party.peer.by = b
  IN  /\ Alive(party) => Own(party) \in Scalar
      /\ protocol = "coin" /\ party.at = "committed" => party.r \in Blinds
      /\ protocol = "pok" /\ party.at = "committed" =>
           party.witness \in Body("decommit") /\ party.witness.share = party.secret
      /\ party.at = "done" =>
           CASE protocol = "coin" -> took("seed") /\ party.out = FlipResult(party.seed, party.peer.body.seed)
             [] protocol = "dh"   -> took("share2") /\ party.out = ComputePubkey(party.secret, party.peer.body.share)
             [] OTHER             -> took("pok") /\ party.out = ComputePubkey(party.secret, party.peer.body.share)

TwoOK(j) ==
  LET party == two[j]
      took(b) == party.first \in msgs /\ party.first.by = b
  IN  /\ Alive(party) => Own(party) \in Scalar
      /\ protocol = "coin" /\ party.at \in {"shared", "done"} => took("commit")
      /\ protocol = "coin" /\ party.at = "done" =>
           party.out = FlipResult(party.first.body.com[1], party.seed)
      /\ protocol = "dh" /\ party.at = "done" =>
           took("share1") /\ party.out = ComputePubkey(party.secret, party.first.body.share)
      /\ protocol = "pok" /\ party.at \in {"sent", "done"} => took("commitments")
      /\ protocol = "pok" /\ party.at = "done" =>
           /\ party.first.body.pk[1] \in Scalar
           /\ party.out = ComputePubkey(party.secret, party.first.body.pk[1])

PartiesIInv ==
  /\ protocol \in {"coin", "dh", "pok"}
  /\ OverSessions(one) /\ OverSessions(two)
  /\ \A m \in msgs : MessageOK(m)
  /\ \A i \in Sessions : OneOK(i) /\ TwoOK(i)

-----------------------------------------------------------------------------
(* Steps of one party. *)

LEMMA NowFacts ==
  ASSUME NEW side, OverSessions(side), NEW i \in Sessions, NEW rec
  PROVE  /\ OverSessions(Now(side, i, rec))
         /\ Now(side, i, rec)[i] = rec
         /\ \A k \in Sessions \ {i} : Now(side, i, rec)[k] = side[k]
<1> DEFINE f == Now(side, i, rec)
<1>1. side = [k \in Sessions |-> side[k]]
  BY DEF OverSessions
<1>2. f = [k \in Sessions |-> IF k = i THEN rec ELSE side[k]]
  BY <1>1 DEF Now
<1> HIDE DEF f
<1>3. \A k \in Sessions : f[k] = IF k = i THEN rec ELSE side[k]
  BY <1>2
<1>4. OverSessions(f)
  BY <1>2, <1>3 DEF OverSessions
<1> QED BY <1>3, <1>4 DEF f

\* A party that has sent something does not go back, and keeps its secret unless
\* it gives up.
Goes(a, b) == a.at # "idle" => b.at # "idle" /\ (Alive(b) => Alive(a) /\ Own(b) = Own(a))

LEMMA MessageStays ==
  ASSUME protocol' = protocol, NEW m, MessageOK(m),
         \A i \in Sessions : Goes(one[i], one'[i]) /\ Goes(two[i], two'[i])
  PROVE  MessageOK(m)'
<1>1. m.session \in Sessions
  BY DEF MessageOK, Envelope
<1>2. Goes(Sender(m), Sender(m)')
  BY <1>1 DEF Sender
<1>3. /\ Sender(m)'.at # "idle"
      /\ Truthful(m) /\ Alive(Sender(m)') => Claim(m) = Own(Sender(m)')
  BY <1>2 DEF MessageOK, Goes
<1>4. Own(Sender(m)') = Own(Sender(m))'
  BY DEF Own
<1> QED BY <1>3, <1>4 DEF MessageOK, Alive

LEMMA OneStays ==
  ASSUME protocol' = protocol, msgs \subseteq msgs', NEW i \in Sessions, one'[i] = one[i], OneOK(i)
  PROVE  OneOK(i)'
BY DEF OneOK, Alive, Own

LEMMA TwoStays ==
  ASSUME protocol' = protocol, msgs \subseteq msgs', NEW i \in Sessions, two'[i] = two[i], TwoOK(i)
  PROVE  TwoOK(i)'
BY DEF TwoOK, Alive, Own

LEMMA StepOfOne ==
  ASSUME PartiesIInv, protocol' = protocol, two' = two, NEW i \in Sessions, NEW rec, one' = Now(one, i, rec),
         Goes(one[i], rec), NEW M, msgs' = msgs \cup M, \A m \in M : MessageOK(m)', OneOK(i)'
  PROVE  PartiesIInv'
<1>1. OverSessions(one) /\ OverSessions(two)
  BY DEF PartiesIInv
<1>2. OverSessions(one') /\ one'[i] = rec /\ \A k \in Sessions \ {i} : one'[k] = one[k]
  BY <1>1, NowFacts
<1>3. \A k \in Sessions : Goes(one[k], one'[k]) /\ Goes(two[k], two'[k])
  <2>1. \A a : Goes(a, a)
    BY DEF Goes
  <2> QED BY <1>2, <2>1
<1>4. \A m \in msgs : MessageOK(m)'
  BY <1>3, MessageStays DEF PartiesIInv
<1>5. \A k \in Sessions : TwoOK(k)'
  BY TwoStays DEF PartiesIInv
<1>6. \A k \in Sessions \ {i} : OneOK(k)'
  BY <1>2, OneStays DEF PartiesIInv
<1>7. OverSessions(one)' /\ OverSessions(two)'
  BY <1>1, <1>2 DEF OverSessions
<1> QED BY <1>4, <1>5, <1>6, <1>7 DEF PartiesIInv

LEMMA StepOfTwo ==
  ASSUME PartiesIInv, protocol' = protocol, one' = one, NEW i \in Sessions, NEW rec, two' = Now(two, i, rec),
         Goes(two[i], rec), NEW M, msgs' = msgs \cup M, \A m \in M : MessageOK(m)', TwoOK(i)'
  PROVE  PartiesIInv'
<1>1. OverSessions(one) /\ OverSessions(two)
  BY DEF PartiesIInv
<1>2. OverSessions(two') /\ two'[i] = rec /\ \A k \in Sessions \ {i} : two'[k] = two[k]
  BY <1>1, NowFacts
<1>3. \A k \in Sessions : Goes(one[k], one'[k]) /\ Goes(two[k], two'[k])
  <2>1. \A a : Goes(a, a)
    BY DEF Goes
  <2> QED BY <1>2, <2>1
<1>4. \A m \in msgs : MessageOK(m)'
  BY <1>3, MessageStays DEF PartiesIInv
<1>5. \A k \in Sessions : OneOK(k)'
  BY OneStays DEF PartiesIInv
<1>6. \A k \in Sessions \ {i} : TwoOK(k)'
  BY <1>2, TwoStays DEF PartiesIInv
<1>7. OverSessions(one)' /\ OverSessions(two)'
  BY <1>1, <1>2 DEF OverSessions
<1> QED BY <1>4, <1>5, <1>6, <1>7 DEF PartiesIInv

\* What a party sends is right if it is made of its own.
LEMMA SentMessage ==
  ASSUME NEW b \in OfOne \cup {"seed", "share2", "pok"}, NEW i \in Sessions, NEW body,
         b \in Kinds(protocol)', body \in Body(b),
         LET m == Message(b, i, body)
         IN  /\ Sender(m)'.at # "idle" /\ Claim(m) = Own(Sender(m))'
             /\ b = "reveal" => body.com[1] = body.m
  PROVE  MessageOK(Message(b, i, body))'
<1> DEFINE m == Message(b, i, body)
<1>1. m.by = b /\ m.session = i /\ m.changed = FALSE /\ m.body = body /\ m \in Envelope(b)
  BY DEF Message, Envelope
<1>2. Sender(m)'.at # "idle" /\ Claim(m) = Own(Sender(m))' /\ (b = "reveal" => body.com[1] = body.m)
  OBVIOUS
<1> HIDE DEF m
<1>3. MessageOK(m)'
  BY <1>1, <1>2 DEF MessageOK
<1> QED BY <1>3 DEF m

\* Party 1 goes on, with a message or without.
LEMMA OneSends ==
  ASSUME PartiesIInv, protocol' = protocol, two' = two, NEW i \in Sessions, NEW rec, one' = Now(one, i, rec),
         Goes(one[i], rec), rec.at # "idle", OneOK(i)',
         NEW b \in OfOne, NEW body, b \in Kinds(protocol), body \in Body(b),
         Send(Message(b, i, body)), Claim(Message(b, i, body)) = Own(rec),
         b = "reveal" => body.com[1] = body.m
  PROVE  PartiesIInv'
<1> DEFINE m == Message(b, i, body)
           M == {m}
<1>1. one'[i] = rec
  BY NowFacts DEF PartiesIInv
<1>2. Sender(m)' = rec
  BY <1>1 DEF Sender, Message, OfOne
<1>3. Own(rec)' = Own(rec) /\ Claim(m) = Own(rec)
  BY DEF Own
<1>4. MessageOK(m)'
  BY <1>2, <1>3, SentMessage
<1>5. msgs' = msgs \cup M /\ \A x \in M : MessageOK(x)'
  BY <1>4 DEF Send
<1> HIDE DEF M
<1> QED BY <1>5, StepOfOne

LEMMA OneMoves ==
  ASSUME PartiesIInv, protocol' = protocol, two' = two, NEW i \in Sessions, NEW rec, one' = Now(one, i, rec),
         Goes(one[i], rec), OneOK(i)', msgs' = msgs
  PROVE  PartiesIInv'
<1> DEFINE M == {}
<1>1. msgs' = msgs \cup M /\ \A x \in M : MessageOK(x)'
  OBVIOUS
<1> HIDE DEF M
<1> QED BY <1>1, StepOfOne

\* Party 2 goes on, with a message or without.
LEMMA TwoSends ==
  ASSUME PartiesIInv, protocol' = protocol, one' = one, NEW i \in Sessions, NEW rec, two' = Now(two, i, rec),
         Goes(two[i], rec), rec.at # "idle", TwoOK(i)',
         NEW b \in {"seed", "share2", "pok"}, NEW body, b \in Kinds(protocol), body \in Body(b),
         Send(Message(b, i, body)), Claim(Message(b, i, body)) = Own(rec),
         b = "reveal" => body.com[1] = body.m
  PROVE  PartiesIInv'
<1> DEFINE m == Message(b, i, body)
           M == {m}
<1>1. two'[i] = rec
  BY NowFacts DEF PartiesIInv
<1>2. Sender(m)' = rec
  BY <1>1 DEF Sender, Message, OfOne
<1>3. Own(rec)' = Own(rec) /\ Claim(m) = Own(rec)
  BY DEF Own
<1>4. MessageOK(m)'
  BY <1>2, <1>3, SentMessage
<1>5. msgs' = msgs \cup M /\ \A x \in M : MessageOK(x)'
  BY <1>4 DEF Send
<1> HIDE DEF M
<1> QED BY <1>5, StepOfTwo

LEMMA TwoMoves ==
  ASSUME PartiesIInv, protocol' = protocol, one' = one, NEW i \in Sessions, NEW rec, two' = Now(two, i, rec),
         Goes(two[i], rec), TwoOK(i)', msgs' = msgs
  PROVE  PartiesIInv'
<1> DEFINE M == {}
<1>1. msgs' = msgs \cup M /\ \A x \in M : MessageOK(x)'
  OBVIOUS
<1> HIDE DEF M
<1> QED BY <1>1, StepOfTwo

-----------------------------------------------------------------------------
(* The actions. *)

LEMMA SeedValues ==
  ASSUME PartiesAssumption
  PROVE  Order \in Nat \ {0} /\ Seeds \subseteq Scalar /\ Fixed \subseteq Scalar
         /\ Scalar \subseteq Nat /\ Scalar \subseteq Int /\ Scalar = 0 .. Order - 1
BY DEF PartiesAssumption, Scalar

LEMMA CommitStep ==
  ASSUME PartiesAssumption, PartiesIInv, protocol' = protocol, NEW i \in Sessions, Commit(i)
  PROVE  PartiesIInv'
<1>1. PICK seed \in Seeds, r \in Blinds :
        /\ one' = Now(one, i, [at |-> "committed", seed |-> seed, r |-> r])
        /\ Send(Message("commit", i, PedersenProof(seed, r)))
  BY DEF Commit
<1>2. protocol = "coin" /\ one[i].at = "idle" /\ two' = two
  BY DEF Commit, Idle
<1> DEFINE rec == [at |-> "committed", seed |-> seed, r |-> r]
           body == PedersenProof(seed, r)
<1>3. one'[i] = rec /\ seed \in Scalar
  BY <1>1, NowFacts, SeedValues DEF PartiesIInv
<1>4. Goes(one[i], rec) /\ rec.at # "idle" /\ Own(rec) = seed
  BY <1>2 DEF Goes, Own
<1>5. OneOK(i)'
  BY <1>2, <1>3 DEF OneOK, Own
<1>6. /\ "commit" \in OfOne /\ "commit" \in Kinds(protocol) /\ body \in Body("commit")
      /\ Claim(Message("commit", i, body)) = seed
  BY <1>2, <1>3 DEF OfOne, Kinds, Body, PedersenProof, PedersenCommitment, Claim, Message
<1>7. one' = Now(one, i, rec) /\ Send(Message("commit", i, body))
  BY <1>1
<1> HIDE DEF rec, body
<1> QED BY <1>2, <1>4, <1>5, <1>6, <1>7, OneSends

LEMMA ShareStep ==
  ASSUME PartiesAssumption, PartiesIInv, protocol' = protocol, NEW j \in Sessions, ShareSeed(j)
  PROVE  PartiesIInv'
<1>1. protocol = "coin" /\ two[j].at = "idle" /\ one' = one
  BY DEF ShareSeed, Idle
<1>2. PICK m \in Sent("commit") :
        IF ~m.body.verifies THEN two' = Now(two, j, [at |-> "panic"]) /\ UNCHANGED msgs
        ELSE \E seed \in Seeds :
               /\ two' = Now(two, j, [at |-> "shared", seed |-> seed, first |-> m])
               /\ Send(Message("seed", j, [seed |-> seed]))
  BY DEF ShareSeed
<1>3. m \in msgs /\ m.by = "commit"
  BY DEF Sent
<1>4. CASE ~m.body.verifies
  <2> DEFINE rec == [at |-> "panic"]
  <2>1. two'[j] = rec /\ two' = Now(two, j, rec) /\ msgs' = msgs
    BY <1>2, <1>4, NowFacts DEF PartiesIInv
  <2>2. Goes(two[j], rec)
    BY <1>1 DEF Goes
  <2>3. TwoOK(j)'
    BY <1>1, <2>1 DEF TwoOK, Alive
  <2> HIDE DEF rec
  <2> QED BY <1>1, <2>1, <2>2, <2>3, TwoMoves
<1>5. CASE m.body.verifies
  <2>1. PICK seed \in Seeds :
          /\ two' = Now(two, j, [at |-> "shared", seed |-> seed, first |-> m])
          /\ Send(Message("seed", j, [seed |-> seed]))
    BY <1>2, <1>5
  <2> DEFINE rec == [at |-> "shared", seed |-> seed, first |-> m]
             body == [seed |-> seed]
  <2>2. two'[j] = rec /\ seed \in Scalar /\ m \in msgs'
    BY <1>3, <2>1, NowFacts, SeedValues DEF PartiesIInv, Send
  <2>3. Goes(two[j], rec) /\ rec.at # "idle" /\ Own(rec) = seed
    BY <1>1 DEF Goes, Own
  <2>4. TwoOK(j)'
    BY <1>1, <1>3, <2>2 DEF TwoOK, Own
  <2>5. /\ "seed" \in Kinds(protocol) /\ body \in Body("seed")
        /\ Claim(Message("seed", j, body)) = seed
    BY <1>1, <2>2 DEF Kinds, Body, Claim, Message
  <2>6. two' = Now(two, j, rec) /\ Send(Message("seed", j, body))
    BY <2>1
  <2> HIDE DEF rec, body
  <2> QED BY <1>1, <2>3, <2>4, <2>5, <2>6, TwoSends
<1> QED BY <1>4, <1>5

LEMMA RevealStep ==
  ASSUME PartiesAssumption, PartiesIInv, protocol' = protocol, NEW i \in Sessions, Reveal(i)
  PROVE  PartiesIInv'
<1>1. protocol = "coin" /\ one[i].at = "committed" /\ two' = two
      /\ Send(Message("reveal", i, BlindingProof(one[i].seed, one[i].r)))
  BY DEF Reveal
<1>2. PICK m \in Sent("seed") :
        one' = Now(one, i, [at |-> "done", seed |-> one[i].seed, peer |-> m,
                            out |-> FlipResult(one[i].seed, m.body.seed)])
  BY DEF Reveal
<1> DEFINE seed == one[i].seed
           r == one[i].r
           rec == [at |-> "done", seed |-> seed, peer |-> m, out |-> FlipResult(seed, m.body.seed)]
           body == BlindingProof(seed, r)
<1>3. seed \in Scalar /\ r \in Blinds /\ Own(one[i]) = seed /\ Alive(one[i])
  BY <1>1 DEF PartiesIInv, OneOK, Alive, Own
<1>4. one'[i] = rec /\ m \in msgs' /\ m.by = "seed"
  BY <1>1, <1>2, NowFacts DEF PartiesIInv, Send, Sent
<1> HIDE DEF seed, r
<1>5. Goes(one[i], rec) /\ rec.at # "idle" /\ Own(rec) = seed
  BY <1>1, <1>3 DEF Goes, Own
<1>6. OneOK(i)'
  BY <1>1, <1>3, <1>4 DEF OneOK, Own
<1>7. /\ "reveal" \in OfOne /\ "reveal" \in Kinds(protocol) /\ body \in Body("reveal")
      /\ Claim(Message("reveal", i, body)) = seed /\ body.com[1] = body.m
  BY <1>1, <1>3 DEF OfOne, Kinds, Body, BlindingProof, PedersenCommitment, Claim, Message
<1>8. one' = Now(one, i, rec) /\ Send(Message("reveal", i, body))
  BY <1>1, <1>2 DEF seed, r
<1> HIDE DEF rec, body
<1> QED BY <1>1, <1>5, <1>6, <1>7, <1>8, OneSends

LEMMA FinalizeStep ==
  ASSUME PartiesAssumption, PartiesIInv, protocol' = protocol, NEW j \in Sessions, Finalize(j)
  PROVE  PartiesIInv'
<1>1. protocol = "coin" /\ two[j].at = "shared" /\ one' = one /\ msgs' = msgs
  BY DEF Finalize
<1> DEFINE seed == two[j].seed
           first == two[j].first
<1>2. PICK m \in Sent("reveal") :
        two' = Now(two, j, IF Finalizes(m.body, first.body.com)
                             THEN [at |-> "done", seed |-> seed, first |-> first,
                                   out |-> FlipResult(m.body.m, seed)]
                             ELSE [at |-> "panic"])
  BY DEF Finalize
<1>3. seed \in Scalar /\ Own(two[j]) = seed /\ Alive(two[j]) /\ first \in msgs /\ first.by = "commit"
  BY <1>1 DEF PartiesIInv, TwoOK, Alive, Own
<1>4. m \in msgs /\ MessageOK(m) /\ m.by = "reveal"
  BY DEF PartiesIInv, Sent
<1> HIDE DEF seed, first
<1>5. CASE Finalizes(m.body, first.body.com)
  <2> DEFINE rec == [at |-> "done", seed |-> seed, first |-> first, out |-> FlipResult(m.body.m, seed)]
  <2>1. two'[j] = rec /\ two' = Now(two, j, rec)
    BY <1>2, <1>5, NowFacts DEF PartiesIInv
  <2>2. m.body.m = first.body.com[1]
    BY <1>4, <1>5 DEF Finalizes, MessageOK
  <2>3. Goes(two[j], rec)
    BY <1>1, <1>3 DEF Goes, Own
  <2>4. TwoOK(j)'
    BY <1>1, <1>3, <2>1, <2>2 DEF TwoOK, Own
  <2> HIDE DEF rec
  <2> QED BY <1>1, <2>1, <2>3, <2>4, TwoMoves
<1>6. CASE ~Finalizes(m.body, first.body.com)
  <2> DEFINE rec == [at |-> "panic"]
  <2>1. two'[j] = rec /\ two' = Now(two, j, rec)
    BY <1>2, <1>6, NowFacts DEF PartiesIInv
  <2>2. Goes(two[j], rec)
    BY DEF Goes, Alive
  <2>3. TwoOK(j)'
    BY <1>1, <2>1 DEF TwoOK, Alive
  <2> HIDE DEF rec
  <2> QED BY <1>1, <2>1, <2>2, <2>3, TwoMoves
<1> QED BY <1>5, <1>6

LEMMA FirstStep ==
  ASSUME PartiesAssumption, PartiesIInv, protocol' = protocol, NEW i \in Sessions, First(i)
  PROVE  PartiesIInv'
<1>1. PICK s \in Seeds \cup Fixed :
        one' = Now(one, i, [at |-> "sent", secret |-> s]) /\ Send(Message("share1", i, [share |-> s]))
  BY DEF First
<1>2. protocol = "dh" /\ one[i].at = "idle" /\ two' = two
  BY DEF First, Idle
<1> DEFINE rec == [at |-> "sent", secret |-> s]
           body == [share |-> s]
<1>3. one'[i] = rec /\ s \in Scalar
  BY <1>1, NowFacts, SeedValues DEF PartiesIInv
<1>4. Goes(one[i], rec) /\ rec.at # "idle" /\ Own(rec) = s
  BY <1>2 DEF Goes, Own
<1>5. OneOK(i)'
  BY <1>2, <1>3 DEF OneOK, Own
<1>6. /\ "share1" \in OfOne /\ "share1" \in Kinds(protocol) /\ body \in Body("share1")
      /\ Claim(Message("share1", i, body)) = s
  BY <1>2, <1>3 DEF OfOne, Kinds, Body, Claim, Message
<1>7. one' = Now(one, i, rec) /\ Send(Message("share1", i, body))
  BY <1>1
<1> HIDE DEF rec, body
<1> QED BY <1>2, <1>4, <1>5, <1>6, <1>7, OneSends

LEMMA FirstOfTwoStep ==
  ASSUME PartiesAssumption, PartiesIInv, protocol' = protocol, NEW j \in Sessions, FirstOfTwo(j)
  PROVE  PartiesIInv'
<1>1. PICK s \in Seeds \cup Fixed :
        two' = Now(two, j, [at |-> "sent", secret |-> s]) /\ Send(Message("share2", j, [share |-> s]))
  BY DEF FirstOfTwo
<1>2. protocol = "dh" /\ two[j].at = "idle" /\ one' = one
  BY DEF FirstOfTwo, Idle
<1> DEFINE rec == [at |-> "sent", secret |-> s]
           body == [share |-> s]
<1>3. two'[j] = rec /\ s \in Scalar
  BY <1>1, NowFacts, SeedValues DEF PartiesIInv
<1>4. Goes(two[j], rec) /\ rec.at # "idle" /\ Own(rec) = s
  BY <1>2 DEF Goes, Own
<1>5. TwoOK(j)'
  BY <1>2, <1>3 DEF TwoOK, Own
<1>6. /\ "share2" \in Kinds(protocol) /\ body \in Body("share2")
      /\ Claim(Message("share2", j, body)) = s
  BY <1>2, <1>3 DEF Kinds, Body, Claim, Message
<1>7. two' = Now(two, j, rec) /\ Send(Message("share2", j, body))
  BY <1>1
<1> HIDE DEF rec, body
<1> QED BY <1>2, <1>4, <1>5, <1>6, <1>7, TwoSends

LEMMA ExchangeStep ==
  ASSUME PartiesIInv, protocol' = protocol, NEW i \in Sessions, Exchange(i)
  PROVE  PartiesIInv'
<1>1. protocol = "dh" /\ one[i].at = "sent" /\ two' = two /\ msgs' = msgs
  BY DEF Exchange
<1> DEFINE s == one[i].secret
<1>2. PICK m \in Sent("share2") :
        one' = Now(one, i, [at |-> "done", peer |-> m, secret |-> s, out |-> ComputePubkey(s, m.body.share)])
  BY DEF Exchange
<1> DEFINE rec == [at |-> "done", peer |-> m, secret |-> s, out |-> ComputePubkey(s, m.body.share)]
<1>3. s \in Scalar /\ Own(one[i]) = s /\ Alive(one[i])
  BY <1>1 DEF PartiesIInv, OneOK, Alive, Own
<1>4. one'[i] = rec /\ m \in msgs' /\ m.by = "share2"
  BY <1>1, <1>2, NowFacts DEF PartiesIInv, Sent
<1> HIDE DEF s
<1>5. Goes(one[i], rec)
  BY <1>1, <1>3 DEF Goes, Own
<1>6. OneOK(i)'
  BY <1>1, <1>3, <1>4 DEF OneOK, Own
<1>7. one' = Now(one, i, rec)
  BY <1>2
<1> HIDE DEF rec
<1> QED BY <1>1, <1>5, <1>6, <1>7, OneMoves

LEMMA ExchangeOfTwoStep ==
  ASSUME PartiesIInv, protocol' = protocol, NEW j \in Sessions, ExchangeOfTwo(j)
  PROVE  PartiesIInv'
<1>1. protocol = "dh" /\ two[j].at = "sent" /\ one' = one /\ msgs' = msgs
  BY DEF ExchangeOfTwo
<1> DEFINE s == two[j].secret
<1>2. PICK m \in Sent("share1") :
        two' = Now(two, j, [at |-> "done", first |-> m, secret |-> s, out |-> ComputePubkey(s, m.body.share)])
  BY DEF ExchangeOfTwo
<1> DEFINE rec == [at |-> "done", first |-> m, secret |-> s, out |-> ComputePubkey(s, m.body.share)]
<1>3. s \in Scalar /\ Own(two[j]) = s /\ Alive(two[j])
  BY <1>1 DEF PartiesIInv, TwoOK, Alive, Own
<1>4. two'[j] = rec /\ m \in msgs' /\ m.by = "share1"
  BY <1>1, <1>2, NowFacts DEF PartiesIInv, Sent
<1> HIDE DEF s
<1>5. Goes(two[j], rec)
  BY <1>1, <1>3 DEF Goes, Own
<1>6. TwoOK(j)'
  BY <1>1, <1>3, <1>4 DEF TwoOK, Own
<1>7. two' = Now(two, j, rec)
  BY <1>2
<1> HIDE DEF rec
<1> QED BY <1>1, <1>5, <1>6, <1>7, TwoMoves

LEMMA CreateWithStep ==
  ASSUME PartiesAssumption, PartiesIInv, protocol' = protocol, NEW i \in Sessions, NEW s \in Seeds \cup Fixed,
         CreateWith(i, s)
  PROVE  PartiesIInv'
<1> DEFINE witness(t, b) == [pkBlind |-> b, pokBlind |-> b, share |-> s, proof |-> DLogProof(s, t)]
<1>1. PICK t \in Seeds, b \in Blinds :
        /\ one' = Now(one, i, [at |-> "committed", secret |-> s, witness |-> witness(t, b)])
        /\ Send(Message("commitments", i, [pk |-> HashCommitment(s, b), pok |-> HashCommitment(t, b)]))
  BY DEF CreateWith
<1>2. protocol = "pok" /\ one[i].at = "idle" /\ two' = two
  BY DEF CreateWith, Idle
<1> DEFINE w == witness(t, b)
           rec == [at |-> "committed", secret |-> s, witness |-> w]
           body == [pk |-> HashCommitment(s, b), pok |-> HashCommitment(t, b)]
<1>3. s \in Scalar /\ t \in Scalar /\ s \in Nat /\ t \in Int
  BY SeedValues
<1>4. w \in Body("decommit") /\ w.share = s
  BY <1>3 DEF Body, DLogProofs, DLogProof
<1> HIDE DEF w
<1>5. one'[i] = rec /\ one' = Now(one, i, rec)
  BY <1>1, NowFacts DEF PartiesIInv, w
<1>6. Goes(one[i], rec) /\ rec.at # "idle" /\ Own(rec) = s
  BY <1>2 DEF Goes, Own
<1>7. OneOK(i)'
  <2>1. Body("decommit")' = Body("decommit")
    BY DEF Body, DLogProofs, Scalar
  <2> QED BY <1>2, <1>3, <1>4, <1>5, <2>1 DEF OneOK, Own
<1>8. /\ "commitments" \in OfOne /\ "commitments" \in Kinds(protocol) /\ body \in Body("commitments")
      /\ Claim(Message("commitments", i, body)) = s
  BY <1>2, <1>3 DEF OfOne, Kinds, Body, HashCommitment, Claim, Message
<1>9. Send(Message("commitments", i, body))
  BY <1>1
<1> HIDE DEF rec, body
<1> QED BY <1>2, <1>5, <1>6, <1>7, <1>8, <1>9, OneSends

LEMMA AnswerWithStep ==
  ASSUME PartiesAssumption, PartiesIInv, protocol' = protocol, NEW j \in Sessions, NEW s \in Seeds \cup Fixed,
         AnswerWith(j, s)
  PROVE  PartiesIInv'
<1>1. protocol = "pok" /\ two[j].at = "idle" /\ one' = one
  BY DEF AnswerWith, Idle
<1>2. PICK m \in Sent("commitments") :
        /\ two' = Now(two, j, [at |-> "sent", secret |-> s, first |-> m])
        /\ Send(Message("pok", j, [proof |-> DLogProof(s, 1), share |-> s]))
  BY DEF AnswerWith
<1> DEFINE rec == [at |-> "sent", secret |-> s, first |-> m]
           body == [proof |-> DLogProof(s, 1), share |-> s]
<1>3. two'[j] = rec /\ s \in Scalar /\ m \in msgs' /\ m.by = "commitments"
  BY <1>2, NowFacts, SeedValues DEF PartiesIInv, Send, Sent
<1>4. Goes(two[j], rec) /\ rec.at # "idle" /\ Own(rec) = s
  BY <1>1 DEF Goes, Own
<1>5. TwoOK(j)'
  BY <1>1, <1>3 DEF TwoOK, Own
<1>6. /\ "pok" \in Kinds(protocol) /\ body \in Body("pok")
      /\ Claim(Message("pok", j, body)) = s
  BY <1>1, <1>3 DEF Kinds, Body, DLogProofs, DLogProof, Claim, Message
<1>7. two' = Now(two, j, rec) /\ Send(Message("pok", j, body))
  BY <1>2
<1> HIDE DEF rec, body
<1> QED BY <1>1, <1>4, <1>5, <1>6, <1>7, TwoSends

LEMMA VerifyAndDecommitStep ==
  ASSUME PartiesIInv, protocol' = protocol, NEW i \in Sessions, VerifyAndDecommit(i)
  PROVE  PartiesIInv'
<1>1. protocol = "pok" /\ one[i].at = "committed" /\ two' = two
  BY DEF VerifyAndDecommit
<1> DEFINE s == one[i].secret
           w == one[i].witness
<1>2. PICK m \in Sent("pok") :
        IF ~m.body.proof.verifies THEN one' = Now(one, i, [at |-> "err"]) /\ UNCHANGED msgs
        ELSE /\ one' = Now(one, i, [at |-> "done", peer |-> m, secret |-> s,
                                    out |-> ComputePubkey(s, m.body.share)])
             /\ Send(Message("decommit", i, w))
  BY DEF VerifyAndDecommit
<1>3. s \in Scalar /\ Own(one[i]) = s /\ Alive(one[i]) /\ w \in Body("decommit") /\ w.share = s
  BY <1>1 DEF PartiesIInv, OneOK, Alive, Own
<1>4. m \in msgs /\ m.by = "pok"
  BY DEF Sent
<1> HIDE DEF s, w
<1>5. CASE ~m.body.proof.verifies
  <2> DEFINE rec == [at |-> "err"]
  <2>1. one'[i] = rec /\ one' = Now(one, i, rec) /\ msgs' = msgs
    BY <1>2, <1>5, NowFacts DEF PartiesIInv
  <2>2. Goes(one[i], rec)
    BY DEF Goes, Alive
  <2>3. OneOK(i)'
    BY <1>1, <2>1 DEF OneOK, Alive
  <2> HIDE DEF rec
  <2> QED BY <1>1, <2>1, <2>2, <2>3, OneMoves
<1>6. CASE m.body.proof.verifies
  <2> DEFINE rec == [at |-> "done", peer |-> m, secret |-> s, out |-> ComputePubkey(s, m.body.share)]
  <2>1. one' = Now(one, i, rec) /\ Send(Message("decommit", i, w))
    BY <1>2, <1>6
  <2>2. one'[i] = rec /\ m \in msgs'
    BY <1>4, <2>1, NowFacts DEF PartiesIInv, Send
  <2>3. Goes(one[i], rec) /\ rec.at # "idle" /\ Own(rec) = s
    BY <1>1, <1>3 DEF Goes, Own
  <2>4. OneOK(i)'
    BY <1>1, <1>3, <1>4, <2>2 DEF OneOK, Own
  <2>5. /\ "decommit" \in OfOne /\ "decommit" \in Kinds(protocol)
        /\ Claim(Message("decommit", i, w)) = s
    BY <1>1, <1>3 DEF OfOne, Kinds, Claim, Message
  <2> HIDE DEF rec
  <2> QED BY <1>1, <1>3, <2>1, <2>3, <2>4, <2>5, OneSends
<1> QED BY <1>5, <1>6

LEMMA VerifyCommitmentsStep ==
  ASSUME PartiesIInv, protocol' = protocol, NEW j \in Sessions, VerifyCommitments(j)
  PROVE  PartiesIInv'
<1>1. protocol = "pok" /\ two[j].at = "sent" /\ one' = one /\ msgs' = msgs
  BY DEF VerifyCommitments
<1> DEFINE s == two[j].secret
           first == two[j].first
<1>2. PICK m \in Sent("decommit") :
        two' = Now(two, j, IF DecommitOutcome(first.body, m.body) # "done" THEN [at |-> DecommitOutcome(first.body, m.body)]
                           ELSE [at |-> DecommitOutcome(first.body, m.body), first |-> first, secret |-> s,
                                 out |-> ComputePubkey(s, m.body.share)])
  BY DEF VerifyCommitments
<1>3. s \in Scalar /\ Own(two[j]) = s /\ Alive(two[j]) /\ first \in msgs /\ first.by = "commitments"
  BY <1>1 DEF PartiesIInv, TwoOK, Alive, Own
<1>4. m.body \in Body("decommit")
  <2>1. m \in Envelope("decommit")
    BY DEF PartiesIInv, Sent, MessageOK
  <2> QED BY <2>1 DEF Envelope
<1> DEFINE to == DecommitOutcome(first.body, m.body)
<1>5. to \in {"err", "panic", "done"}
  BY DEF DecommitOutcome
<1> HIDE DEF s, first
<1>6. CASE to = "done"
  <2> DEFINE rec == [at |-> "done", first |-> first, secret |-> s, out |-> ComputePubkey(s, m.body.share)]
  <2>1. two'[j] = rec /\ two' = Now(two, j, rec)
    BY <1>2, <1>6, NowFacts DEF PartiesIInv
  <2>2. OpensBoth(first.body, m.body)
    BY <1>6 DEF DecommitOutcome
  <2>3. first.body.pk[1] = m.body.share /\ m.body.share \in Scalar
    BY <1>4, <2>2 DEF OpensBoth, HashCommitment, Body
  <2>4. Goes(two[j], rec)
    BY <1>1, <1>3 DEF Goes, Own
  <2>5. TwoOK(j)'
    BY <1>1, <1>3, <2>1, <2>3 DEF TwoOK, Own, Scalar
  <2> HIDE DEF rec
  <2> QED BY <1>1, <2>1, <2>4, <2>5, TwoMoves
<1>7. CASE to # "done"
  <2> DEFINE rec == [at |-> to]
  <2>1. two'[j] = rec /\ two' = Now(two, j, rec) /\ to \in {"err", "panic"}
    BY <1>2, <1>5, <1>7, NowFacts DEF PartiesIInv
  <2> HIDE DEF to
  <2>2. Goes(two[j], rec)
    BY <2>1 DEF Goes, Alive
  <2>3. TwoOK(j)'
    BY <1>1, <2>1 DEF TwoOK, Alive
  <2> HIDE DEF rec
  <2> QED BY <1>1, <2>1, <2>2, <2>3, TwoMoves
<1> QED BY <1>6, <1>7

-----------------------------------------------------------------------------
(* A message changed on its way. *)

LEMMA DamagedBody ==
  ASSUME PartiesAssumption, NEW m, m \in Envelope(m.by), m.by \in Kinds(protocol)
  PROVE  /\ Damaged(m) \in Body(m.by)
         /\ m.by \in {"commit", "reveal"} => Damaged(m).com = m.body.com /\ ~Damaged(m).verifies
         /\ m.by = "commitments" => Damaged(m).pk[1] >= Order
<1> DEFINE body == m.body
<1>1. body \in Body(m.by)
  BY DEF Envelope
<1>2. m.by \in {"commit", "seed", "reveal", "share1", "share2", "commitments", "pok", "decommit"}
  BY DEF Kinds
<1>3. \A x \in Scalar : (x + 1) % Order \in Scalar
  BY SeedValues
<1>4. CASE m.by = "commit"
  <2>1. Damaged(m) = [body EXCEPT !.verifies = FALSE]
    BY <1>4 DEF Damaged
  <2>2. body \in [com : Scalar \X Blinds, verifies : BOOLEAN]
    BY <1>1, <1>4 DEF Body
  <2> HIDE DEF body
  <2>3. /\ [body EXCEPT !.verifies = FALSE] \in [com : Scalar \X Blinds, verifies : BOOLEAN]
        /\ [body EXCEPT !.verifies = FALSE].com = body.com
        /\ ~[body EXCEPT !.verifies = FALSE].verifies
    BY <2>2
  <2> QED BY <1>4, <2>1, <2>3 DEF Body, body
<1>5. CASE m.by = "reveal"
  <2>1. Damaged(m) = [body EXCEPT !.verifies = FALSE]
    BY <1>5 DEF Damaged
  <2>2. body \in [m : Scalar, com : Scalar \X Blinds, verifies : BOOLEAN]
    BY <1>1, <1>5 DEF Body
  <2> HIDE DEF body
  <2>3. /\ [body EXCEPT !.verifies = FALSE] \in [m : Scalar, com : Scalar \X Blinds, verifies : BOOLEAN]
        /\ [body EXCEPT !.verifies = FALSE].com = body.com
        /\ ~[body EXCEPT !.verifies = FALSE].verifies
    BY <2>2
  <2> QED BY <1>5, <2>1, <2>3 DEF Body, body
<1>6. CASE m.by = "seed"
  <2>1. Damaged(m) = [body EXCEPT !.seed = (body.seed + 1) % Order]
    BY <1>6 DEF Damaged
  <2>2. body \in [seed : Scalar]
    BY <1>1, <1>6 DEF Body
  <2> QED BY <1>3, <1>6, <2>1, <2>2 DEF Body
<1>7. CASE m.by = "commitments"
  <2>1. Damaged(m) = [body EXCEPT !.pk[1] = body.pk[1] + Order]
    BY <1>7 DEF Damaged
  <2>2. body \in [pk : Nat \X Blinds, pok : Int \X Blinds]
    BY <1>1, <1>7 DEF Body
  <2> DEFINE pk == [body.pk EXCEPT ![1] = body.pk[1] + Order]
  <2>3. body.pk \in Nat \X Blinds /\ body.pk[1] + Order \in Nat /\ body.pk[1] + Order >= Order
    BY <2>2, SeedValues
  <2>4. pk \in Nat \X Blinds /\ pk[1] >= Order
    BY <2>3
  <2>5. Damaged(m) = [body EXCEPT !.pk = pk]
    BY <2>1
  <2> HIDE DEF pk, body
  <2>6. [body EXCEPT !.pk = pk] \in [pk : Nat \X Blinds, pok : Int \X Blinds] /\ [body EXCEPT !.pk = pk].pk = pk
    BY <2>2, <2>4
  <2> QED BY <1>7, <2>4, <2>5, <2>6 DEF Body
<1>8. CASE m.by \in {"share1", "share2", "pok", "decommit"}
  <2>1. Damaged(m) = [body EXCEPT !.share = (body.share + 1) % Order]
    BY <1>8 DEF Damaged
  <2>2. body.share \in Scalar
    BY <1>1, <1>8 DEF Body
  <2>3. \A x \in Scalar : [body EXCEPT !.share = x] \in Body(m.by)
    <3>1. CASE m.by \in {"share1", "share2"}
      <4>1. body \in [share : Scalar]
        BY <1>1, <3>1 DEF Body
      <4> HIDE DEF body
      <4>2. \A x \in Scalar : [body EXCEPT !.share = x] \in [share : Scalar]
        BY <4>1
      <4> QED BY <3>1, <4>2 DEF Body
    <3>2. CASE m.by = "pok"
      <4>1. body \in [proof : DLogProofs, share : Scalar]
        BY <1>1, <3>2 DEF Body
      <4> HIDE DEF body
      <4>2. \A x \in Scalar : [body EXCEPT !.share = x] \in [proof : DLogProofs, share : Scalar]
        BY <4>1
      <4> QED BY <3>2, <4>2 DEF Body
    <3>3. CASE m.by = "decommit"
      <4> DEFINE D == [pkBlind : Blinds, pokBlind : Blinds, share : Scalar, proof : DLogProofs]
      <4>1. body \in D
        BY <1>1, <3>3 DEF Body
      <4> HIDE DEF body
      <4>2. \A x \in Scalar : [body EXCEPT !.share = x] \in D
        BY <4>1
      <4> QED BY <3>3, <4>2 DEF Body
    <3> QED BY <1>8, <3>1, <3>2, <3>3
  <2> QED BY <1>3, <1>8, <2>1, <2>2, <2>3
<1> QED BY <1>2, <1>4, <1>5, <1>6, <1>7, <1>8

LEMMA SpoiltProof ==
  ASSUME NEW m, m \in Envelope(m.by), m.by \in {"pok", "decommit"}
  PROVE  [m.body EXCEPT !.proof.verifies = FALSE] \in Body(m.by)
<1> DEFINE body == m.body
           proof == [body.proof EXCEPT !.verifies = FALSE]
<1>1. body \in Body(m.by)
  BY DEF Envelope
<1>2. body.proof \in DLogProofs
  BY <1>1 DEF Body
<1>3. proof \in DLogProofs
  BY <1>2 DEF DLogProofs
<1>4. [m.body EXCEPT !.proof.verifies = FALSE] = [body EXCEPT !.proof = proof]
  OBVIOUS
<1> HIDE DEF body, proof
<1>5. CASE m.by = "pok"
  <2>1. body \in [proof : DLogProofs, share : Scalar]
    BY <1>1, <1>5 DEF Body
  <2>2. [body EXCEPT !.proof = proof] \in [proof : DLogProofs, share : Scalar]
    BY <1>3, <2>1
  <2> QED BY <1>4, <1>5, <2>2 DEF Body
<1>6. CASE m.by = "decommit"
  <2> DEFINE D == [pkBlind : Blinds, pokBlind : Blinds, share : Scalar, proof : DLogProofs]
  <2>1. body \in D
    BY <1>1, <1>6 DEF Body
  <2>2. [body EXCEPT !.proof = proof] \in D
    BY <1>3, <2>1
  <2> QED BY <1>4, <1>6, <2>2 DEF Body
<1> QED BY <1>5, <1>6

\* What is wrong with a changed message does no harm.
LEMMA ChangedMessage ==
  ASSUME PartiesAssumption, NEW m, MessageOK(m), NEW body, body \in Body(m.by), UNCHANGED <<protocol, one, two>>,
         m.by \in {"commit", "reveal"} => body.com = m.body.com /\ ~body.verifies,
         m.by = "commitments" => body.pk[1] >= Order
  PROVE  MessageOK([m EXCEPT !.changed = TRUE, !.body = body])'
<1> DEFINE x == [m EXCEPT !.changed = TRUE, !.body = body]
<1>1. m \in Envelope(m.by) /\ m.by \in Kinds(protocol)
  BY DEF MessageOK
<1>2. m \in [by : {m.by}, session : Sessions, changed : BOOLEAN, body : Body(m.by)]
  BY <1>1 DEF Envelope
<1>3. /\ x \in Envelope(m.by)
      /\ x.by = m.by /\ x.session = m.session /\ x.changed = TRUE /\ x.body = body
  <2> DEFINE b == m.by
             B == Body(b)
  <2>1. m \in [by : {b}, session : Sessions, changed : BOOLEAN, body : B] /\ body \in B
    BY <1>2
  <2> HIDE DEF b, B
  <2>2. /\ x \in [by : {b}, session : Sessions, changed : BOOLEAN, body : B]
        /\ x.by = m.by /\ x.session = m.session /\ x.changed = TRUE /\ x.body = body
    BY <2>1
  <2> QED BY <2>2 DEF Envelope, b, B
<1> HIDE DEF x
<1>4. Sender(x)' = Sender(m) /\ Envelope(m.by)' = Envelope(m.by)
  BY <1>3 DEF Sender, Envelope, Body, DLogProofs, Scalar
<1>5. Truthful(x) => Claim(x) = Claim(m) /\ Truthful(m)
  BY <1>3 DEF Truthful, Claim
<1>6. MessageOK(x)'
  <2>1. x.by \in Kinds(protocol)' /\ x \in Envelope(x.by)' /\ Sender(x)'.at # "idle"
    BY <1>1, <1>3, <1>4 DEF MessageOK
  <2>2. Truthful(x) /\ Alive(Sender(x)') => Claim(x) = Own(Sender(x))'
    BY <1>4, <1>5 DEF MessageOK, Own
  <2>3. x.by = "reveal" => ~x.body.verifies
    BY <1>3
  <2>4. x.by = "commitments" => x.body.pk[1] >= Order
    BY <1>3
  <2> QED BY <2>1, <2>2, <2>3, <2>4 DEF MessageOK, Alive
<1> QED BY <1>6 DEF x

LEMMA ChangeStep ==
  ASSUME PartiesAssumption, PartiesIInv, protocol' = protocol, Change
  PROVE  PartiesIInv'
<1>1. UNCHANGED <<protocol, one, two>>
  BY DEF Change
<1>2. PICK m \in msgs :
        \/ Send([m EXCEPT !.changed = TRUE, !.body = Damaged(m)])
        \/ m.by \in {"pok", "decommit"} /\ Send([m EXCEPT !.changed = TRUE, !.body.proof.verifies = FALSE])
  BY DEF Change
<1>3. MessageOK(m) /\ m \in Envelope(m.by) /\ m.by \in Kinds(protocol)
  BY DEF PartiesIInv, MessageOK
<1>4. \E x : MessageOK(x)' /\ msgs' = msgs \cup {x}
  <2>1. CASE Send([m EXCEPT !.changed = TRUE, !.body = Damaged(m)])
    <3> DEFINE body == Damaged(m)
    <3>1. /\ body \in Body(m.by)
          /\ m.by \in {"commit", "reveal"} => body.com = m.body.com /\ ~body.verifies
          /\ m.by = "commitments" => body.pk[1] >= Order
      BY <1>3, DamagedBody
    <3>2. msgs' = msgs \cup {[m EXCEPT !.changed = TRUE, !.body = body]}
      BY <2>1 DEF Send
    <3> HIDE DEF body
    <3>3. MessageOK([m EXCEPT !.changed = TRUE, !.body = body])'
      BY <1>1, <1>3, <3>1, ChangedMessage
    <3> QED BY <3>2, <3>3
  <2>2. CASE m.by \in {"pok", "decommit"} /\ Send([m EXCEPT !.changed = TRUE, !.body.proof.verifies = FALSE])
    <3> DEFINE body == [m.body EXCEPT !.proof.verifies = FALSE]
    <3>1. body \in Body(m.by)
      BY <1>3, <2>2, SpoiltProof
    <3>2. msgs' = msgs \cup {[m EXCEPT !.changed = TRUE, !.body = body]}
      BY <2>2 DEF Send
    <3> HIDE DEF body
    <3>3. MessageOK([m EXCEPT !.changed = TRUE, !.body = body])'
      BY <1>1, <1>3, <2>2, <3>1, ChangedMessage
    <3> QED BY <3>2, <3>3
  <2> QED BY <1>2, <2>1, <2>2
<1>5. \A k \in msgs : MessageOK(k)'
  <2>1. \A a : Goes(a, a)
    BY DEF Goes
  <2>2. \A k \in Sessions : Goes(one[k], one'[k]) /\ Goes(two[k], two'[k])
    BY <1>1, <2>1
  <2> QED BY <2>2, MessageStays DEF PartiesIInv
<1>6. \A k \in Sessions : OneOK(k)' /\ TwoOK(k)'
  BY <1>1, <1>4, OneStays, TwoStays DEF PartiesIInv
<1> QED BY <1>1, <1>4, <1>5, <1>6 DEF PartiesIInv, OverSessions

-----------------------------------------------------------------------------
(* What holds throughout. *)

THEOREM PartiesInitial == PartiesInit => PartiesIInv
<1> SUFFICES ASSUME PartiesInit PROVE PartiesIInv
  OBVIOUS
<1>1. OverSessions(one) /\ OverSessions(two)
  BY DEF PartiesInit, OverSessions
<1>2. \A i \in Sessions : one[i].at = "idle" /\ two[i].at = "idle"
  BY DEF PartiesInit, Idle
<1>3. \A i \in Sessions : OneOK(i) /\ TwoOK(i)
  BY <1>2 DEF OneOK, TwoOK, Alive
<1> QED BY <1>1, <1>3 DEF PartiesInit, PartiesIInv

\* Every step of the protocols, and every change on the way, keeps the invariant.
THEOREM PartiesInductive == ASSUME PartiesAssumption PROVE PartiesIInv /\ [PartiesNext]_partyVars => PartiesIInv'
<1> SUFFICES ASSUME PartiesIInv, [PartiesNext]_partyVars PROVE PartiesIInv'
  OBVIOUS
<1>1. CASE UNCHANGED partyVars
  BY <1>1 DEF partyVars, PartiesIInv, OverSessions, MessageOK, Sender, Truthful, Alive, Claim, Own, OneOK, TwoOK,
              Envelope, Body, DLogProofs, Scalar, Kinds
<1>2. CASE protocol' = protocol /\ Change
  BY <1>2, ChangeStep
<1>3. ASSUME protocol' = protocol, NEW i \in Sessions, Step(i) PROVE PartiesIInv'
  <2>1. CASE Commit(i)            BY <1>3, <2>1, CommitStep
  <2>2. CASE ShareSeed(i)             BY <1>3, <2>2, ShareStep
  <2>3. CASE Reveal(i)            BY <1>3, <2>3, RevealStep
  <2>4. CASE Finalize(i)          BY <1>3, <2>4, FinalizeStep
  <2>5. CASE First(i)             BY <1>3, <2>5, FirstStep
  <2>6. CASE FirstOfTwo(i)        BY <1>3, <2>6, FirstOfTwoStep
  <2>7. CASE Exchange(i)          BY <1>3, <2>7, ExchangeStep
  <2>8. CASE ExchangeOfTwo(i)     BY <1>3, <2>8, ExchangeOfTwoStep
  <2>9. CASE CreateCommitments(i) BY <1>3, <2>9, CreateWithStep DEF CreateCommitments
  <2>10. CASE CreateCommitmentsFixed(i) BY <1>3, <2>10, CreateWithStep DEF CreateCommitmentsFixed
  <2>11. CASE Create(i)           BY <1>3, <2>11, AnswerWithStep DEF Create
  <2>12. CASE CreateFixed(i)      BY <1>3, <2>12, AnswerWithStep DEF CreateFixed
  <2>13. CASE VerifyAndDecommit(i) BY <1>3, <2>13, VerifyAndDecommitStep
  <2>14. CASE VerifyCommitments(i) BY <1>3, <2>14, VerifyCommitmentsStep
  <2> QED BY <1>3, <2>1, <2>2, <2>3, <2>4, <2>5, <2>6, <2>7, <2>8, <2>9, <2>10, <2>11, <2>12, <2>13,
             <2>14 DEF Step
<1> QED BY <1>1, <1>2, <1>3 DEF PartiesNext

LEMMA PartiesThroughout == ASSUME PartiesAssumption PROVE PartiesSpec => []PartiesIInv
BY PartiesInitial, PartiesInductive, PTL DEF PartiesSpec

LEMMA Bound == PartiesIInv => FirstMessageBinds
BY DEF PartiesIInv, TwoOK, FirstMessageBinds, Settled

\* Two sessions that finish with each other hold both secrets, whatever was
\* changed but what nothing protects.
LEMMA Agreed == ASSUME PartiesAssumption PROVE PartiesIInv => PartiesAgree
<1> SUFFICES ASSUME PartiesIInv, NEW i \in Sessions, NEW j \in Sessions,
                    one[i].at = "done", two[j].at = "done",
                    one[i].peer.session = j, two[j].first.session = i,
                    protocol = "dh" => ~two[j].first.changed,
                    one[i].peer.changed => protocol = "pok" /\ one[i].peer.body.share = two[j].secret
             PROVE  one[i].out = two[j].out
  BY DEF PartiesAgree
<1> DEFINE peer == one[i].peer
           first == two[j].first
<1>1. OneOK(i) /\ TwoOK(j) /\ Alive(one[i]) /\ Alive(two[j])
  BY DEF PartiesIInv, Alive
<1>2. ASSUME NEW a \in Scalar, NEW b \in Scalar PROVE ComputePubkey(a, b) = ComputePubkey(b, a)
  <2>1. a \in Int /\ b \in Int
    BY SeedValues
  <2>2. a * b = b * a
    BY <2>1
  <2> QED BY <2>2 DEF ComputePubkey
<1>3. CASE protocol = "coin"
  <2>1. peer \in msgs /\ peer.by = "seed" /\ first \in msgs /\ first.by = "commit"
    BY <1>1, <1>3 DEF OneOK, TwoOK
  <2>2. MessageOK(peer) /\ MessageOK(first)
    BY <2>1 DEF PartiesIInv
  <2>3. Sender(peer) = two[j] /\ Sender(first) = one[i]
    BY <2>1 DEF Sender, OfOne
  <2>4. peer.body.seed = two[j].seed /\ first.body.com[1] = one[i].seed
    BY <1>1, <1>3, <2>1, <2>2, <2>3 DEF MessageOK, Truthful, Claim, Own
  <2> QED BY <1>1, <1>3, <2>4 DEF OneOK, TwoOK
<1>4. CASE protocol = "dh"
  <2>1. peer \in msgs /\ peer.by = "share2" /\ first \in msgs /\ first.by = "share1"
    BY <1>1, <1>4 DEF OneOK, TwoOK
  <2>2. MessageOK(peer) /\ MessageOK(first)
    BY <2>1 DEF PartiesIInv
  <2>3. Sender(peer) = two[j] /\ Sender(first) = one[i]
    BY <2>1 DEF Sender, OfOne
  <2>4. peer.body.share = two[j].secret /\ first.body.share = one[i].secret
    BY <1>1, <1>4, <2>1, <2>2, <2>3 DEF MessageOK, Truthful, Claim, Own
  <2>5. one[i].secret \in Scalar /\ two[j].secret \in Scalar
    BY <1>1, <1>4 DEF OneOK, TwoOK, Own
  <2>6. /\ one[i].out = ComputePubkey(one[i].secret, two[j].secret)
        /\ two[j].out = ComputePubkey(two[j].secret, one[i].secret)
    BY <1>1, <1>4, <2>4 DEF OneOK, TwoOK
  <2> QED BY <1>2, <2>5, <2>6
<1>5. CASE protocol = "pok"
  <2>1. peer \in msgs /\ peer.by = "pok" /\ first \in msgs /\ first.by = "commitments"
    BY <1>1, <1>5 DEF OneOK, TwoOK
  <2>2. MessageOK(peer) /\ MessageOK(first)
    BY <2>1 DEF PartiesIInv
  <2>3. Sender(peer) = two[j] /\ Sender(first) = one[i]
    BY <2>1 DEF Sender, OfOne
  <2>4. peer.body.share = two[j].secret
    BY <1>1, <1>5, <2>1, <2>2, <2>3 DEF MessageOK, Truthful, Claim, Own
  \* a changed commitment would not have opened to a share
  <2>5. ~first.changed
    <3>1. first.body.pk[1] \in Scalar
      BY <1>1, <1>5 DEF TwoOK
    <3>2. ~(first.body.pk[1] >= Order)
      BY <3>1, SeedValues
    <3> QED BY <2>1, <2>2, <3>2 DEF MessageOK
  <2>6. first.body.pk[1] = one[i].secret
    BY <1>1, <1>5, <2>1, <2>2, <2>3, <2>5 DEF MessageOK, Truthful, Claim, Own
  <2>7. one[i].secret \in Scalar /\ two[j].secret \in Scalar
    BY <1>1, <1>5 DEF OneOK, TwoOK, Own
  <2>8. /\ one[i].out = ComputePubkey(one[i].secret, two[j].secret)
        /\ two[j].out = ComputePubkey(two[j].secret, one[i].secret)
    BY <1>1, <1>5, <2>4, <2>6 DEF OneOK, TwoOK
  <2> QED BY <1>2, <2>7, <2>8
<1> QED BY <1>3, <1>4, <1>5 DEF PartiesIInv

\* The first message that party 2 takes, and its own choice, settle what it ends
\* up with (coin_flip:77, dh_key_exchange_variant_with_pok_comm.rs:216-236).
THEOREM FirstMessageSettles == ASSUME PartiesAssumption PROVE PartiesSpec => []FirstMessageBinds
BY PartiesThroughout, Bound, PTL

\* Two sessions that took each other's messages end with the same coin or key.
THEOREM BothEndWithTheSame == ASSUME PartiesAssumption PROVE PartiesSpec => []PartiesAgree
BY PartiesThroughout, Agreed, PTL

-----------------------------------------------------------------------------
(* Ring signatures. *)

(* What the signer and the verifier have done so far. *)

Size == Len(sig.ring)
RingsOf(n) == {r \in Seq(RingScalar) : Len(r) = n}
Signatures(n) == [c1 : RingScalar, responses : [1 .. n -> RingScalar], message : Messages,
                  ring : RingsOf(n), image : RingScalar]
Signers(n) == [secret : RingScalar, pi : 1 .. n, alpha : RingScalar, linked : BOOLEAN]

OverMembers(f) == f = [i \in 1 .. Size |-> f[i]]
OracleOK == \A h \in DOMAIN oracle : oracle[h] \in RingScalar

\* The signer has gone from its place to the one before at.
Visited(i) == (signer.pi <= i /\ i < signer.pi + turns) \/ i + Size < signer.pi + turns
Place == IF signer.pi + turns <= Size THEN signer.pi + turns ELSE signer.pi + turns - Size

KeyImage(s) == IF signer.linked THEN (signer.secret * HashPoint[s.ring[signer.pi]]) % RingOrder ELSE 0

\* What the signer hashes at a member; what it hashed is answered by the challenge
\* of the next.
Commitment(s, i) ==
  IF i = signer.pi
    THEN Hashed(s.message, s.ring, signer.linked, signer.alpha, (signer.alpha * HashPoint[s.ring[i]]) % RingOrder)
    ELSE AtMember(s, signer.linked, i, c[i])
AskedAt(s, i) ==
  /\ asked[i] = Commitment(s, i)
  /\ asked[i] \in DOMAIN oracle /\ oracle[asked[i]] = c[NextMember(i, Size)]

Signed(s) ==
  /\ s \in Signatures(Size)
  /\ \A i \in 1 .. Size : AskedAt(s, i)
  /\ s.responses[signer.pi] = (signer.alpha - c[signer.pi] * signer.secret) % RingOrder
  /\ s.c1 = c[1] /\ s.image = KeyImage(s)

\* The challenge that the verifier meets a member with.
Met(i) == IF i = 1 THEN sig.c1 ELSE oracle[told[i - 1]]
ToldAt(i) == told[i] = AtMember(sig, signer.linked, i, Met(i)) /\ told[i] \in DOMAIN oracle

RingTypeOK ==
  /\ pc \in {"idle", "sign", "signed", "verify", "accepted", "refused"}
  /\ altered \in BOOLEAN /\ (pc \in {"idle", "sign"} => ~altered)
  /\ OracleOK
  /\ pc # "idle" => /\ Size \in Nat \ {0} /\ DOMAIN sig.ring = 1 .. Size
                    /\ signer \in Signers(Size) /\ c \in [1 .. Size -> RingScalar] /\ OverMembers(asked)
Signing ==
  pc = "sign" =>
    /\ sig \in Signatures(Size) /\ sig.image = KeyImage(sig)
    /\ turns \in 1 .. Size /\ at = Place
    /\ \A i \in 1 .. Size : Visited(i) => AskedAt(sig, i)
Made ==
  pc \in {"signed", "verify", "accepted", "refused"} =>
    /\ ~altered => Signed(sig)
    /\ altered => \E s : Signed(s) /\ sig \in Altered(s) \ {s}
Verifying ==
  pc \in {"verify", "accepted", "refused"} =>
    /\ turns \in 0 .. Size /\ OverMembers(told)
    /\ \A i \in 1 .. turns : ToldAt(i)
    /\ curr = IF turns = 0 THEN sig.c1 ELSE oracle[told[turns]]
    /\ OwnKey /\ ~altered => curr = c[IF turns = Size THEN 1 ELSE turns + 1]
Decided ==
  /\ pc \in {"accepted", "refused"} => turns = Size
  /\ pc = "accepted" => curr = sig.c1
  /\ pc = "refused" => curr # sig.c1

RingIInv == RingTypeOK /\ Signing /\ Made /\ Verifying /\ Decided

-----------------------------------------------------------------------------
(* The place round the ring, and the oracle. *)

LEMMA RingValues ==
  ASSUME SignatureAssumptions
  PROVE  /\ RingOrder \in Nat \ {0} /\ RingOrder > 1 /\ NoDivisor(RingOrder) /\ RingScalar \subseteq Int /\ 0 \in RingScalar
         /\ \A a \in Int : a % RingOrder \in RingScalar
         /\ HashPoint \in [RingScalar -> RingScalar] /\ SignerSecrets \subseteq RingScalar
         /\ \A r \in Rings : r \in Seq(RingScalar) /\ r # <<>>
<1>1. RingOrder \in Nat \ {0} /\ RingOrder > 1 /\ NoDivisor(RingOrder)
  BY DEF SignatureAssumptions, RingOrderIsPrime, NoDivisor
<1>2. \A a \in Int : a % RingOrder \in RingScalar
  BY <1>1, ModRange DEF RingScalar
<1>3. RingScalar \subseteq Int /\ 0 \in RingScalar
  BY <1>1 DEF RingScalar
<1>4. HashPoint \in [RingScalar -> RingScalar] /\ SignerSecrets \subseteq RingScalar
      /\ \A r \in Rings : r \in Seq(RingScalar) /\ r # <<>>
  BY DEF SignatureAssumptions, HashPointAssumption, RingsAssumption
<1> QED BY <1>1, <1>2, <1>3, <1>4

LEMMA NextIs ==
  ASSUME NEW n \in Nat \ {0}, NEW i \in 1 .. n
  PROVE  NextMember(i, n) = (IF i = n THEN 1 ELSE i + 1) /\ NextMember(i, n) \in 1 .. n
<1>1. CASE i = n
  <2> DEFINE z == 0
  <2>1. (1 * n + z) % n = z
    BY ModUnique
  <2>2. 1 * n + z = i
    BY <1>1
  <2> HIDE DEF z
  <2>3. i % n = z
    BY <2>1, <2>2
  <2> QED BY <1>1, <2>3 DEF NextMember, z
<1>2. CASE i # n
  <2>1. i \in 0 .. n - 1
    BY <1>2
  <2>2. i % n = i
    BY <2>1, ModSmall
  <2> QED BY <1>2, <2>2 DEF NextMember
<1> QED BY <1>1, <1>2

LEMMA OracleGrows ==
  ASSUME OracleOK, NEW h, NEW a, a \in Challenges(h), oracle' = Answered(h, a)
  PROVE  /\ OracleOK' /\ a \in RingScalar
         /\ h \in DOMAIN oracle' /\ oracle'[h] = a
         /\ \A k \in DOMAIN oracle : k \in DOMAIN oracle' /\ oracle'[k] = oracle[k]
<1>1. h \in DOMAIN oracle => oracle[h] = a
  BY DEF Challenges
<1>2. a \in RingScalar
  BY DEF Challenges, OracleOK
<1> QED BY <1>1, <1>2 DEF Answered, OracleOK

\* What has been asked stays asked.
Grows == \A k \in DOMAIN oracle : k \in DOMAIN oracle' /\ oracle'[k] = oracle[k]

LEMMA SignedStays ==
  ASSUME NEW s, Signed(s), Size' = Size, UNCHANGED <<signer, c, asked>>, Grows
  PROVE  Signed(s)'
<1>1. \A i \in 1 .. Size : AskedAt(s, i)'
  BY DEF Signed, AskedAt, Grows, Commitment, AtMember, Hashed
<1> QED BY <1>1 DEF Signed, Signatures, RingsOf, RingScalar, KeyImage

LEMMA ToldStays ==
  ASSUME NEW i, ToldAt(i), UNCHANGED <<sig, signer>>, Grows, told'[i] = told[i],
         i = 1 \/ (told'[i - 1] = told[i - 1] /\ told[i - 1] \in DOMAIN oracle)
  PROVE  ToldAt(i)'
BY DEF ToldAt, Met, Grows, AtMember, Hashed

-----------------------------------------------------------------------------
(* The signer. *)

LEMMA SignStep ==
  ASSUME SignatureAssumptions, RingIInv, NEW message \in Messages, NEW ring \in Rings, NEW signing \in SignerSecrets,
         NEW linked \in BOOLEAN, NEW pi \in DOMAIN ring, Sign(message, ring, signing, pi, linked)
  PROVE  RingIInv'
<1> DEFINE n == Len(ring)
<1>1. ring \in Seq(RingScalar) /\ n \in Nat \ {0} /\ DOMAIN ring = 1 .. n /\ pi \in 1 .. n /\ ring[pi] \in RingScalar
  <2>1. ring \in Seq(RingScalar) /\ ring # <<>>
    BY RingValues
  <2>2. n \in Nat \ {0} /\ DOMAIN ring = 1 .. n
    BY <2>1
  <2> QED BY <2>1, <2>2
<1>2. PICK alpha \in RingScalar, responses \in [DOMAIN ring -> RingScalar] :
        LET h == Hashed(message, ring, linked, alpha, (alpha * HashPoint[ring[pi]]) % RingOrder)
            first == NextMember(pi, Len(ring))
        IN  \E a \in Challenges(h) :
              /\ c' = [i \in DOMAIN ring |-> IF i = first THEN a ELSE 0]
              /\ asked' = [i \in DOMAIN ring |-> IF i = pi THEN h ELSE <<>>]
              /\ oracle' = Answered(h, a)
              /\ at' = first /\ turns' = 1 /\ pc' = "sign"
              /\ signer' = [secret |-> signing, pi |-> pi, alpha |-> alpha, linked |-> linked]
              /\ sig' = [c1 |-> 0, responses |-> responses, message |-> message, ring |-> ring,
                         image |-> IF linked THEN (signing * HashPoint[ring[pi]]) % RingOrder ELSE 0]
  BY DEF Sign
<1> DEFINE h == Hashed(message, ring, linked, alpha, (alpha * HashPoint[ring[pi]]) % RingOrder)
           first == NextMember(pi, n)
           image == IF linked THEN (signing * HashPoint[ring[pi]]) % RingOrder ELSE 0
<1>3. PICK a \in Challenges(h) :
        /\ c' = [i \in 1 .. n |-> IF i = first THEN a ELSE 0]
        /\ asked' = [i \in 1 .. n |-> IF i = pi THEN h ELSE <<>>]
        /\ oracle' = Answered(h, a)
        /\ at' = first /\ turns' = 1 /\ pc' = "sign"
        /\ signer' = [secret |-> signing, pi |-> pi, alpha |-> alpha, linked |-> linked]
        /\ sig' = [c1 |-> 0, responses |-> responses, message |-> message, ring |-> ring, image |-> image]
  BY <1>1, <1>2
<1>4. image \in RingScalar
  <2> DEFINE k == HashPoint[ring[pi]]
  <2>1. signing \in Int /\ k \in Int
    BY <1>1, RingValues
  <2> HIDE DEF k
  <2>2. signing * k \in Int
    BY <2>1
  <2>3. (signing * k) % RingOrder \in RingScalar
    BY <2>2, RingValues
  <2> QED BY <2>3, RingValues DEF k
<1>5. OracleOK' /\ a \in RingScalar /\ h \in DOMAIN oracle' /\ oracle'[h] = a
  BY <1>3, OracleGrows DEF RingIInv, RingTypeOK
<1>6. Size' = n /\ sig'.ring = ring /\ sig'.message = message /\ sig'.image = image
      /\ signer'.pi = pi /\ signer'.linked = linked /\ signer'.alpha = alpha /\ signer'.secret = signing
  BY <1>3 DEF Size
<1>7. first \in 1 .. n /\ first = IF pi = n THEN 1 ELSE pi + 1
  BY <1>1, NextIs
<1>8. sig' \in Signatures(n)
  BY <1>1, <1>2, <1>3, <1>4, RingValues DEF Signatures, RingsOf
<1>9. KeyImage(sig)' = image /\ Commitment(sig, pi)' = h
  BY <1>6 DEF KeyImage, Commitment
<1>10. signing \in RingScalar /\ 0 \in RingScalar
  BY RingValues
<1> HIDE DEF h, first, image, n
<1>11. signer' \in Signers(n) /\ c' \in [1 .. n -> RingScalar]
       /\ asked' = [i \in 1 .. n |-> asked'[i]] /\ asked'[pi] = h /\ c'[first] = a
  BY <1>1, <1>3, <1>5, <1>7, <1>10 DEF Signers
<1>12. altered' = FALSE
  BY DEF Sign, RingIInv, RingTypeOK
<1>13. RingTypeOK'
  BY <1>1, <1>3, <1>5, <1>6, <1>11, <1>12 DEF RingTypeOK, OverMembers, n
<1>14. Place' = first
  BY <1>1, <1>3, <1>6, <1>7 DEF Place
<1>15. AskedAt(sig, pi)'
  BY <1>5, <1>6, <1>9, <1>11 DEF AskedAt, first
<1>16. \A i \in 1 .. n : Visited(i)' => i = pi
  BY <1>1, <1>3, <1>6 DEF Visited
<1>17. Signing'
  BY <1>1, <1>3, <1>6, <1>8, <1>9, <1>14, <1>15, <1>16 DEF Signing
<1>18. pc' = "sign"
  BY <1>3
<1> QED BY <1>13, <1>17, <1>18 DEF RingIInv, Made, Verifying, Decided

\* The members between the signer's place and at are those that have been visited.
LEMMA Going ==
  ASSUME SignatureAssumptions, RingIInv, pc = "sign", turns < Size
  PROVE  LET n == Size  next == NextMember(at, n)
         IN  /\ n \in Nat \ {0} /\ signer.pi \in 1 .. n /\ at \in 1 .. n /\ next \in 1 .. n
             /\ at # signer.pi /\ ~Visited(at) /\ at # next /\ turns + 1 \in 1 .. n
             /\ next = IF signer.pi + (turns + 1) <= n THEN signer.pi + (turns + 1) ELSE signer.pi + (turns + 1) - n
             /\ \A i \in 1 .. n : /\ (i \in signer.pi .. signer.pi + turns \/ i + n < signer.pi + (turns + 1))
                                       => Visited(i) \/ i = at
                                  /\ Visited(i) /\ i # signer.pi => i # next
                                  /\ NextMember(i, n) = next => i = at
                                  /\ NextMember(i, n) \in 1 .. n
<1> DEFINE n == Size
           pi == signer.pi
           next == NextMember(at, n)
<1>1. n \in Nat \ {0} /\ pi \in 1 .. n /\ turns \in 1 .. n /\ turns < n
  BY DEF RingIInv, RingTypeOK, Signers, Signing
<1>2. at = IF pi + turns <= n THEN pi + turns ELSE pi + turns - n
  BY DEF RingIInv, Signing, Place
<1>3. \A i : Visited(i) <=> (pi <= i /\ i < pi + turns) \/ i + n < pi + turns
  BY DEF Visited
<1> HIDE DEF n, pi, next
<1>4. at \in 1 .. n
  BY <1>1, <1>2
<1>5. next = IF at = n THEN 1 ELSE at + 1
  BY <1>1, <1>4, NextIs DEF next
<1>6. \A i \in 1 .. n : NextMember(i, n) = (IF i = n THEN 1 ELSE i + 1) /\ NextMember(i, n) \in 1 .. n
  BY <1>1, NextIs
<1>7. ASSUME NEW i \in 1 .. n
      PROVE  /\ (i \in pi .. pi + turns \/ i + n < pi + (turns + 1)) => Visited(i) \/ i = at
             /\ Visited(i) /\ i # pi => i # next
             /\ NextMember(i, n) = next => i = at
  BY <1>1, <1>2, <1>3, <1>4, <1>5, <1>6
<1>8. at # pi /\ ~Visited(at) /\ at # next /\ turns + 1 \in 1 .. n /\ next \in 1 .. n
  BY <1>1, <1>2, <1>3, <1>4, <1>5
<1>9. next = IF pi + (turns + 1) <= n THEN pi + (turns + 1) ELSE pi + (turns + 1) - n
  BY <1>1, <1>2, <1>5
<1> QED BY <1>1, <1>4, <1>6, <1>7, <1>8, <1>9 DEF n, pi, next

LEMMA SignTurnStep ==
  ASSUME SignatureAssumptions, RingIInv, SignTurn
  PROVE  RingIInv'
<1> DEFINE n == Size
           next == NextMember(at, n)
           h == AtMember(sig, signer.linked, at, c[at])
<1>1. pc = "sign" /\ pc' = "sign" /\ sig' = sig /\ signer' = signer /\ altered' = altered /\ Size' = n
  BY DEF SignTurn, Size
<1>2. turns < n
  BY DEF SignTurn, Size
<1>3. PICK a \in Challenges(h) :
        /\ c' = [c EXCEPT ![next] = a]
        /\ asked' = [asked EXCEPT ![at] = h]
        /\ oracle' = Answered(h, a)
        /\ at' = next /\ turns' = turns + 1
  BY DEF SignTurn, Size
<1>4. OracleOK' /\ a \in RingScalar /\ h \in DOMAIN oracle' /\ oracle'[h] = a /\ Grows
  BY <1>3, OracleGrows DEF RingIInv, RingTypeOK, Grows
<1>5. n \in Nat \ {0} /\ signer.pi \in 1 .. n /\ at \in 1 .. n /\ next \in 1 .. n
  BY <1>1, <1>2, Going
<1>6. c \in [1 .. n -> RingScalar] /\ asked = [i \in 1 .. n |-> asked[i]]
  BY <1>1 DEF RingIInv, RingTypeOK, OverMembers
<1> HIDE DEF h, next, n
<1>7. c' \in [1 .. n -> RingScalar] /\ \A i \in 1 .. n : c'[i] = IF i = next THEN a ELSE c[i]
  BY <1>3, <1>4, <1>5, <1>6
<1>8. /\ asked' = [i \in 1 .. n |-> asked'[i]]
      /\ \A i \in 1 .. n : asked'[i] = IF i = at THEN h ELSE asked[i]
  BY <1>3, <1>5, <1>6
<1>9. RingTypeOK'
  BY <1>1, <1>4, <1>7, <1>8 DEF RingIInv, RingTypeOK, OverMembers, n, Signers, RingScalar
<1>10. turns' \in 1 .. n /\ at' = Place'
  BY <1>1, <1>2, <1>3, Going DEF Place, n, next
<1>11. ASSUME NEW i \in 1 .. n, Visited(i)' PROVE AskedAt(sig, i)'
  <2>1. Visited(i) \/ i = at
    <3>1. i \in signer.pi .. signer.pi + turns \/ i + n < signer.pi + (turns + 1)
      <4>1. (signer.pi <= i /\ i < signer.pi + (turns + 1)) \/ i + n < signer.pi + (turns + 1)
        BY <1>1, <1>3, <1>11 DEF Visited
      <4>2. turns \in Int
        BY <1>1 DEF RingIInv, Signing
      <4> QED BY <1>5, <4>1, <4>2
    <3> QED BY <1>1, <1>2, <3>1, Going DEF n
  <2>2. CASE i = at
    <3>1. at # signer.pi /\ at # next
      BY <1>1, <1>2, Going DEF n, next
    <3>2. Commitment(sig, i)' = AtMember(sig, signer.linked, at, c'[at])
      BY <1>1, <2>2, <3>1 DEF Commitment, AtMember, Hashed
    <3>3. Commitment(sig, i)' = h
      BY <1>5, <1>7, <3>1, <3>2 DEF h
    <3>4. NextMember(i, Size)' = next
      BY <1>1, <2>2 DEF next, NextMember
    <3> QED BY <1>4, <1>5, <1>7, <1>8, <2>2, <3>3, <3>4 DEF AskedAt
  <2>3. CASE Visited(i)
    <3>1. i # at /\ (i # signer.pi => i # next) /\ NextMember(i, n) # next /\ NextMember(i, n) \in 1 .. n
      BY <1>1, <1>2, <2>3, Going DEF n, next
    <3>2. AskedAt(sig, i)
      BY <1>1, <2>3 DEF RingIInv, Signing, n
    <3>3. asked'[i] = asked[i] /\ (i # signer.pi => c'[i] = c[i])
      BY <1>7, <1>8, <3>1
    <3>4. Commitment(sig, i)' = Commitment(sig, i)
      BY <1>1, <3>3 DEF Commitment, AtMember, Hashed
    <3>5. NextMember(i, Size)' = NextMember(i, n) /\ c'[NextMember(i, n)] = c[NextMember(i, n)]
      BY <1>1, <1>7, <3>1 DEF NextMember
    <3>6. asked[i] \in DOMAIN oracle /\ oracle[asked[i]] = c[NextMember(i, n)] /\ asked[i] = Commitment(sig, i)
      BY <3>2 DEF AskedAt, n
    <3> QED BY <1>4, <3>3, <3>4, <3>5, <3>6 DEF AskedAt, Grows
  <2> QED BY <2>1, <2>2, <2>3
<1>12. Signing'
  <2>1. sig' \in Signatures(n) /\ sig'.image = KeyImage(sig)'
    BY <1>1 DEF RingIInv, Signing, KeyImage, n
  <2> QED BY <1>1, <1>10, <1>11, <2>1 DEF Signing
<1> QED BY <1>1, <1>9, <1>12 DEF RingIInv, Made, Verifying, Decided

LEMMA CloseStep ==
  ASSUME SignatureAssumptions, RingIInv, Close
  PROVE  RingIInv'
<1> DEFINE n == Size
           pi == signer.pi
           v == (signer.alpha - c[pi] * signer.secret) % RingOrder
           responses == [sig.responses EXCEPT ![pi] = v]
<1>1. pc = "sign" /\ pc' = "signed" /\ UNCHANGED <<signer, c, asked, oracle, altered>> /\ turns = n
  BY DEF Close, Size
<1>2. sig' = [sig EXCEPT !.responses = responses, !.c1 = c[1]]
  BY DEF Close
<1>3. /\ n \in Nat \ {0} /\ DOMAIN sig.ring = 1 .. n /\ signer \in Signers(n)
      /\ c \in [1 .. n -> RingScalar] /\ sig \in Signatures(n)
  BY <1>1 DEF RingIInv, RingTypeOK, Signing
<1>4. v \in RingScalar
  <2> DEFINE x == c[pi]
             y == signer.secret
             z == signer.alpha
  <2>1. x \in Int /\ y \in Int /\ z \in Int
    BY <1>3, RingValues DEF Signers
  <2> HIDE DEF x, y, z
  <2>2. x * y \in Int
    BY <2>1
  <2> DEFINE w == x * y
  <2> HIDE DEF w
  <2>3. z - w \in Int
    BY <2>1, <2>2 DEF w
  <2>4. (z - w) % RingOrder \in RingScalar
    BY <2>3, RingValues
  <2> QED BY <2>4 DEF w, x, y, z
<1> HIDE DEF v
<1>5. /\ sig'.responses = responses /\ sig'.c1 = c[1] /\ sig'.message = sig.message
      /\ sig'.ring = sig.ring /\ sig'.image = sig.image
  BY <1>2, <1>3 DEF Signatures
<1>6. /\ responses \in [1 .. n -> RingScalar] /\ responses[pi] = v /\ pi \in 1 .. n
      /\ \A i \in 1 .. n : i # pi => responses[i] = sig.responses[i]
  BY <1>3, <1>4 DEF Signatures, Signers
<1> HIDE DEF responses
<1>7. c[1] \in RingScalar
  BY <1>3
<1>8. sig' \in Signatures(n)
  BY <1>2, <1>3, <1>6, <1>7 DEF Signatures
<1>9. Size' = n
  BY <1>5 DEF Size
<1> HIDE DEF n
<1>10. \A i \in 1 .. n : Visited(i) /\ AskedAt(sig, i)
  <2>1. ASSUME NEW i \in 1 .. n PROVE Visited(i)
    BY <1>1, <1>3, <1>6 DEF Visited, n
  <2> QED BY <1>1, <2>1 DEF RingIInv, Signing, n
<1>11. ASSUME NEW i \in 1 .. n PROVE AskedAt(sig, i)'
  <2>1. Commitment(sig, i)' = Commitment(sig, i)
    BY <1>1, <1>5, <1>6, <1>11 DEF Commitment, AtMember, Hashed, pi
  <2> QED BY <1>1, <1>9, <1>10, <2>1 DEF AskedAt, n
<1>12. sig'.image = KeyImage(sig)'
  BY <1>1, <1>5 DEF RingIInv, Signing, KeyImage
<1>13. Signed(sig)'
  BY <1>1, <1>5, <1>6, <1>8, <1>9, <1>11, <1>12 DEF Signed, v, pi
<1>14. RingTypeOK'
  BY <1>1, <1>3, <1>5, <1>9 DEF RingIInv, RingTypeOK, OracleOK, OverMembers, n
<1>15. ~altered'
  BY <1>1 DEF RingIInv, RingTypeOK
<1> QED BY <1>1, <1>13, <1>14, <1>15 DEF RingIInv, Signing, Made, Verifying, Decided

\* What changing one value of a signature changes.
OtherChallenge(s, x) == x.message = s.message /\ x.ring = s.ring /\ x.c1 # s.c1
OtherResponse(s, x, i) ==
  /\ x.message = s.message /\ x.ring = s.ring /\ x.c1 = s.c1 /\ x.image = s.image
  /\ x.responses[i] = (s.responses[i] + 1) % RingOrder
OtherImage(s, x) ==
  /\ x.message = s.message /\ x.ring = s.ring /\ x.c1 = s.c1 /\ x.responses = s.responses
  /\ signer.linked /\ x.image = (s.image + 1) % RingOrder
Differs(s, x) ==
  \/ x.message # s.message \/ x.ring # s.ring
  \/ OtherChallenge(s, x) \/ OtherImage(s, x)
  \/ \E i \in 1 .. Len(s.ring) : OtherResponse(s, x, i)

LEMMA AlteredFacts ==
  ASSUME NEW s, NEW n \in Nat, s \in Signatures(n), NEW x \in Altered(s) \ {s}
  PROVE  Len(x.ring) = n /\ DOMAIN x.ring = 1 .. n /\ Differs(s, x)
<1>1. s.ring \in Seq(RingScalar) /\ Len(s.ring) = n /\ DOMAIN s.ring = 1 .. n
  <2>1. s.ring \in Seq(RingScalar) /\ Len(s.ring) = n
    BY DEF Signatures, RingsOf
  <2> QED BY <2>1
<1>2. CASE \E z : x = [s EXCEPT !.c1 = z]
  <2>1. PICK z : x = [s EXCEPT !.c1 = z]
    BY <1>2
  <2>2. x.message = s.message /\ x.ring = s.ring /\ x.c1 = z /\ z # s.c1
    BY <2>1 DEF Signatures
  <2> QED BY <1>1, <2>2 DEF Differs, OtherChallenge
<1>3. CASE \E i \in 1 .. n : x = [s EXCEPT !.responses[i] = (s.responses[i] + 1) % RingOrder]
  <2>1. PICK i \in 1 .. n : x = [s EXCEPT !.responses[i] = (s.responses[i] + 1) % RingOrder]
    BY <1>3
  <2> DEFINE r == [s.responses EXCEPT ![i] = (s.responses[i] + 1) % RingOrder]
  <2>2. r[i] = (s.responses[i] + 1) % RingOrder
    BY DEF Signatures
  <2>3. x = [s EXCEPT !.responses = r]
    BY <2>1
  <2> HIDE DEF r
  <2>4. x.message = s.message /\ x.ring = s.ring /\ x.c1 = s.c1 /\ x.image = s.image /\ x.responses = r
    BY <2>3 DEF Signatures
  <2> QED BY <1>1, <2>2, <2>4 DEF Differs, OtherResponse
<1>4. CASE \E i \in 1 .. n : \E k : x = [s EXCEPT !.ring[i] = k]
  <2>1. PICK i \in 1 .. n : \E k : x = [s EXCEPT !.ring[i] = k]
    BY <1>4
  <2>2. PICK k : x = [s EXCEPT !.ring[i] = k]
    BY <2>1
  <2> DEFINE r == [s.ring EXCEPT ![i] = k]
  <2>3. x = [s EXCEPT !.ring = r]
    BY <2>2
  <2>4. DOMAIN r = 1 .. n
    BY <1>1
  <2> HIDE DEF r
  <2>5. x.ring = r /\ r # s.ring
    BY <2>3 DEF Signatures
  <2> QED BY <2>4, <2>5 DEF Differs
<1>5. CASE \E m : x = [s EXCEPT !.message = m]
  <2>1. PICK m : x = [s EXCEPT !.message = m]
    BY <1>5
  <2>2. x.message = m /\ x.ring = s.ring /\ m # s.message
    BY <2>1 DEF Signatures
  <2> QED BY <1>1, <2>2 DEF Differs
<1>6. CASE signer.linked /\ x = [s EXCEPT !.image = (s.image + 1) % RingOrder]
  <2> DEFINE z == (s.image + 1) % RingOrder
  <2>1. x = [s EXCEPT !.image = z]
    BY <1>6
  <2> HIDE DEF z
  <2>2. x.message = s.message /\ x.ring = s.ring /\ x.c1 = s.c1 /\ x.responses = s.responses /\ x.image = z
    BY <2>1 DEF Signatures
  <2> QED BY <1>1, <1>6, <2>2 DEF Differs, OtherImage, z
<1> DEFINE A1 == {[s EXCEPT !.c1 = (@ + 1) % RingOrder]}
           A2 == {[s EXCEPT !.responses[i] = (@ + 1) % RingOrder] : i \in DOMAIN s.ring}
           A3 == {[s EXCEPT !.ring[i] = k] : i \in DOMAIN s.ring, k \in {ring[1] : ring \in Rings}}
           A4 == {[s EXCEPT !.message = m] : m \in Messages}
           A5 == {[s EXCEPT !.image = (@ + 1) % RingOrder]}
           Goal == Len(x.ring) = n /\ DOMAIN x.ring = 1 .. n /\ Differs(s, x)
<1>7. Altered(s) = A1 \cup A2 \cup A3 \cup A4 \cup (IF signer.linked THEN A5 ELSE {})
  BY DEF Altered
<1>8. x \in A1 => Goal
  BY <1>2
<1>9. x \in A2 => Goal
  BY <1>1, <1>3
<1>10. x \in A3 => Goal
  BY <1>1, <1>4
<1>11. x \in A4 => Goal
  BY <1>5
<1>12. signer.linked /\ x \in A5 => Goal
  BY <1>6
<1> HIDE DEF A1, A2, A3, A4, A5, Goal
<1>13. Goal
  BY <1>7, <1>8, <1>9, <1>10, <1>11, <1>12
<1> QED BY <1>13 DEF Goal

LEMMA AlterStep ==
  ASSUME SignatureAssumptions, RingIInv, Alter
  PROVE  RingIInv'
<1>1. /\ pc = "signed" /\ ~altered /\ altered'
      /\ UNCHANGED <<pc, signer, c, at, turns, curr, asked, told, oracle>>
  BY DEF Alter
<1>2. PICK s : s = sig
  OBVIOUS
<1>3. sig' \in Altered(s) \ {s} /\ altered' = TRUE
  BY <1>2 DEF Alter
<1>4. Signed(s) /\ Size \in Nat /\ s \in Signatures(Size)
  BY <1>1, <1>2 DEF RingIInv, Made, RingTypeOK, Signed
<1>5. Size' = Size /\ DOMAIN sig'.ring = 1 .. Size
  BY <1>3, <1>4, AlteredFacts DEF Size
<1>6. Signed(s)'
  BY <1>1, <1>4, <1>5, SignedStays DEF Grows
<1>7. Altered(s)' = Altered(s)
  BY <1>1 DEF Altered
<1>8. RingTypeOK'
  BY <1>1, <1>3, <1>5 DEF RingIInv, RingTypeOK, OracleOK, OverMembers
<1>9. Made'
  BY <1>1, <1>3, <1>6, <1>7 DEF Made
<1> QED BY <1>1, <1>8, <1>9 DEF RingIInv, Signing, Verifying, Decided

-----------------------------------------------------------------------------
(* What the signer's response makes of the commitment at its own place. *)

LEMMA Difference ==
  ASSUME SignatureAssumptions, NEW a \in Int, NEW b \in Int, NEW x \in Int, Same(RingOrder, a + x, b + x)
  PROVE  Same(RingOrder, a, b)
<1>1. RingOrder \in Nat \ {0}
  BY RingValues
<1> DEFINE y == -x
           ax == a + x
           bx == b + x
<1>2. y \in Int /\ ax \in Int /\ bx \in Int /\ ax + y = a /\ bx + y = b
  OBVIOUS
<1>3. Same(RingOrder, y, y) /\ Same(RingOrder, ax, bx)
  BY DEF Same
<1> HIDE DEF y, ax, bx
<1>4. Same(RingOrder, ax + y, bx + y)
  BY <1>1, <1>2, <1>3, SamePlus
<1> QED BY <1>2, <1>4

LEMMA Response ==
  ASSUME SignatureAssumptions, NEW a \in Int, NEW u \in Int, NEW v \in Int
  PROVE  ((a - u) % RingOrder) \in Int /\ Same(RingOrder, ((a - u) % RingOrder) + v, (a - u) + v)
<1> DEFINE d == a - u
           r == d % RingOrder
<1>1. RingOrder \in Nat \ {0} /\ d \in Int
  BY RingValues
<1> HIDE DEF d
<1>2. r \in Int /\ Same(RingOrder, r, d) /\ Same(RingOrder, v, v)
  BY <1>1, SameRefl DEF Same
<1> HIDE DEF r
<1>3. Same(RingOrder, r + v, d + v)
  BY <1>1, <1>2, SamePlus
<1> QED BY <1>2, <1>3 DEF d, r

LEMMA LinkedResponse ==
  ASSUME SignatureAssumptions, NEW a \in Int, NEW k \in Int, NEW x \in Int, NEW h \in Int
  PROVE  Same(RingOrder, ((a - k * x) % RingOrder) * h + k * ((x * h) % RingOrder), a * h)
<1> DEFINE u == k * x
           d == a - u
           r == d % RingOrder
           xh == x * h
           y == xh % RingOrder
<1>1. RingOrder \in Nat \ {0} /\ u \in Int /\ d \in Int /\ xh \in Int
  BY RingValues
<1>2. d * h + xh * k = a * h
  <2>1. d * h = a * h - u * h
    BY <1>1
  <2>2. u * h = xh * k
    OBVIOUS
  <2>3. a * h \in Int /\ u * h \in Int
    BY <1>1
  <2> QED BY <2>1, <2>2, <2>3
<1>3. (a - k * x) % RingOrder = r /\ (x * h) % RingOrder = y
  OBVIOUS
<1> HIDE DEF u, d, xh
<1>4. r \in Int /\ Same(RingOrder, r, d) /\ y \in Int /\ Same(RingOrder, y, xh)
  BY <1>1, SameRefl
<1> HIDE DEF r, y
<1> DEFINE rh == r * h
           dh == d * h
           yk == y * k
           xk == xh * k
<1>5. rh \in Int /\ dh \in Int /\ yk \in Int /\ xk \in Int /\ k * y = yk
  BY <1>1, <1>4
<1>6. Same(RingOrder, rh, dh) /\ Same(RingOrder, yk, xk)
  BY <1>1, <1>4, SameTimes
<1> HIDE DEF rh, dh, yk, xk
<1>7. Same(RingOrder, rh + yk, dh + xk)
  BY <1>1, <1>5, <1>6, SamePlus
<1>8. dh + xk = a * h
  BY <1>2 DEF dh, xk
<1> QED BY <1>3, <1>5, <1>7, <1>8 DEF rh

LEMMA OwnCommitment ==
  ASSUME SignatureAssumptions, NEW s, Signed(s), Size \in Nat \ {0}, signer \in Signers(Size),
         c \in [1 .. Size -> RingScalar], s.ring[signer.pi] = signer.secret
  PROVE  AtMember(s, signer.linked, signer.pi, c[signer.pi]) = Commitment(s, signer.pi)
<1> DEFINE pi == signer.pi
           a == signer.alpha
           x == signer.secret
           k == c[pi]
           h == HashPoint[x]
           r == s.responses[pi]
<1>1. pi \in 1 .. Size /\ a \in RingScalar /\ x \in RingScalar
  BY DEF Signers
<1>2. k \in RingScalar /\ h \in RingScalar
  BY <1>1, RingValues
<1>3. r = (a - k * x) % RingOrder /\ s.ring[pi] = x /\ (signer.linked => s.image = (x * h) % RingOrder)
  BY DEF Signed, KeyImage
<1> HIDE DEF pi, a, x, k, h, r
<1>4. a \in Int /\ x \in Int /\ k \in Int /\ h \in Int
  BY <1>1, <1>2, RingValues
<1>5. (r + k * x) % RingOrder = a
  <2> DEFINE u == k * x
  <2>1. u \in Int
    BY <1>4
  <2>2. r = (a - u) % RingOrder
    BY <1>3
  <2> HIDE DEF u
  <2>3. Same(RingOrder, r + u, (a - u) + u)
    BY <1>4, <2>1, <2>2, Response
  <2>4. (a - u) + u = a
    BY <1>4, <2>1
  <2>5. a % RingOrder = a
    BY <1>1, RingValues, ModSmall DEF RingScalar
  <2> QED BY <2>3, <2>4, <2>5 DEF Same, u
<1>6. signer.linked => (r * h + k * s.image) % RingOrder = (a * h) % RingOrder
  <2> DEFINE y == (x * h) % RingOrder
             q == (a - k * x) % RingOrder
  <2>1. Same(RingOrder, q * h + k * y, a * h)
    BY <1>4, LinkedResponse
  <2>2. r = q /\ (signer.linked => s.image = y)
    BY <1>3
  <2> HIDE DEF y, q
  <2> QED BY <2>1, <2>2, Zenon DEF Same
<1>7. AtMember(s, signer.linked, pi, k) =
        Hashed(s.message, s.ring, signer.linked, (r + k * x) % RingOrder, (r * h + k * s.image) % RingOrder)
  BY <1>3 DEF AtMember, h, r, x
<1>8. Commitment(s, pi) = Hashed(s.message, s.ring, signer.linked, a, (a * h) % RingOrder)
  BY <1>3 DEF Commitment, h, a, x, pi
<1>9. AtMember(s, signer.linked, pi, k) = Commitment(s, pi)
  BY <1>5, <1>6, <1>7, <1>8 DEF Hashed
<1> QED BY <1>9 DEF pi, k

\* Of the signer's own signature, the verifier asks what the signer asked.
LEMMA SameQuestion ==
  ASSUME SignatureAssumptions, RingIInv, Signed(sig), pc # "idle", OwnKey, NEW i \in 1 .. Size
  PROVE  /\ AtMember(sig, signer.linked, i, c[i]) \in DOMAIN oracle
         /\ oracle[AtMember(sig, signer.linked, i, c[i])] = c[NextMember(i, Size)]
<1>1. Size \in Nat \ {0} /\ signer \in Signers(Size) /\ c \in [1 .. Size -> RingScalar]
  BY DEF RingIInv, RingTypeOK
<1>2. AtMember(sig, signer.linked, i, c[i]) = Commitment(sig, i)
  <2>1. CASE i = signer.pi
    BY <1>1, <2>1, OwnCommitment DEF OwnKey
  <2>2. CASE i # signer.pi
    BY <2>2 DEF Commitment
  <2> QED BY <2>1, <2>2
<1>3. AskedAt(sig, i)
  BY DEF Signed
<1> QED BY <1>2, <1>3 DEF AskedAt

-----------------------------------------------------------------------------
(* The verifier. *)

\* What the verifier does leaves the signature as it was made.
LEMMA MadeStays ==
  ASSUME Made, pc \in {"signed", "verify", "accepted", "refused"},
         UNCHANGED <<sig, signer, c, asked, altered>>, Grows
  PROVE  Made'
<1>1. Size' = Size /\ \A s : Altered(s)' = Altered(s)
  BY DEF Size, Altered
<1>2. \A s : Signed(s) => Signed(s)'
  BY <1>1, SignedStays
<1>3. ~altered => Signed(sig)'
  BY <1>2 DEF Made, Signed, AskedAt, Commitment, KeyImage
<1>4. altered => \E s : Signed(s)' /\ sig \in Altered(s)' \ {s}
  BY <1>1, <1>2 DEF Made
<1> QED BY <1>3, <1>4 DEF Made

LEMMA VerifyStep ==
  ASSUME SignatureAssumptions, RingIInv, Verify
  PROVE  RingIInv'
<1>1. /\ pc = "signed" /\ pc' = "verify" /\ curr' = sig.c1 /\ turns' = 0 /\ told' = [i \in Members |-> <<>>]
      /\ UNCHANGED <<signer, sig, c, at, asked, oracle, altered>>
  BY DEF Verify
<1>2. Size' = Size /\ Size \in Nat \ {0} /\ Members = 1 .. Size
  BY <1>1 DEF Size, Members, RingIInv, RingTypeOK
<1>3. Made'
  BY <1>1, MadeStays DEF RingIInv, Grows
<1>4. RingTypeOK'
  BY <1>1, <1>2 DEF RingIInv, RingTypeOK, OracleOK, OverMembers
<1>5. OverMembers(told)'
  BY <1>1, <1>2 DEF OverMembers
<1>6. ~altered => sig.c1 = c[1]
  BY <1>1 DEF RingIInv, Made, Signed
<1>7. Verifying'
  BY <1>1, <1>2, <1>5, <1>6 DEF Verifying
<1> QED BY <1>1, <1>3, <1>4, <1>7 DEF RingIInv, Signing, Decided

LEMMA VerifyTurnStep ==
  ASSUME SignatureAssumptions, RingIInv, VerifyTurn
  PROVE  RingIInv'
<1>0. PICK i : i = turns + 1
  OBVIOUS
<1> DEFINE n == Size
           h == AtMember(sig, signer.linked, i, curr)
<1>1. /\ pc = "verify" /\ pc' = "verify" /\ turns < n /\ turns' = i
      /\ UNCHANGED <<signer, sig, c, at, asked, altered>>
  BY <1>0 DEF VerifyTurn, Size
<1>2. PICK a \in Challenges(h) : curr' = a /\ oracle' = Answered(h, a) /\ told' = [told EXCEPT ![i] = h]
  BY <1>0 DEF VerifyTurn
<1>3. OracleOK' /\ h \in DOMAIN oracle' /\ oracle'[h] = a /\ Grows
  BY <1>2, OracleGrows DEF RingIInv, RingTypeOK, Grows
<1>4. n \in Nat \ {0} /\ turns \in 0 .. n /\ i \in 1 .. n /\ told = [k \in 1 .. n |-> told[k]] /\ n' = n
  BY <1>0, <1>1 DEF RingIInv, RingTypeOK, Verifying, OverMembers, Size
<1>5. \A k \in 1 .. turns : ToldAt(k)
  BY <1>1 DEF RingIInv, Verifying
<1>6. curr = Met(i)
  BY <1>0, <1>1, <1>4 DEF RingIInv, Verifying, Met
<1> HIDE DEF n, h
<1>7. told' = [k \in 1 .. n |-> told'[k]] /\ told'[i] = h /\ \A k \in 1 .. turns : told'[k] = told[k]
  <2>1. told' = [k \in 1 .. n |-> told'[k]] /\ \A k \in 1 .. n : told'[k] = IF k = i THEN h ELSE told[k]
    BY <1>2, <1>4
  <2>2. \A k \in 1 .. turns : k \in 1 .. n /\ k # i
    BY <1>0, <1>4
  <2> QED BY <1>4, <2>1, <2>2
<1>8. Made'
  BY <1>1, <1>3, MadeStays DEF RingIInv
<1>9. RingTypeOK'
  BY <1>1, <1>3, <1>4 DEF RingIInv, RingTypeOK, OverMembers, n
<1>10. \A k \in 1 .. i : ToldAt(k)'
  <2>1. ASSUME NEW k \in 1 .. turns PROVE ToldAt(k)'
    <3>1. k = 1 \/ k - 1 \in 1 .. turns
      BY <1>4
    <3>2. k = 1 \/ (told'[k - 1] = told[k - 1] /\ told[k - 1] \in DOMAIN oracle)
      BY <1>5, <1>7, <3>1 DEF ToldAt
    <3> QED BY <1>1, <1>3, <1>5, <1>7, <3>2, ToldStays
  <2>2. ToldAt(i)'
    <3>1. Met(i)' = Met(i)
      <4>1. CASE turns = 0
        BY <1>0, <1>1, <4>1 DEF Met
      <4>2. CASE turns # 0
        <5>1. turns \in 1 .. turns /\ i - 1 = turns /\ i # 1
          BY <1>0, <1>4, <4>2
        <5>2. told'[turns] = told[turns] /\ told[turns] \in DOMAIN oracle
          BY <1>5, <1>7, <5>1 DEF ToldAt
        <5>3. oracle'[told'[turns]] = oracle[told[turns]]
          BY <1>3, <5>2 DEF Grows
        <5>4. Met(i) = oracle[told[turns]] /\ Met(i)' = oracle'[told'[turns]]
          BY <5>1 DEF Met
        <5> QED BY <5>3, <5>4
      <4> QED BY <4>1, <4>2
    <3>2. AtMember(sig, signer.linked, i, Met(i))' = h
      BY <1>1, <1>6, <3>1 DEF AtMember, Hashed, h
    <3> QED BY <1>3, <1>7, <3>2 DEF ToldAt
  <2>3. \A k \in 1 .. i : k \in 1 .. turns \/ k = i
    BY <1>0, <1>4
  <2> QED BY <2>1, <2>2, <2>3
<1>11. curr' = oracle'[told'[turns']] /\ turns' # 0
  BY <1>0, <1>1, <1>2, <1>3, <1>4, <1>7
<1>12. OwnKey /\ ~altered => curr' = c[IF i = n THEN 1 ELSE i + 1]
  <2> SUFFICES ASSUME OwnKey, ~altered PROVE curr' = c[IF i = n THEN 1 ELSE i + 1]
    OBVIOUS
  <2>1. Signed(sig) /\ curr = c[i]
    BY <1>0, <1>1, <1>4 DEF RingIInv, Made, Verifying, n
  <2>2. h \in DOMAIN oracle /\ oracle[h] = c[NextMember(i, n)]
    BY <1>1, <1>4, <2>1, SameQuestion DEF h, n
  <2>3. a = oracle[h]
    BY <1>3, <2>2 DEF Grows
  <2> QED BY <1>2, <1>4, <2>2, <2>3, NextIs
<1>13. turns' \in 0 .. n /\ OverMembers(told)'
  BY <1>1, <1>4, <1>7 DEF OverMembers, n
<1>14. Verifying'
  BY <1>1, <1>4, <1>10, <1>11, <1>12, <1>13 DEF Verifying, OwnKey, n
<1> QED BY <1>1, <1>8, <1>9, <1>14 DEF RingIInv, Signing, Decided

LEMMA AnswerStep ==
  ASSUME SignatureAssumptions, RingIInv, Answer
  PROVE  RingIInv'
<1>1. /\ pc = "verify" /\ turns = Size /\ pc' = IF curr = sig.c1 THEN "accepted" ELSE "refused"
      /\ UNCHANGED <<signer, sig, c, at, turns, curr, asked, told, oracle, altered>>
  BY DEF Answer, Size
<1>2. pc' \in {"accepted", "refused"} /\ (pc' = "accepted" => curr = sig.c1) /\ (pc' = "refused" => curr # sig.c1)
  BY <1>1
<1>3. Made'
  BY <1>1, MadeStays DEF RingIInv, Grows
<1>4. RingTypeOK'
  BY <1>1, <1>2 DEF RingIInv, RingTypeOK, OracleOK, OverMembers, Size
<1>5. Verifying'
  BY <1>1 DEF RingIInv, Verifying, OverMembers, Size, ToldAt, Met, AtMember, Hashed, OwnKey
<1>6. Signing' /\ Decided'
  BY <1>1, <1>2 DEF Signing, Decided, Size
<1> QED BY <1>3, <1>4, <1>5, <1>6 DEF RingIInv

-----------------------------------------------------------------------------
(* What holds throughout. *)

THEOREM RingInitial == RingInit => RingIInv
<1> SUFFICES ASSUME RingInit PROVE RingIInv
  OBVIOUS
<1>1. pc = "idle" /\ altered = FALSE /\ oracle = <<>>
  BY DEF RingInit
<1>2. OracleOK
  <2>1. \A h \in DOMAIN <<>> : FALSE
    OBVIOUS
  <2> QED BY <1>1, <2>1 DEF OracleOK
<1> QED BY <1>1, <1>2 DEF RingIInv, RingTypeOK, Signing, Made, Verifying, Decided

\* Every turn of either loop, and every change of the signature, keeps the invariant.
THEOREM RingInductive == ASSUME SignatureAssumptions PROVE RingIInv /\ [RingNext]_ringVars => RingIInv'
<1> SUFFICES ASSUME RingIInv, [RingNext]_ringVars PROVE RingIInv'
  OBVIOUS
<1>1. CASE UNCHANGED ringVars
  <2>1. UNCHANGED <<pc, signer, sig, c, at, turns, curr, asked, told, oracle, altered>> /\ Size' = Size
    BY <1>1 DEF ringVars, Size
  <2>2. RingTypeOK'
    BY <2>1 DEF RingIInv, RingTypeOK, OracleOK, OverMembers
  <2>3. Signing'
    BY <2>1 DEF RingIInv, Signing, AskedAt, Commitment, AtMember, Hashed, KeyImage, Visited, Place
  <2>4. Made'
    BY <2>1, MadeStays DEF RingIInv, Made, Grows
  <2>5. Verifying' /\ Decided'
    BY <2>1 DEF RingIInv, Verifying, Decided, OverMembers, ToldAt, Met, AtMember, Hashed, OwnKey
  <2> QED BY <2>2, <2>3, <2>4, <2>5 DEF RingIInv
<1>2. ASSUME NEW message \in Messages, NEW ring \in Rings, NEW signing \in SignerSecrets, NEW linked \in BOOLEAN,
             NEW pi \in DOMAIN ring, Sign(message, ring, signing, pi, linked)
      PROVE  RingIInv'
  BY <1>2, SignStep
<1>3. CASE SignTurn   BY <1>3, SignTurnStep
<1>4. CASE Close      BY <1>4, CloseStep
<1>5. CASE Alter      BY <1>5, AlterStep
<1>6. CASE Verify     BY <1>6, VerifyStep
<1>7. CASE VerifyTurn BY <1>7, VerifyTurnStep
<1>8. CASE Answer     BY <1>8, AnswerStep
<1> QED BY <1>1, <1>2, <1>3, <1>4, <1>5, <1>6, <1>7, <1>8 DEF RingNext

LEMMA RingThroughout == ASSUME SignatureAssumptions PROVE RingSpec => []RingIInv
BY RingInitial, RingInductive, PTL DEF RingSpec

LEMMA Closes == RingIInv => RingCloses
<1> SUFFICES ASSUME RingIInv PROVE RingCloses
  OBVIOUS
<1>1. pc = "refused" => altered \/ ~OwnKey
  <2> SUFFICES ASSUME pc = "refused", ~altered, OwnKey PROVE FALSE
    OBVIOUS
  <2>1. curr = c[1] /\ sig.c1 = c[1]
    BY DEF RingIInv, Verifying, Decided, Made, Signed
  <2> QED BY <2>1 DEF RingIInv, Decided
<1>2. pc = "verify" /\ OwnKey /\ ~altered => curr = c[IF turns = Len(sig.ring) THEN 1 ELSE turns + 1]
  BY DEF RingIInv, Verifying, Size
<1> QED BY <1>1, <1>2 DEF RingCloses

-----------------------------------------------------------------------------
(* Another signature asks something else. *)

\* A challenge tells two scalars apart, as the order is prime.
LEMMA DlogsApart ==
  ASSUME SignatureAssumptions, NEW k \in RingScalar, k # 0, NEW x \in RingScalar, NEW y \in RingScalar,
         Same(RingOrder, k * x, k * y)
  PROVE  x = y
<1>1. RingOrder \in Nat \ {0} /\ NoDivisor(RingOrder) /\ k \in 1 .. RingOrder - 1 /\ x \in Int /\ y \in Int /\ k \in Int
  BY RingValues DEF RingScalar
<1>2. x * k = k * x /\ y * k = k * y
  BY <1>1
<1>3. Same(RingOrder, x * k, y * k)
  BY <1>2
<1>4. Same(RingOrder, x, y)
  BY <1>1, <1>3, PrimeCancel
<1>5. x % RingOrder = x /\ y % RingOrder = y
  BY <1>1, ModSmall DEF RingScalar
<1> QED BY <1>4, <1>5 DEF Same

\* A signature made with the secret at another's place.
LEMMA MisplacedAsksAnew ==
  ASSUME SignatureAssumptions, NEW a \in RingScalar, NEW k \in RingScalar, k # 0, NEW x \in RingScalar, NEW y \in RingScalar,
         (((a - k * x) % RingOrder) + k * y) % RingOrder = a
  PROVE  x = y
<1> DEFINE u == k * x
           v == k * y
           w == a - u
           r == w % RingOrder
           m == -w
<1>1. k \in Int /\ x \in Int /\ y \in Int /\ a \in Int
  BY RingValues
<1>2. u \in Int /\ v \in Int
  BY <1>1
<1>3. a % RingOrder = a
  BY RingValues, ModSmall DEF RingScalar
<1>4. (r + v) % RingOrder = a
  OBVIOUS
<1> HIDE DEF u, v
<1>5. r \in Int /\ Same(RingOrder, r + v, w + v)
  BY <1>1, <1>2, Response
<1>6. w \in Int /\ w + u = a /\ w + v = v + w /\ w + u = u + w
  BY <1>1, <1>2
<1> HIDE DEF w, r
<1>7. Same(RingOrder, u + w, v + w)
  BY <1>3, <1>4, <1>5, <1>6 DEF Same
<1>8. Same(RingOrder, u, v)
  BY <1>2, <1>6, <1>7, Difference
<1> QED BY <1>8, DlogsApart DEF u, v

\* A scalar and the next differ.
LEMMA NextScalar ==
  ASSUME SignatureAssumptions, NEW r \in RingScalar, NEW x \in Int, NEW y \in Int,
         Same(RingOrder, ((r + 1) % RingOrder) + x, r + x)
  PROVE  FALSE
<1>1. RingOrder \in Nat \ {0} /\ RingOrder > 1 /\ r \in Int /\ r \in 0 .. RingOrder - 1
  BY RingValues DEF RingScalar
<1> DEFINE o == (r + 1) % RingOrder
<1>2. o \in Int
  BY <1>1
<1> HIDE DEF o
<1>3. Same(RingOrder, o, r)
  BY <1>1, <1>2, Difference DEF o
<1>4. o % RingOrder = o
  <2>1. o \in 0 .. RingOrder - 1
    BY <1>1, ModRange DEF o
  <2> QED BY <1>1, <2>1, ModSmall
<1>5. r % RingOrder = r
  BY <1>1, ModSmall
<1>6. o = r
  BY <1>3, <1>4, <1>5 DEF Same
<1>7. r + 1 \in 0 .. RingOrder - 1 \/ r + 1 = RingOrder
  BY <1>1
<1>8. CASE r + 1 \in 0 .. RingOrder - 1
  <2>1. (r + 1) % RingOrder = r + 1
    BY <1>1, <1>8, ModSmall
  <2> QED BY <1>1, <1>6, <2>1 DEF o
<1>9. CASE r + 1 = RingOrder
  <2>1. RingOrder % RingOrder = 0
    BY <1>1
  <2> QED BY <1>1, <1>6, <1>9, <2>1 DEF o
<1> QED BY <1>7, <1>8, <1>9

LEMMA OthersDo == ASSUME SignatureAssumptions PROVE RingIInv => OthersAskAnew
<1> SUFFICES ASSUME RingIInv, pc = "accepted", altered = OwnKey, \A i \in DOMAIN c : c[i] # 0, told = asked
             PROVE  FALSE
  BY DEF OthersAskAnew
<1> DEFINE n == Size
           pi == signer.pi
           linked == signer.linked
<1>1. /\ n \in Nat \ {0} /\ signer \in Signers(n) /\ c \in [1 .. n -> RingScalar] /\ turns = n /\ curr = sig.c1
      /\ \A i \in 1 .. n : ToldAt(i)
  BY DEF RingIInv, RingTypeOK, Verifying, Decided
<1>2. PICK s : /\ Signed(s)
               /\ ~altered => s = sig
               /\ altered => sig \in Altered(s) \ {s}
  BY DEF RingIInv, Made
<1>3. s \in Signatures(n) /\ s.c1 = c[1] /\ \A i \in 1 .. n : AskedAt(s, i)
  BY <1>2 DEF Signed
<1>4. pi \in 1 .. n /\ \A i \in 1 .. n : c[i] \in RingScalar /\ c[i] # 0
  BY <1>1 DEF Signers
<1> HIDE DEF n, pi, linked
\* the challenges are those of the signer, the first among them
<1>5. sig.c1 = c[1]
  <2>1. curr = oracle[told[n]]
    BY <1>1 DEF RingIInv, Verifying
  <2>2. oracle[asked[n]] = c[NextMember(n, n)]
    BY <1>1, <1>3 DEF AskedAt, n
  <2>3. NextMember(n, n) = 1
    BY <1>1, NextIs
  <2> QED BY <1>1, <2>1, <2>2, <2>3
<1>6. \A i \in 1 .. n : Met(i) = c[i]
  <2> SUFFICES ASSUME NEW i \in 1 .. n PROVE Met(i) = c[i]
    OBVIOUS
  <2>1. CASE i = 1
    BY <1>5, <2>1 DEF Met
  <2>2. CASE i # 1
    <3>1. i - 1 \in 1 .. n /\ NextMember(i - 1, n) = i
      <4>1. i - 1 \in 1 .. n /\ i - 1 # n /\ (i - 1) + 1 = i
        BY <1>1, <2>2
      <4> QED BY <1>1, <4>1, NextIs
    <3>2. oracle[asked[i - 1]] = c[i]
      BY <1>3, <3>1 DEF AskedAt, n
    <3> QED BY <2>2, <3>2 DEF Met
  <2> QED BY <2>1, <2>2
\* so that what the verifier hashed is what the signer did
<1>7. \A i \in 1 .. n : AtMember(sig, linked, i, c[i]) = Commitment(s, i)
  BY <1>1, <1>3, <1>6 DEF ToldAt, AskedAt, linked
<1>8. \E p, q : AtMember(sig, linked, pi, c[pi]) = Hashed(sig.message, sig.ring, linked, p, q)
  BY DEF AtMember
<1>9. \E p, q : Commitment(s, pi) = Hashed(s.message, s.ring, linked, p, q)
  BY DEF Commitment, AtMember, linked
<1>10. sig.message = s.message /\ sig.ring = s.ring
  BY <1>4, <1>7, <1>8, <1>9 DEF Hashed
<1>11. CASE ~altered
  <2> DEFINE a == signer.alpha
             k == c[pi]
             x == signer.secret
             y == s.ring[pi]
  <2>1. sig = s /\ x # y
    BY <1>2, <1>11 DEF OwnKey, pi
  <2>2. s.responses[pi] = (a - k * x) % RingOrder
    BY <1>2 DEF Signed, pi
  <2>3. a \in RingScalar /\ k \in RingScalar /\ k # 0 /\ x \in RingScalar /\ y \in RingScalar
    <3>1. s.ring \in Seq(RingScalar) /\ Len(s.ring) = n
      BY <1>3 DEF Signatures, RingsOf
    <3>2. y \in RingScalar
      BY <1>4, <3>1
    <3> QED BY <1>1, <1>4, <3>2 DEF Signers
  <2>4. AtMember(s, linked, pi, k) = Commitment(s, pi)
    BY <1>4, <1>7, <2>1
  <2>5. (s.responses[pi] + k * y) % RingOrder = a
    BY <2>4 DEF AtMember, Commitment, Hashed, pi
  <2> HIDE DEF a, k, x, y
  <2>6. (((a - k * x) % RingOrder) + k * y) % RingOrder = a
    BY <2>2, <2>5
  <2> QED BY <2>1, <2>3, <2>6, MisplacedAsksAnew
<1>12. CASE altered
  <2>1. s.ring[pi] = signer.secret
    BY <1>10, <1>12 DEF OwnKey, pi
  <2>2. \A i \in 1 .. n : AtMember(sig, linked, i, c[i]) = AtMember(s, linked, i, c[i])
    <3>1. AtMember(s, linked, pi, c[pi]) = Commitment(s, pi)
      BY <1>1, <1>2, <2>1, OwnCommitment DEF n, pi, linked
    <3>2. \A i \in 1 .. n : i # pi => Commitment(s, i) = AtMember(s, linked, i, c[i])
      BY DEF Commitment, pi, linked
    <3> QED BY <1>7, <3>1, <3>2
  <2>3. Differs(s, sig) /\ Len(s.ring) = n
    BY <1>1, <1>2, <1>3, <1>12, AlteredFacts DEF Signatures, RingsOf
  <2>4. ~OtherChallenge(s, sig)
    BY <1>3, <1>5 DEF OtherChallenge
  <2>5. ASSUME NEW i \in 1 .. n PROVE /\ c[i] \in Int /\ s.ring[i] \in RingScalar /\ s.responses[i] \in RingScalar
                                      /\ HashPoint[s.ring[i]] \in Int /\ s.image \in RingScalar
    <3>1. s.ring \in Seq(RingScalar) /\ Len(s.ring) = n /\ s.responses \in [1 .. n -> RingScalar] /\ s.image \in RingScalar
      BY <1>3 DEF Signatures, RingsOf
    <3>2. s.ring[i] \in RingScalar
      BY <3>1
    <3>3. HashPoint[s.ring[i]] \in RingScalar
      BY <3>2, RingValues
    <3> QED BY <1>4, <3>1, <3>2, <3>3, RingValues
  <2>6. ASSUME NEW i \in 1 .. n, OtherResponse(s, sig, i) PROVE FALSE
    <3> DEFINE r == s.responses[i]
               x == c[i] * s.ring[i]
    <3>1. x \in Int /\ r \in RingScalar
      <4>1. c[i] \in Int /\ s.ring[i] \in Int
        BY <2>5, RingValues
      <4> QED BY <2>5, <4>1
    <3>2. AtMember(sig, linked, i, c[i]) = AtMember(s, linked, i, c[i])
      BY <2>2
    <3>3. sig.responses[i] = (r + 1) % RingOrder
      BY <2>6 DEF OtherResponse
    <3>4. (sig.responses[i] + c[i] * sig.ring[i]) % RingOrder = (s.responses[i] + c[i] * s.ring[i]) % RingOrder
      BY <3>2 DEF AtMember, Hashed
    <3>5. c[i] * sig.ring[i] = x
      BY <1>10
    <3> HIDE DEF r, x
    <3>6. Same(RingOrder, ((r + 1) % RingOrder) + x, r + x)
      BY <3>3, <3>4, <3>5, Zenon DEF Same, r, x
    <3> QED BY <3>1, <3>6, NextScalar
  <2>7. ASSUME OtherImage(s, sig) PROVE FALSE
    <3> DEFINE k == c[1]
               e == s.image
               x == s.responses[1] * HashPoint[s.ring[1]]
    <3>1. 1 \in 1 .. n
      BY <1>1
    <3>2. x \in Int /\ e \in RingScalar /\ k \in RingScalar /\ k # 0
      <4>1. s.responses[1] \in Int /\ HashPoint[s.ring[1]] \in Int
        BY <2>5, <3>1, RingValues
      <4>2. e \in RingScalar
        BY <2>5, <3>1
      <4> QED BY <1>4, <3>1, <4>1, <4>2
    <3>3. AtMember(sig, linked, 1, c[1]) = AtMember(s, linked, 1, c[1])
      BY <2>2, <3>1
    <3>4. linked /\ sig.responses = s.responses /\ sig.image = (e + 1) % RingOrder
      BY <2>7 DEF OtherImage, linked
    <3> DEFINE z == (e + 1) % RingOrder
    <3>5. (x + k * z) % RingOrder = (x + k * e) % RingOrder
      BY <1>10, <3>3, <3>4 DEF AtMember, Hashed
    <3>6. z \in RingScalar /\ e \in Int /\ z \in Int /\ k \in Int
      <4>1. e \in Int
        BY <3>2, RingValues
      <4>2. e + 1 \in Int
        BY <4>1
      <4>3. z \in RingScalar
        BY <4>2, RingValues
      <4> QED BY <3>2, <4>1, <4>3, RingValues
    <3> HIDE DEF k, e, x, z
    <3> DEFINE kz == k * z
               ke == k * e
    <3>7. kz \in Int /\ ke \in Int
      BY <3>6
    <3>8. (x + kz) % RingOrder = (x + ke) % RingOrder
      BY <3>5
    <3> HIDE DEF kz, ke
    <3>9. x + kz = kz + x /\ x + ke = ke + x
      BY <3>2, <3>7
    <3>10. Same(RingOrder, kz, ke)
      <4>1. Same(RingOrder, kz + x, ke + x)
        BY <3>8, <3>9 DEF Same
      <4> QED BY <3>2, <3>7, <4>1, Difference
    <3>11. z = e
      BY <3>2, <3>6, <3>10, DlogsApart DEF kz, ke
    <3> DEFINE o == 0
    <3>12. Same(RingOrder, ((e + 1) % RingOrder) + o, e + o)
      BY <3>6, <3>11 DEF Same, z
    <3>13. o \in Int
      OBVIOUS
    <3> HIDE DEF o
    <3> QED BY <3>2, <3>12, <3>13, NextScalar
  <2> QED BY <1>10, <2>3, <2>4, <2>6, <2>7 DEF Differs
<1> QED BY <1>11, <1>12

\* A signature made at its signer's own place closes the ring, and every other,
\* altered or misplaced, asks the hash something new (signer.rs:69, verifier.rs).
THEOREM OnlyTheSignersCloses == ASSUME SignatureAssumptions PROVE RingSpec => []SignaturesDecide
<1>1. RingIInv => SignaturesDecide
  BY Closes, OthersDo DEF SignaturesDecide
<1> QED BY <1>1, RingThroughout, PTL

-----------------------------------------------------------------------------
(* Interpolation. *)

\* Different points, and the differences of each to the others.
Different(points) == \A i, j \in DOMAIN points : i # j => points[i] # points[j]

\* The factors of InterpolateAtZero and of LagrangeBasis, as they are multiplied
\* up for point i.
LEMMA FactorsOf ==
  ASSUME NEW n \in Nat, NEW points \in [1 .. n -> Scalar], Different(points)
  PROVE  /\ Factors(points, [i \in 1 .. n |-> [m \in 1 .. n |-> (points[m] - points[i]) % Order]],
                    Places(points, n), n)
         /\ Factors([m \in 1 .. n |-> (0 - points[m]) % Order],
                    [i \in 1 .. n |-> [m \in 1 .. n |-> (points[i] - points[m]) % Order]],
                    Places(points, n), n)
<1> DEFINE x == Places(points, n)
           b == [i \in 1 .. n |-> [m \in 1 .. n |-> (points[m] - points[i]) % Order]]
           d == [i \in 1 .. n |-> [m \in 1 .. n |-> (points[i] - points[m]) % Order]]
           a == [m \in 1 .. n |-> (0 - points[m]) % Order]
<1>1. \A i \in 1 .. n : points[i] \in Scalar /\ points[i] \in Int
  BY ScalarsAreInts
<1>2. \A i \in 1 .. n : x[i] = points[i]
  BY DEF Places
<1>3. \A y \in Int : y % Order \in Scalar /\ Same(Order, y % Order, y)
  BY OrderFacts, SameRefl
<1>4. ASSUME NEW i \in 1 .. n, NEW m \in 1 .. n
      PROVE  /\ points[m] - points[i] \in Int /\ points[i] - points[m] \in Int /\ 0 - points[m] \in Int
             /\ i # m => (points[m] - points[i]) % Order # 0 /\ (points[i] - points[m]) % Order # 0
  <2>1. points[m] \in Int /\ points[i] \in Int
    BY <1>1
  <2>2. ASSUME i # m PROVE (points[m] - points[i]) % Order # 0 /\ (points[i] - points[m]) % Order # 0
    <3>1. points[i] # points[m] /\ points[i] \in Scalar /\ points[m] \in Scalar
      BY <1>1, <2>2 DEF Different
    <3>2. (points[m] - points[i]) % Order \in 1 .. Order - 1 /\ (points[i] - points[m]) % Order \in 1 .. Order - 1
      BY <3>1, DifferentScalars
    <3>3. \A y \in 1 .. Order - 1 : y # 0
      OBVIOUS
    <3> QED BY <3>2, <3>3
  <2> QED BY <2>1, <2>2
<1>5. ASSUME NEW i \in 1 .. n, NEW m \in 1 .. n
      PROVE  /\ b[i][m] \in Scalar /\ Same(Order, b[i][m], points[m] - points[i])
             /\ d[i][m] \in Scalar /\ Same(Order, d[i][m], points[i] - points[m])
             /\ a[m] \in Scalar /\ Same(Order, a[m], 0 - points[m])
             /\ i # m => b[i][m] # 0 /\ d[i][m] # 0
  <2>1. /\ b[i][m] = (points[m] - points[i]) % Order /\ d[i][m] = (points[i] - points[m]) % Order
        /\ a[m] = (0 - points[m]) % Order
    OBVIOUS
  <2> HIDE DEF b, d, a
  <2> QED BY <1>3, <1>4, <2>1
<1>6. /\ b \in [1 .. n -> [1 .. n -> Scalar]] /\ d \in [1 .. n -> [1 .. n -> Scalar]]
      /\ a \in [1 .. n -> Scalar]
  BY <1>3, <1>4
<1> HIDE DEF a, b, d, x
<1>7. Factors(points, b, x, n)
  <2>1. \A i, j \in 1 .. n : Same(Order, points[j], x[j]) /\ Same(Order, b[i][j], x[j] - x[i])
    BY <1>2, <1>5 DEF Same
  <2> QED BY <1>5, <1>6, <2>1 DEF Factors
<1>8. Factors(a, d, x, n)
  <2>1. \A i, j \in 1 .. n : Same(Order, a[j], 0 - x[j]) /\ Same(Order, d[i][j], x[i] - x[j])
    BY <1>2, <1>5 DEF Same
  <2> QED BY <1>5, <1>6, <2>1 DEF Factors
<1> QED BY <1>7, <1>8 DEF a, b, d, x

\* All factors but one.
LEMMA AllBut ==
  ASSUME NEW n \in Nat, NEW f, NEW i
  PROVE  [m \in 1 .. n |-> IF m = i THEN 1 ELSE f[m]] = Masked(f, (1 .. n) \ {i}, n)
BY DEF Masked

\* Its weights are integers.
LEMMA WeightsAreInts ==
  ASSUME NEW n \in Nat, NEW a, NEW b, NEW points \in [1 .. n -> Scalar], Factors(a, b, Places(points, n), n),
         NEW i \in 1 .. n
  PROVE  Weight(a, b, n, (1 .. n) \ {i}, i) \in Int
<1>1. Places(points, n) \in [Nat -> Int]
  <2>1. \A k \in 1 .. n : points[k] \in Int
    BY ScalarsAreInts
  <2> QED BY <2>1 DEF Places
<1>2. i \notin (1 .. n) \ {i}
  OBVIOUS
<1> QED BY <1>1, <1>2, WeightFacts

\* lagrange_interpolation_at_zero is the sum of the values, weighted.
Others(points, n) == [i \in 1 .. n |-> [m \in 1 .. n |-> (points[m] - points[i]) % Order]]
Interpolated(points, values, n) ==
  [i \in 1 .. n |-> Weight(points, Others(points, n), n, (1 .. n) \ {i}, i) * values[i]]

LEMMA InterpolateIs ==
  ASSUME NEW n \in Nat \ {0}, NEW points \in [1 .. n -> Scalar], NEW values
  PROVE  InterpolateAtZero(points, values) = Total(Interpolated(points, values, n), n)
<1> DEFINE b == Others(points, n)
           W(i) == Weight(points, b, n, (1 .. n) \ {i}, i)
           f == [i \in 1 .. n |-> W(i) * values[i]]
<1>1. DOMAIN points = 1 .. n /\ Len(points) = n
  <2>1. DOMAIN points = 1 .. n /\ points \in Seq(Scalar)
    OBVIOUS
  <2> QED BY <2>1
<1>2. ASSUME NEW i \in 1 .. n
      PROVE  W(i) = Product([m \in 1 .. n |-> IF m = i THEN 1 ELSE points[m]], n)
               * Invert(Product([m \in 1 .. n |-> IF m = i THEN 1 ELSE
                   [k \in 1 .. n |-> (points[k] - points[i]) % Order][m]], n))
  <2>1. b[i] = [k \in 1 .. n |-> (points[k] - points[i]) % Order]
    BY DEF Others
  <2> HIDE DEF b
  <2>2. /\ [m \in 1 .. n |-> IF m = i THEN 1 ELSE points[m]] = Masked(points, (1 .. n) \ {i}, n)
        /\ [m \in 1 .. n |-> IF m = i THEN 1 ELSE b[i][m]] = Masked(b[i], (1 .. n) \ {i}, n)
    BY AllBut
  <2> QED BY <2>1, <2>2, Zenon DEF Weight
<1>3. f = [i \in 1 .. n |-> Product([m \in 1 .. n |-> IF m = i THEN 1 ELSE points[m]], n)
               * Invert(Product([m \in 1 .. n |-> IF m = i THEN 1 ELSE
                   [k \in 1 .. n |-> (points[k] - points[i]) % Order][m]], n)) * values[i]]
  <2> HIDE DEF W
  <2> QED BY <1>2
<1>4. InterpolateAtZero(points, values) = Total(f, n)
  <2> HIDE DEF f, W, b
  <2> QED BY <1>1, <1>3 DEF InterpolateAtZero
<1> QED BY <1>4 DEF Interpolated

LEMMA WeightedInts ==
  ASSUME NEW n \in Nat \ {0}, NEW points \in [1 .. n -> Scalar], Different(points),
         NEW values, \A i \in 1 .. n : values[i] \in Int
  PROVE  /\ Factors(points, Others(points, n), Places(points, n), n)
         /\ \A i \in 1 .. n : Interpolated(points, values, n)[i] \in Int
<1>1. Factors(points, Others(points, n), Places(points, n), n)
  BY FactorsOf DEF Others
<1>2. ASSUME NEW i \in 1 .. n PROVE Interpolated(points, values, n)[i] \in Int
  <2> DEFINE w == Weight(points, Others(points, n), n, (1 .. n) \ {i}, i)
  <2>1. w \in Int
    BY <1>1, WeightsAreInts
  <2>2. Interpolated(points, values, n)[i] = w * values[i]
    BY DEF Interpolated
  <2> HIDE DEF w
  <2> QED BY <2>1, <2>2
<1> QED BY <1>1, <1>2

\* A polynomial's values at different points, as many as its coefficients or more.
LEMMA InterpolateGives ==
  ASSUME NEW n \in Nat \ {0}, NEW points \in [1 .. n -> Scalar], Different(points),
         NEW p \in Seq(Scalar), p # <<>>, Len(p) <= n,
         NEW values, \A i \in 1 .. n : values[i] = Evaluate(p, points[i])
  PROVE  InterpolateAtZero(points, values) = p[1]
<1> DEFINE f == Interpolated(points, values, n)
<1>1. \A i \in 1 .. n : values[i] \in Int
  BY EvaluateSum, ScalarsAreInts
<1>2. Factors(points, Others(points, n), Places(points, n), n) /\ \A i \in 1 .. n : f[i] \in Int
  BY <1>1, WeightedInts
<1>3. \A i \in 1 .. n :
        f[i] = Weight(points, Others(points, n), n, (1 .. n) \ {i}, i) * Evaluate(p, points[i])
  BY DEF Interpolated
<1>4. WeightedValues(f, points, Others(points, n), n, p, points)
  BY <1>2, <1>3 DEF WeightedValues, Same
<1> HIDE DEF f
<1>5. Total(f, n) = p[1]
  BY <1>2, <1>4, InterpolatedAtZero
<1> QED BY <1>5, InterpolateIs DEF f

\* lagrange_basis at zero.
Negatives(points, n) == [m \in 1 .. n |-> (0 - points[m]) % Order]
Differences(points, n) == [i \in 1 .. n |-> [m \in 1 .. n |-> (points[i] - points[m]) % Order]]
BasisWeight(points, n, i) ==
  Weight(Negatives(points, n), Differences(points, n), n, (1 .. n) \ {i}, i)

LEMMA BasisIs ==
  ASSUME NEW n \in Nat \ {0}, NEW points \in [1 .. n -> Scalar], Different(points)
  PROVE  /\ Factors(Negatives(points, n), Differences(points, n), Places(points, n), n)
         /\ \A i \in 1 .. n : /\ BasisWeight(points, n, i) \in Int
                              /\ LagrangeBasis(0, i, points) = BasisWeight(points, n, i) % Order
                              /\ LagrangeBasis(0, i, points) \in Scalar
<1> DEFINE a == Negatives(points, n)
           b == Differences(points, n)
<1>1. DOMAIN points = 1 .. n /\ Len(points) = n
  <2>1. DOMAIN points = 1 .. n /\ points \in Seq(Scalar)
    OBVIOUS
  <2> QED BY <2>1
<1>2. Factors(a, b, Places(points, n), n)
  BY FactorsOf DEF Negatives, Differences
<1>3. ASSUME NEW i \in 1 .. n PROVE BasisWeight(points, n, i) \in Int
  BY <1>2, WeightsAreInts DEF BasisWeight
<1>4. ASSUME NEW i \in 1 .. n PROVE LagrangeBasis(0, i, points) = BasisWeight(points, n, i) % Order
  <2>1. b[i] = [k \in 1 .. n |-> (points[i] - points[k]) % Order]
    BY DEF Differences
  <2> DEFINE w == BasisWeight(points, n, i)
  <2>2. w = Weight(a, b, n, (1 .. n) \ {i}, i)
    BY DEF BasisWeight
  <2> HIDE DEF a, b, w
  <2>3. /\ [m \in 1 .. n |-> IF m = i THEN 1 ELSE a[m]] = Masked(a, (1 .. n) \ {i}, n)
        /\ [m \in 1 .. n |-> IF m = i THEN 1 ELSE b[i][m]] = Masked(b[i], (1 .. n) \ {i}, n)
    BY AllBut
  <2>4. w = Product([m \in 1 .. n |-> IF m = i THEN 1 ELSE a[m]], n)
              * Invert(Product([m \in 1 .. n |-> IF m = i THEN 1 ELSE b[i][m]], n))
    BY <2>2, <2>3, Zenon DEF Weight
  <2>5. a = [k \in 1 .. n |-> (0 - points[k]) % Order]
    BY DEF a, Negatives
  <2>6. w = Product([m \in 1 .. n |-> IF m = i THEN 1 ELSE [k \in 1 .. n |-> (0 - points[k]) % Order][m]], n)
              * Invert(Product([m \in 1 .. n |-> IF m = i THEN 1 ELSE
                  [k \in 1 .. n |-> (points[i] - points[k]) % Order][m]], n))
    BY <2>1, <2>4, <2>5
  <2>7. LagrangeBasis(0, i, points) = w % Order
    BY <1>1, <2>6 DEF LagrangeBasis
  <2> QED BY <2>7 DEF w
<1>5. ASSUME NEW i \in 1 .. n PROVE LagrangeBasis(0, i, points) \in Scalar
  BY <1>3, <1>4, OrderFacts
<1> HIDE DEF a, b
<1> QED BY <1>2, <1>3, <1>4, <1>5 DEF a, b

\* The sum of the shares, each mapped with lagrange_basis at zero.
MappedSum(points, values, n) == Total([k \in 1 .. n |-> LagrangeBasis(0, k, points) * values[k]], n)

LEMMA MappedGives ==
  ASSUME NEW n \in Nat \ {0}, NEW points \in [1 .. n -> Scalar], Different(points),
         NEW p \in Seq(Scalar), p # <<>>, Len(p) <= n,
         NEW values, \A i \in 1 .. n : values[i] = Evaluate(p, points[i])
  PROVE  MappedSum(points, values, n) = p[1]
<1> DEFINE a == Negatives(points, n)
           b == Differences(points, n)
           f == [k \in 1 .. n |-> LagrangeBasis(0, k, points) * values[k]]
<1>1. Factors(a, b, Places(points, n), n)
  BY BasisIs
<1>2. ASSUME NEW i \in 1 .. n
      PROVE  f[i] \in Int /\ Same(Order, f[i], Weight(a, b, n, (1 .. n) \ {i}, i) * Evaluate(p, points[i]))
  <2> DEFINE w == BasisWeight(points, n, i)
             v == Evaluate(p, points[i])
             y == w % Order
  <2>1. w \in Int /\ LagrangeBasis(0, i, points) = y
    BY BasisIs
  <2>2. v \in Int
    BY EvaluateSum, ScalarsAreInts
  <2>3. f[i] = y * v
    BY <2>1
  <2>4. w = Weight(a, b, n, (1 .. n) \ {i}, i)
    BY DEF BasisWeight
  <2> HIDE DEF w, v, f, a, b
  <2>5. y \in Int /\ Same(Order, y, w)
    BY <2>1, OrderFacts, SameRefl
  <2> HIDE DEF y
  <2>6. Same(Order, y * v, w * v)
    BY <2>1, <2>2, <2>5, OrderFacts, SameTimes
  <2>7. y * v \in Int
    BY <2>2, <2>5
  <2> QED BY <2>3, <2>4, <2>6, <2>7 DEF v
<1>3. WeightedValues(f, a, b, n, p, points)
  <2> HIDE DEF f, a, b
  <2> QED BY <1>2 DEF WeightedValues
<1> HIDE DEF f, a, b
<1>4. Total(f, n) = p[1]
  BY <1>1, <1>3, InterpolatedAtZero
<1> QED BY <1>4 DEF f, MappedSum

-----------------------------------------------------------------------------
(* The inductive invariant. *)

Current == Len(vss)
VssSet == [threshold : 0 .. MaxThreshold, shareCount : 1 .. MaxParties, commitments : Seq(Scalar)]
\* The share of generation g of the party at point x.
ShareOf(g, x) == Evaluate(vss[g].commitments, x)

\* Before a dealing, which an asserted threshold may prevent.
Undealt ==
  /\ vss = <<>> /\ xs = <<>> /\ share = <<>> /\ parts = <<>> /\ gen = <<>> /\ secret = Nothing
  /\ last \in {NoCall, [by |-> "share", from |-> <<>>, outcome |-> Panic]}

\* The generations commit to polynomials of one degree and one constant term,
\* the secret; the parties are at ascending points and each is of the generation
\* in force or of the one before, unless its share has been damaged.
Generations ==
  /\ vss # <<>>
  /\ vss \in Seq(VssSet)
  /\ \A g \in DOMAIN vss : /\ vss[g].threshold = vss[1].threshold
                           /\ Len(vss[g].commitments) = vss[g].threshold + 1
                           /\ vss[g].commitments[1] = secret
  /\ secret \in Scalar
Holders ==
  /\ xs \in Seq(1 .. MaxPoint) /\ Len(xs) <= MaxParties /\ Ascending(xs)
  /\ share \in [Parties -> Scalar]
  /\ gen \in [Parties -> {0, Current - 1, Current}]
  /\ Current > 1 => parts \in [Parties -> Scalar]

\* What a party holds is its generation's share; the parts of the last reshare
\* lead from the shares before it to those after it, at the points 1 .. n.
SharesHeld ==
  \A i \in Parties : gen[i] # 0 /\ (gen[i] = 1 \/ InOrder) => share[i] = ShareOf(gen[i], xs[i])
PartsLead ==
  /\ Current > 1 /\ InOrder =>
       \A i \in Parties : ShareOf(Current, xs[i]) = (ShareOf(Current - 1, xs[i]) + parts[i]) % Order
  /\ Current = 2 => \A i \in Parties : gen[i] = 2 => share[i] = (ShareOf(1, xs[i]) + parts[i]) % Order

\* The last reconstruction was made of what the parties hold.
AnswersKept ==
  \/ last = NoCall
  \/ /\ last.by \in Callers /\ last.from \in Selections
     /\ last.outcome = Outcome(last.by, last.from)

Shared == Generations /\ Holders /\ SharesHeld /\ PartsLead /\ AnswersKept
SharingIInv == Undealt \/ Shared

-----------------------------------------------------------------------------
(* Its steps. *)

\* A sampled polynomial.
LEMMA SampleFacts ==
  ASSUME NEW t \in Nat, NEW s, NEW p \in SampleWithConstTerm(t, s)
  PROVE  /\ p \in Seq(Scalar) /\ Len(p) = t + 1 /\ DOMAIN p = 1 .. t + 1 /\ p # <<>> /\ p[1] = s
         /\ s \in Scalar
<1>1. p \in [1 .. t + 1 -> Scalar] /\ p[1] = s /\ t + 1 \in Nat /\ 1 \in 1 .. t + 1
  BY DEF SampleWithConstTerm
<1>2. p \in Seq(Scalar) /\ DOMAIN p = 1 .. t + 1 /\ p[1] \in Scalar
  BY <1>1
<1>3. Len(p) = t + 1
  BY <1>1, <1>2
<1> QED BY <1>1, <1>2, <1>3

\* Points are below the order.
LEMMA PointFacts ==
  ASSUME SharingAssumption
  PROVE  /\ \A x \in 1 .. MaxPoint : x \in Scalar /\ x \in Int
         /\ \A n \in Nat : n <= MaxParties => \A i \in 1 .. n : i \in 1 .. MaxPoint /\ i \in Scalar
  BY SharingAssumption, OrderFacts DEF SharingAssumption, Scalar

\* The constant polynomial 1.
LEMMA EvaluateOne ==
  ASSUME NEW x \in Scalar
  PROVE  <<1>> \in Seq(Scalar) /\ Evaluate(<<1>>, x) = 1
<1> DEFINE p == <<1>>
           f == [k \in Nat |-> [v \in Scalar |-> (v * x + p[Len(p) - k]) % Order]]
           h == p[Len(p)]
<1>1. Len(p) = 1 /\ h = 1 /\ Len(p) - 1 = 0 /\ 1 \in Scalar
  BY OrderFacts DEF Scalar
<1>2. Evaluate(p, x) = Iterate(h, f)[Len(p) - 1]
  BY DEF Evaluate
<1>3. p \in Seq(Scalar)
  BY <1>1
<1> HIDE DEF f, h, p
<1>4. Iterate(h, f)[0] = h
  BY IterateDef DEF Follows
<1> QED BY <1>1, <1>2, <1>3, <1>4 DEF p

\* Two polynomials added up, coefficient by coefficient.
LEMMA EvaluatePlus ==
  ASSUME NEW p \in Seq(Scalar), NEW q \in Seq(Scalar), NEW r \in Seq(Scalar),
         p # <<>>, q # <<>>, r # <<>>, NEW x \in Scalar, CombinedTerms(r, 1, p, 1, q)
  PROVE  /\ Evaluate(r, x) = (Evaluate(p, x) + Evaluate(q, x)) % Order
         /\ Evaluate(r, x) \in Scalar /\ Evaluate(p, x) \in Scalar /\ Evaluate(q, x) \in Scalar
<1> DEFINE o == 1
           y == Evaluate(p, x)
           z == Evaluate(q, x)
<1>1. o \in Int /\ CombinedTerms(r, o, p, o, q)
  OBVIOUS
<1>2. y \in Scalar /\ z \in Scalar /\ Evaluate(r, x) \in Scalar
  BY EvaluateSum
<1> HIDE DEF o
<1>3. Evaluate(r, x) = (y * o + z * o) % Order
  BY <1>1, EvaluateCombined
<1> HIDE DEF y, z
<1>4. y * 1 = y /\ z * 1 = z
  BY <1>2, ScalarsAreInts
<1>5. (y * o + z * o) = y + z
  BY <1>4 DEF o
<1> QED BY <1>2, <1>3, <1>5 DEF y, z

\* The commitments of a reshare.
Added(com, p) == [k \in DOMAIN com |-> IF k = 1 THEN com[1] ELSE (p[k] + com[k]) % Order]

\* A share of the generation after: the one before and the part.
LEMMA ReshareValue ==
  ASSUME NEW com \in Seq(Scalar), com # <<>>, NEW p \in SampleWithConstTerm(Len(com) - 1, 1),
         NEW x \in Scalar
  PROVE  /\ Added(com, p) \in Seq(Scalar) /\ Len(Added(com, p)) = Len(com) /\ Added(com, p)[1] = com[1]
         /\ Evaluate(Added(com, p), x) = (Evaluate(com, x) + ((Evaluate(p, x) - 1) % Order)) % Order
         /\ (Evaluate(p, x) - 1) % Order \in Scalar
<1> DEFINE n == Len(com)
           sum == Added(com, p)
           q == [k \in 1 .. n |-> IF k = 1 THEN 0 ELSE p[k]]
           u == <<1>>
<1>1. n \in Nat /\ n >= 1 /\ DOMAIN com = 1 .. n /\ n - 1 \in Nat /\ 1 \in 1 .. n
  OBVIOUS
<1>2. p \in Seq(Scalar) /\ Len(p) = n /\ DOMAIN p = 1 .. n /\ p # <<>> /\ p[1] = 1 /\ 1 \in Scalar /\ 0 \in Scalar
  <2>1. (n - 1) + 1 = n /\ 0 \in Scalar
    BY <1>1, OrderFacts DEF Scalar
  <2> QED BY <1>1, <2>1, SampleFacts
<1>3. \A k \in 1 .. n : com[k] \in Scalar /\ com[k] \in Int /\ p[k] \in Scalar /\ p[k] \in Int
  BY <1>1, <1>2, ScalarsAreInts
<1>4. q \in Seq(Scalar) /\ DOMAIN q = 1 .. n /\ q # <<>>
  <2>1. q \in [1 .. n -> Scalar]
    BY <1>2, <1>3
  <2>2. DOMAIN q = 1 .. n /\ 1 \in DOMAIN q
    BY <1>1
  <2> HIDE DEF q
  <2> QED BY <1>1, <2>1, <2>2
<1>5. sum \in Seq(Scalar) /\ DOMAIN sum = 1 .. n /\ Len(sum) = n /\ sum[1] = com[1] /\ sum # <<>>
  <2>1. \A k \in 1 .. n : (p[k] + com[k]) % Order \in Scalar
    <3>1. \A k \in 1 .. n : p[k] + com[k] \in Int
      BY <1>3
    <3> QED BY <3>1, OrderFacts
  <2>2. sum = [k \in 1 .. n |-> IF k = 1 THEN com[1] ELSE (p[k] + com[k]) % Order]
    BY <1>1 DEF Added
  <2>3. sum \in [1 .. n -> Scalar] /\ sum[1] = com[1]
    BY <1>1, <1>3, <2>1, <2>2
  <2>4. sum \in Seq(Scalar) /\ DOMAIN sum = 1 .. n
    BY <1>1, <2>3
  <2> QED BY <1>1, <2>3, <2>4
<1>6. u \in Seq(Scalar) /\ u # <<>> /\ Evaluate(u, x) = 1 /\ DOMAIN u = {1} /\ u[1] = 1
  <2>1. DOMAIN u = 1 .. 1
    OBVIOUS
  <2>2. u \in Seq(Scalar) /\ Evaluate(u, x) = 1
    BY EvaluateOne
  <2> QED BY <2>1, <2>2
<1>7. \A k \in 1 .. n : /\ k # 1 => sum[k] = (p[k] + com[k]) % Order /\ q[k] = p[k]
                        /\ q[1] = 0
  BY <1>1 DEF Added
<1> HIDE DEF q, u, sum
<1>8. CombinedTerms(p, 1, q, 1, u)
  <2> SUFFICES ASSUME NEW k \in Nat
               PROVE  Combined(Order, Coefficient(p, k), 1, Coefficient(q, k), 1, Coefficient(u, k))
    BY DEF CombinedTerms
  <2>1. Coefficient(p, k) = Coefficient(q, k) * 1 + Coefficient(u, k) * 1
    <3>1. CASE k = 1
      <4>1. Coefficient(p, k) = 1 /\ Coefficient(q, k) = 0 /\ Coefficient(u, k) = 1
        BY <1>1, <1>2, <1>4, <1>6, <1>7, <3>1 DEF Coefficient
      <4> QED BY <4>1
    <3>2. CASE k # 1
      <4>1. Coefficient(u, k) = 0
        BY <1>6, <3>2 DEF Coefficient
      <4>2. Coefficient(p, k) = Coefficient(q, k)
        BY <1>2, <1>4, <1>7, <3>2 DEF Coefficient
      <4>3. Coefficient(q, k) \in Int
        BY <1>4, TermsFacts, 1 \in Int
      <4> QED BY <4>1, <4>2, <4>3
    <3> QED BY <3>1, <3>2
  <2> QED BY <2>1 DEF Combined, Same
<1>9. CombinedTerms(sum, 1, com, 1, q)
  <2> SUFFICES ASSUME NEW k \in Nat
               PROVE  Combined(Order, Coefficient(sum, k), 1, Coefficient(com, k), 1, Coefficient(q, k))
    BY DEF CombinedTerms
  <2> DEFINE y == Coefficient(com, k)
             z == Coefficient(q, k)
  <2>1. y \in Int /\ z \in Int
    BY <1>4, TermsFacts, 1 \in Int
  <2>2. Same(Order, Coefficient(sum, k), y + z)
    <3>1. CASE k = 1
      <4>1. y = com[1] /\ z = 0 /\ Coefficient(sum, k) = com[1]
        BY <1>1, <1>4, <1>5, <1>7, <3>1 DEF Coefficient
      <4> QED BY <2>1, <4>1 DEF Same
    <3>2. CASE k \in 1 .. n /\ k # 1
      <4>1. y = com[k] /\ z = p[k] /\ Coefficient(sum, k) = (p[k] + com[k]) % Order
        BY <1>1, <1>4, <1>5, <1>7, <3>2 DEF Coefficient
      <4> HIDE DEF y, z
      <4>2. p[k] + com[k] = y + z /\ y + z \in Int
        BY <2>1, <4>1
      <4>3. Same(Order, (y + z) % Order, y + z)
        BY <4>2, OrderFacts, SameRefl
      <4> QED BY <4>1, <4>2, <4>3
    <3>3. CASE k \notin 1 .. n
      <4>1. y = 0 /\ z = 0 /\ Coefficient(sum, k) = 0
        BY <1>1, <1>4, <1>5, <3>3 DEF Coefficient
      <4> QED BY <4>1 DEF Same
    <3> QED BY <3>1, <3>2, <3>3
  <2>3. y + z = y * 1 + z * 1
    BY <2>1
  <2> QED BY <2>2, <2>3 DEF Combined
<1> DEFINE Es == Evaluate(sum, x)
           Ec == Evaluate(com, x)
           Ep == Evaluate(p, x)
           Eq == Evaluate(q, x)
<1>10. Es = (Ec + Eq) % Order /\ Ep = (Eq + 1) % Order
  <2>1. Es = (Ec + Eq) % Order
    BY <1>4, <1>5, <1>9, EvaluatePlus
  <2>2. Ep = (Eq + Evaluate(u, x)) % Order
    BY <1>2, <1>4, <1>6, <1>8, EvaluatePlus
  <2> QED BY <1>6, <2>1, <2>2
<1>11. Ec \in Int /\ Eq \in Int /\ Ep \in Int /\ Eq \in Scalar
  BY <1>2, <1>4, EvaluateSum, ScalarsAreInts
<1> HIDE DEF Es, Ec, Ep, Eq
<1>12. (Ep - 1) % Order = Eq
  <2> DEFINE y == Eq + 1
             m == -1
             z == y + m
  <2>1. y \in Int /\ m \in Int /\ z = Eq /\ Ep = y % Order /\ Ep - 1 = Ep + m
    BY <1>10, <1>11
  <2> HIDE DEF y, m
  <2>2. z % Order = ((y % Order) + m) % Order
    BY <2>1, OrderFacts, ModPlus
  <2> QED BY <1>11, <2>1, <2>2, OrderFacts
<1> QED BY <1>5, <1>10, <1>11, <1>12 DEF Es, Ec, Ep, Eq, sum

\* The steps, one lemma each.
LEMMA DealStep ==
  ASSUME SharingAssumption, Undealt, last = NoCall,
         NEW t \in 0 .. MaxThreshold, NEW n \in 1 .. MaxParties, NEW s,
         NEW points \in [1 .. n -> 1 .. MaxPoint], Ascending(points),
         NEW p \in SampleWithConstTerm(t, s), Deal(t, points, p)
  PROVE  Shared'
<1> DEFINE rec == [threshold |-> t, shareCount |-> n, commitments |-> p]
<1>1. /\ t \in Nat /\ n \in Nat /\ n >= 1 /\ points \in Seq(1 .. MaxPoint) /\ DOMAIN points = 1 .. n /\ Len(points) = n
  <2>1. MaxParties \in Nat
    BY SharingAssumption, OrderFacts DEF SharingAssumption
  <2>2. t \in Nat /\ n \in Nat /\ n >= 1
    BY <2>1, SharingAssumption DEF SharingAssumption
  <2>3. points \in Seq(1 .. MaxPoint) /\ DOMAIN points = 1 .. n
    BY <2>2
  <2> QED BY <2>2, <2>3
<1>2. p \in Seq(Scalar) /\ Len(p) = t + 1 /\ p # <<>> /\ p[1] = s /\ s \in Scalar
  BY <1>1, SampleFacts
<1>3. /\ vss' = <<rec>> /\ xs' = points /\ share' = [i \in 1 .. n |-> Evaluate(p, points[i])]
      /\ gen' = [i \in 1 .. n |-> 1] /\ secret' = p[1] /\ parts' = <<>> /\ last' = NoCall
  BY <1>1 DEF Deal, Vss, Undealt
<1>4. rec \in VssSet
      /\ rec.threshold = t /\ rec.commitments = p
  BY <1>2 DEF VssSet
<1> HIDE DEF rec
<1>5. Generations'
  BY <1>2, <1>3, <1>4 DEF Generations
<1>6. \A i \in 1 .. n : Evaluate(p, points[i]) \in Scalar
  <2>1. \A i \in 1 .. n : points[i] \in Scalar
    BY PointFacts
  <2> QED BY <1>2, <2>1, EvaluateSum
<1>7. Len(vss') = 1 /\ vss'[1] = rec
  BY <1>3
<1>8. Holders'
  BY <1>1, <1>3, <1>6, <1>7 DEF Holders, Parties, Current
<1>9. SharesHeld' /\ PartsLead'
  BY <1>1, <1>3, <1>4, <1>7 DEF SharesHeld, PartsLead, ShareOf, Parties, Current
<1>10. AnswersKept'
  BY <1>3 DEF AnswersKept
<1> QED BY <1>5, <1>8, <1>9, <1>10 DEF Shared

\* What the invariant says of the generation in force.
LEMMA InForce ==
  ASSUME SharingAssumption, Shared
  PROVE  /\ Current \in Nat \ {0} /\ DOMAIN vss = 1 .. Current /\ Parties = 1 .. Len(xs) /\ Len(xs) \in Nat
         /\ \A g \in 1 .. Current : /\ vss[g].commitments \in Seq(Scalar) /\ vss[g].commitments # <<>>
                                    /\ vss[g].threshold = vss[1].threshold /\ vss[1].threshold \in Nat
                                    /\ Len(vss[g].commitments) = vss[1].threshold + 1
                                    /\ vss[g].commitments[1] = secret
         /\ \A i \in Parties : xs[i] \in 1 .. MaxPoint /\ xs[i] \in Scalar /\ i \in Scalar /\ share[i] \in Scalar
         /\ \A i \in Parties, g \in 1 .. Current : ShareOf(g, xs[i]) \in Scalar
<1>1. Current \in Nat \ {0} /\ DOMAIN vss = 1 .. Current
  BY DEF Shared, Generations, Current
<1>2. Parties = 1 .. Len(xs) /\ Len(xs) \in Nat /\ Len(xs) <= MaxParties
  BY DEF Shared, Holders, Parties
<1>3. ASSUME NEW g \in 1 .. Current
      PROVE  /\ vss[g].commitments \in Seq(Scalar) /\ vss[g].commitments # <<>>
             /\ vss[g].threshold = vss[1].threshold /\ vss[1].threshold \in Nat
             /\ Len(vss[g].commitments) = vss[1].threshold + 1
             /\ vss[g].commitments[1] = secret
  <2>1. vss[g] \in VssSet
    BY <1>1 DEF Shared, Generations
  <2>2. MaxThreshold \in Nat
    BY SharingAssumption DEF SharingAssumption
  <2>3. vss[g].commitments \in Seq(Scalar) /\ vss[g].threshold \in Nat
    BY <2>1, <2>2 DEF VssSet
  <2>4. /\ vss[g].threshold = vss[1].threshold /\ Len(vss[g].commitments) = vss[g].threshold + 1
        /\ vss[g].commitments[1] = secret
    BY <1>1 DEF Shared, Generations
  <2>5. Len(vss[g].commitments) # 0
    BY <2>3, <2>4
  <2> QED BY <2>3, <2>4, <2>5
<1>4. ASSUME NEW i \in Parties
      PROVE  xs[i] \in 1 .. MaxPoint /\ xs[i] \in Scalar /\ i \in Scalar /\ share[i] \in Scalar
  <2>1. xs[i] \in 1 .. MaxPoint /\ share[i] \in Scalar
    BY <1>2 DEF Shared, Holders, Parties
  <2>2. i \in 1 .. Len(xs)
    BY <1>2
  <2> QED BY <1>2, <2>1, <2>2, PointFacts
<1>5. ASSUME NEW i \in Parties, NEW g \in 1 .. Current PROVE ShareOf(g, xs[i]) \in Scalar
  BY <1>3, <1>4, EvaluateSum DEF ShareOf
<1> QED BY <1>1, <1>2, <1>3, <1>4, <1>5

LEMMA ReshareStep ==
  ASSUME SharingAssumption, Shared, last = NoCall,
         NEW p \in SampleWithConstTerm(vss[Current].threshold, 1), Reshare(p)
  PROVE  Shared'
<1> DEFINE com == vss[Current].commitments
           sum == Added(com, p)
           rec == Vss(vss[Current].threshold, vss[Current].shareCount, sum)
           m == Current + 1
<1>1. /\ Current \in Nat \ {0} /\ Current \in 1 .. Current /\ DOMAIN vss = 1 .. Current
      /\ vss \in Seq(VssSet)
      /\ com \in Seq(Scalar) /\ com # <<>> /\ Len(com) = vss[Current].threshold + 1
      /\ vss[Current].threshold \in Nat /\ com[1] = secret
      /\ m \in Nat /\ m > 1 /\ m - 1 = Current
  BY InForce DEF Shared, Generations
<1>2. vss[Current].threshold = Len(com) - 1
  BY <1>1
<1>3. p \in SampleWithConstTerm(Len(com) - 1, 1)
  BY <1>2
<1>4. /\ vss' = Append(vss, rec) /\ parts' = [i \in Parties |-> (Evaluate(p, i) - 1) % Order]
      /\ UNCHANGED <<xs, share, gen, secret, last>>
      /\ \A i \in Parties : gen[i] \in {0, Current}
  BY DEF Reshare, CommitmentsAdded, Parts, Current, Added
<1>5. ASSUME NEW x \in Scalar
      PROVE  /\ sum \in Seq(Scalar) /\ Len(sum) = Len(com) /\ sum[1] = com[1]
             /\ Evaluate(sum, x) = (Evaluate(com, x) + ((Evaluate(p, x) - 1) % Order)) % Order
             /\ (Evaluate(p, x) - 1) % Order \in Scalar
  <2> HIDE DEF com
  <2> QED BY <1>1, <1>3, ReshareValue
<1>6. sum \in Seq(Scalar) /\ Len(sum) = Len(com) /\ sum[1] = com[1]
  <2>1. 0 \in Scalar
    BY OrderFacts DEF Scalar
  <2> HIDE DEF sum, com
  <2> QED BY <1>5, <2>1
<1>7. rec \in VssSet
      /\ rec.threshold = vss[Current].threshold /\ rec.commitments = sum
  <2>1. vss[Current] \in VssSet
    BY <1>1
  <2> HIDE DEF sum
  <2> QED BY <1>6, <2>1 DEF Vss, VssSet
<1> HIDE DEF rec, sum, com
<1>8. /\ Len(vss') = m /\ vss'[m] = rec /\ DOMAIN vss' = 1 .. m
      /\ \A g \in 1 .. Current : vss'[g] = vss[g]
      /\ vss' \in Seq(VssSet)
  <2>1. Current = Len(vss)
    BY DEF Current
  <2> QED BY <1>1, <1>4, <1>7, <2>1
<1> HIDE DEF m
<1>9. Generations'
  <2>1. ASSUME NEW g \in 1 .. m
        PROVE  /\ vss'[g].threshold = vss'[1].threshold /\ Len(vss'[g].commitments) = vss'[g].threshold + 1
               /\ vss'[g].commitments[1] = secret'
    <3>1. 1 \in 1 .. Current /\ vss'[1] = vss[1] /\ secret' = secret /\ vss[Current].threshold = vss[1].threshold
      BY <1>1, <1>4, <1>8, InForce
    <3>2. CASE g = m
      BY <1>1, <1>6, <1>7, <1>8, <3>1, <3>2 DEF com
    <3>3. CASE g \in 1 .. Current
      BY <1>8, <3>1, <3>3, InForce
    <3> QED BY <1>1, <3>2, <3>3 DEF m
  <2>2. secret' \in Scalar /\ vss' # <<>>
    BY <1>1, <1>4, <1>8 DEF Shared, Generations
  <2> QED BY <1>8, <2>1, <2>2 DEF Generations
<1>10. xs' = xs /\ share' = share /\ gen' = gen /\ last' = NoCall /\ Current' = m /\ Parties' = Parties /\ InOrder' = InOrder
  BY <1>4, <1>8 DEF Current, Parties, InOrder
<1>11. \A i \in Parties : parts'[i] \in Scalar /\ parts'[i] = (Evaluate(p, i) - 1) % Order /\ gen[i] # m /\ i \in Scalar
  BY <1>1, <1>4, <1>5, InForce DEF m
<1>12. Holders'
  <2>1. parts' \in [Parties -> Scalar]
    BY <1>4, <1>11
  <2>2. gen \in [Parties -> {0, m - 1, m}]
    BY <1>1, <1>4 DEF Shared, Holders
  <2> QED BY <1>10, <2>1, <2>2 DEF Shared, Holders
<1>13. \A g \in 1 .. Current : \A x : ShareOf(g, x)' = ShareOf(g, x)
  BY <1>8 DEF ShareOf
<1>14. SharesHeld'
  <2> SUFFICES ASSUME NEW i \in Parties, gen[i] # 0, gen[i] = 1 \/ InOrder
               PROVE  share[i] = Evaluate(vss'[gen[i]].commitments, xs[i])
    BY <1>10 DEF SharesHeld, ShareOf
  <2>1. gen[i] \in 1 .. Current
    BY <1>1, <1>4
  <2>2. share[i] = Evaluate(vss[gen[i]].commitments, xs[i])
    BY DEF Shared, SharesHeld, ShareOf
  <2> QED BY <1>8, <2>1, <2>2
<1>15. PartsLead'
  <2>1. ASSUME InOrder, NEW i \in Parties
        PROVE  Evaluate(vss'[m].commitments, xs[i]) = (Evaluate(vss'[m - 1].commitments, xs[i]) + parts'[i]) % Order
    <3>1. xs[i] = i /\ i \in Scalar
      BY <1>11, <2>1 DEF InOrder
    <3>2. Evaluate(sum, i) = (Evaluate(com, i) + ((Evaluate(p, i) - 1) % Order)) % Order
      BY <1>5, <3>1
    <3>3. vss'[m - 1].commitments = com /\ vss'[m].commitments = sum
      BY <1>1, <1>7, <1>8 DEF com
    <3> QED BY <1>11, <3>1, <3>2, <3>3
  <2>2. \A i \in Parties : m = 2 => gen[i] # 2
    BY <1>11
  <2> QED BY <1>10, <2>1, <2>2 DEF PartsLead, ShareOf
<1>16. AnswersKept'
  BY <1>10 DEF AnswersKept
<1> QED BY <1>9, <1>12, <1>14, <1>15, <1>16 DEF Shared

LEMMA FollowStep ==
  ASSUME SharingAssumption, Shared, last = NoCall, NEW i \in Parties, Follow(i)
  PROVE  Shared'
<1>1. /\ Current \in Nat \ {0} /\ gen[i] = Current - 1 /\ Current - 1 > 0
      /\ share' = [share EXCEPT ![i] = (share[i] + parts[i]) % Order]
      /\ gen' = [gen EXCEPT ![i] = Current]
      /\ vss' = vss /\ xs' = xs /\ parts' = parts /\ secret' = secret /\ last' = NoCall
  BY InForce DEF Follow, Current
<1>2. Current > 1 /\ Current \in 1 .. Current /\ Current - 1 \in 1 .. Current
  BY <1>1
<1>3. /\ share \in [Parties -> Scalar] /\ parts \in [Parties -> Scalar]
      /\ gen \in [Parties -> {0, Current - 1, Current}]
  BY <1>2 DEF Shared, Holders
<1>4. (share[i] + parts[i]) % Order \in Scalar
  <2>1. share[i] + parts[i] \in Int
    BY <1>3, ScalarsAreInts
  <2> QED BY <2>1, OrderFacts
<1>5. /\ share' \in [Parties -> Scalar] /\ gen' \in [Parties -> {0, Current - 1, Current}]
      /\ gen'[i] = Current /\ share'[i] = (share[i] + parts[i]) % Order
      /\ \A j \in Parties : j # i => gen'[j] = gen[j] /\ share'[j] = share[j]
  BY <1>1, <1>3, <1>4
<1>6. /\ Current' = Current /\ Parties' = Parties /\ InOrder' = InOrder
      /\ \A g : \A x : ShareOf(g, x)' = ShareOf(g, x)
  BY <1>1 DEF Current, Parties, InOrder, ShareOf
<1>7. Generations' /\ AnswersKept'
  BY <1>1 DEF Shared, Generations, AnswersKept
<1>8. Holders'
  BY <1>1, <1>3, <1>5, <1>6 DEF Shared, Holders
<1>9. gen[i] = 1 \/ InOrder => share[i] = ShareOf(Current - 1, xs[i])
  BY <1>1 DEF Shared, SharesHeld
<1>10. SharesHeld'
  <2> SUFFICES ASSUME NEW j \in Parties, gen'[j] # 0, gen'[j] = 1 \/ InOrder
               PROVE  share'[j] = ShareOf(gen'[j], xs[j])
    BY <1>1, <1>6 DEF SharesHeld, ShareOf
  <2>1. CASE j # i
    BY <1>5, <2>1 DEF Shared, SharesHeld
  <2>2. CASE j = i
    <3>1. InOrder
      BY <1>2, <1>5, <2>2
    <3>2. ShareOf(Current, xs[i]) = (ShareOf(Current - 1, xs[i]) + parts[i]) % Order
      BY <1>2, <3>1 DEF Shared, PartsLead
    <3> QED BY <1>5, <1>9, <2>2, <3>1, <3>2
  <2> QED BY <2>1, <2>2
<1>11. PartsLead'
  <2>1. Current > 1 /\ InOrder =>
          \A j \in Parties : ShareOf(Current, xs[j]) = (ShareOf(Current - 1, xs[j]) + parts[j]) % Order
    BY DEF Shared, PartsLead
  <2>2. ASSUME Current = 2, NEW j \in Parties, gen'[j] = 2
        PROVE  share'[j] = (ShareOf(1, xs[j]) + parts[j]) % Order
    <3>1. CASE j # i
      BY <1>5, <2>2, <3>1 DEF Shared, PartsLead
    <3>2. CASE j = i
      BY <1>1, <1>5, <1>9, <2>2, <3>2
    <3> QED BY <3>1, <3>2
  <2> QED BY <1>1, <1>6, <2>1, <2>2 DEF PartsLead, ShareOf
<1> QED BY <1>7, <1>8, <1>10, <1>11 DEF Shared

LEMMA DamageStep ==
  ASSUME SharingAssumption, Shared, last = NoCall, NEW i \in Parties, NEW value \in Damages, Damage(i, value)
  PROVE  Shared'
<1>1. /\ share' = [share EXCEPT ![i] = value] /\ gen' = [gen EXCEPT ![i] = 0]
      /\ vss' = vss /\ xs' = xs /\ parts' = parts /\ secret' = secret /\ last' = NoCall
  BY DEF Damage
<1>2. value \in Scalar /\ Current \in Nat \ {0}
  BY InForce, SharingAssumption DEF SharingAssumption
<1>3. /\ Current' = Current /\ Parties' = Parties /\ InOrder' = InOrder
      /\ \A g : \A x : ShareOf(g, x)' = ShareOf(g, x)
  BY <1>1 DEF Current, Parties, InOrder, ShareOf
<1>4. /\ share \in [Parties -> Scalar] /\ gen \in [Parties -> {0, Current - 1, Current}]
  BY DEF Shared, Holders
<1>5. /\ share' \in [Parties -> Scalar] /\ gen' \in [Parties -> {0, Current - 1, Current}]
      /\ gen'[i] = 0 /\ \A j \in Parties : j # i => gen'[j] = gen[j] /\ share'[j] = share[j]
  BY <1>1, <1>2, <1>4
<1>6. Generations' /\ AnswersKept'
  BY <1>1 DEF Shared, Generations, AnswersKept
<1>7. Holders'
  BY <1>1, <1>3, <1>5 DEF Shared, Holders
<1>8. SharesHeld'
  <2> SUFFICES ASSUME NEW j \in Parties, gen'[j] # 0, gen'[j] = 1 \/ InOrder
               PROVE  share'[j] = ShareOf(gen'[j], xs[j])
    BY <1>1, <1>3 DEF SharesHeld, ShareOf
  <2>1. j # i
    BY <1>5
  <2> QED BY <1>5, <2>1 DEF Shared, SharesHeld
<1>9. PartsLead'
  <2>1. Current > 1 /\ InOrder =>
          \A j \in Parties : ShareOf(Current, xs[j]) = (ShareOf(Current - 1, xs[j]) + parts[j]) % Order
    BY DEF Shared, PartsLead
  <2>2. ASSUME Current = 2, NEW j \in Parties, gen'[j] = 2
        PROVE  share'[j] = (ShareOf(1, xs[j]) + parts[j]) % Order
    <3>1. j # i
      BY <1>5, <2>2
    <3> QED BY <1>5, <2>2, <3>1 DEF Shared, PartsLead
  <2> QED BY <1>1, <1>3, <2>1, <2>2 DEF PartsLead, ShareOf
<1> QED BY <1>6, <1>7, <1>8, <1>9 DEF Shared

LEMMA ReconstructStep ==
  ASSUME SharingAssumption, Shared, NEW by \in Callers, NEW sel \in Selections, Reconstruct(by, sel)
  PROVE  Shared'
<1>1. /\ last' = [by |-> by, from |-> sel, outcome |-> Outcome(by, sel)]
      /\ vss' = vss /\ xs' = xs /\ share' = share /\ parts' = parts /\ gen' = gen /\ secret' = secret
  BY DEF Reconstruct
<1>2. /\ Current' = Current /\ Parties' = Parties /\ InOrder' = InOrder
      /\ \A g : \A x : ShareOf(g, x)' = ShareOf(g, x)
  BY <1>1 DEF Current, Parties, InOrder, ShareOf
<1>3. Generations' /\ Holders'
  BY <1>1, <1>2 DEF Shared, Generations, Holders
<1>4. SharesHeld'
  BY <1>1, <1>2 DEF Shared, SharesHeld, ShareOf
<1>5. PartsLead'
  BY <1>1, <1>2 DEF Shared, PartsLead, ShareOf
<1>6. AnswersKept'
  <2>1. Outcome(by, sel)' = Outcome(by, sel) /\ Selections' = Selections
    BY <1>1 DEF Outcome, Reconstructed, Mapped, PointsOf, Selections, Parties
  <2>2. last'.by = by /\ last'.from = sel /\ last'.outcome = Outcome(by, sel)
    BY <1>1
  <2>3. Outcome(last.by, last.from)' = Outcome(by, sel)'
    BY <2>2 DEF Outcome, Reconstructed, Mapped, PointsOf
  <2> QED BY <2>1, <2>2, <2>3 DEF AnswersKept
<1> QED BY <1>3, <1>4, <1>5, <1>6 DEF Shared

\* What its initial states and steps keep.
LEMMA SharingInitial == Init => SharingIInv
BY DEF Init, SharingIInv, Undealt

LEMMA SharingInductive ==
  ASSUME SharingAssumption
  PROVE  SharingIInv /\ [Next]_vars => SharingIInv'
<1> SUFFICES ASSUME SharingIInv, [Next]_vars PROVE SharingIInv'
  OBVIOUS
<1>1. CASE UNCHANGED vars
  <2>1. /\ vss' = vss /\ xs' = xs /\ share' = share /\ parts' = parts /\ gen' = gen
        /\ secret' = secret /\ last' = last
    BY <1>1 DEF vars
  <2>2. Undealt => Undealt'
    BY <2>1 DEF Undealt
  <2>3. ASSUME Shared PROVE Shared'
    <3>1. /\ Current' = Current /\ Parties' = Parties /\ InOrder' = InOrder
      BY <2>1 DEF Current, Parties, InOrder
    <3>2. Generations' /\ Holders'
      BY <2>1, <2>3, <3>1 DEF Shared, Generations, Holders
    <3>3. SharesHeld' /\ PartsLead'
      BY <2>1, <2>3, <3>1 DEF Shared, SharesHeld, PartsLead, ShareOf
    <3>4. AnswersKept'
      BY <2>1, <2>3 DEF Shared, AnswersKept, Outcome, Reconstructed, Mapped, PointsOf, Selections, Parties
    <3> QED BY <3>2, <3>3, <3>4 DEF Shared
  <2> QED BY <2>2, <2>3 DEF SharingIInv
<1>2. CASE Next
  <2>1. last = NoCall
    <3>1. last.by = "none"
      BY <1>2 DEF Next
    <3> QED BY <3>1 DEF SharingIInv, Undealt, Shared, AnswersKept, Callers, NoCall
  <2>2. MaxParties \in Nat /\ MaxThreshold \in Nat
    BY SharingAssumption, OrderFacts DEF SharingAssumption
  <2>3. ASSUME NEW t \in 0 .. MaxThreshold, NEW n \in 1 .. MaxParties, NEW s \in Secrets, Share(t, n, s)
        PROVE  SharingIInv'
    <3>1. vss = <<>>
      BY <2>3 DEF Share, Deal
    <3>2. Undealt
      BY <3>1 DEF SharingIInv, Shared, Generations
    <3>3. CASE t < n
      <4> DEFINE points == [i \in 1 .. n |-> i]
      <4>1. PICK p \in SampleWithConstTerm(t, s) : Deal(t, points, p)
        BY <2>3, <3>3 DEF Share
      <4>2. points \in [1 .. n -> 1 .. MaxPoint]
        <5>1. n \in Nat /\ n <= MaxParties
          BY <2>2
        <5>2. \A i \in 1 .. n : i \in 1 .. MaxPoint
          BY <5>1, PointFacts
        <5> QED BY <5>2
      <4>3. Ascending(points)
        BY DEF Ascending
      <4> HIDE DEF points
      <4> QED BY <2>1, <3>2, <4>1, <4>2, <4>3, DealStep DEF SharingIInv
    <3>4. CASE ~(t < n)
      BY <2>3, <3>2, <3>4 DEF Share, SharingIInv, Undealt
    <3> QED BY <3>3, <3>4
  <2>4. ASSUME NEW t \in 0 .. MaxThreshold, NEW n \in 1 .. MaxParties, NEW s \in Secrets,
               NEW points \in [1 .. n -> 1 .. MaxPoint], Ascending(points), ShareAtIndices(t, points, s)
        PROVE  SharingIInv'
    <3>1. PICK p \in SampleWithConstTerm(t, s) : Deal(t, points, p)
      BY <2>4 DEF ShareAtIndices
    <3>2. Undealt
      BY <3>1 DEF Deal, SharingIInv, Shared, Generations
    <3> QED BY <2>1, <2>4, <3>1, <3>2, DealStep DEF SharingIInv
  <2>5. ASSUME vss # <<>> PROVE Shared
    BY <2>5 DEF SharingIInv, Undealt
  <2>6. ASSUME vss # <<>>, NEW p \in SampleWithConstTerm(vss[Len(vss)].threshold, 1), Reshare(p)
        PROVE  SharingIInv'
    <3>1. p \in SampleWithConstTerm(vss[Current].threshold, 1)
      BY <2>6 DEF Current
    <3> QED BY <2>1, <2>5, <2>6, <3>1, ReshareStep DEF SharingIInv
  <2>7. ASSUME NEW i \in Parties PROVE Shared
    BY <2>7 DEF SharingIInv, Undealt, Parties
  <2>8. ASSUME NEW i \in Parties, Follow(i) PROVE SharingIInv'
    BY <2>1, <2>7, <2>8, FollowStep DEF SharingIInv
  <2>9. ASSUME NEW i \in Parties, NEW value \in Damages, Damage(i, value) PROVE SharingIInv'
    BY <2>1, <2>7, <2>9, DamageStep DEF SharingIInv
  <2>10. ASSUME NEW by \in Callers, NEW sel \in Selections, Reconstruct(by, sel) PROVE SharingIInv'
    <3>1. vss # <<>>
      BY <2>10 DEF Reconstruct
    <3> QED BY <2>5, <2>10, <3>1, ReconstructStep DEF SharingIInv
  <2> QED BY <1>2, <2>3, <2>4, <2>6, <2>8, <2>9, <2>10 DEF Next
<1> QED BY <1>1, <1>2

\* The bookkeeping of generations: whoever has followed a reshare, or not yet,
\* holds the value of that generation's polynomial at its point
\* (feldman_vss.rs:58-143).
THEOREM SharingInvariant == Spec => []SharingIInv
<1>1. SharingAssumption
  BY SharingAssumption
<1> QED BY <1>1, SharingInitial, SharingInductive, PTL DEF Spec

-----------------------------------------------------------------------------
(* What it means. *)

\* A scalar stays as it is when zero is added to it, and only then.
LEMMA SumStays ==
  ASSUME NEW y \in Scalar, NEW z \in Scalar
  PROVE  y = (y + z) % Order <=> z = 0
<1>1. Order \in Nat /\ Order > 1
  BY OrderFacts
<1>2. y \in Nat /\ z \in Nat /\ y < Order /\ z < Order
  BY <1>1 DEF Scalar
<1>3. CASE y + z < Order
  <2>1. (y + z) % Order = y + z
    BY <1>1, <1>2, <1>3
  <2> QED BY <1>2, <2>1
<1>4. CASE ~(y + z < Order)
  <2> DEFINE r == y + z - Order
  <2>1. r \in Scalar /\ y + z = r + Order * 1
    BY <1>1, <1>2, <1>4 DEF Scalar
  <2>2. (y + z) % Order = r
    BY <1>1, <1>2, <1>4
  <2>3. r < y /\ z # 0
    BY <1>1, <1>2, <1>4
  <2> QED BY <1>2, <2>2, <2>3
<1> QED BY <1>3, <1>4

\* A share validates against its generation's commitments, and against those
\* next to it only if it was left as it was.
LEMMA SharesMatch ==
  ASSUME SharingAssumption, SharingIInv
  PROVE  SharesValidate
<1> SUFFICES ASSUME NEW i \in Parties, NEW g \in DOMAIN vss, g >= Len(vss) - 1,
                    g = 1 \/ InOrder, gen[i] # 0
             PROVE  share[i] = ShareOf(g, xs[i]) <=> gen[i] = g \/ parts[i] = 0
  BY DEF SharesValidate, Validates, PointCommitment, ShareOf
<1>1. Shared
  BY DEF SharingIInv, Undealt, Parties
<1>2. /\ Current \in Nat \ {0} /\ g \in 1 .. Current /\ g >= Current - 1
      /\ gen[i] \in {0, Current - 1, Current} /\ share[i] \in Scalar
      /\ \A h \in 1 .. Current : ShareOf(h, xs[i]) \in Scalar
  BY <1>1, InForce DEF Current, Shared, Holders
<1>3. gen[i] \in 1 .. Current /\ (g = Current \/ g = Current - 1)
  BY <1>2
<1>4. CASE gen[i] = g
  BY <1>1, <1>4 DEF Shared, SharesHeld
<1>5. CASE gen[i] # g
  <2>1. Current > 1 /\ Current - 1 \in 1 .. Current /\ Current \in 1 .. Current
    BY <1>2, <1>3, <1>5
  <2>2. parts[i] \in Scalar
    BY <1>1, <2>1 DEF Shared, Holders
  <2>3. CASE g = Current
    <3>1. gen[i] = Current - 1 /\ InOrder
      BY <1>2, <1>3, <1>5, <2>1, <2>3
    <3>2. share[i] = ShareOf(Current - 1, xs[i])
      BY <1>1, <3>1 DEF Shared, SharesHeld
    <3>3. ShareOf(Current, xs[i]) = (ShareOf(Current - 1, xs[i]) + parts[i]) % Order
      BY <1>1, <2>1, <3>1 DEF Shared, PartsLead
    <3> QED BY <1>2, <1>5, <2>2, <2>3, <3>2, <3>3, SumStays
  <2>4. CASE g = Current - 1
    <3>1. gen[i] = Current
      BY <1>2, <1>3, <1>5, <2>4
    <3>2. share[i] = (ShareOf(g, xs[i]) + parts[i]) % Order
      <4>1. CASE InOrder
        <5>1. share[i] = ShareOf(Current, xs[i])
          BY <1>1, <3>1, <4>1 DEF Shared, SharesHeld
        <5> QED BY <1>1, <2>1, <2>4, <4>1, <5>1 DEF Shared, PartsLead
      <4>2. CASE g = 1
        <5>1. Current = 2
          BY <1>2, <2>4, <4>2
        <5> QED BY <1>1, <3>1, <4>2, <5>1 DEF Shared, PartsLead
      <4> QED BY <4>1, <4>2
    <3>3. ShareOf(g, xs[i]) \in Scalar
      BY <1>2
    <3> QED BY <1>5, <2>2, <3>2, <3>3, SumStays
  <2> QED BY <1>3, <2>3, <2>4
<1> QED BY <1>4, <1>5

\* validate_share tells the generations apart, by number, unless the part between
\* the two happens to be zero (feldman_vss.rs:226-246).
THEOREM SharesValidated == Spec => []SharesValidate
<1>1. SharingAssumption
  BY SharingAssumption
<1> QED BY <1>1, SharingInvariant, SharesMatch, PTL

\* The parties selected, none of them twice: their points differ.
LEMMA SelectedPoints ==
  ASSUME SharingAssumption, Shared, NEW sel \in Selections, ~Repeats(sel)
  PROVE  /\ Len(sel) \in Nat \ {0} /\ DOMAIN sel = 1 .. Len(sel)
         /\ \A k \in DOMAIN sel : sel[k] \in Parties
         /\ PointsOf(sel) \in [1 .. Len(sel) -> Scalar] /\ Different(PointsOf(sel))
<1>1. PICK m \in 1 .. MaxParties : sel \in [1 .. m -> Parties]
  BY DEF Selections
<1>2. m \in Nat \ {0}
  BY SharingAssumption, OrderFacts DEF SharingAssumption
<1>3. DOMAIN sel = 1 .. m /\ sel \in Seq(Parties)
  BY <1>1, <1>2
<1>4. Len(sel) = m
  BY <1>2, <1>3
<1>5. \A k \in 1 .. m : sel[k] \in Parties /\ xs[sel[k]] \in Scalar
  BY <1>1, InForce
<1>6. PointsOf(sel) \in [1 .. m -> Scalar]
  BY <1>3, <1>5 DEF PointsOf
<1>7. ASSUME NEW j \in 1 .. m, NEW k \in 1 .. m, j # k PROVE xs[sel[j]] # xs[sel[k]]
  <2>1. sel[j] # sel[k]
    BY <1>2, <1>3, <1>7 DEF Repeats
  <2>2. /\ sel[j] \in Int /\ sel[k] \in Int /\ xs[sel[j]] \in Int /\ xs[sel[k]] \in Int
        /\ sel[j] \in DOMAIN xs /\ sel[k] \in DOMAIN xs
    <3>1. sel[j] \in Parties /\ sel[k] \in Parties
      BY <1>5
    <3> QED BY <3>1, InForce, ScalarsAreInts DEF Parties
  <2>3. Ascending(xs)
    BY DEF Shared, Holders
  <2> QED BY <2>1, <2>2, <2>3 DEF Ascending
<1>8. Different(PointsOf(sel))
  BY <1>3, <1>7 DEF Different, PointsOf
<1> QED BY <1>2, <1>3, <1>4, <1>5, <1>6, <1>8

\* Enough shares of the generation in force, put together either way.
LEMMA OutcomeIs ==
  ASSUME SharingAssumption, Shared, NEW by \in Callers, NEW sel \in Selections, ~Repeats(sel),
         Len(sel) > vss[1].threshold,
         \A k \in DOMAIN sel : share[sel[k]] = ShareOf(Current, xs[sel[k]])
  PROVE  Outcome(by, sel) = secret
<1> DEFINE n == Len(sel)
           points == PointsOf(sel)
           values == [k \in DOMAIN sel |-> share[sel[k]]]
           p == vss[Current].commitments
<1>1. n \in Nat \ {0} /\ DOMAIN sel = 1 .. n /\ points \in [1 .. n -> Scalar] /\ Different(points)
  BY SelectedPoints
<1>2. /\ p \in Seq(Scalar) /\ p # <<>> /\ Len(p) = vss[1].threshold + 1 /\ p[1] = secret
      /\ vss[Current].threshold = vss[1].threshold /\ vss[1].threshold \in Nat
  <2>1. Current \in 1 .. Current
    BY InForce
  <2> QED BY <2>1, InForce
<1>3. Len(p) <= n /\ ~(n < vss[Current].threshold + 1)
  BY <1>1, <1>2
<1>4. \A k \in 1 .. n : values[k] = Evaluate(p, points[k])
  BY <1>1 DEF ShareOf, PointsOf
<1>5. InterpolateAtZero(points, values) = p[1]
  <2> HIDE DEF points, values, p, n
  <2> QED BY <1>1, <1>2, <1>3, <1>4, InterpolateGives
<1>6. Reconstructed(vss[Current], sel) = secret
  BY <1>2, <1>3, <1>5 DEF Reconstructed
<1>7. Mapped(sel) = secret
  <2>1. MappedSum(points, values, n) = p[1]
    <3> HIDE DEF points, values, p, n
    <3> QED BY <1>1, <1>2, <1>3, <1>4, MappedGives
  <2>2. [k \in 1 .. n |-> LagrangeBasis(0, k, points) * values[k]]
          = [k \in DOMAIN sel |-> LagrangeBasis(0, k, points) * share[sel[k]]]
    BY <1>1
  <2> HIDE DEF points, values, p
  <2>3. Mapped(sel) = Total([k \in DOMAIN sel |-> LagrangeBasis(0, k, points) * share[sel[k]]], n)
    BY DEF Mapped, points
  <2> QED BY <1>2, <2>1, <2>2, <2>3 DEF MappedSum
<1>8. \A k \in DOMAIN sel : Validates(vss[Current], share[sel[k]], xs[sel[k]])
  BY DEF Validates, PointCommitment, ShareOf
<1> HIDE DEF p, points, values
<1> QED BY <1>6, <1>7, <1>8 DEF Outcome, Current

\* So it is with shares that are of the generation in force.
LEMMA SharesGive ==
  ASSUME SharingAssumption, SharingIInv
  PROVE  SharesReconstruct
<1> DEFINE sel == last.from
<1> SUFFICES ASSUME last.by \in Callers, Len(sel) > vss[1].threshold, ~Repeats(sel),
                    \A k \in DOMAIN sel : gen[sel[k]] = Len(vss),
                    Len(vss) = 1 \/ InOrder
             PROVE  last.outcome = secret
  BY DEF SharesReconstruct
<1>1. Shared /\ sel \in Selections /\ last.outcome = Outcome(last.by, sel)
  BY DEF SharingIInv, Undealt, Shared, AnswersKept, Callers, NoCall
<1>2. \A k \in DOMAIN sel : sel[k] \in Parties
  BY <1>1, SelectedPoints
<1>3. Current \in Nat \ {0} /\ Current = Len(vss)
  BY <1>1, InForce DEF Current
<1>4. \A k \in DOMAIN sel : share[sel[k]] = ShareOf(Current, xs[sel[k]])
  BY <1>1, <1>2, <1>3 DEF Shared, SharesHeld
<1> QED BY <1>1, <1>4, OutcomeIs

\* threshold + 1 shares or more of the generation in force give the secret, by
\* reconstruct and by the mapped shares alike (feldman_vss.rs:167-224, 251-264).
THEOREM SharesReconstructed == Spec => []SharesReconstruct
<1>1. SharingAssumption
  BY SharingAssumption
<1> QED BY <1>1, SharingInvariant, SharesGive, PTL

\* Whatever is put together, the answer is a scalar or a failure.
LEMMA OutcomeType ==
  ASSUME SharingAssumption, Shared, NEW by \in Callers, NEW sel \in Selections
  PROVE  Outcome(by, sel) \in Scalar \cup {Err, Panic}
<1> DEFINE n == Len(sel)
           points == PointsOf(sel)
           values == [k \in DOMAIN sel |-> share[sel[k]]]
<1>1. CASE Repeats(sel)
  BY <1>1 DEF Outcome, Reconstructed, Mapped
<1>2. CASE ~Repeats(sel)
  <2>1. n \in Nat \ {0} /\ DOMAIN sel = 1 .. n /\ points \in [1 .. n -> Scalar] /\ Different(points)
    BY <1>2, SelectedPoints
  <2>2. \A k \in 1 .. n : values[k] \in Int
    <3>1. \A k \in 1 .. n : sel[k] \in Parties
      BY <1>2, <2>1, SelectedPoints
    <3> QED BY <2>1, <3>1, InForce, ScalarsAreInts
  <2>3. InterpolateAtZero(points, values) \in Scalar
    <3> HIDE DEF points, values, n
    <3>1. \A i \in 1 .. n : Interpolated(points, values, n)[i] \in Int
      BY <2>1, <2>2, WeightedInts
    <3>2. Total(Interpolated(points, values, n), n) \in Scalar
      BY <2>1, <3>1, TotalIs
    <3> QED BY <2>1, <3>2, InterpolateIs
  <2>4. Mapped(sel) \in Scalar
    <3> DEFINE f == [k \in DOMAIN sel |-> LagrangeBasis(0, k, points) * share[sel[k]]]
    <3>1. \A k \in 1 .. n : LagrangeBasis(0, k, points) \in Int
      <4> HIDE DEF points, n
      <4> QED BY <2>1, BasisIs, ScalarsAreInts
    <3>2. \A k \in 1 .. n : f[k] = LagrangeBasis(0, k, points) * values[k]
      BY <2>1
    <3> HIDE DEF points, values
    <3>3. \A k \in 1 .. n : f[k] \in Int
      <4> HIDE DEF f
      <4> QED BY <2>2, <3>1, <3>2
    <3>4. Mapped(sel) = Total(f, n)
      BY <1>2 DEF Mapped, points
    <3> HIDE DEF f, n
    <3>5. Total(f, n) \in Scalar
      BY <2>1, <3>3, TotalIs
    <3> QED BY <3>4, <3>5
  <2> HIDE DEF n
  <2> QED BY <1>2, <2>3, <2>4 DEF Outcome, Reconstructed
<1> QED BY <1>1, <1>2

LEMMA SharesTyped ==
  ASSUME SharingAssumption, SharingIInv
  PROVE  TypeOK
<1>1. CASE Undealt
  <2>1. vss = <<>> /\ xs = <<>> /\ share = <<>> /\ gen = <<>> /\ secret = Nothing
    BY <1>1 DEF Undealt
  <2>2. Parties = {}
    BY <2>1 DEF Parties
  <2>3. share \in [Parties -> Scalar] /\ gen \in [Parties -> 0 .. Len(vss)]
    BY <2>1, <2>2
  <2>4. last.outcome \in {Nothing, Panic}
    BY <1>1 DEF Undealt, NoCall
  <2> QED BY <2>1, <2>3, <2>4 DEF TypeOK
<1>2. CASE Shared
  <2>1. vss \in Seq(VssSet) /\ secret \in Scalar
    BY <1>2 DEF Shared, Generations
  <2>2. xs \in Seq(1 .. MaxPoint) /\ share \in [Parties -> Scalar]
    BY <1>2 DEF Shared, Holders
  <2>3. gen \in [Parties -> 0 .. Len(vss)]
    <3>1. gen \in [Parties -> {0, Current - 1, Current}] /\ Current \in Nat \ {0}
      BY <1>2, InForce DEF Shared, Holders
    <3> QED BY <3>1 DEF Current
  <2>4. last.outcome \in Scalar \cup {Panic, Err, Nothing}
    BY <1>2, OutcomeType DEF Shared, AnswersKept, NoCall
  <2> QED BY <2>1, <2>2, <2>3, <2>4 DEF TypeOK, VssSet
<1> QED BY <1>1, <1>2 DEF SharingIInv

\* Every variable keeps to its type: whatever damaged or mixed shares are put
\* together, the answer is a scalar, a refusal or a panic.
THEOREM SharingTypes == Spec => []TypeOK
<1>1. SharingAssumption
  BY SharingAssumption
<1> QED BY <1>1, SharingInvariant, SharesTyped, PTL

-----------------------------------------------------------------------------
(* The refinement. *)

Revealed == IF last.by # "checked" THEN Nothing
            ELSE IF last.outcome = Panic THEN Err ELSE last.outcome

\* What checked shares are reconstructed to, whatever has become of the others.
LEMMA CheckedOutcome ==
  ASSUME SharingAssumption, Shared, NEW sel \in Selections
  PROVE  Outcome("checked", sel) \in {secret, Err, Panic}
<1>1. CASE \E k \in DOMAIN sel : ~Validates(vss[Current], share[sel[k]], xs[sel[k]])
  BY <1>1 DEF Outcome, Current
<1>2. CASE \A k \in DOMAIN sel : Validates(vss[Current], share[sel[k]], xs[sel[k]])
  <2>1. \A k \in DOMAIN sel : share[sel[k]] = ShareOf(Current, xs[sel[k]])
    BY <1>2 DEF Validates, PointCommitment, ShareOf
  <2>2. CASE Repeats(sel) \/ Len(sel) < vss[Current].threshold + 1
    BY <1>2, <2>2 DEF Outcome, Reconstructed, Current
  <2>3. CASE ~Repeats(sel) /\ ~(Len(sel) < vss[Current].threshold + 1)
    <3>1. Current \in 1 .. Current
      BY InForce
    <3>2. vss[Current].threshold = vss[1].threshold /\ vss[1].threshold \in Nat
      BY <3>1, InForce
    <3>3. Len(sel) \in Nat
      BY <2>3, SelectedPoints
    <3>4. Len(sel) > vss[1].threshold /\ "checked" \in Callers
      BY <2>3, <3>2, <3>3 DEF Callers
    <3> QED BY <2>1, <2>3, <3>4, OutcomeIs
  <2> QED BY <2>2, <2>3
<1> QED BY <1>1, <1>2

LEMMA RevealedStays ==
  ASSUME last' = last
  PROVE  Revealed' = Revealed
BY DEF Revealed

LEMMA DealIsDeal ==
  ASSUME SharingAssumption, Undealt, NEW t \in 0 .. MaxThreshold, NEW s \in Secrets,
         NEW points, NEW p \in SampleWithConstTerm(t, s), Deal(t, points, p)
  PROVE  Dealt!Next
<1>1. p[1] = s /\ s \in Scalar
  BY SharingAssumption DEF SampleWithConstTerm, SharingAssumption
<1>2. Dealt!Deal(s)
  BY <1>1 DEF Deal, Undealt, Dealt!Deal
<1> QED BY <1>1, <1>2 DEF Dealt!Next

\* With every share checked, no mixture of generations, damage, resharing or
\* choice of points reveals anything but the secret that was dealt.
THEOREM SharingRefinement == Spec => ImplementsDealtSecret
<1>1. Init => Dealt!Init
  BY DEF Init, Dealt!Init, NoCall
<1>2. SharingAssumption
  BY SharingAssumption
<1>3. SharingIInv /\ [Next]_vars => [Dealt!Next]_<<secret, Revealed>>
  <2> SUFFICES ASSUME SharingIInv, [Next]_vars
               PROVE  Dealt!Next \/ (secret' = secret /\ Revealed' = Revealed)
    OBVIOUS
  <2>1. CASE UNCHANGED vars
    BY <2>1, RevealedStays DEF vars
  <2>2. CASE Next
    <3>1. last.by = "none" /\ Revealed = Nothing
      BY <2>2 DEF Next, Revealed
    <3>2. vss = <<>> => Undealt
      BY DEF SharingIInv, Shared, Generations
    <3>3. ASSUME NEW t \in 0 .. MaxThreshold, NEW n \in 1 .. MaxParties, NEW s \in Secrets, Share(t, n, s)
          PROVE  Dealt!Next \/ (secret' = secret /\ Revealed' = Revealed)
      <4>1. CASE t < n
        <5>1. PICK p \in SampleWithConstTerm(t, s) : Deal(t, [i \in 1 .. n |-> i], p)
          BY <3>3, <4>1 DEF Share
        <5>2. Undealt
          BY <3>2, <5>1 DEF Deal
        <5> QED BY <1>2, <5>1, <5>2, DealIsDeal
      <4>2. CASE ~(t < n)
        <5>1. secret' = secret /\ last'.by = "share"
          BY <3>3, <4>2 DEF Share
        <5> QED BY <3>1, <5>1 DEF Revealed
      <4> QED BY <4>1, <4>2
    <3>4. ASSUME NEW t \in 0 .. MaxThreshold, NEW n \in 1 .. MaxParties, NEW s \in Secrets,
                 NEW points \in [1 .. n -> 1 .. MaxPoint], ShareAtIndices(t, points, s)
          PROVE  Dealt!Next
      <4>1. PICK p \in SampleWithConstTerm(t, s) : Deal(t, points, p)
        BY <3>4 DEF ShareAtIndices
      <4>2. Undealt
        BY <3>2, <4>1 DEF Deal
      <4> QED BY <1>2, <4>1, <4>2, DealIsDeal
    <3>5. ASSUME NEW p, Reshare(p) PROVE secret' = secret /\ Revealed' = Revealed
      BY <3>5, RevealedStays DEF Reshare
    <3>6. ASSUME NEW i \in Parties, Follow(i) PROVE secret' = secret /\ Revealed' = Revealed
      BY <3>6, RevealedStays DEF Follow
    <3>7. ASSUME NEW i \in Parties, NEW value, Damage(i, value) PROVE secret' = secret /\ Revealed' = Revealed
      BY <3>7, RevealedStays DEF Damage
    <3>8. ASSUME NEW by \in Callers, NEW sel \in Selections, Reconstruct(by, sel)
          PROVE  Dealt!Next \/ (secret' = secret /\ Revealed' = Revealed)
      <4>1. secret' = secret /\ last'.by = by /\ last'.outcome = Outcome(by, sel)
        BY <3>8 DEF Reconstruct
      <4>2. CASE by # "checked"
        BY <3>1, <4>1, <4>2 DEF Revealed
      <4>3. CASE by = "checked"
        <5>1. Shared
          BY <3>8 DEF Reconstruct, SharingIInv, Undealt
        <5>2. last'.outcome \in {secret, Err, Panic} /\ Revealed' = IF last'.outcome = Panic THEN Err ELSE last'.outcome
          BY <1>2, <4>1, <4>3, <5>1, CheckedOutcome DEF Revealed
        <5>3. secret # Nothing
          BY <5>1, SharingAssumption DEF Shared, Generations, SharingAssumption
        <5>4. CASE Revealed' = secret
          <6>1. Dealt!Reveal
            BY <3>1, <4>1, <5>3, <5>4 DEF Dealt!Reveal, Revealed
          <6> QED BY <6>1 DEF Dealt!Next
        <5>5. CASE Revealed' = Err
          <6>1. Dealt!Refuse
            BY <3>1, <4>1, <5>5 DEF Dealt!Refuse, Revealed
          <6> QED BY <6>1 DEF Dealt!Next
        <5> QED BY <5>2, <5>4, <5>5
      <4> QED BY <4>2, <4>3
    <3> QED BY <2>2, <3>3, <3>4, <3>5, <3>6, <3>7, <3>8 DEF Next
  <2> QED BY <2>1, <2>2
<1>4. SharingIInv /\ [Next]_vars => [Dealt!Next]_<<secret, IF last.by # "checked" THEN Nothing
                            ELSE IF last.outcome = Panic THEN Err ELSE last.outcome>>
  BY <1>3 DEF Revealed
<1> QED BY <1>1, <1>4, SharingInvariant, PTL DEF Spec, ImplementsDealtSecret, Dealt!Spec

-----------------------------------------------------------------------------
(* Polynomials with given roots. *)

\* A polynomial times x, coefficient by coefficient.
Raised(s, p) == /\ Coefficient(s, 1) = 0
                /\ \A n \in Nat \ {0} : Coefficient(s, n + 1) = Coefficient(p, n)

LEMMA RaisedValue ==
  ASSUME NEW p \in Seq(Scalar), p # <<>>, NEW s \in Seq(Scalar), s # <<>>, Raised(s, p), Len(s) = Len(p) + 1,
         NEW x \in Scalar
  PROVE  Evaluate(s, x) = (Evaluate(p, x) * x) % Order
<1> DEFINE m == Len(p)
           P == PartialSums(Terms(p, x))
           S == PartialSums(Terms(s, x))
           ep == Evaluate(p, x)
           T == {n \in Nat : S[n + 1] = P[n] * x}
<1>1. m \in Nat /\ Len(s) = m + 1 /\ x \in Int
  BY ScalarsAreInts
<1>2. /\ Terms(p, x) \in [Nat -> Int] /\ Terms(s, x) \in [Nat -> Int]
      /\ \A n \in Nat : /\ Terms(p, x)[n + 1] = Coefficient(p, n + 1) * XPowers(x)[n]
                        /\ Terms(s, x)[n + 1] = Coefficient(s, n + 1) * XPowers(x)[n]
                        /\ Coefficient(p, n + 1) \in Int /\ Coefficient(s, n + 1) \in Int
  <2>1. ASSUME NEW q \in Seq(Scalar)
        PROVE  /\ Terms(q, x) \in [Nat -> Int]
               /\ \A n \in Nat : /\ Terms(q, x)[n + 1] = Coefficient(q, n + 1) * XPowers(x)[n]
                                 /\ Coefficient(q, n + 1) \in Int
    <3>1. \A n \in Nat : n + 1 \in Nat
      OBVIOUS
    <3> QED BY <1>1, <3>1, TermsFacts
  <2> QED BY <2>1
<1>3. /\ P \in [Nat -> Int] /\ P[0] = 0 /\ \A n \in Nat : P[n + 1] = P[n] + Terms(p, x)[n + 1]
      /\ S \in [Nat -> Int] /\ S[0] = 0 /\ \A n \in Nat : S[n + 1] = S[n] + Terms(s, x)[n + 1]
  BY <1>2, PartialSumsDef
<1>4. ASSUME NEW n \in Nat PROVE Terms(s, x)[n + 2] = Terms(p, x)[n + 1] * x
  <2> DEFINE mult == Coefficient(p, n + 1)
             w == XPowers(x)[n]
  <2>1. n + 1 \in Nat \ {0} /\ n + 2 = (n + 1) + 1 /\ n + 1 \in Nat
    OBVIOUS
  <2>2. w \in Int /\ XPowers(x)[n + 1] = w * x /\ mult \in Int
    BY <1>1, <1>2, XPowersDef
  <2>3. Coefficient(s, (n + 1) + 1) = mult
    BY <2>1 DEF Raised
  <2>4. Terms(s, x)[(n + 1) + 1] = mult * (w * x)
    BY <1>2, <2>1, <2>2, <2>3
  <2>5. Terms(p, x)[n + 1] = mult * w
    BY <1>2
  <2> HIDE DEF mult, w
  <2>6. mult * (w * x) = (mult * w) * x
    BY <1>1, <2>2
  <2> QED BY <2>1, <2>4, <2>5, <2>6
<1>5. S[1] = 0
  <2>1. Terms(s, x)[0 + 1] = Coefficient(s, 0 + 1) * XPowers(x)[0] /\ S[0 + 1] = S[0] + Terms(s, x)[0 + 1]
    BY <1>2, <1>3
  <2>2. XPowers(x)[0] \in Int
    BY <1>1, XPowersDef
  <2>3. Coefficient(s, 0 + 1) = 0
    BY DEF Raised
  <2>4. 0 * XPowers(x)[0] = 0 /\ 0 + 1 = 1 /\ 0 + 0 = 0
    BY <2>2
  <2>5. Terms(s, x)[0 + 1] = 0
    BY ONLY <2>1, <2>3, <2>4
  <2>6. S[0] = 0
    BY <1>3
  <2> HIDE DEF S
  <2>7. S[0 + 1] = 0
    BY ONLY <2>1, <2>4, <2>5, <2>6
  <2> QED BY ONLY <2>4, <2>7
<1> HIDE DEF P, S
<1>6. 0 \in T
  BY <1>1, <1>3, <1>5
<1>7. ASSUME NEW n \in T PROVE n + 1 \in T
  <2> DEFINE t == Terms(p, x)[n + 1]
             u == P[n]
  <2>1. n \in Nat /\ n + 1 \in Nat /\ S[n + 1] = u * x /\ (n + 1) + 1 = n + 2
    OBVIOUS
  <2>2. S[(n + 1) + 1] = S[n + 1] + Terms(s, x)[(n + 1) + 1]
    BY <1>3, <2>1
  <2>3. P[n + 1] = u + t /\ u \in Int /\ t \in Int
    BY <1>2, <1>3, <2>1
  <2>4. S[n + 2] = u * x + t * x
    BY <1>4, <2>1, <2>2
  <2> HIDE DEF t, u
  <2>5. u * x + t * x = (u + t) * x
    BY <1>1, <2>3
  <2> QED BY <2>1, <2>3, <2>4, <2>5
<1>8. T = Nat
  <2> HIDE DEF T
  <2>1. T \in SUBSET Nat
    BY DEF T
  <2> QED BY <1>6, <1>7, <2>1, NatSetInduction
<1>9. S[m + 1] = P[m] * x /\ P[m] \in Int
  BY <1>1, <1>3, <1>8
<1>10. ep \in Int /\ Same(Order, ep, P[m]) /\ Evaluate(s, x) \in Scalar /\ Same(Order, Evaluate(s, x), S[m + 1])
  BY <1>1, EvaluateSum, ScalarsAreInts DEF P, S
<1> HIDE DEF ep
<1>11. Same(Order, ep * x, P[m] * x)
  BY <1>1, <1>9, <1>10, OrderFacts, SameTimes
<1>12. Same(Order, Evaluate(s, x), ep * x)
  BY <1>9, <1>10, <1>11 DEF Same
<1> QED BY <1>10, <1>12, OrderFacts DEF Same, ep

\* A polynomial of m + 1 coefficients with the roots a[1] .. a[m], and not zero at zero.
Roots(z, a, m) ==
  /\ z \in Seq(Scalar) /\ Len(z) = m + 1 /\ z[1] # 0
  /\ \A i \in 1 .. m : Evaluate(z, a[i]) = 0

\* A polynomial of one coefficient more with one root more.
LEMMA OneRootMore ==
  ASSUME NEW a, NEW m \in Nat, NEW z, Roots(z, a, m), \A i \in 1 .. m + 1 : a[i] \in Scalar, a[m + 1] # 0
  PROVE  \E y : Roots(y, a, m + 1)
<1> DEFINE b == a[m + 1]
           mult == 0 - b
           o == 1
           s == [n \in 1 .. m + 2 |-> IF n = 1 THEN 0 ELSE z[n - 1]]
           y == [n \in 1 .. m + 2 |-> (Coefficient(s, n) * o + Coefficient(z, n) * mult) % Order]
<1>1. /\ z \in Seq(Scalar) /\ z # <<>> /\ Len(z) = m + 1 /\ DOMAIN z = 1 .. m + 1
      /\ z[1] \in Scalar /\ z[1] # 0 /\ b \in Scalar /\ b \in Int /\ mult \in Int /\ o \in Int
  <2>1. z \in Seq(Scalar) /\ Len(z) = m + 1 /\ z[1] # 0
    BY DEF Roots
  <2>2. b \in Scalar
    OBVIOUS
  <2>3. b \in Int
    BY <2>2, ScalarsAreInts
  <2> HIDE DEF b
  <2> QED BY <2>1, <2>2, <2>3
<1>2. s \in Seq(Scalar) /\ Len(s) = m + 2 /\ s # <<>> /\ DOMAIN s = 1 .. m + 2
  <2>1. 0 \in Scalar
    BY OrderFacts DEF Scalar
  <2>2. \A n \in 1 .. m + 2 : n # 1 => z[n - 1] \in Scalar
    BY <1>1
  <2>3. s \in [1 .. m + 2 -> Scalar] /\ m + 2 \in Nat /\ 1 \in 1 .. m + 2
    BY <2>1, <2>2
  <2> HIDE DEF s
  <2> QED BY <2>3
<1>3. Raised(s, z)
  <2>1. Coefficient(s, 1) = 0
    BY <1>2 DEF Coefficient
  <2>2. ASSUME NEW n \in Nat \ {0} PROVE Coefficient(s, n + 1) = Coefficient(z, n)
    <3>1. CASE n \in 1 .. m + 1
      <4>1. n + 1 \in 1 .. m + 2 /\ n + 1 # 1 /\ (n + 1) - 1 = n
        BY <3>1
      <4>2. s[n + 1] = z[n]
        BY <4>1
      <4> HIDE DEF s
      <4> QED BY <1>1, <1>2, <3>1, <4>1, <4>2 DEF Coefficient
    <3>2. CASE n \notin 1 .. m + 1
      <4>1. n + 1 \notin 1 .. m + 2
        BY <3>2
      <4> HIDE DEF s
      <4> QED BY <1>1, <1>2, <3>2, <4>1 DEF Coefficient
    <3> QED BY <3>1, <3>2
  <2> HIDE DEF s
  <2> QED BY <2>1, <2>2 DEF Raised
<1>4. s[1] = 0
  OBVIOUS
<1> HIDE DEF s, b, mult, o
<1>5. \A n \in Nat : /\ Coefficient(s, n) \in Int /\ Coefficient(z, n) \in Int
                     /\ Coefficient(s, n) * o + Coefficient(z, n) * mult \in Int
  <2>1. \A n \in Nat : Coefficient(s, n) \in Int /\ Coefficient(z, n) \in Int
    BY <1>1, <1>2, TermsFacts
  <2>2. ASSUME NEW u \in Int, NEW v \in Int PROVE u * o + v * mult \in Int
    BY <1>1
  <2> QED BY <2>1, <2>2
<1>6. y \in Seq(Scalar) /\ Len(y) = m + 2 /\ y # <<>> /\ DOMAIN y = 1 .. m + 2
  <2>1. \A n \in 1 .. m + 2 : y[n] \in Scalar
    BY <1>5, OrderFacts
  <2>2. y \in [1 .. m + 2 -> Scalar] /\ m + 2 \in Nat /\ 1 \in 1 .. m + 2
    BY <2>1
  <2> HIDE DEF y
  <2> QED BY <2>2
<1>7. CombinedTerms(y, o, s, mult, z)
  <2> SUFFICES ASSUME NEW n \in Nat PROVE Same(Order, Coefficient(y, n), Coefficient(s, n) * o + Coefficient(z, n) * mult)
    <3> HIDE DEF y
    <3> QED BY DEF CombinedTerms, Combined
  <2> DEFINE u == Coefficient(s, n)
             v == Coefficient(z, n)
             w == u * o + v * mult
  <2>1. w \in Int
    BY <1>5
  <2>3. CASE n \in 1 .. m + 2
    <3>1. Coefficient(y, n) = w % Order
      BY <1>6, <2>3 DEF Coefficient
    <3> HIDE DEF w, u, v
    <3>2. Same(Order, w % Order, w)
      BY <2>1, OrderFacts, SameRefl
    <3> QED BY <3>1, <3>2 DEF w, u, v
  <2>4. CASE n \notin 1 .. m + 2
    <3>1. n \notin 1 .. m + 1
      BY <2>4
    <3>2. Coefficient(y, n) = 0 /\ u = 0 /\ v = 0
      BY <1>1, <1>2, <1>6, <2>4, <3>1 DEF Coefficient
    <3>3. 0 * o + 0 * mult = 0
      BY <1>1
    <3>4. w = 0
      BY <3>2, <3>3
    <3> QED BY <3>2, <3>4 DEF Same
  <2> QED BY <2>3, <2>4
<1>8. ASSUME NEW x \in Scalar
      PROVE  /\ Evaluate(y, x) = (((Evaluate(z, x) * x) % Order) * o + Evaluate(z, x) * mult) % Order
             /\ Evaluate(z, x) \in Scalar
  <2> HIDE DEF y
  <2>1. Evaluate(y, x) = (Evaluate(s, x) * o + Evaluate(z, x) * mult) % Order
    BY <1>1, <1>2, <1>6, <1>7, EvaluateCombined
  <2>2. Evaluate(s, x) = (Evaluate(z, x) * x) % Order
    BY <1>1, <1>2, <1>3, RaisedValue
  <2>3. Evaluate(z, x) \in Scalar
    BY <1>1, EvaluateSum
  <2> QED BY <2>1, <2>2, <2>3
<1>9. ASSUME NEW i \in 1 .. m + 1 PROVE Evaluate(y, a[i]) = 0
  <2> DEFINE x == a[i]
             e == Evaluate(z, x)
             r == (e * x) % Order
  <2>1. x \in Scalar /\ x \in Int
    BY ScalarsAreInts
  <2>2. Evaluate(y, x) = (r * o + e * mult) % Order /\ e \in Scalar
    BY <1>8, <2>1
  <2>3. CASE i # m + 1
    <3>1. i \in 1 .. m
      BY <2>3
    <3>2. e = 0
      BY <3>1 DEF Roots
    <3>3. 0 * x = 0 /\ 0 % Order = 0
      BY <2>1, OrderFacts, ModSmall
    <3>4. r = 0
      BY <3>2, <3>3
    <3>5. 0 * o + 0 * mult = 0
      BY <1>1
    <3> QED BY <2>2, <3>2, <3>3, <3>4, <3>5
  <2>4. CASE i = m + 1
    <3>1. x = b /\ e \in Int
      BY <2>2, <2>4, ScalarsAreInts DEF b
    <3> HIDE DEF e
    <3> DEFINE q == e * x
    <3>2. q \in Int /\ e * mult = 0 - q
      BY <2>1, <3>1 DEF mult
    <3> HIDE DEF q
    <3>3. r = q % Order /\ r \in Int
      BY <3>2, OrderFacts, ScalarsAreInts DEF q
    <3>4. r * o + e * mult = r + (0 - q)
      BY <3>2, <3>3 DEF o
    <3> DEFINE k == 0 - q
    <3>5. k \in Int /\ q + k = 0
      BY <3>2
    <3>6. Evaluate(y, x) = (r + k) % Order
      BY <2>2, <3>4
    <3> HIDE DEF k, r
    <3>7. (q + k) % Order = ((q % Order) + k) % Order
      BY <3>2, <3>5, OrderFacts, ModPlus
    <3>8. 0 % Order = 0
      BY OrderFacts, ModSmall
    <3> QED BY <3>3, <3>5, <3>6, <3>7, <3>8
  <2> QED BY <2>3, <2>4
<1>10. y[1] # 0
  <2> DEFINE h == z[1]
             d == h * mult
  <2>1. Coefficient(s, 1) = 0 /\ Coefficient(z, 1) = h /\ 1 \in 1 .. m + 2
    BY <1>1, <1>3 DEF Coefficient, Raised
  <2>2. 0 * o = 0
    BY <1>1
  <2>0. h \in Int /\ h \in Scalar /\ h # 0
    <3>1. h \in Scalar /\ h # 0
      BY <1>1
    <3> HIDE DEF h
    <3> QED BY <3>1, ScalarsAreInts
  <2>3. h \in Int /\ d \in Int /\ 0 + d = d
    <3> HIDE DEF h
    <3> QED BY <1>1, <2>0
  <2>4. y[1] = (0 + h * mult) % Order
    BY <2>1, <2>2
  <2> HIDE DEF d, h, y
  <2>5. y[1] = d % Order
    BY <2>3, <2>4 DEF d
  <2>6. h \in 1 .. Order - 1 /\ b \in 1 .. Order - 1
    <3>1. b # 0
      BY DEF b
    <3> QED BY <1>1, <2>0, <3>1, OrderFacts DEF Scalar
  <2>7. ~ Same(Order, mult, 0)
    <3> DEFINE e == Order - b
    <3>1. e \in 0 .. Order - 1 /\ e # 0 /\ o \in Int /\ mult + o * Order = e
      BY <2>6, OrderFacts DEF mult, o
    <3> HIDE DEF e
    <3>2. (mult + o * Order) % Order = mult % Order
      BY <1>1, OrderFacts, ModShift
    <3>3. e % Order = e
      BY <3>1, OrderFacts, ModSmall
    <3>4. 0 % Order = 0
      BY OrderFacts, ModSmall
    <3> QED BY <3>1, <3>2, <3>3, <3>4 DEF Same
  <2>8. ~ Same(Order, mult * h, 0)
    BY <1>1, <2>6, <2>7, OrderFacts, PrimeNonzero
  <2>9. mult * h = d
    BY <1>1, <2>3 DEF d
  <2>10. 0 % Order = 0
    BY OrderFacts, ModSmall
  <2> QED BY <2>5, <2>8, <2>9, <2>10 DEF Same
<1> HIDE DEF y
<1>11. Len(y) = (m + 1) + 1
  BY <1>6
<1> QED BY <1>6, <1>9, <1>10, <1>11 DEF Roots

\* A polynomial with the roots a[1] .. a[m], and not zero at zero.
LEMMA RootsMade ==
  ASSUME NEW m \in Nat, NEW a \in [1 .. m -> Scalar \ {0}]
  PROVE  \E z : Roots(z, a, m)
<1> DEFINE T == {n \in Nat : n <= m => \E z : Roots(z, a, n)}
<1>1. 0 \in T
  <2>1. <<1>> \in Seq(Scalar) /\ Len(<<1>>) = 0 + 1 /\ <<1>>[1] # 0
    BY OrderFacts DEF Scalar
  <2>2. Roots(<<1>>, a, 0)
    BY <2>1 DEF Roots
  <2> QED BY <2>2
<1>2. ASSUME NEW n \in T PROVE n + 1 \in T
  <2> SUFFICES ASSUME n + 1 <= m PROVE \E z : Roots(z, a, n + 1)
    OBVIOUS
  <2>1. n \in Nat /\ n <= m
    OBVIOUS
  <2>2. PICK z : Roots(z, a, n)
    BY <2>1
  <2>3. (\A i \in 1 .. n + 1 : a[i] \in Scalar) /\ a[n + 1] # 0
    <3>1. \A i \in 1 .. n + 1 : i \in 1 .. m
      BY <2>1
    <3>2. \A i \in 1 .. m : a[i] \in Scalar /\ a[i] # 0
      OBVIOUS
    <3>3. n + 1 \in 1 .. n + 1
      BY <2>1
    <3> QED BY <3>1, <3>2, <3>3
  <2> HIDE DEF T
  <2> QED BY <2>1, <2>2, <2>3, OneRootMore
<1>3. T = Nat
  <2> HIDE DEF T
  <2>1. T \in SUBSET Nat
    BY DEF T
  <2> QED BY <1>1, <1>2, <2>1, NatSetInduction
<1> QED BY <1>3

-----------------------------------------------------------------------------
(* What the first shares of a dealing leave open. *)

\* p, moved along a polynomial z.
Moved(p, z, t, d) == [k \in 1 .. t + 1 |-> (Coefficient(p, k) * 1 + Coefficient(z, k) * d) % Order]

\* z is a polynomial with the roots a[1] .. a[m], and p one sampled with t.
Movable(p, z, a, m, t) ==
  /\ t \in Nat /\ m \in 0 .. t /\ p \in [1 .. t + 1 -> Scalar] /\ \A k \in 2 .. t + 1 : p[k] # 0
  /\ a \in [1 .. m -> Scalar \ {0}] /\ Roots(z, a, m)

\* Moving it keeps its values at the roots.
LEMMA MovedKeeps ==
  ASSUME NEW p, NEW z, NEW a, NEW m, NEW t, Movable(p, z, a, m, t), NEW d \in Scalar
  PROVE  /\ Moved(p, z, t, d) \in [1 .. t + 1 -> Scalar]
         /\ \A i \in 1 .. m : Evaluate(Moved(p, z, t, d), a[i]) = Evaluate(p, a[i])
<1> DEFINE o == 1
           y == Moved(p, z, t, d)
<1>1. /\ t \in Nat /\ m \in Nat /\ m <= t /\ p \in [1 .. t + 1 -> Scalar] /\ z \in Seq(Scalar) /\ Len(z) = m + 1
      /\ DOMAIN z = 1 .. m + 1 /\ z # <<>> /\ d \in Int /\ o \in Int
  <2>1. t \in Nat /\ m \in 0 .. t /\ p \in [1 .. t + 1 -> Scalar] /\ z \in Seq(Scalar) /\ Len(z) = m + 1
    BY DEF Movable, Roots
  <2>2. d \in Int
    BY ScalarsAreInts
  <2> QED BY <2>1, <2>2
<1>2. p \in Seq(Scalar) /\ DOMAIN p = 1 .. t + 1 /\ p # <<>>
  <2>1. t + 1 \in Nat /\ 1 \in 1 .. t + 1
    BY <1>1
  <2> QED BY <1>1, <2>1
<1> HIDE DEF o
<1>3. \A n \in Nat : /\ Coefficient(p, n) \in Int /\ Coefficient(z, n) \in Int
                     /\ Coefficient(p, n) * o + Coefficient(z, n) * d \in Int
  <2>1. \A n \in Nat : Coefficient(p, n) \in Int /\ Coefficient(z, n) \in Int
    BY <1>1, <1>2, TermsFacts
  <2>2. ASSUME NEW u \in Int, NEW v \in Int PROVE u * o + v * d \in Int
    BY <1>1
  <2> QED BY <2>1, <2>2
<1>4. y = [k \in 1 .. t + 1 |-> (Coefficient(p, k) * o + Coefficient(z, k) * d) % Order]
  BY DEF Moved, o
<1>5. y \in [1 .. t + 1 -> Scalar]
  <2>1. \A k \in 1 .. t + 1 : k \in Nat
    BY <1>1
  <2>2. \A k \in 1 .. t + 1 : (Coefficient(p, k) * o + Coefficient(z, k) * d) % Order \in Scalar
    BY <1>3, <2>1, OrderFacts
  <2> HIDE DEF y
  <2> QED BY <1>4, <2>2
<1> HIDE DEF y
<1>6. y \in Seq(Scalar) /\ DOMAIN y = 1 .. t + 1 /\ y # <<>>
  <2>1. t + 1 \in Nat /\ 1 \in 1 .. t + 1
    BY <1>1
  <2> QED BY <1>5, <2>1
<1>7. CombinedTerms(y, o, p, d, z)
  <2> SUFFICES ASSUME NEW n \in Nat PROVE Same(Order, Coefficient(y, n), Coefficient(p, n) * o + Coefficient(z, n) * d)
    BY DEF CombinedTerms, Combined
  <2> DEFINE u == Coefficient(p, n)
             v == Coefficient(z, n)
             w == u * o + v * d
  <2>1. w \in Int
    BY <1>3
  <2>2. CASE n \in 1 .. t + 1
    <3>1. Coefficient(y, n) = w % Order
      BY <1>4, <1>6, <2>2 DEF Coefficient
    <3> HIDE DEF w, u, v
    <3>2. Same(Order, w % Order, w)
      BY <2>1, OrderFacts, SameRefl
    <3> QED BY <3>1, <3>2 DEF w, u, v
  <2>3. CASE n \notin 1 .. t + 1
    <3>1. n \notin 1 .. m + 1
      BY <1>1, <2>3
    <3>2. Coefficient(y, n) = 0 /\ u = 0 /\ v = 0
      BY <1>1, <1>2, <1>6, <2>3, <3>1 DEF Coefficient
    <3>3. 0 * o + 0 * d = 0
      BY <1>1
    <3>4. w = 0
      BY <3>2, <3>3
    <3> QED BY <3>2, <3>4 DEF Same
  <2> QED BY <2>2, <2>3
<1>8. ASSUME NEW i \in 1 .. m PROVE Evaluate(y, a[i]) = Evaluate(p, a[i])
  <2> DEFINE x == a[i]
             e == Evaluate(p, x)
  <2>1. x \in Scalar /\ Evaluate(z, x) = 0
    BY DEF Movable, Roots
  <2> HIDE DEF x
  <2>2. e \in Scalar
    BY <1>2, <2>1, EvaluateSum
  <2>3. Evaluate(y, x) = (e * o + 0 * d) % Order
    BY <1>1, <1>2, <1>6, <1>7, <2>1, EvaluateCombined
  <2> HIDE DEF e
  <2>4. e \in Int
    BY <2>2, ScalarsAreInts
  <2>5. e * o + 0 * d = e
    BY <1>1, <2>4 DEF o
  <2>6. e % Order = e
    BY <2>2, OrderFacts
  <2> QED BY <2>3, <2>5, <2>6 DEF x, e
<1> QED BY <1>5, <1>8 DEF y

\* What moves by a multiple that is not zero, moves to different places.
LEMMA MovesApart ==
  ASSUME NEW u \in Int, NEW mult \in Scalar, mult # 0, NEW d \in Scalar, NEW e \in Scalar,
         (u * 1 + mult * d) % Order = (u * 1 + mult * e) % Order
  PROVE  d = e
<1> DEFINE n == 0 - u
           f == mult * d
           g == mult * e
           k == u + f
           l == u + g
<1>1. mult \in Int /\ d \in Int /\ e \in Int
  BY ScalarsAreInts
<1>2. f \in Int /\ g \in Int
  BY <1>1
<1>3. u * 1 + mult * d = u + f /\ u * 1 + mult * e = u + g
  <2> DEFINE o == 1
  <2>1. u * o = u
    OBVIOUS
  <2> QED BY <2>1
<1> HIDE DEF f, g
<1>4. k \in Int /\ l \in Int /\ n \in Int /\ k + n = f /\ l + n = g
  BY <1>2
<1> HIDE DEF n
<1>5. Same(Order, k, l) /\ Same(Order, n, n)
  BY <1>3 DEF Same
<1> HIDE DEF k, l
<1>6. Same(Order, f, g)
  BY <1>4, <1>5, OrderFacts, SamePlus
<1>7. f = d * mult /\ g = e * mult
  BY <1>1 DEF f, g
<1>8. mult \in 1 .. Order - 1
  BY OrderFacts DEF Scalar
<1>9. Same(Order, d, e)
  BY <1>1, <1>6, <1>7, <1>8, OrderFacts, PrimeCancel
<1> QED BY <1>9, OrderFacts DEF Same

\* The secrets of the polynomials that agree with p at a[1] .. a[m].
SecretsLeft(p, a, m, t) ==
  {s \in Scalar : \E q \in SampleWithConstTerm(t, s) : \A i \in 1 .. m : Evaluate(q, a[i]) = Evaluate(p, a[i])}

\* All secrets but t of them, at most.
LEMMA MostAreLeft ==
  ASSUME NEW p, NEW z, NEW a, NEW m, NEW t, Movable(p, z, a, m, t)
  PROVE  Cardinality(SecretsLeft(p, a, m, t)) >= Order - t
<1> DEFINE M(d) == Moved(p, z, t, d)
           C(k) == Coefficient(z, k)
           Bad == {d \in Scalar : \E k \in 2 .. t + 1 : M(d)[k] = 0}
           Good == Scalar \ Bad
           where == [d \in Bad |-> CHOOSE k \in 2 .. t + 1 : M(d)[k] = 0]
           const == [d \in Good |-> M(d)[1]]
           Left == SecretsLeft(p, a, m, t)
<1>1. /\ t \in Nat /\ p \in [1 .. t + 1 -> Scalar] /\ \A k \in 2 .. t + 1 : p[k] # 0
      /\ z \in Seq(Scalar) /\ z[1] # 0 /\ m \in Nat /\ Len(z) = m + 1 /\ 1 \in DOMAIN z /\ 1 \in 1 .. t + 1
  BY DEF Movable, Roots
<1>2. \A d \in Scalar : /\ M(d) \in [1 .. t + 1 -> Scalar]
                        /\ \A i \in 1 .. m : Evaluate(M(d), a[i]) = Evaluate(p, a[i])
  BY MovedKeeps
<1>3. ASSUME NEW k \in 1 .. t + 1, NEW d \in Scalar
      PROVE  /\ M(d)[k] = (p[k] * 1 + C(k) * d) % Order
             /\ p[k] \in Scalar /\ p[k] \in Int /\ C(k) \in Scalar /\ C(k) \in Int
  <2>1. k \in Nat /\ p[k] \in Scalar
    BY <1>1
  <2>2. p \in Seq(Scalar) /\ DOMAIN p = 1 .. t + 1
    BY <1>1
  <2>3. Coefficient(p, k) = p[k]
    BY <2>2 DEF Coefficient
  <2>4. M(d)[k] = (Coefficient(p, k) * 1 + C(k) * d) % Order
    BY DEF Moved
  <2>5. C(k) \in Scalar /\ C(k) \in Int
    BY <1>1, <2>1, TermsFacts, 1 \in Int
  <2> HIDE DEF M, C
  <2> QED BY <2>1, <2>3, <2>4, <2>5, ScalarsAreInts
<1> HIDE DEF M, C
<1>4. ASSUME NEW k \in 1 .. t + 1, NEW d \in Scalar, NEW e \in Scalar, C(k) # 0, M(d)[k] = M(e)[k]
      PROVE  d = e
  <2> DEFINE u == p[k]
             mult == C(k)
  <2>1. u \in Int /\ mult \in Scalar /\ mult # 0
    BY <1>3, <1>4
  <2>2. M(d)[k] = (u * 1 + mult * d) % Order /\ M(e)[k] = (u * 1 + mult * e) % Order
    BY <1>3
  <2> HIDE DEF u, mult
  <2>3. (u * 1 + mult * d) % Order = (u * 1 + mult * e) % Order
    BY <1>4, <2>2
  <2> QED BY <2>1, <2>3, MovesApart
<1>5. ASSUME NEW k \in 2 .. t + 1, NEW d \in Scalar, M(d)[k] = 0 PROVE C(k) # 0
  <2> SUFFICES ASSUME C(k) = 0 PROVE FALSE
    OBVIOUS
  <2> DEFINE u == p[k]
  <2>1. k \in 1 .. t + 1 /\ d \in Int /\ u # 0
    BY <1>1, ScalarsAreInts
  <2>2. M(d)[k] = (u * 1 + 0 * d) % Order /\ u \in Int /\ u \in Scalar
    BY <1>3, <2>1
  <2> HIDE DEF u
  <2>3. u * 1 + 0 * d = u
    <3>1. u * 1 = u /\ 0 * d = 0
      BY <2>1, <2>2
    <3> QED BY <2>2, <3>1
  <2>4. u % Order = u
    BY <2>2, OrderFacts
  <2> QED BY <1>5, <2>1, <2>2, <2>3, <2>4
\* Those whose move makes a coefficient zero.
<1>6. IsFiniteSet(Bad) /\ Cardinality(Bad) \in Nat /\ Cardinality(Bad) <= t
  <2>1. ASSUME NEW d \in Bad PROVE where[d] \in 2 .. t + 1 /\ M(d)[where[d]] = 0
    OBVIOUS
  <2>2. where \in [Bad -> 2 .. t + 1]
    <3> HIDE DEF Bad
    <3> QED BY <2>1
  <2>3. \A d \in Bad : d \in Scalar
    OBVIOUS
  <2> HIDE DEF where, Bad
  <2>4. ASSUME NEW d \in Bad, NEW e \in Bad, where[d] = where[e] PROVE d = e
    <3>1. PICK k \in 2 .. t + 1 : k = where[d]
      BY <2>1
    <3>2. M(d)[k] = 0 /\ M(e)[k] = 0 /\ d \in Scalar /\ e \in Scalar
      BY <2>1, <2>3, <2>4, <3>1
    <3>3. C(k) # 0
      BY <1>5, <3>2
    <3>4. k \in 1 .. t + 1
      BY <1>1
    <3> QED BY <1>4, <3>2, <3>3, <3>4
  <2>5. where \in Injection(Bad, 2 .. t + 1)
    BY <2>2, <2>4 DEF Injection, IsInjective
  <2>6. IsFiniteSet(2 .. t + 1) /\ Cardinality(2 .. t + 1) = t
    <3>1. 2 \in Int /\ t + 1 \in Int
      BY <1>1
    <3>2. IsFiniteSet(2 .. t + 1) /\ Cardinality(2 .. t + 1) = IF 2 > t + 1 THEN 0 ELSE (t + 1) - 2 + 1
      BY <3>1, FS_Interval
    <3> QED BY <1>1, <3>2
  <2>7. IsFiniteSet(Bad) /\ Cardinality(Bad) <= Cardinality(2 .. t + 1)
    BY <2>5, <2>6, FS_Injection
  <2>8. Cardinality(Bad) \in Nat
    BY <2>7, FS_CardinalityType
  <2> QED BY <2>6, <2>7, <2>8
<1>7. IsFiniteSet(Scalar) /\ Cardinality(Scalar) = Order
  <2>1. 0 \in Int /\ Order - 1 \in Int /\ ~(0 > Order - 1) /\ (Order - 1) - 0 + 1 = Order
    BY OrderFacts
  <2>2. IsFiniteSet(0 .. Order - 1) /\ Cardinality(0 .. Order - 1) = IF 0 > Order - 1 THEN 0 ELSE (Order - 1) - 0 + 1
    BY <2>1, FS_Interval
  <2> QED BY <2>1, <2>2 DEF Scalar
<1>8. Bad \subseteq Scalar
  OBVIOUS
\* The rest lead to different secrets.
<1>9. ASSUME NEW d \in Good PROVE const[d] \in Left
  <2>1. d \in Scalar /\ \A k \in 2 .. t + 1 : M(d)[k] # 0
    OBVIOUS
  <2>2. M(d) \in SampleWithConstTerm(t, M(d)[1]) /\ M(d)[1] \in Scalar
    BY <1>1, <1>2, <2>1 DEF SampleWithConstTerm
  <2>3. \A i \in 1 .. m : Evaluate(M(d), a[i]) = Evaluate(p, a[i])
    BY <1>2, <2>1
  <2> QED BY <2>2, <2>3 DEF SecretsLeft
<1>10. ASSUME NEW d \in Good, NEW e \in Good, const[d] = const[e] PROVE d = e
  <2>1. d \in Scalar /\ e \in Scalar /\ M(d)[1] = M(e)[1]
    BY <1>10
  <2>2. C(1) = z[1]
    BY <1>1 DEF Coefficient, C
  <2> QED BY <1>1, <1>4, <2>1, <2>2
<1>11. const \in [Good -> Left]
  <2> HIDE DEF Good, Left
  <2> QED BY <1>9
<1> HIDE DEF Bad, const, Left
<1>12. const \in Injection(Good, Left)
  <2> HIDE DEF Good
  <2> QED BY <1>10, <1>11 DEF Injection, IsInjective
<1>13. IsFiniteSet(Left) /\ Cardinality(Left) \in Nat
  <2>1. Left \subseteq Scalar
    BY DEF Left, SecretsLeft
  <2>2. IsFiniteSet(Left)
    BY <1>7, <2>1, FS_Subset
  <2> QED BY <2>2, FS_CardinalityType
<1>14. Cardinality(Good) <= Cardinality(Left)
  <2> HIDE DEF Good
  <2> QED BY <1>12, <1>13, FS_Injection
<1>15. Cardinality(Good) = Order - Cardinality(Bad)
  <2>1. Scalar \cap Bad = Bad
    BY <1>8
  <2>2. Cardinality(Scalar \ Bad) = Cardinality(Scalar) - Cardinality(Scalar \cap Bad)
    BY <1>7, FS_Difference
  <2> QED BY <1>7, <2>1, <2>2
<1> DEFINE g == Cardinality(Good)
           b == Cardinality(Bad)
           l == Cardinality(Left)
<1>16. g <= l /\ g = Order - b /\ b <= t /\ b \in Nat /\ l \in Nat
  BY <1>6, <1>13, <1>14, <1>15
<1> HIDE DEF g, b, l
<1>17. l >= Order - t
  BY <1>1, <1>16, OrderFacts
<1> QED BY <1>17 DEF l, Left

-----------------------------------------------------------------------------
(* As long as there was no reshare, what is committed to is what was sampled. *)

Sampled == Current = 1 => vss[1].commitments \in SampleWithConstTerm(vss[1].threshold, secret)

LEMMA SampledDeal ==
  ASSUME NEW t \in Nat, NEW n, NEW s, NEW p \in SampleWithConstTerm(t, s), NEW points, Deal(t, points, p)
  PROVE  Sampled'
<1>1. p[1] = s
  BY SampleFacts
<1>2. vss' = <<Vss(t, Len(points), p)>> /\ secret' = p[1]
  BY DEF Deal
<1>3. vss'[1].commitments = p /\ vss'[1].threshold = t
  BY <1>2 DEF Vss
<1> QED BY <1>1, <1>2, <1>3 DEF Sampled

LEMMA SampledStays == ASSUME Sampled, UNCHANGED <<vss, secret>> PROVE Sampled'
  BY DEF Sampled, Current

LEMMA SampledStep ==
  ASSUME SharingAssumption, SharingIInv, Sampled, [Next]_vars
  PROVE  Sampled'
<1>0. MaxThreshold \in Nat
  BY DEF SharingAssumption
<1>1. CASE UNCHANGED vars
  BY <1>1, SampledStays DEF vars
<1>2. ASSUME NEW t \in 0 .. MaxThreshold, NEW n \in 1 .. MaxParties, NEW s \in Secrets, Share(t, n, s)
      PROVE  Sampled'
  <2>1. t \in Nat
    BY <1>0
  <2>2. CASE t < n
    <3>1. PICK p \in SampleWithConstTerm(t, s) : Deal(t, [i \in 1 .. n |-> i], p)
      BY <1>2, <2>2 DEF Share
    <3> QED BY <2>1, <3>1, SampledDeal
  <2>3. CASE ~(t < n)
    BY <1>2, <2>3, SampledStays DEF Share
  <2> QED BY <2>2, <2>3
<1>3. ASSUME NEW t \in 0 .. MaxThreshold, NEW n \in 1 .. MaxParties, NEW s \in Secrets,
             NEW points \in [1 .. n -> 1 .. MaxPoint], ShareAtIndices(t, points, s)
      PROVE  Sampled'
  <2>1. t \in Nat
    BY <1>0
  <2>2. PICK p \in SampleWithConstTerm(t, s) : Deal(t, points, p)
    BY <1>3 DEF ShareAtIndices
  <2> QED BY <2>1, <2>2, SampledDeal
<1>4. ASSUME NEW p \in SampleWithConstTerm(vss[Len(vss)].threshold, 1), Reshare(p)
      PROVE  Sampled'
  <2>1. vss # <<>> /\ vss' = Append(vss, CommitmentsAdded(vss[Len(vss)], p))
    BY <1>4 DEF Reshare
  <2>2. vss \in Seq(VssSet)
    BY <2>1 DEF SharingIInv, Undealt, Shared, Generations
  <2>3. Len(vss) \in Nat /\ Len(vss) # 0 /\ Len(vss') = Len(vss) + 1
    BY <2>1, <2>2
  <2>4. Len(vss') # 1
    BY <2>3
  <2>5. Current' # 1
    BY <2>4 DEF Current
  <2> QED BY <2>5 DEF Sampled
<1>5. ASSUME NEW i \in Parties, Follow(i) PROVE Sampled'
  BY <1>5, SampledStays DEF Follow
<1>6. ASSUME NEW i \in Parties, NEW value \in Damages, Damage(i, value) PROVE Sampled'
  BY <1>6, SampledStays DEF Damage
<1>7. ASSUME NEW by \in Callers, NEW sel \in Selections, Reconstruct(by, sel) PROVE Sampled'
  BY <1>7, SampledStays DEF Reconstruct
<1> QED BY <1>1, <1>2, <1>3, <1>4, <1>5, <1>6, <1>7 DEF Next

\* What any few parties hold leaves most secrets open.
LEMMA FewHide ==
  ASSUME SharingAssumption, SharingIInv, Sampled
  PROVE  ThresholdHides
<1> SUFFICES ASSUME Len(vss) = 1, \A i \in Parties : gen[i] = 1, NEW held \in SUBSET Parties,
                    Cardinality(held) <= vss[1].threshold
             PROVE  Cardinality(CompatibleSecrets(held)) >= Order - vss[1].threshold
  BY DEF ThresholdHides
<1> DEFINE t == vss[1].threshold
           p == vss[1].commitments
           m == Cardinality(held)
<1>1. Shared
  BY DEF SharingIInv, Undealt
<1>2. t \in Nat
  <2>1. vss[1] \in VssSet
    BY <1>1 DEF Shared, Generations
  <2> QED BY <2>1 DEF VssSet, SharingAssumption
<1>3. p \in [1 .. t + 1 -> Scalar] /\ \A k \in 2 .. t + 1 : p[k] # 0
  BY DEF Sampled, Current, SampleWithConstTerm
<1>4. \A i \in Parties : share[i] = Evaluate(p, xs[i]) /\ xs[i] \in Scalar \ {0}
  <2>1. \A i \in Parties : share[i] = ShareOf(1, xs[i])
    BY <1>1 DEF Shared, SharesHeld
  <2>2. \A i \in Parties : xs[i] \in 1 .. MaxPoint
    BY <1>1 DEF Shared, Holders, Parties
  <2>3. \A x \in 1 .. MaxPoint : x \in Scalar
    BY PointFacts
  <2>4. \A x \in 1 .. MaxPoint : x # 0
    OBVIOUS
  <2> QED BY <2>1, <2>2, <2>3, <2>4 DEF ShareOf
<1>5. IsFiniteSet(held)
  <2>1. xs \in Seq(1 .. MaxPoint)
    BY <1>1 DEF Shared, Holders
  <2>2. Parties = 1 .. Len(xs) /\ Len(xs) \in Int /\ 1 \in Int
    BY <2>1 DEF Parties
  <2>3. IsFiniteSet(Parties)
    BY <2>2, FS_Interval
  <2> QED BY <2>3, FS_Subset
<1>6. m \in Nat /\ ExistsBijection(1 .. m, held)
  BY <1>5, FS_CardinalityType
<1>7. m \in 0 .. t
  BY <1>2, <1>6
<1> HIDE DEF m, t, p
<1>8. PICK f \in Bijection(1 .. m, held) : TRUE
  BY <1>6 DEF ExistsBijection
<1>9. f \in [1 .. m -> held] /\ \A i \in held : \E j \in 1 .. m : f[j] = i
  BY <1>8 DEF Bijection, Injection, Surjection
<1> DEFINE a == [j \in 1 .. m |-> xs[f[j]]]
<1>10. a \in [1 .. m -> Scalar \ {0}]
  <2>1. \A j \in 1 .. m : f[j] \in Parties
    BY <1>9
  <2> QED BY <1>4, <2>1
<1>11. PICK z : Roots(z, a, m)
  <2> HIDE DEF a
  <2> QED BY <1>6, <1>10, RootsMade
<1>12. Movable(p, z, a, m, t)
  <2> HIDE DEF a
  <2> QED BY <1>2, <1>3, <1>7, <1>10, <1>11 DEF Movable
<1>13. Cardinality(SecretsLeft(p, a, m, t)) >= Order - t
  <2> HIDE DEF a
  <2> QED BY <1>12, MostAreLeft
<1>14. SecretsLeft(p, a, m, t) \subseteq CompatibleSecrets(held)
  <2> SUFFICES ASSUME NEW s \in SecretsLeft(p, a, m, t) PROVE s \in CompatibleSecrets(held)
    OBVIOUS
  <2>1. s \in Scalar
    BY DEF SecretsLeft
  <2>2. PICK q \in SampleWithConstTerm(t, s) : \A j \in 1 .. m : Evaluate(q, a[j]) = Evaluate(p, a[j])
    BY DEF SecretsLeft
  <2>3. ASSUME NEW i \in held PROVE Evaluate(q, xs[i]) = share[i]
    <3>1. PICK j \in 1 .. m : f[j] = i
      BY <1>9
    <3>2. a[j] = xs[i] /\ i \in Parties
      BY <3>1
    <3> HIDE DEF a
    <3> QED BY <1>4, <2>2, <3>2
  <2> HIDE DEF a
  <2> QED BY <2>1, <2>2, <2>3 DEF CompatibleSecrets, t
<1>15. IsFiniteSet(CompatibleSecrets(held))
  <2>1. 0 \in Int /\ Order - 1 \in Int
    BY OrderFacts
  <2>2. IsFiniteSet(Scalar)
    BY <2>1, FS_Interval DEF Scalar
  <2>3. CompatibleSecrets(held) \subseteq Scalar
    BY DEF CompatibleSecrets
  <2> QED BY <2>2, <2>3, FS_Subset
<1> HIDE DEF a
<1> DEFINE L == Cardinality(SecretsLeft(p, a, m, t))
           K == Cardinality(CompatibleSecrets(held))
<1>16. L <= K /\ K \in Nat
  BY <1>14, <1>15, FS_Subset, FS_CardinalityType
<1>17. L \in Nat
  <2>1. IsFiniteSet(SecretsLeft(p, a, m, t))
    BY <1>14, <1>15, FS_Subset
  <2> QED BY <2>1, FS_CardinalityType
<1>18. L >= Order - t
  BY <1>13
<1> HIDE DEF L, K
<1>19. K >= Order - t
  BY <1>2, <1>16, <1>17, <1>18, OrderFacts
<1> QED BY <1>19 DEF K, t

\* The first threshold shares of a dealing, or fewer, rule out no more than
\* threshold secrets: whatever those who hold them are, and whatever was dealt.
THEOREM ThresholdSharesHide == Spec => []ThresholdHides
<1>1. Init => Sampled
  BY DEF Init, Sampled, Current
<1>2. SharingIInv /\ Sampled /\ [Next]_vars => Sampled'
  BY SharingAssumption, SampledStep
<1>3. SharingIInv /\ Sampled => ThresholdHides
  BY SharingAssumption, FewHide
<1> QED BY <1>1, <1>2, <1>3, SharingInvariant, PTL DEF Spec
==============================================================================
