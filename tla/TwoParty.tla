------------------------------- MODULE TwoParty -------------------------------
(***************************************************************************)
(* The two-party protocols of curv (cryptographic_primitives/twoparty):    *)
(* the coin flip and the two Diffie-Hellman exchanges.  Each party runs    *)
(* several sessions; a message may be lost, arrive twice, late, in the     *)
(* other session, or with one of its values changed.                       *)
(*                                                                         *)
(* Points are written as their discrete logarithms.  Commitments are what  *)
(* they commit to, which nobody can change or read off them.  A proof      *)
(* carries whether it verifies, which it does for what it was made for and *)
(* not once something in it has changed (SigmaProofs has that).            *)
(***************************************************************************)
EXTENDS Scalars, FiniteSets

CONSTANTS Sessions,   \* bound: the sessions of either party
          Seeds,      \* bound: random seeds and shares, none of them zero
          Fixed,      \* bound: secret shares of the caller's choice
          Blinds,     \* bound: blinding factors
          MaxChanged  \* bound: messages changed on their way

VARIABLES protocol, \* which one the parties run
          one, two, \* the sessions of party 1 and party 2
          msgs      \* every message sent, or changed on its way

partyVars == <<protocol, one, two, msgs>>

Idle == [at |-> "idle"]

PartiesAssumption == Order \in Nat \ {0} /\ Seeds \subseteq Scalar /\ Fixed \subseteq Scalar

\* Exclusive or, bit by bit.
Xor[ab \in Nat \X Nat] ==
  IF ab = <<0, 0>> THEN 0 ELSE 2 * Xor[<<ab[1] \div 2, ab[2] \div 2>>] + ((ab[1] + ab[2]) % 2)

\* Both parties of the coin flip: the exclusive or of the integers, reduced.
FlipResult(a, b) == Xor[<<a, b>>] % Order

\* create_commitment_with_user_defined_randomness, by a point and by a hash.
PedersenCommitment(m, r) == <<m, r>>
HashCommitment(m, r) == <<m, r>>

\* The proofs that the parties send.
PedersenProof(m, r) == [com |-> PedersenCommitment(m, r), verifies |-> TRUE]
BlindingProof(m, r) == [m |-> m, com |-> PedersenCommitment(m, r), verifies |-> TRUE]
DLogProof(sk, t) == [pk |-> sk, t |-> t, verifies |-> TRUE]

Send(m) == msgs' = msgs \cup {m}
Message(by, i, body) == [by |-> by, session |-> i, changed |-> FALSE, body |-> body]
Sent(by) == {m \in msgs : m.by = by}
Now(side, i, record) == [side EXCEPT ![i] = record]

-----------------------------------------------------------------------------
(* coin_flip_optimal_rounds.rs *)

\* Party1FirstMessage::commit
Commit(i) ==
  /\ protocol = "coin" /\ one[i] = Idle
  /\ \E seed \in Seeds, r \in Blinds :
       /\ one' = Now(one, i, [at |-> "committed", seed |-> seed, r |-> r])
       /\ Send(Message("commit", i, PedersenProof(seed, r)))
  /\ UNCHANGED two

\* Party2FirstMessage::share
ShareSeed(j) ==
  /\ protocol = "coin" /\ two[j] = Idle
  /\ \E m \in Sent("commit") :
       IF ~m.body.verifies THEN two' = Now(two, j, [at |-> "panic"]) /\ UNCHANGED msgs
       ELSE \E seed \in Seeds :
              /\ two' = Now(two, j, [at |-> "shared", seed |-> seed, first |-> m])
              /\ Send(Message("seed", j, [seed |-> seed]))
  /\ UNCHANGED one

\* Party1SecondMessage::reveal
Reveal(i) ==
  /\ protocol = "coin" /\ one[i].at = "committed"
  /\ \E m \in Sent("seed") :
       one' = Now(one, i, [at |-> "done", seed |-> one[i].seed, peer |-> m,
                           out |-> FlipResult(one[i].seed, m.body.seed)])
  /\ Send(Message("reveal", i, BlindingProof(one[i].seed, one[i].r)))
  /\ UNCHANGED two

\* finalize.  Mutant: the commitment is not compared.
FinalizesAny(proof, com) == proof.verifies
Finalizes(proof, com) == proof.verifies /\ proof.com = com
Finalize(j) ==
  /\ protocol = "coin" /\ two[j].at = "shared"
  /\ \E m \in Sent("reveal") :
       two' = Now(two, j, IF Finalizes(m.body, two[j].first.body.com)
                            THEN [at |-> "done", seed |-> two[j].seed, first |-> two[j].first,
                                  out |-> FlipResult(m.body.m, two[j].seed)]
                            ELSE [at |-> "panic"])
  /\ UNCHANGED <<one, msgs>>

-----------------------------------------------------------------------------
(* dh_key_exchange.rs *)

\* first and first_with_fixed_secret_share, of either party
First(i) ==
  /\ protocol = "dh" /\ one[i] = Idle
  /\ \E s \in Seeds \cup Fixed :
       /\ one' = Now(one, i, [at |-> "sent", secret |-> s])
       /\ Send(Message("share1", i, [share |-> s]))
  /\ UNCHANGED two
FirstOfTwo(j) ==
  /\ protocol = "dh" /\ two[j] = Idle
  /\ \E s \in Seeds \cup Fixed :
       /\ two' = Now(two, j, [at |-> "sent", secret |-> s])
       /\ Send(Message("share2", j, [share |-> s]))
  /\ UNCHANGED one

\* compute_pubkey
ComputePubkey(secret, share) == (share * secret) % Order
Exchange(i) ==
  /\ protocol = "dh" /\ one[i].at = "sent"
  /\ \E m \in Sent("share2") :
       one' = Now(one, i, [at |-> "done", peer |-> m, secret |-> one[i].secret,
                           out |-> ComputePubkey(one[i].secret, m.body.share)])
  /\ UNCHANGED <<two, msgs>>
ExchangeOfTwo(j) ==
  /\ protocol = "dh" /\ two[j].at = "sent"
  /\ \E m \in Sent("share1") :
       two' = Now(two, j, [at |-> "done", first |-> m, secret |-> two[j].secret,
                           out |-> ComputePubkey(two[j].secret, m.body.share)])
  /\ UNCHANGED <<one, msgs>>

-----------------------------------------------------------------------------
(* dh_key_exchange_variant_with_pok_comm.rs *)

\* create_commitments, and with a fixed secret share
CreateWith(i, s) ==
  /\ protocol = "pok" /\ one[i] = Idle
  /\ \E t \in Seeds, b \in Blinds :
       /\ one' = Now(one, i, [at |-> "committed", secret |-> s,
                              witness |-> [pkBlind |-> b, pokBlind |-> b, share |-> s,
                                           proof |-> DLogProof(s, t)]])
       /\ Send(Message("commitments", i, [pk |-> HashCommitment(s, b), pok |-> HashCommitment(t, b)]))
  /\ UNCHANGED two
CreateCommitments(i) == \E s \in Seeds : CreateWith(i, s)
CreateCommitmentsFixed(i) == \E s \in Fixed : CreateWith(i, s)

\* Party2FirstMessage::create, and with a fixed secret share
AnswerWith(j, s) ==
  /\ protocol = "pok" /\ two[j] = Idle
  /\ \E m \in Sent("commitments") :
       /\ two' = Now(two, j, [at |-> "sent", secret |-> s, first |-> m])
       /\ Send(Message("pok", j, [proof |-> DLogProof(s, 1), share |-> s]))
  /\ UNCHANGED one
Create(j) == \E s \in Seeds : AnswerWith(j, s)
CreateFixed(j) == \E s \in Fixed : AnswerWith(j, s)

\* Party1SecondMessage::verify_and_decommit, and compute_pubkey
VerifyAndDecommit(i) ==
  /\ protocol = "pok" /\ one[i].at = "committed"
  /\ \E m \in Sent("pok") :
       IF ~m.body.proof.verifies THEN one' = Now(one, i, [at |-> "err"]) /\ UNCHANGED msgs
       ELSE /\ one' = Now(one, i, [at |-> "done", peer |-> m, secret |-> one[i].secret,
                                   out |-> ComputePubkey(one[i].secret, m.body.share)])
            /\ Send(Message("decommit", i, one[i].witness))
  /\ UNCHANGED two

\* verify_commitments_and_dlog_proof.  Mutant: the commitment to the share is
\* not opened.
OpensPok(c, w) == c.pok = HashCommitment(w.proof.t, w.pokBlind)
OpensBoth(c, w) == c.pk = HashCommitment(w.share, w.pkBlind) /\ c.pok = HashCommitment(w.proof.t, w.pokBlind)
DecommitOutcome(c, w) ==
  IF w.share = 0 THEN "err"
  ELSE IF ~OpensBoth(c, w) THEN "panic"
  ELSE IF ~w.proof.verifies THEN "err" ELSE "done"
VerifyCommitments(j) ==
  /\ protocol = "pok" /\ two[j].at = "sent"
  /\ \E m \in Sent("decommit") :
       LET at == DecommitOutcome(two[j].first.body, m.body)
       IN  two' = Now(two, j, IF at # "done" THEN [at |-> at]
                              ELSE [at |-> at, first |-> two[j].first, secret |-> two[j].secret,
                                    out |-> ComputePubkey(two[j].secret, m.body.share)])
  /\ UNCHANGED <<one, msgs>>

-----------------------------------------------------------------------------
\* One value of a message becomes another; a proof then no longer verifies, and
\* a commitment opens to no share.
Damaged(m) ==
  CASE m.by \in {"commit", "reveal"} -> [m.body EXCEPT !.verifies = FALSE]
    [] m.by = "seed"             -> [m.body EXCEPT !.seed = (@ + 1) % Order]
    [] m.by = "commitments"      -> [m.body EXCEPT !.pk[1] = @ + Order]
    [] OTHER                     -> [m.body EXCEPT !.share = (@ + 1) % Order]
Change ==
  /\ Cardinality({m \in msgs : m.changed}) < MaxChanged
  /\ \E m \in msgs :
       \/ Send([m EXCEPT !.changed = TRUE, !.body = Damaged(m)])
       \/ /\ m.by \in {"pok", "decommit"}
          /\ Send([m EXCEPT !.changed = TRUE, !.body.proof.verifies = FALSE])
  /\ UNCHANGED <<one, two>>

PartiesInit == /\ protocol \in {"coin", "dh", "pok"} /\ msgs = {}
        /\ one = [i \in Sessions |-> Idle] /\ two = [j \in Sessions |-> Idle]

Step(i) == \/ Commit(i) \/ ShareSeed(i) \/ Reveal(i) \/ Finalize(i)
           \/ First(i) \/ FirstOfTwo(i) \/ Exchange(i) \/ ExchangeOfTwo(i)
           \/ CreateCommitments(i) \/ CreateCommitmentsFixed(i) \/ Create(i) \/ CreateFixed(i)
           \/ VerifyAndDecommit(i) \/ VerifyCommitments(i)
PartiesNext == UNCHANGED protocol /\ (Change \/ \E i \in Sessions : Step(i))

PartiesSpec == PartiesInit /\ [][PartiesNext]_partyVars

-----------------------------------------------------------------------------
\* What party 2 ends up with is settled by the first message it was given and by
\* its own choice: a decommitment of the other session, or a changed one, ends
\* in a panic or an error, never in another coin or key (coin_flip:77,
\* dh_key_exchange_variant_with_pok_comm.rs:216-236).
Settled(j) ==
  LET first == two[j].first.body
  IN  IF protocol = "coin" THEN FlipResult(first.com[1], two[j].seed)
                           ELSE ComputePubkey(two[j].secret, first.pk[1])
FirstMessageBinds ==
  protocol # "dh" =>
    \A j \in Sessions : two[j].at = "done" => two[j].out = Settled(j)

\* Two sessions that have taken each other's messages, and finished, have the
\* same coin or key.  The messages without a proof or a commitment of their own
\* must not have been changed: the seed, the shares of the plain exchange, and
\* party 2's share, which nothing ties to the proof sent with it.
PartiesAgree ==
  \A i, j \in Sessions :
    /\ one[i].at = "done" /\ two[j].at = "done"
    /\ one[i].peer.session = j /\ two[j].first.session = i
    /\ protocol = "dh" => ~two[j].first.changed
    /\ one[i].peer.changed => protocol = "pok" /\ one[i].peer.body.share = two[j].secret
    => one[i].out = two[j].out
===============================================================================
