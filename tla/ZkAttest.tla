------------------------------- MODULE ZkAttest -------------------------------
(***************************************************************************)
(* The attestation (tom256/src/proofs/mod.rs, called from lib.rs): a       *)
(* signature on the guild's message by one of the keys of a ring.          *)
(* construct puts together a membership proof on the key's x coordinate    *)
(* and an exponentiation proof on the signature equation; verify gets the  *)
(* proof and, separately, the backend's ring.                              *)
(*                                                                         *)
(* Points of the base curve are multiples of GENERATOR on a small curve    *)
(* whose field is larger than its order, as coordinates and scalars of     *)
(* secp256k1 overlap without being equal.  The two proofs are what the     *)
(* modules Membership and ExpProof show of them; the cases they find to    *)
(* have negligible probability in the real group do not occur here.        *)
(***************************************************************************)
EXTENDS CurveGroup, Sequences, Iteration

CONSTANTS Members,     \* bound of the model: the keys of the rings' members
          Guilds,      \* guild ids
          GuildHash,   \* Keccak of the message of a guild, as a scalar
          Hashes,      \* bound of the model: the hashes members hand in
          MaxRing      \* bound of the model: members of a ring

NonZero == 1 .. Order - 1

OrderIsPrime      == \A d \in 2 .. Order - 1 : Order % d # 0
MembersAssumption == Members \subseteq NonZero
GuildAssumption   == GuildHash \in [Guilds -> Scalar] /\ Hashes \subseteq Scalar
RingAssumption    == MaxRing \in Nat \ {0}

VARIABLES input,       \* ParsedProofInput: msgHash, pubkey, r, s, index, guildId
          ring,        \* the ring the member proves with
          proof,       \* the ZkAttestProof, as far as verify looks at it
          theirRing,   \* the ring the backend verifies with
          pc,          \* "construct", "proved", "end"
          outcome      \* of the last call: "none", "ok", "err", "panic"

vars == <<input, ring, proof, theirRing, pc, outcome>>

\* Arithmetic of the scalars; inverse is 0 at 0.
Div(x, y) == IF y = 0 THEN 0 ELSE CHOOSE v \in Scalar : (v * y) % Order = x % Order

\* The x coordinate of a point, as a number; of the identity, the one to_affine
\* makes up.
XOf(k) == ToAffine(PointOf(k)).x

\* Rings are lists of x coordinates (Parse).
Rings == UNION {[1 .. n -> {XOf(k) : k \in Members}] : n \in 0 .. MaxRing}

\* Membership: what pad_ring_to_2n makes of a ring that is not empty, without its first member's
\* copies written out.
PadLog(rg) == CHOOSE l \in 0 .. Len(rg) : /\ Len(rg) <= TwoTo[l]
                                          /\ \A m \in 0 .. l - 1 : Len(rg) > TwoTo[m]
Padded(rg) == [i \in 1 .. TwoTo[PadLog(rg)] |-> IF i <= Len(rg) THEN rg[i] ELSE rg[1]]

\* MembershipProof::verify of a proof made with another ring or the same.  Where
\* only other members than the prover's own are replaced, it depends on the
\* random choices of construct.
MembershipOutcomes(px, rg, index, verifiersRing) ==
  IF verifiersRing = <<>> THEN {"err"}
  ELSE IF PadLog(verifiersRing) > PadLog(rg) THEN {"panic"}
  ELSE IF PadLog(verifiersRing) < PadLog(rg) \/ Padded(verifiersRing)[index] # px THEN {"err"}
  ELSE IF Padded(verifiersRing) = Padded(rg) THEN {"ok"} ELSE {"ok", "err"}

\* ExpProof::verify of a proof made with q_point = madeWith; base_gen = R.  Mutant:
\* it opens the proof with the prover's q_point.
ExpAcceptsWithOwnQ(rPoint, s1, pubkey, madeWith, q) ==
  rPoint # 0 /\ (s1 * rPoint) % Order = (pubkey + madeWith) % Order
ExpAccepts(rPoint, s1, pubkey, madeWith, q) ==
  /\ rPoint # 0 /\ madeWith = q
  /\ (s1 * rPoint) % Order = (pubkey + q) % Order

\* u1 * G + u2 * P.
U2(r, s) == Div(r, s)
Z1(r, z) == Div(z, r)

\* The R whose x coordinate verify turns into r.  Mutant: an x coordinate that
\* is no scalar is lost instead of reduced.
RScalarUnreduced(rPoint) == IF XOf(rPoint) < Order THEN XOf(rPoint) ELSE 0
RScalar(rPoint) == XOf(rPoint) % Order

-----------------------------------------------------------------------------
NoProof == [guildId |-> CHOOSE g \in Guilds : TRUE, msgHash |-> 0, rPoint |-> 0, s1 |-> 0,
            q |-> 0]

Init ==
  /\ input \in [msgHash : Hashes, pubkey : Members, r : Scalar, s : Scalar,
                index : 1 .. MaxRing + 1, guildId : Guilds]
  /\ ring \in Rings
  /\ proof = NoProof /\ theirRing = ring /\ pc = "construct" /\ outcome = "none"

\* ZkAttestProof::construct: the membership proof's error or panic ends it, of an
\* empty ring too, in which there is no index.
Construct ==
  LET u1 == Div(input.msgHash, input.s)
      u2 == U2(input.r, input.s)
      q == Z1(input.r, input.msgHash)
  IN  /\ pc = "construct"
      /\ IF input.index > Len(ring) THEN pc' = "end" /\ outcome' = "err" /\ UNCHANGED proof
         ELSE IF PadLog(ring) = 0 THEN pc' = "end" /\ outcome' = "panic" /\ UNCHANGED proof
         ELSE /\ proof' = [guildId |-> input.guildId, msgHash |-> input.msgHash,
                           rPoint |-> (u1 + u2 * input.pubkey) % Order,
                           s1 |-> Div(input.s, input.r), q |-> q]
              /\ pc' = "proved" /\ UNCHANGED outcome
      /\ UNCHANGED <<input, ring, theirRing>>

\* The backend's ring is another one by now.
ChangeRing ==
  /\ pc = "proved" /\ theirRing = ring
  /\ \E rg \in Rings : theirRing' = rg
  /\ UNCHANGED <<input, ring, proof, pc, outcome>>

\* ZkAttestProof::verify, its checks in their order.
Verify ==
  /\ pc = "proved" /\ pc' = "end"
  /\ LET q == Z1(RScalar(proof.rPoint), proof.msgHash)
         signature == IF ExpAccepts(proof.rPoint, proof.s1, input.pubkey, proof.q, q)
                        THEN "ok" ELSE "err"
     IN  IF \/ IsIdentity(ToAffine(PointOf(proof.rPoint)))
            \/ GuildHash[proof.guildId] # proof.msgHash
           THEN outcome' = "err"
           ELSE \E m \in MembershipOutcomes(XOf(input.pubkey), ring, input.index, theirRing) :
                  outcome' = IF m = "ok" THEN signature ELSE m
  /\ UNCHANGED <<input, ring, proof, theirRing>>

Next == Construct \/ ChangeRing \/ Verify

Spec == Init /\ [][Next]_vars

-----------------------------------------------------------------------------
TypeOK ==
  /\ input.r \in Scalar /\ input.s \in Scalar
  /\ {ring, theirRing} \subseteq Seq({XOf(k) : k \in Members})
  /\ proof \in [guildId : Guilds, msgHash : Scalar, rPoint : Scalar, s1 : Scalar, q : Scalar]
  /\ pc \in {"construct", "proved", "end"} /\ outcome \in {"none", "ok", "err", "panic"}

\* ECDSA verification of (r, s) on the hash z by the key k * GENERATOR, as the
\* guild's contract states it and independently of construct.
ValidSignature(z, k, r, s) ==
  /\ r # 0 /\ s # 0
  /\ \E nonce \in NonZero : /\ XOf(nonce) % Order = r
                            /\ (s * nonce) % Order = (z + r * k) % Order

\* An attestation that verifies was made with a valid signature on the guild's
\* message, by a key whose x coordinate is in the backend's ring, although
\* neither construct nor verify checks the signature: only a hash that is zero
\* makes the equation lose r (proofs/mod.rs:54-61, 130-144).
AttestsSignature ==
  pc = "end" /\ outcome = "ok" =>
    /\ \E i \in 1 .. Len(theirRing) : theirRing[i] = XOf(input.pubkey)
    /\ input.msgHash = GuildHash[input.guildId]
    /\ input.msgHash # 0 => ValidSignature(input.msgHash, input.pubkey, input.r, input.s)

\* A member with a valid signature, low or high in s, and an R whose x
\* coordinate exceeds the order or not, is let in (test zkp_attest_valid),
\* and so it is when the backend's ring has only been padded out since.
MemberAccepted ==
  /\ pc = "end" /\ input.index <= Len(ring) /\ Len(ring) > 1
  /\ ring[input.index] = XOf(input.pubkey)
  /\ theirRing # <<>> /\ Padded(theirRing) = Padded(ring)
  /\ input.msgHash = GuildHash[input.guildId]
  /\ ValidSignature(input.msgHash, input.pubkey, input.r, input.s)
  => outcome = "ok"
=============================================================================
