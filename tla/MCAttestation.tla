---------------------------- MODULE MCAttestation ----------------------------
(***************************************************************************)
(* The proofs of tom256, one of six parts in each behaviour, on the curve  *)
(* y^2 = x^3 + 7 over F_13, of order 7: two of its three x coordinates     *)
(* exceed the order, one is zero as a scalar, and one guild's hash is      *)
(* zero.  The alphas of the exponentiation proof include those that make T *)
(* or t1 the identity, or t1 equal or opposite to the committed point; the *)
(* additions are all triples of points but the identity.  Membership       *)
(* proofs have rings of one to three members and two keys, and up to three *)
(* points are interpolated, repeated ones included.  Rings of up to two    *)
(* keys are parsed with coordinates of two bytes, one of whose values is   *)
(* the tag's, and a modulus above every coordinate but the greatest.       *)
(***************************************************************************)
EXTENDS ZkAttest, ExpProof, CommitmentProofs, Membership, Interpolation, Parse

VARIABLE part   \* the part that runs

MCGenerator == <<7, 5>>
MCGuildHash == [g \in {"guild", "zero"} |-> IF g = "guild" THEN 3 ELSE 0]
MCMasks     == <<4, 1, 6>>
MCSums      == LET Plane == {xy \in Field \X Field : OnAffineCurve(xy[1], xy[2])}
               IN  Plane \X Plane \X Plane
MCDraws     == {<<2, 5, 3, 1, 6, 4, 2, 3, 5, 1>>, <<0, 1, 1, 4, 2, 2, 6, 1, 3, 5>>}
MCKeyMasks  == {[key |-> 2, r   |-> [j \in 0 .. 3 |-> (j + 1) % 7],
                            s   |-> [j \in 0 .. 3 |-> (3 * j + 1) % 7],
                            t   |-> [j \in 0 .. 3 |-> (j + 4) % 7],
                            rho |-> [j \in 0 .. 3 |-> (2 * j + 3) % 7]]}

ASSUME AttestAssumptions == /\ OrderIsPrime /\ MembersAssumption
                            /\ GuildAssumption /\ RingAssumption
ASSUME ExpAssumptions == ExpAssumption /\ GroupLaw
ASSUME CommitAssumptions == CommitAssumption

-----------------------------------------------------------------------------
\* The parts that do not run keep a first state.
NoAttest == /\ input = [msgHash |-> 0, pubkey |-> 1, r |-> 0, s |-> 0, index |-> 1,
                        guildId |-> "guild"]
            /\ ring = <<XOf(1)>>
NoMember == keyRing = [j \in {0} |-> 1] /\ key = 1
NoExp    == q = 0 /\ level = 2 /\ point = 4
NoPoly   == n = 0
NoParse  == keys = <<>>

\* Bound: of the members, one only asks with another message than the guild's, which
\* verify compares before it looks at anything of the member's.
OthersMessages == input.pubkey = 1 \/ input.msgHash = GuildHash[input.guildId]

AllInit ==
  /\ part \in {"attest", "member", "exp", "poly", "parse", "commit"}
  /\ part # "attest" => NoAttest
  /\ part # "member" => NoMember
  /\ part # "poly" => NoPoly
  /\ part # "parse" => NoParse
  /\ part # "exp" => NoExp
  /\ Init /\ ExpInit /\ CommitInit /\ MemberInit /\ PolyInit /\ ParseInit
  /\ part = "attest" => OthersMessages

Attest      == /\ part = "attest" /\ Next
               /\ UNCHANGED <<part, expVars, commitVars, memberVars, polyVars, parseVars>>
Exp         == /\ part = "exp" /\ ExpNext
               /\ UNCHANGED <<part, vars, commitVars, memberVars, polyVars, parseVars>>
CommitProof == /\ part = "commit" /\ CommitNext
               /\ UNCHANGED <<part, vars, expVars, memberVars, polyVars, parseVars>>
\* Bound: the ring that the backend puts in place of the prover's has one key only,
\* repeated or not, or is empty (OtherRingsRefused is about all of them).
OneKeyInTheirs ==
  theirKeyRing' # keyRing =>
    \A k, m \in DOMAIN theirKeyRing' : theirKeyRing'[k] = theirKeyRing'[m]
Member      == /\ part = "member" /\ MemberNext /\ OneKeyInTheirs
               /\ UNCHANGED <<part, vars, expVars, commitVars, polyVars, parseVars>>
Polynomial  == /\ part = "poly" /\ PolyNext
               /\ UNCHANGED <<part, vars, expVars, commitVars, memberVars, parseVars>>
ParseRing   == /\ part = "parse" /\ ParseNext
               /\ UNCHANGED <<part, vars, expVars, commitVars, memberVars, polyVars>>

AllNext == Attest \/ Exp \/ CommitProof \/ Member \/ Polynomial \/ ParseRing

allVars == <<part, vars, expVars, commitVars, memberVars, polyVars, parseVars>>

AllSpec == AllInit /\ [][AllNext]_allVars
===============================================================================
