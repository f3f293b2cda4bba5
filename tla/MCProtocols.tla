----------------------------- MODULE MCProtocols -----------------------------
(***************************************************************************)
(* What several parties run with each other, one protocol in each          *)
(* behaviour: dealings to up to three parties over the field of five       *)
(* elements, with every polynomial of degree two and one reshare; two      *)
(* sessions of either party of the three exchanges of curv, over the       *)
(* scalars of a group of five elements, one message changed on its way;    *)
(* and ring signatures of one to three members in a group of three.        *)
(***************************************************************************)
EXTENDS Sharing, TwoParty, RingSignature

VARIABLE part   \* the part that runs

MCSecrets == {3}
MCDamages == {4}

MCHashPoint == [k \in 0 .. 2 |-> IF k = 2 THEN 1 ELSE 2]
MCRings     == {<<1>>, <<2, 1>>, <<1, 2, 2>>}

ASSUME PartyAssumptions == PartiesAssumption
ASSUME RingAssumptions  == SignatureAssumptions

-----------------------------------------------------------------------------
AllInit == /\ Init /\ PartiesInit /\ RingInit
           /\ \/ part = "two_party"
              \/ part \in {"sharing", "ring"} /\ protocol = "coin"

Dealing    == part = "sharing"   /\ Next        /\ UNCHANGED <<part, partyVars, ringVars>>
Exchanging == part = "two_party" /\ PartiesNext /\ UNCHANGED <<part, vars, ringVars>>
Signing    == part = "ring"      /\ RingNext    /\ UNCHANGED <<part, vars, partyVars>>

AllNext == Dealing \/ Exchanging \/ Signing

allVars == <<part, vars, partyVars, ringVars>>

AllSpec == AllInit /\ [][AllNext]_allVars

=============================================================================
