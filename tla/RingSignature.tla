---------------------------- MODULE RingSignature ----------------------------
(***************************************************************************)
(* The ring signatures of the prototypes (prototypes/src): a signer goes   *)
(* round the ring from its own place, hashing a commitment at each member  *)
(* to the next member's challenge, and closes the ring with its response;  *)
(* a verifier goes round from the first member.  A linked signature also   *)
(* carries the signer's key image.                                         *)
(*                                                                         *)
(* A point is written as its discrete logarithm; members count from one.   *)
(***************************************************************************)
EXTENDS Integers, Sequences

CONSTANTS RingOrder, \* of the group
          HashPoint, \* hash_to_ristretto_point, as a function of the point
          Rings,     \* bound: rings of public keys
          SignerSecrets,  \* bound: their secrets
          Messages   \* bound: messages

VARIABLES pc,
          signer,   \* [secret, pi, alpha, linked] of sign_message
          sig,      \* RingSignature: [c1, responses, message, ring, image]
          c,        \* c_vec of the signer
          at, turns,\* current_idx, and the turns of either loop so far
          curr,     \* c_curr of the verifier
          asked,    \* what the signer hashed at each member
          told,     \* what the verifier hashed at each member
          oracle,   \* the challenges of what has been hashed
          altered   \* history: whether sig is another than was signed

ringVars == <<pc, signer, sig, c, at, turns, curr, asked, told, oracle, altered>>

RingScalar == 0 .. RingOrder - 1

RingOrderIsPrime     == /\ RingOrder \in Nat \ {0, 1}
                        /\ \A d \in 2 .. RingOrder - 1 : RingOrder % d # 0
HashPointAssumption  == HashPoint \in [RingScalar -> RingScalar]
RingsAssumption      == Rings \subseteq Seq(RingScalar) \ {<<>>} /\ SignerSecrets \subseteq RingScalar
SignatureAssumptions == RingOrderIsPrime /\ HashPointAssumption /\ RingsAssumption

Members == DOMAIN sig.ring
\* The member after the last is the first.  Mutant: it is the one after the first.
NextMemberShort(i, n) == IF i = n /\ n > 1 THEN 2 ELSE (i % n) + 1
NextMember(i, n) == (i % n) + 1

\* What is hashed at a member, given its commitment and, when linked, the other.
Hashed(message, ring, linked, p, q) == <<message, ring, p, IF linked THEN q ELSE 0>>
AtMember(s, linked, i, challenge) ==
  Hashed(s.message, s.ring, linked, (s.responses[i] + challenge * s.ring[i]) % RingOrder,
         (s.responses[i] * HashPoint[s.ring[i]] + challenge * s.image) % RingOrder)
Challenges(h) == IF h \in DOMAIN oracle THEN {oracle[h]} ELSE RingScalar
Answered(h, a) == [k \in DOMAIN oracle \cup {h} |-> IF k = h THEN a ELSE oracle[k]]

RingInit == /\ pc = "idle" /\ signer = <<>> /\ sig = <<>> /\ c = <<>> /\ at = 0 /\ turns = 0
        /\ curr = 0 /\ asked = <<>> /\ told = <<>> /\ oracle = <<>> /\ altered = FALSE

\* sign_message and sign_message_linked, up to the first challenge, which is that
\* of the member after pi.
Sign(message, ring, secret, pi, linked) ==
  /\ pc = "idle"
  /\ \E alpha \in RingScalar, responses \in [DOMAIN ring -> RingScalar] :
       LET h == Hashed(message, ring, linked, alpha, (alpha * HashPoint[ring[pi]]) % RingOrder)
           first == NextMember(pi, Len(ring))
       IN  \E a \in Challenges(h) :
             /\ c' = [i \in DOMAIN ring |-> IF i = first THEN a ELSE 0]
             /\ asked' = [i \in DOMAIN ring |-> IF i = pi THEN h ELSE <<>>]
             /\ oracle' = Answered(h, a)
             /\ at' = first /\ turns' = 1 /\ pc' = "sign"
             /\ signer' = [secret |-> secret, pi |-> pi, alpha |-> alpha, linked |-> linked]
             /\ sig' = [c1 |-> 0, responses |-> responses, message |-> message, ring |-> ring,
                        image |-> IF linked THEN (secret * HashPoint[ring[pi]]) % RingOrder ELSE 0]
  /\ UNCHANGED <<curr, told, altered>>

\* A turn of its loop.
SignTurn ==
  /\ pc = "sign" /\ turns < Len(sig.ring)
  /\ LET h == AtMember(sig, signer.linked, at, c[at])
         next == NextMember(at, Len(sig.ring))
     IN  \E a \in Challenges(h) :
           /\ c' = [c EXCEPT ![next] = a]
           /\ asked' = [asked EXCEPT ![at] = h]
           /\ oracle' = Answered(h, a)
           /\ at' = next /\ turns' = turns + 1
  /\ UNCHANGED <<pc, signer, sig, curr, told, altered>>

\* The last response closes the ring.
Close ==
  /\ pc = "sign" /\ turns = Len(sig.ring)
  /\ sig' = [sig EXCEPT !.responses[signer.pi] = (signer.alpha - c[signer.pi] * signer.secret) % RingOrder,
                        !.c1 = c[1]]
  /\ pc' = "signed"
  /\ UNCHANGED <<signer, c, at, turns, curr, asked, told, oracle, altered>>

\* One value of the signature becomes another before it is verified.
Altered(s) ==
  {[s EXCEPT !.c1 = (@ + 1) % RingOrder]}
    \cup {[s EXCEPT !.responses[i] = (@ + 1) % RingOrder] : i \in DOMAIN s.ring}
    \cup {[s EXCEPT !.ring[i] = k] : i \in DOMAIN s.ring, k \in {ring[1] : ring \in Rings}}
    \cup {[s EXCEPT !.message = m] : m \in Messages}
    \cup (IF signer.linked THEN {[s EXCEPT !.image = (@ + 1) % RingOrder]} ELSE {})
Alter ==
  /\ pc = "signed" /\ ~altered
  /\ \E s \in Altered(sig) \ {sig} : sig' = s
  /\ altered' = TRUE
  /\ UNCHANGED <<pc, signer, c, at, turns, curr, asked, told, oracle>>

\* verify and verify_linked, whose check of the image's order every point of the
\* group passes; a turn of the loop; and the answer.
Verify ==
  /\ pc = "signed"
  /\ pc' = "verify" /\ curr' = sig.c1 /\ turns' = 0 /\ told' = [i \in Members |-> <<>>]
  /\ UNCHANGED <<signer, sig, c, at, asked, oracle, altered>>
VerifyTurn ==
  /\ pc = "verify" /\ turns < Len(sig.ring)
  /\ LET i == turns + 1
         h == AtMember(sig, signer.linked, i, curr)
     IN  \E a \in Challenges(h) :
           /\ curr' = a /\ oracle' = Answered(h, a) /\ told' = [told EXCEPT ![i] = h]
  /\ turns' = turns + 1
  /\ UNCHANGED <<pc, signer, sig, c, at, asked, altered>>
Answer ==
  /\ pc = "verify" /\ turns = Len(sig.ring)
  /\ pc' = IF curr = sig.c1 THEN "accepted" ELSE "refused"
  /\ UNCHANGED <<signer, sig, c, at, turns, curr, asked, told, oracle, altered>>

RingNext ==
  \/ \E message \in Messages, ring \in Rings, secret \in SignerSecrets, linked \in BOOLEAN :
       \E pi \in DOMAIN ring : Sign(message, ring, secret, pi, linked)
  \/ SignTurn \/ Close \/ Alter \/ Verify \/ VerifyTurn \/ Answer

RingSpec == RingInit /\ [][RingNext]_ringVars

-----------------------------------------------------------------------------
OwnKey == sig.ring[signer.pi] = signer.secret

\* A signature made at the signer's own place is never refused, whichever place
\* that is and whatever the ring's size: going round from the first member asks
\* the hash what the signer asked on its way from its own.
RingCloses ==
  /\ pc = "refused" => altered \/ ~OwnKey
  /\ pc = "verify" /\ OwnKey /\ ~altered =>
       curr = c[IF turns = Len(sig.ring) THEN 1 ELSE turns + 1]

\* No other signature passes on the signer's hashes: with the message, a key, the
\* first challenge, a response or the image changed, or made with the secret at
\* another's place ("Sign incorrect position", main.rs:40), the verifier asks the
\* hash something that the signer did not.  (Both at once may cancel out, and so may
\* anything when a challenge is zero.)
OthersAskAnew ==
  pc = "accepted" /\ altered = OwnKey /\ (\A i \in DOMAIN c : c[i] # 0) => told # asked

\* Exactly the signer's own, unchanged signature passes on what the signer hashed.
SignaturesDecide == RingCloses /\ OthersAskAnew
===============================================================================
