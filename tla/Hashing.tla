------------------------------- MODULE Hashing -------------------------------
(***************************************************************************)
(* The hashing of curv (cryptographic_primitives/hashing): HMAC codes as    *)
(* big integers (ext.rs), scalars by try and increment (ext.rs), and Merkle *)
(* trees of points (merkle_tree.rs) over the merkle-cbt crate.              *)
(*                                                                         *)
(* A code and a hash of the counter are the oracle's, asked once each; the  *)
(* hashes of the tree are free: equal only if what was hashed is.           *)
(***************************************************************************)
EXTENDS ByteForm, Outcomes, Scalars

CONSTANTS CodeLength,\* bytes of an HMAC code
          MaxCounter,\* bound: hashes tried for a scalar
          MaxLeaves, \* bound: leaves of a tree
          Inputs,    \* bound: big integers that are hashed
          Leaves     \* bound: points that are leaves

ASSUME HashAssumption == CodeLength \in Nat /\ MaxLeaves \in Nat /\ Inputs \subseteq Int

VARIABLES digests,   \* the codes and hashes answered so far
          code,      \* a code some key and number gave: [key, n, number]
          verified,  \* the answer for it: [key, n, number, ok]
          counter, scalar,      \* i of result_scalar and what it gives
          leaves, merkleProof, altered, accepted  \* a tree, a proof and what verify answers

codeVars == <<code, verified>>
scalarVars == <<counter, scalar>>
treeVars == <<leaves, merkleProof, altered, accepted>>
hashVars == <<digests, codeVars, scalarVars, treeVars>>

-----------------------------------------------------------------------------
\* The hash of a key and a number is asked for with their bytes, as BigInt gives them.
Question(what, k, n) == <<what, ToBytes(k), ToBytes(n)>>
Digests(q, all) == IF q \in DOMAIN digests THEN {digests[q]} ELSE all
WithDigest(q, d) == [k \in DOMAIN digests \cup {q} |-> IF k = q THEN d ELSE digests[k]]

\* new_bigint, input_bigint and result_bigint; verify_bigint of any code.
Codes == [1..CodeLength -> 0..(Base - 1)]
Code(k, n) ==
  /\ code = None
  /\ \E mac \in Digests(Question("hmac", k, n), Codes) :
       /\ digests' = WithDigest(Question("hmac", k, n), mac)
       /\ code' = [key |-> k, n |-> n, number |-> FromBytes(mac)]
  /\ UNCHANGED <<verified, scalarVars, treeVars>>
\* Mutant: codes are compared from the first byte on, as far as the given one goes.
MatchesPrefix(mac, number) == \E m \in 0..Len(mac) : ToBytes(number) = SubSeq(mac, 1, m)
Matches(mac, number) == mac = ToBytes(number)
VerifyBigint(k, n, number) ==
  /\ code # None /\ verified = None
  /\ \E mac \in Digests(Question("hmac", k, n), Codes) :
       /\ digests' = WithDigest(Question("hmac", k, n), mac)
       /\ verified' = [key |-> k, n |-> n, number |-> number, ok |-> Matches(mac, number)]
  /\ UNCHANGED <<code, scalarVars, treeVars>>

\* A turn of result_scalar: the hash of the counter, if it is below the order.
\* Mutant: or the order itself.
OrderOrBelow(hash) == hash <= Order
BelowOrder(hash) == hash < Order
Counted(i) == Question("digest", 0, i)
ScalarTurn ==
  /\ scalar = None /\ counter < MaxCounter
  /\ \E hash \in Digests(Counted(counter), 0..(Order + 1)) :
       /\ digests' = WithDigest(Counted(counter), hash)
       /\ IF BelowOrder(hash) THEN scalar' = hash /\ UNCHANGED counter
                              ELSE counter' = counter + 1 /\ UNCHANGED scalar
  /\ UNCHANGED <<codeVars, treeVars>>

-----------------------------------------------------------------------------
\* CBMT: the nodes of a tree, in an array; the leaves are its last ones.
HashLeaf(p) == <<"leaf", p>>
Merge(left, right) == <<"node", left, right>>
Nodes(ps) ==
  LET n == Len(ps)
      node[j \in 0..(2 * n - 2)] == IF j >= n - 1 THEN HashLeaf(ps[j - n + 2])
                                    ELSE Merge(node[2 * j + 1], node[2 * j + 2])
  IN  node
RootOf(ps) == Nodes(ps)[0]
IsLeft(i) == i % 2 = 1
Sibling(i) == IF IsLeft(i) THEN i + 1 ELSE i - 1
Parent(i) == (i - 1) \div 2

CreateTree(ps) ==
  /\ leaves = <<>> /\ leaves' = ps
  /\ UNCHANGED <<digests, codeVars, scalarVars, merkleProof, altered, accepted>>

\* build_proof: of the first leaf that is the point, with the siblings on its way.
Lemmas(ps) ==
  LET lemmas[j \in 0..(2 * Len(ps) - 2)] ==
        IF j = 0 THEN <<>> ELSE <<Nodes(ps)[Sibling(j)]>> \o lemmas[Parent(j)]
  IN  lemmas
ProofOf(ps, first) ==
  [index |-> first + Len(ps) - 2, lemmas |-> Lemmas(ps)[first + Len(ps) - 2], point |-> ps[first]]
BuildProof(point) ==
  /\ leaves # <<>> /\ merkleProof = None
  /\ \E first \in DOMAIN leaves :
       /\ leaves[first] = point /\ \A i \in 1..(first - 1) : leaves[i] # point
       /\ merkleProof' = ProofOf(leaves, first)
  /\ UNCHANGED <<digests, codeVars, scalarVars, leaves, altered, accepted>>

\* The proof is changed in one place, or stands for another point.
AlteredProofs ==
  {[merkleProof EXCEPT !.index = i] : i \in 0..(2 * MaxLeaves - 2)}
    \cup {[merkleProof EXCEPT !.point = p] : p \in Leaves}
    \cup {[merkleProof EXCEPT !.lemmas[k] = HashLeaf(p)] : k \in DOMAIN merkleProof.lemmas, p \in Leaves}
    \cup {[merkleProof EXCEPT !.lemmas = SubSeq(@, 1, k)] : k \in 0..Len(merkleProof.lemmas)}
AlterProof ==
  /\ merkleProof # None /\ ~altered /\ accepted = None
  /\ \E other \in AlteredProofs \ {merkleProof} : merkleProof' = other
  /\ altered' = TRUE
  /\ UNCHANGED <<digests, codeVars, scalarVars, leaves, accepted>>

\* verify: up from the leaf, as long as there are lemmas, to place zero.
Climb(p) ==
  LET climb[k \in 0..Len(p.lemmas)] ==
        IF k = 0 THEN [index |-> p.index, node |-> HashLeaf(p.point)]
        ELSE LET below == climb[k - 1]
             IN  [index |-> IF below.index = 0 THEN -1 ELSE Parent(below.index),
                  node |-> IF IsLeft(below.index) THEN Merge(below.node, p.lemmas[k])
                                                  ELSE Merge(p.lemmas[k], below.node)]
  IN  climb
VerifiesProof(p, root) ==
  /\ \A k \in 0..(Len(p.lemmas) - 1) : Climb(p)[k].index > 0
  /\ Climb(p)[Len(p.lemmas)] = [index |-> 0, node |-> root]
VerifyProof ==
  /\ merkleProof # None /\ accepted = None
  /\ accepted' = VerifiesProof(merkleProof, RootOf(leaves))
  /\ UNCHANGED <<digests, codeVars, scalarVars, leaves, merkleProof, altered>>

-----------------------------------------------------------------------------
HashInit == /\ digests = <<>> /\ code = None /\ verified = None
            /\ counter = 0 /\ scalar = None
            /\ leaves = <<>> /\ merkleProof = None /\ altered = FALSE /\ accepted = None

LeafTrees == UNION {[1..n -> Leaves] : n \in 1..MaxLeaves}
HashNext ==
  \/ /\ leaves = <<>> /\ counter = 0 /\ scalar = None
     /\ \E k, n \in Inputs : \/ Code(k, n)
                             \/ \E number \in 0..(BaseTo(CodeLength) - 1) : VerifyBigint(k, n, number)
  \/ /\ code = None /\ leaves = <<>> /\ ScalarTurn
  \/ /\ code = None /\ counter = 0 /\ scalar = None
     /\ \/ \E ps \in LeafTrees : CreateTree(ps)
        \/ \E point \in Leaves : BuildProof(point)
        \/ AlterProof \/ VerifyProof

HashSpec == HashInit /\ [][HashNext]_hashVars

-----------------------------------------------------------------------------
\* A code verifies only for the key, the number and the value it was computed
\* with (hmac of ext.rs:153-166): verify_bigint accepts no code that
\* result_bigint of the same inputs would not give.
OnlyTheCodeVerifies ==
  verified # None /\ verified.ok =>
    verified.number = FromBytes(digests[Question("hmac", verified.key, verified.n)])

\* The code that result_bigint gave verifies for what it was computed of, as the
\* test of it has it (ext.rs:306-309).
CodesVerify ==
  verified # None /\ code = [key |-> verified.key, n |-> verified.n, number |-> verified.number]
    => verified.ok

\* A proof that build_proof gave verifies, with equal leaves and with any number
\* of them; changed in one place it verifies only if it is the proof of an equal
\* leaf: not for another point, at another place, or with a lemma too few.
MerkleProofsDecide ==
  accepted # None =>
    (accepted <=> \E i \in DOMAIN leaves : merkleProof = ProofOf(leaves, i))

\* The scalar of a transcript is the first of its counted hashes that is below the
\* order, so that whoever hashes the same derives the same one: no counter is passed
\* over and no hash reduced (result_scalar, ext.rs:114-120).
FirstBelowOrder ==
  /\ \A i \in 0..(counter - 1) : Counted(i) \in DOMAIN digests /\ digests[Counted(i)] >= Order
  /\ scalar # None => /\ Counted(counter) \in DOMAIN digests
                      /\ scalar = digests[Counted(counter)] /\ scalar < Order

\* HMAC codes verify only for what they were computed of, scalars are the first that
\* fits, and Merkle proofs verify exactly for the leaf they were built for
\* (ext.rs:114, ext.rs:153, merkle_tree.rs:39).
HashesDecide == OnlyTheCodeVerifies /\ FirstBelowOrder /\ MerkleProofsDecide
==============================================================================
