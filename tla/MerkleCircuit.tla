----------------------------- MODULE MerkleCircuit -----------------------------
(***************************************************************************)
(* The membership circuit of merkle-tree-example (constraints.rs): Groth16  *)
(* parameters are generated for a circuit with or without a witness, a      *)
(* proof is made from a leaf and its path, and checked against a root, the  *)
(* tree having changed in between or not.                                   *)
(*                                                                         *)
(* Hashes are free: equal only if what was hashed is.  What Groth16 does    *)
(* with a circuit is how constraints.rs uses it: parameters fit circuits of *)
(* one shape, and a proof of unsatisfied constraints does not verify.       *)
(***************************************************************************)
EXTENDS Iteration, Outcomes, Sequences

CONSTANTS Keys,     \* bound: public keys; "zero" is the one of no witness
          MaxDepth  \* bound: levels of a tree

VARIABLES tree,     \* its leaves
          params,   \* of generate_random_parameters: [depth, over], over the size of the tree then
          zkProof,  \* of create_random_proof: [leaf, path, root, over]
          zkVerdict

circuitVars == <<tree, params, zkProof, zkVerdict>>

Trees == UNION {[1..TwoTo[d] -> Keys] : d \in 1..MaxDepth}
LeafHash(leaf) == <<"leaf", leaf>>
TwoToOne(left, right) == <<"node", left, right>>
\* The nodes of each level, the leaves' being level 0; the root's the last.
Depth(t) == CHOOSE d \in 1..MaxDepth : Len(t) = TwoTo[d]
Levels(t) ==
  LET nodes[l \in 0..MaxDepth] ==
        IF l = 0 THEN [i \in DOMAIN t |-> LeafHash(t[i])]
        ELSE [i \in 1..(Len(t) \div TwoTo[l]) |-> TwoToOne(nodes[l - 1][2 * i - 1], nodes[l - 1][2 * i])]
  IN  nodes
Root(t) == Levels(t)[Depth(t)][1]

\* generate_proof of a leaf, counted from zero; auth_path upwards from the leaf's sibling.
Neighbour(i) == IF i % 2 = 0 THEN i + 1 ELSE i - 1
PathOf(t, index) ==
  [leaf_index |-> index, leaf_sibling_hash |-> Levels(t)[0][Neighbour(index) + 1],
   auth_path |-> [l \in 1..(Depth(t) - 1) |-> Levels(t)[l][Neighbour(index \div TwoTo[l]) + 1]]]
\* The path and the leaf of a circuit that has none.
DefaultPath == [leaf_index |-> 1, leaf_sibling_hash |-> <<"leaf", "byte">>, auth_path |-> <<>>]
Witnessed(path) == IF path = None THEN DefaultPath ELSE path
LeafOf(leaf) == IF leaf = None THEN "zero" ELSE leaf

ASSUME CircuitAssumption ==
  /\ MaxDepth \in Nat /\ "byte" \notin Keys
  /\ \A t \in Trees : \A i \in DOMAIN t : PathOf(t, i - 1) # None

\* verify_membership: the root that the path leads to.  Mutant: the sides are swapped.
LeadsToSwapped(leaf, path) ==
  LET hashes == <<path.leaf_sibling_hash>> \o path.auth_path
      up[k \in 0..Len(hashes)] == IF k = 0 THEN LeafHash(leaf)
                                  ELSE IF (path.leaf_index \div TwoTo[k - 1]) % 2 = 1
                                    THEN TwoToOne(up[k - 1], hashes[k]) ELSE TwoToOne(hashes[k], up[k - 1])
  IN  up[Len(hashes)]
LeadsTo(leaf, path) ==
  LET hashes == <<path.leaf_sibling_hash>> \o path.auth_path
      up[k \in 0..Len(hashes)] == IF k = 0 THEN LeafHash(leaf)
                                  ELSE IF (path.leaf_index \div TwoTo[k - 1]) % 2 = 0
                                    THEN TwoToOne(up[k - 1], hashes[k]) ELSE TwoToOne(hashes[k], up[k - 1])
  IN  up[Len(hashes)]
\* generate_constraints: how large the circuit is depends on the path alone, the
\* bytes of a key being as many whatever the key; whether it is satisfied.
Shape(path) == Len(Witnessed(path).auth_path)
ConstraintsHold(root, leaf, path) == LeadsTo(LeafOf(leaf), Witnessed(path)) = root

CircuitInit == tree \in Trees /\ params = None /\ zkProof = None /\ zkVerdict = None

\* generate_random_parameters of a circuit with a key and a path, each or not.
Setup(leaf, path) ==
  /\ params = None /\ params' = [depth |-> Shape(path), over |-> IF path = None THEN 2 ELSE Len(tree)]
  /\ UNCHANGED <<tree, zkProof, zkVerdict>>

\* The tree is built anew, with other leaves or more of them.
Rebuild(t) == tree' = t /\ zkVerdict = None /\ UNCHANGED <<params, zkProof, zkVerdict>>

\* create_random_proof, for the tree's root.
ProveMembership(leaf, path) ==
  /\ params # None /\ zkProof = None
  /\ zkProof' = [leaf |-> leaf, path |-> path, root |-> Root(tree), over |-> tree]
  /\ UNCHANGED <<tree, params, zkVerdict>>

\* verify_proof with the root of the tree as it is by then: the public input of the
\* proof must be it.
VerifyMembership ==
  /\ zkProof # None /\ zkVerdict = None
  /\ zkVerdict' = /\ Shape(zkProof.path) = params.depth /\ zkProof.root = Root(tree)
                  /\ ConstraintsHold(zkProof.root, zkProof.leaf, zkProof.path)
  /\ UNCHANGED <<tree, params, zkProof>>

Paths == {None} \cup {PathOf(tree, index) : index \in 0..(Len(tree) - 1)}
CircuitNext ==
  \/ \E leaf \in Keys \cup {None}, path \in Paths : Setup(leaf, path) \/ ProveMembership(leaf, path)
  \/ \E t \in Trees : Rebuild(t)
  \/ VerifyMembership

CircuitSpec == CircuitInit /\ [][CircuitNext]_circuitVars

-----------------------------------------------------------------------------
\* A proof of the tree's circuit verifies exactly for a key that stands in the tree
\* at the place of its path, the tree being the one it was made with and as large
\* as that of the parameters (constraints.rs:40-93): parameters of a circuit
\* without a path (constraints.rs:57-70) fit trees of two leaves only, those of one
\* without a key fit any key; a proof without a path never verifies.
CircuitsDecide ==
  zkVerdict # None =>
    (zkVerdict <=> /\ tree = zkProof.over /\ Len(tree) = params.over
                   /\ \E i \in DOMAIN tree : /\ zkProof.path = PathOf(tree, i - 1)
                                             /\ tree[i] = LeafOf(zkProof.leaf))
================================================================================
