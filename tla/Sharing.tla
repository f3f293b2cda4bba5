------------------------------- MODULE Sharing -------------------------------
(***************************************************************************)
(* Feldman's verifiable secret sharing in curv (secret_sharing/            *)
(* feldman_vss.rs): a dealing to parties at the points 1 .. n or at points *)
(* of the caller's choice, resharing, which the parties follow one by one  *)
(* by adding their part to the share they hold, and reconstruction from    *)
(* whatever shares are held at that moment, checked or not.                *)
(*                                                                         *)
(* A commitment is a point; it is written as its discrete logarithm, so    *)
(* that generator * scalar is the scalar.  Points of the polynomials are   *)
(* u16 and below the order.                                                *)
(***************************************************************************)
EXTENDS DensePolynomial, FiniteSets

CONSTANTS MaxParties,    \* bound of the model: parties of a dealing
          MaxThreshold,  \* bound of the model: thresholds
          MaxPoint,      \* bound of the model: points of share_at_indices
          Secrets,       \* bound of the model: secrets dealt
          Damages,       \* bound of the model: what a damaged share becomes
          MaxReshares,   \* bound of the model
          Nothing, Err, Panic  \* no value yet, and how a call can fail

ASSUME SharingAssumption ==
  /\ MaxPoint \in 1 .. Order - 1 /\ MaxParties \in 1 .. MaxPoint
  /\ MaxThreshold \in Nat /\ MaxReshares \in Nat /\ Secrets \cup Damages \subseteq Scalar
  /\ Nothing \notin Scalar /\ Err \notin Scalar /\ Panic \notin Scalar
  /\ Cardinality({Nothing, Err, Panic}) = 3

VARIABLES vss,      \* VerifiableSS of every generation, the last one in force
          xs,       \* the points of the parties
          share,    \* the share each party holds
          parts,    \* the secret_shares of the last reshare
          gen,      \* history: the generation of a party's share; 0 once damaged
          secret,   \* history: the secret that was dealt
          last      \* the last reconstruction: [by, from, outcome]

vars == <<vss, xs, share, parts, gen, secret, last>>

Parties == DOMAIN xs
NoCall == [by |-> "none", from |-> <<>>, outcome |-> Nothing]

\* VerifiableSS of a polynomial, and get_point_commitment.
Vss(t, n, p) == [threshold |-> t, shareCount |-> n, commitments |-> p]
PointCommitment(v, x) == Evaluate(v.commitments, x)

\* validate_share
Validates(v, value, x) == value = PointCommitment(v, x)

\* lagrange_interpolation_at_zero, at distinct points.
\* Mutant: every term is divided by the points' own difference in reverse.
InterpolateAtZeroReversed(points, values) ==
  Total([i \in DOMAIN points |->
           LET but(f) == Product([m \in DOMAIN points |-> IF m = i THEN 1 ELSE f[m]], Len(points))
           IN  but(points) * Invert(but([m \in DOMAIN points |-> (points[i] - points[m]) % Order]))
                 * values[i]], Len(points))
InterpolateAtZero(points, values) ==
  Total([i \in DOMAIN points |->
           LET but(f) == Product([m \in DOMAIN points |-> IF m = i THEN 1 ELSE f[m]], Len(points))
           IN  but(points) * Invert(but([m \in DOMAIN points |-> (points[m] - points[i]) % Order]))
                 * values[i]], Len(points))

\* reconstruct, handed the indices of some parties (their points less one) and
\* the values they hold: too few, or a denominator that is zero, is a panic.
Repeats(sel) == \E j, k \in DOMAIN sel : j < k /\ sel[j] = sel[k]
PointsOf(sel) == [k \in DOMAIN sel |-> xs[sel[k]]]
Reconstructed(v, sel) ==
  IF Len(sel) < v.threshold + 1 \/ Repeats(sel) THEN Panic
  ELSE InterpolateAtZero(PointsOf(sel), [k \in DOMAIN sel |-> share[sel[k]]])

\* The sum the parties make of their shares, each mapped with
\* map_share_to_new_params: the threshold plays no part.
Mapped(sel) ==
  IF Repeats(sel) THEN Panic
  ELSE Total([k \in DOMAIN sel |-> LagrangeBasis(0, k, PointsOf(sel)) * share[sel[k]]], Len(sel))

-----------------------------------------------------------------------------
Init ==
  /\ vss = <<>> /\ xs = <<>> /\ share = <<>> /\ parts = <<>> /\ gen = <<>>
  /\ secret = Nothing /\ last = NoCall

\* The polynomial p is dealt to parties at points.
Deal(t, points, p) ==
  /\ vss = <<>>
  /\ vss' = <<Vss(t, Len(points), p)>>
  /\ xs' = points
  /\ share' = [i \in DOMAIN points |-> Evaluate(p, points[i])]
  /\ gen' = [i \in DOMAIN points |-> 1]
  /\ secret' = p[1]
  /\ UNCHANGED <<parts, last>>

\* share(t, n, secret), which asserts that t is below n.
Share(t, n, s) ==
  IF t < n THEN \E p \in SampleWithConstTerm(t, s) : Deal(t, [i \in 1 .. n |-> i], p)
           ELSE /\ vss = <<>> /\ last' = [by |-> "share", from |-> <<>>, outcome |-> Panic]
                /\ UNCHANGED <<vss, xs, share, parts, gen, secret>>

\* share_at_indices: the points are the caller's, and t is not checked.
ShareAtIndices(t, points, s) == \E p \in SampleWithConstTerm(t, s) : Deal(t, points, p)

\* reshare: a polynomial whose constant term is one, its values at 1 .. n less
\* one, and its commitments, but for the first, added to the old ones.  Mutants:
\* the one is not taken off; the first commitment is added too.
PartsWithOne(p) == [i \in Parties |-> Evaluate(p, i)]
Parts(p) == [i \in Parties |-> (Evaluate(p, i) - 1) % Order]
AllCommitmentsAdded(v, p) ==
  Vss(v.threshold, v.shareCount,
      [k \in DOMAIN v.commitments |-> (p[k] + v.commitments[k]) % Order])
CommitmentsAdded(v, p) ==
  Vss(v.threshold, v.shareCount,
      [k \in DOMAIN v.commitments |-> IF k = 1 THEN v.commitments[1]
                                      ELSE (p[k] + v.commitments[k]) % Order])
Reshare(p) ==
  /\ vss # <<>> /\ Len(vss) <= MaxReshares
  /\ \A i \in Parties : gen[i] \in {0, Len(vss)}
  /\ vss' = Append(vss, CommitmentsAdded(vss[Len(vss)], p))
  /\ parts' = Parts(p)
  /\ UNCHANGED <<xs, share, gen, secret, last>>

\* A party adds its part to its share.
Follow(i) ==
  /\ gen[i] = Len(vss) - 1 /\ gen[i] > 0
  /\ share' = [share EXCEPT ![i] = (@ + parts[i]) % Order]
  /\ gen' = [gen EXCEPT ![i] = Len(vss)]
  /\ UNCHANGED <<vss, xs, parts, secret, last>>

\* A share is damaged where it is kept or on its way: one of them at most.
Damage(i, value) ==
  /\ \A j \in Parties : gen[j] # 0
  /\ value # share[i]
  /\ share' = [share EXCEPT ![i] = value]
  /\ gen' = [gen EXCEPT ![i] = 0]
  /\ UNCHANGED <<vss, xs, parts, secret, last>>

\* reconstruct is called with the shares some parties hold, as they are or after
\* each has been checked with validate_share against the VSS in force; or the
\* mapped shares are added up.  What the model follows ends with the answer.
Callers == {"unchecked", "checked", "mapped"}
Outcome(by, sel) ==
  LET v == vss[Len(vss)]
  IN  IF by = "checked" /\ \E k \in DOMAIN sel : ~Validates(v, share[sel[k]], xs[sel[k]])
        THEN Err
      ELSE IF by = "mapped" THEN Mapped(sel)
      ELSE Reconstructed(v, sel)
Reconstruct(by, sel) ==
  /\ vss # <<>>
  /\ last' = [by |-> by, from |-> sel, outcome |-> Outcome(by, sel)]
  /\ UNCHANGED <<vss, xs, share, parts, gen, secret>>

Ascending(points) == \A i, j \in DOMAIN points : i < j => points[i] < points[j]
\* Some parties in order, one of them twice perhaps.
Selections == {sel \in UNION {[1 .. m -> Parties] : m \in 1 .. MaxParties} :
                 \A i, j \in DOMAIN sel : i < j => sel[i] <= sel[j]}

Next ==
  /\ last.by = "none"
  /\ \/ \E t \in 0 .. MaxThreshold, n \in 1 .. MaxParties, s \in Secrets : Share(t, n, s)
     \/ \E t \in 0 .. MaxThreshold, n \in 1 .. MaxParties, s \in Secrets :
          \E points \in [1 .. n -> 1 .. MaxPoint] :
            Ascending(points) /\ ShareAtIndices(t, points, s)
     \/ vss # <<>> /\ \E p \in SampleWithConstTerm(vss[Len(vss)].threshold, 1) : Reshare(p)
     \/ \E i \in Parties : Follow(i)
     \/ \E i \in Parties, value \in Damages : Damage(i, value)
     \/ \E by \in Callers, sel \in Selections : Reconstruct(by, sel)

Spec == Init /\ [][Next]_vars

-----------------------------------------------------------------------------
\* The parties' points are the ones share and reshare count through.
InOrder == \A i \in Parties : xs[i] = i

TypeOK ==
  /\ vss \in Seq([threshold : 0 .. MaxThreshold, shareCount : 1 .. MaxParties,
                  commitments : Seq(Scalar)])
  /\ xs \in Seq(1 .. MaxPoint) /\ share \in [Parties -> Scalar]
  /\ gen \in [Parties -> 0 .. Len(vss)] /\ secret \in Scalar \cup {Nothing}
  /\ last.outcome \in Scalar \cup {Panic, Err, Nothing}

\* Any threshold + 1 parties or more whose shares are of the generation in force
\* get the secret back, by reconstruct and by the mapped shares alike, while the
\* others have followed a reshare, have not, or have lost theirs (tests
\* test_secret_sharing_3_out_of_5, ..._at_indices, test_secret_resharing).
SharesReconstruct ==
  LET sel == last.from
  IN  /\ last.by \in Callers
      /\ Len(sel) > vss[1].threshold /\ ~Repeats(sel)
      /\ \A k \in DOMAIN sel : gen[sel[k]] = Len(vss)
      /\ Len(vss) = 1 \/ InOrder
      => last.outcome = secret

\* A share validates against the VSS in force, or against the one before, exactly
\* when it is of that generation, by number: against the other it is refused,
\* unless the part between the two happens to be zero (feldman_vss.rs:226-246).
SharesValidate ==
  \A i \in Parties, g \in DOMAIN vss :
    g >= Len(vss) - 1 /\ (g = 1 \/ InOrder) /\ gen[i] # 0 =>
      (Validates(vss[g], share[i], xs[i]) <=> gen[i] = g \/ parts[i] = 0)

\* threshold shares of a dealing rule out no more than threshold secrets, those
\* that would need a coefficient to be zero: the first t shares say nothing that
\* the nonzero coefficients of Scalar::random do not.
CompatibleSecrets(held) ==
  {s \in Scalar : \E p \in SampleWithConstTerm(vss[1].threshold, s) :
                    \A i \in held : Evaluate(p, xs[i]) = share[i]}
ThresholdHides ==
  Len(vss) = 1 /\ last.by = "none" /\ (\A i \in Parties : gen[i] = 1) =>
    \A held \in SUBSET Parties : Cardinality(held) <= vss[1].threshold =>
      Cardinality(CompatibleSecrets(held)) >= Order - vss[1].threshold

\* Sharing implements the dealt secret: with every share checked, no mixture of
\* generations, damage, resharing or choice of points reveals anything else.
Dealt == INSTANCE DealtSecret
           WITH Secrets  <- Scalar, Refused <- Err,
                revealed <- IF last.by # "checked" THEN Nothing
                            ELSE IF last.outcome = Panic THEN Err ELSE last.outcome
ImplementsDealtSecret == Dealt!Spec

\* "generates a new VSS for the same secret and a secret shares vector to match
\* the new commitments" (feldman_vss.rs:81): the shares of those who have
\* followed validate against them.
ReshareMatches ==
  \A i \in Parties : gen[i] = 2 => Validates(vss[2], share[i], xs[i])
=============================================================================
