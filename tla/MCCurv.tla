-------------------------------- MODULE MCCurv --------------------------------
(***************************************************************************)
(* The layers of curv below its protocols, one in each behaviour: the      *)
(* samplers, egcd and byte forms of big integers; the prime tests, on      *)
(* numbers about every branch: up to 200 and, above 53 * 53, primes, a     *)
(* square of a prime, composites that pass the rounds with base two        *)
(* (42799, 49141) or the Lucas test (10877, whose bases 3769 and 4426 end  *)
(* in -1); the wrappers of curves, over six nonzero points of a curve over *)
(* F_13 and twenty of a curve of 21 elements; their serialization, with    *)
(* the lengths of secp256k1; the proofs of knowledge over the field of     *)
(* three elements; HMAC codes of two bytes of four values and trees of one *)
(* to five leaves; and the circuit of a tree of two or four keys.          *)
(***************************************************************************)
EXTENDS BigIntegers, SigmaProofs, Hashing, MerkleCircuit, CurveWrappers, MCCurveSerde

VARIABLES part,                                            \* the part that runs
          n, start, sieve, reps, round, y, squares, p, v, bits, tried, stage, verdict    \* Primes

MCOperands == -13..13

MCPolys      == {<<0, 0>>, <<1>>, <<2, 1>>, <<1, 2, 0>>, <<0, 1, 2>>}
MCAlphas     == {<<1, 2>>, <<0, 1, 2>>, <<2, 1, 2>>}
MCGenerators == {<<1, 2>>, <<1, 2, 2>>}

PT == INSTANCE Primes
        WITH pc <- stage, Tested <- (-1 .. 200) \cup {257, 3481, 3599, 3721, 7919, 10877, 12289,
                                                      29341, 42799, 49141},
             Reps <- {0, 2}, Starts <- -1 .. 120, NextReps <- 1, Bases <- {2, 3, 7, 1000, 3769, 4426},
             Nothing <- None

MCNumbers == -8..8
MCCoordinates ==
  [l \in Libraries |->
     IF l = "secp256k1" THEN <<<<7, 5>>, <<8, 5>>, <<11, 8>>, <<11, 5>>, <<8, 8>>, <<7, 8>>>>
                        ELSE [i \in 1..20 |-> <<i % 4, 3 * (i \div 4)>>]]
\* Those of all elements, the flag of the zero point, and some of none.
MCGiven == UNION {{MCCoordinates[l][e] : e \in Elements(l)} : l \in Libraries}
             \cup {<<4, 0>>, <<4, 3>>, <<0, 1>>, <<5, 7>>, <<15, 15>>}

-----------------------------------------------------------------------------
primeVars == <<n, start, sieve, reps, round, y, squares, p, v, bits, tried, stage, verdict>>

NoInteger == pc = "none" /\ a = 0 /\ b = 0 /\ old = 0 /\ now = 0 /\ result = 0
NoPrimes  == /\ n = 0 /\ start = 0 /\ sieve = 0 /\ reps = 0 /\ round = 0 /\ y = 0 /\ squares = 0
             /\ p = 0 /\ v = 0 /\ bits = 0 /\ tried = 0 /\ stage = 0 /\ verdict = 0
\* The parts that do not run are in one of their first states.
NoCurve   == lib = "secp256k1" /\ WrapInit
NoSerde   == /\ sort = "point" /\ format = "json" /\ shape = "map" /\ written = None /\ SerdeInit
NoCircuit == tree = <<"zero", "zero">> /\ CircuitInit

\* No proof of knowledge is the first state of SigmaProofs.
AllInit ==
  /\ SigmaInit /\ HashInit
  /\ \/ part = "integers" /\ Init /\ NoPrimes /\ NoCurve /\ NoSerde /\ NoCircuit
     \/ part = "primes" /\ PT!Init /\ NoInteger /\ NoCurve /\ NoSerde /\ NoCircuit
     \/ part = "curves" /\ WrapInit /\ NoInteger /\ NoPrimes /\ NoSerde /\ NoCircuit
     \/ part = "serde" /\ SerdeInit /\ NoInteger /\ NoPrimes /\ NoCurve /\ NoCircuit
     \/ part \in {"sigma", "hashing"} /\ NoInteger /\ NoPrimes /\ NoCurve /\ NoSerde /\ NoCircuit
     \/ part = "circuit" /\ CircuitInit /\ NoInteger /\ NoPrimes /\ NoCurve /\ NoSerde

Integer  == /\ part = "integers" /\ Next
            /\ UNCHANGED <<part, primeVars, wrapVars, serdeVars, sigmaVars, hashVars, circuitVars>>
Primes   == /\ part = "primes" /\ PT!Next
            /\ UNCHANGED <<part, vars, wrapVars, serdeVars, sigmaVars, hashVars, circuitVars>>
Curves   == /\ part = "curves" /\ WrapNext
            /\ UNCHANGED <<part, vars, primeVars, serdeVars, sigmaVars, hashVars, circuitVars>>
Serde    == /\ part = "serde" /\ SerdeNext
            /\ UNCHANGED <<part, vars, primeVars, wrapVars, sigmaVars, hashVars, circuitVars>>
Sigma    == /\ part = "sigma" /\ SigmaNext
            /\ UNCHANGED <<part, vars, primeVars, wrapVars, serdeVars, hashVars, circuitVars>>
Digested == /\ part = "hashing" /\ HashNext
            /\ UNCHANGED <<part, vars, primeVars, wrapVars, serdeVars, sigmaVars, circuitVars>>
Circuits == /\ part = "circuit" /\ CircuitNext
            /\ UNCHANGED <<part, vars, primeVars, wrapVars, serdeVars, sigmaVars, hashVars>>

AllNext == Integer \/ Primes \/ Curves \/ Serde \/ Sigma \/ Digested \/ Circuits

allVars == <<part, vars, primeVars, wrapVars, serdeVars, sigmaVars, hashVars, circuitVars>>

AllSpec == AllInit /\ [][AllNext]_allVars /\ Fairness

-----------------------------------------------------------------------------
\* is_probable_prime refuses no prime and, after a round with base two, passes no
\* composite, nor does its Lucas test panic (primes.rs:68, traits.rs:262).  What
\* it passes is a strong probable prime to each base it tried, two among them unless
\* a squaring gave -1, which leaves all the rounds (primes.rs:168).
TestsDecide == part = "primes" => PT!PrimesPass /\ PT!CompositesRefused /\ PT!RoundsHold

\* next_prime returns a prime above what it was given (primes.rs:372).
NextIsPrime == part = "primes" => PT!NextIsPrime
===============================================================================
