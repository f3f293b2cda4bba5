------------------------------- MODULE Primes -------------------------------
(***************************************************************************)
(* Testing for primes and searching for the next, as the num-bigint build  *)
(* of curv does (curv/src/arithmetic/big_native/primes.rs): small factors, *)
(* rounds of Miller-Rabin with drawn bases and a last one with base two,   *)
(* and a Lucas test.  The bases come from a generator seeded by the        *)
(* number, of which nothing is assumed.                                    *)
(***************************************************************************)
EXTENDS Integers, Sequences

CONSTANTS Tested,  \* bound: numbers given to is_probable_prime
          Reps,    \* bound: rounds asked for
          Starts,  \* bound: numbers given to next_prime
          NextReps,\* rounds that next_prime asks for: 20 in the code
          Bases,   \* bound: bases that may be drawn
          Nothing

VARIABLES pc,
          n,         \* the number tested, or res of next_prime
          start,     \* what next_prime was given; Nothing for is_probable_prime
          sieve,     \* [moduli, incr, difference] of next_prime
          reps,      \* rounds to do
          round,     \* rounds done
          y, squares,\* of the round
          p,         \* of the Lucas test
          v, bits,   \* <<V(k), V(k+1)>>, and the bits of s that are left, or squarings
          tried,     \* history: bases with which a round was begun
          verdict

vars == <<pc, n, start, sieve, reps, round, y, squares, p, v, bits, tried, verdict>>

SmallPrimes == {2, 3, 5, 7, 11, 13, 17, 19, 23, 29, 31, 37, 41, 43, 47, 53, 59, 61}
TrialPrimes == {3, 5, 7, 11, 13, 17, 19, 23, 37, 29, 31, 41, 43, 47, 53}
\* The odd primes that PRIME_GAP steps through (those a search here can need).
SievePrimes == <<3, 5, 7, 11, 13, 17, 19>>

Halved(a) == LET odd[b \in Nat] == IF b % 2 = 1 THEN b ELSE odd[b \div 2] IN odd[a]
TrailingZeros(a) == LET tz[b \in Nat] == IF b % 2 = 1 THEN 0 ELSE 1 + tz[b \div 2] IN tz[a]
BitLength(a) == LET len[b \in Nat] == IF b = 0 THEN 0 ELSE 1 + len[b \div 2] IN len[a]
\* Products modulo m < 2^22, a byte of b at a time: TLC's integers have 32 bits.
MulMod(a, b, m) ==
  LET Byte(k) == (b \div 256^k) % 256
  IN  (((((a * Byte(2)) % m) * 256 + a * Byte(1)) % m) * 256 + a * Byte(0)) % m
ModPow(a, e, m) ==
  LET pow[k \in Nat] == IF k = 0 THEN 1
                        ELSE LET h == MulMod(pow[k \div 2], pow[k \div 2], m)
                             IN  IF k % 2 = 1 THEN MulMod(h, a, m) ELSE h
  IN  pow[e]

\* jacobi, of a number and an odd one, neither negative.
Jacobi(x, m) ==
  LET jac[a \in Nat, b \in Nat] ==
        IF b = 1 THEN 1
        ELSE IF a % b = 0 THEN 0
        ELSE LET r == a % b
                 c == Halved(r)
                 twos == IF TrailingZeros(r) % 2 = 1 /\ b % 8 \in {3, 5} THEN -1 ELSE 1
                 swap == IF b % 4 = 3 /\ c % 4 = 3 THEN -1 ELSE 1
             IN  twos * swap * jac[b, c]
  IN  jac[x, m]

Init == /\ pc = "idle" /\ n = 0 /\ start = Nothing /\ sieve = <<>> /\ reps = 0 /\ round = 0 /\ y = 0
        /\ squares = 0 /\ p = 0 /\ v = <<>> /\ bits = 0 /\ tried = {} /\ verdict = FALSE

NewTest(x, k) == /\ n' = x /\ reps' = k + 1 /\ round' = 0 /\ tried' = {} /\ pc' = "screen"
Same == UNCHANGED <<n, start, sieve, reps>>
\* The test's answer; next_prime goes on to the next candidate that is not cancelled.
Judge(b) ==
  /\ verdict' = b
  /\ IF start = Nothing \/ b
       THEN pc' = "done" /\ UNCHANGED sieve
       ELSE pc' = "sieve" /\ sieve' = [sieve EXCEPT !.difference = 2, !.incr = @ + 2]

\* is_probable_prime.
IsProbablePrime(x, k) ==
  /\ pc = "idle"
  /\ IF x > 0 THEN NewTest(x, k) /\ UNCHANGED verdict
              ELSE pc' = "done" /\ verdict' = FALSE /\ n' = x /\ UNCHANGED <<reps, round, tried>>
  /\ UNCHANGED <<start, sieve, y, squares, p, v, bits>>

\* probably_prime, up to the rounds.
Screen ==
  /\ pc = "screen"
  /\ IF n < 64 THEN Judge(n \in SmallPrimes)
     ELSE IF n % 2 = 0 \/ \E q \in TrialPrimes : n % q = 0 THEN Judge(FALSE)
     ELSE pc' = "round" /\ UNCHANGED <<verdict, sieve>>
  /\ UNCHANGED <<n, start, reps, round, y, squares, p, v, bits, tried>>

\* A round of Miller-Rabin: the last is with base two.
\* Only a first power of 1 or -1 goes on to the next.  Mutant: it leaves them all.
AllRounds == reps
NextRound == round + 1
RoundBases == IF round = reps - 1 THEN {2} ELSE Bases \cap 2 .. n - 2
Round ==
  /\ pc = "round" /\ round < reps
  /\ \E x \in RoundBases :
       LET z == ModPow(x, Halved(n - 1), n)
       IN  IF z \in {1, n - 1}
             THEN round' = NextRound /\ tried' = tried \cup {x} /\ UNCHANGED <<pc, y, squares>>
             ELSE pc' = "square" /\ y' = z /\ squares' = 1 /\ tried' = tried \cup {x}
                  /\ UNCHANGED round
  /\ Same /\ UNCHANGED <<p, v, bits, verdict>>

\* Its squarings.  The first that gives -1 leaves the loop over the rounds, not just
\* the round.
LastSquaring == squares >= TrailingZeros(n - 1)
Square ==
  /\ pc = "square"
  /\ IF LastSquaring THEN Judge(FALSE) /\ UNCHANGED <<y, squares>>
     ELSE LET z == MulMod(y, y, n)
          IN  /\ y' = z /\ squares' = squares + 1
              /\ IF z = n - 1 THEN pc' = "lucas" /\ UNCHANGED <<verdict, sieve>>
                 ELSE IF z = 1 THEN Judge(FALSE)
                 ELSE UNCHANGED <<pc, verdict, sieve>>
  /\ UNCHANGED <<n, start, reps, round, p, v, bits, tried>>

\* probably_prime_lucas after the rounds.  Mutant: the rounds are enough.
NoLucas == Judge(TRUE)
ThenLucas == pc' = "lucas" /\ UNCHANGED <<verdict, sieve>>
RoundsDone ==
  /\ pc = "round" /\ round = reps
  /\ ThenLucas
  /\ UNCHANGED <<n, start, reps, round, y, squares, p, v, bits, tried>>

\* The search for p, from 3, with (p*p - 4 / n) = -1.  Its test for a square compares
\* the root of n*n with n, so that it is passed by every n that comes as far as 40.
SearchP ==
  /\ pc = "lucas"
  /\ LET q == IF p = 0 THEN 3 ELSE p
         j == Jacobi(q * q - 4, n)
     IN  \/ /\ j = -1 /\ pc' = "chain" /\ p' = q
            /\ v' = <<2, q>> /\ bits' = BitLength(Halved(n + 1)) /\ UNCHANGED <<verdict, sieve>>
         \/ /\ j = 0 /\ Judge(n = q + 2) /\ p' = 0 /\ UNCHANGED <<v, bits>>
         \/ /\ j = 1 /\ q = 40 /\ Judge(FALSE) /\ p' = 0 /\ UNCHANGED <<v, bits>>
         \/ /\ j = 1 /\ q # 40 /\ p' = q + 1 /\ UNCHANGED <<pc, v, bits, verdict, sieve>>
  /\ UNCHANGED <<n, start, reps, round, y, squares, tried>>

\* V(2k) and V(2k+1), of <<V(k), V(k+1)>>.
Twice(a) == (MulMod(a, a, n) + n - 2) % n
Between(w) == (MulMod(w[1], w[2], n) + n - p) % n
\* A bit of s, from its first.
Chain ==
  /\ pc = "chain" /\ bits > 0
  /\ v' = IF (Halved(n + 1) \div 2^(bits - 1)) % 2 = 1 THEN <<Between(v), Twice(v[2])>>
                                                       ELSE <<Twice(v[1]), Between(v)>>
  /\ bits' = bits - 1
  /\ Same /\ UNCHANGED <<pc, round, y, squares, p, tried, verdict>>

\* U(s) = 0 and V(s) = 2 or -2.
UIsZero == v[1] \in {2, n - 2} /\ (MulMod(v[1], p, n) - 2 * v[2]) % n = 0
ChainDone ==
  /\ pc = "chain" /\ bits = 0
  /\ IF UIsZero THEN Judge(TRUE) /\ UNCHANGED bits
     ELSE pc' = "doublings" /\ bits' = TrailingZeros(n + 1) - 1 /\ UNCHANGED <<verdict, sieve>>
  /\ p' = 0 /\ UNCHANGED <<n, start, reps, round, y, squares, v, tried>>

\* V(2^t s) = 0.  (V(s) = 1 would make the subtraction of BigUint panic.)
Doublings ==
  /\ pc = "doublings"
  /\ IF bits = 0 THEN Judge(FALSE) /\ UNCHANGED <<v, bits>>
     ELSE IF v[1] = 0 THEN Judge(TRUE) /\ UNCHANGED <<v, bits>>
     ELSE IF v[1] = 2 THEN Judge(FALSE) /\ UNCHANGED <<v, bits>>
     ELSE IF v[1] = 1 THEN pc' = "panic" /\ UNCHANGED <<v, bits, verdict, sieve>>
     ELSE v' = [v EXCEPT ![1] = Twice(v[1])] /\ bits' = bits - 1 /\ UNCHANGED <<pc, verdict, sieve>>
  /\ UNCHANGED <<n, start, reps, round, y, squares, p, tried>>

\* next_prime: the odd number after the given one, and the "residues" of the sieve,
\* which are its quotients.  Mutant: the number itself if it is odd.
OddFrom(x) == IF x % 2 = 0 THEN x + 1 ELSE x
OddAfter(x) == IF x % 2 = 0 THEN x + 1 ELSE x + 2
NextPrime(x) ==
  /\ pc = "idle" /\ start' = x
  /\ IF x < 2 THEN n' = 2 /\ pc' = "done" /\ verdict' = TRUE /\ UNCHANGED sieve
     ELSE /\ n' = OddAfter(x)
          /\ IF n' < 7 THEN pc' = "done" /\ verdict' = TRUE /\ UNCHANGED sieve
             ELSE /\ pc' = "sieve" /\ UNCHANGED verdict
                  /\ sieve' = [moduli |-> [i \in 1 .. BitLength(n') \div 2 |-> n' \div SievePrimes[i]],
                               incr |-> 0, difference |-> 0]
  /\ UNCHANGED <<reps, round, y, squares, p, v, bits, tried>>

\* A turn of its inner loop.
Cancelled(s) == \E i \in DOMAIN s.moduli : (s.moduli[i] + s.incr) % SievePrimes[i] = 0
Candidate ==
  /\ pc = "sieve"
  /\ IF Cancelled(sieve)
       THEN /\ sieve' = [sieve EXCEPT !.difference = @ + 2, !.incr = @ + 2]
            /\ UNCHANGED <<pc, n, reps, round, tried>>
       ELSE /\ NewTest(n + sieve.difference, NextReps) /\ UNCHANGED sieve
  /\ UNCHANGED <<start, y, squares, p, v, bits, verdict>>

Next ==
  \/ \E x \in Tested, k \in Reps : IsProbablePrime(x, k)
  \/ \E x \in Starts : NextPrime(x)
  \/ Screen \/ Round \/ Square \/ RoundsDone \/ SearchP \/ Chain \/ ChainDone \/ Doublings \/ Candidate

Spec == Init /\ [][Next]_vars

-----------------------------------------------------------------------------
IsPrime(x) == LET root == CHOOSE r \in 0 .. x : r * r <= x /\ (r + 1) * (r + 1) > x
              IN  x > 1 /\ \A d \in 2 .. root : x % d # 0

\* "If number is prime, is_probable_prime always returns true" (traits.rs:262): no
\* choice of bases and no turn of the Lucas test refuses a prime.
PrimesPass == pc = "done" /\ start = Nothing /\ ~verdict => ~IsPrime(n)

\* A number that has passed its round with base two and the Lucas test is prime, as
\* "100% accurate for inputs less than 2^64" (primes.rs:68) promises, and no number
\* makes the Lucas test panic.  (What other answers are worth says RoundsHold.)
CompositesRefused ==
  /\ pc = "done" /\ start = Nothing /\ verdict /\ (n < 64 \/ 2 \in tried) => IsPrime(n)
  /\ pc # "panic"

\* What an answer is worth when the loop over the rounds was left early
\* (primes.rs:168): the number is a strong probable prime to every base tried all the
\* same, and only after a base whose power was squared into -1 can the base two,
\* "forced" by primes.rs:112-115, be missing.
FirstPower(x) == ModPow(x, Halved(n - 1), n)
StrongProbablePrime(x) ==
  \/ FirstPower(x) = 1
  \/ \E i \in 0 .. TrailingZeros(n - 1) - 1 : ModPow(x, 2^i * Halved(n - 1), n) = n - 1
RoundsHold ==
  pc = "done" /\ verdict /\ n >= 64 =>
    /\ \A x \in tried : StrongProbablePrime(x)
    /\ 2 \in tried \/ \E x \in tried : FirstPower(x) \notin {1, n - 1}

\* What the search returns is above what it was given, and prime.
NextIsPrime ==
  pc = "done" /\ start # Nothing /\ (n < 64 \/ 2 \in tried) => n > start /\ IsPrime(n)

\* "Calculate the next larger prime, given a starting number" (primes.rs:372): the
\* search passes over no prime.
NextSkipsNone ==
  pc = "done" /\ start # Nothing => \A x \in start + 1 .. n - 1 : ~IsPrime(x)
===============================================================================
