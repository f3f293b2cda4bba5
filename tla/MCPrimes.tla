------------------------------ MODULE MCPrimes ------------------------------
(* Two instances: one prime that the Lucas test meets without an early P, and  *)
(* the numbers up to 120 as starts of a search.                                *)
EXTENDS Primes
MCReps     == {0, 2}
MCStarts   == -1 .. 120
MCBases    == {2, 3, 7, 1000, 3769, 4426}
MCRefused  == {3818929}
===============================================================================
