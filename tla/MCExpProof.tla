------------------------------ MODULE MCExpProof ------------------------------
(* The curve y^2 = x^3 + 3 over F_7, of order 13.  The alphas include those that *)
(* make T or t1 the identity, and t1 equal or opposite to the committed point.   *)
EXTENDS ExpProof
MCGenerator == <<1, 2>>
MCExps    == {4}
MCQs      == {0, 3}
MCAlphas  == {0, 1, 2, 4, 6, 8}
MCOffsets == {0, 5}
MCLevels  == {2, 3}
MCMasks == <<4, 7, 10>>
===============================================================================
