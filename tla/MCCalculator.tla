----------------------------- MODULE MCCalculator -----------------------------
(* Zero and one more digit tell place, point and division by zero apart; every
   other key is there.  Nine presses leave five before a whole sum of digits,
   and fit a whole sum of decimals.  Fractions within 10000 multiply in 32 bits. *)
EXTENDS Calculator

TwoDigits == {0, 2}
ThreePlaces == 3
TenThousand == 10000
NineKeys == 9
=============================================================================
