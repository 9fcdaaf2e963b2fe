---------------------------- MODULE DivModLemmas ----------------------------
(***************************************************************************)
(* Quotients and remainders: the digits of a calendar value.               *)
(***************************************************************************)
EXTENDS Integers, TLAPS

\* A number is its quotient and its remainder put together again.
LEMMA DivMod ==
  ASSUME NEW n \in Nat, NEW s \in Nat \ {0}
  PROVE  /\ n \div s \in Nat /\ n % s \in 0 .. s - 1 /\ n % s \in Nat
         /\ n = (n \div s) * s + (n % s)
OBVIOUS

\* ... and there is one way only to take it apart.
LEMMA DivUnique ==
  ASSUME NEW s \in Nat \ {0}, NEW q \in Nat, NEW r \in 0 .. s - 1
  PROVE  (q * s + r) \div s = q /\ (q * s + r) % s = r
OBVIOUS

\* The quotient of a greater number is not less.
LEMMA DivMonotonic ==
  ASSUME NEW s \in Nat \ {0}, NEW m \in Nat, NEW n \in Nat, m <= n
  PROVE  m \div s <= n \div s
OBVIOUS

\* The quotient of a number of two digits is a digit.
LEMMA DivBound ==
  ASSUME NEW s \in Nat \ {0}, NEW t \in Nat \ {0}, NEW n \in 0 .. s * t - 1
  PROVE  n \div s \in 0 .. t - 1
OBVIOUS

\* To divide twice is to divide by the product.
LEMMA DivDiv ==
  ASSUME NEW s \in Nat \ {0}, NEW t \in Nat \ {0}, NEW n \in Nat
  PROVE  (n \div s) \div t = n \div (s * t)
OBVIOUS

\* Two digits make a number of two digits.
LEMMA Compose ==
  ASSUME NEW s \in Nat \ {0}, NEW t \in Nat \ {0}, NEW a \in 0 .. t - 1, NEW b \in 0 .. s - 1
  PROVE  a * s + b \in 0 .. s * t - 1
OBVIOUS

\* The s-digits of a number are those of its low part.
LEMMA LowDigits ==
  ASSUME NEW s \in Nat \ {0}, NEW t \in Nat \ {0}, NEW n \in Nat
  PROVE  /\ (n % (s * t)) % s = n % s
         /\ (n % (s * t)) \div s = (n \div s) % t
<1>1. PICK m \in Nat, b \in 0 .. s - 1 : n = m * s + b
  BY DivMod
<1>2. PICK q \in Nat, a \in 0 .. t - 1 : m = q * t + a
  BY DivMod
<1>3. n \div s = m /\ n % s = b /\ m % t = a
  BY <1>1, <1>2, DivUnique
<1>4. (q * t + a) * s + b = q * (s * t) + (a * s + b)
  OBVIOUS
<1>5. s * t \in Nat \ {0} /\ a * s + b \in 0 .. s * t - 1
  BY Compose
<1>6. n = q * (s * t) + (a * s + b)
  BY <1>1, <1>2, <1>4
<1>7. \A u \in Nat \ {0} : \A v \in 0 .. u - 1 : (q * u + v) % u = v
  BY DivUnique
<1>8. n % (s * t) = a * s + b
  BY <1>5, <1>6, <1>7, Zenon
<1>9. (a * s + b) % s = b /\ (a * s + b) \div s = a
  BY DivUnique
<1> QED
  BY <1>3, <1>8, <1>9

\* A number read in two parts, the high one earlier, is not ahead.
LEMMA SlowFirst ==
  ASSUME NEW s \in Nat \ {0}, NEW n \in Nat, NEW high \in Nat, high <= n \div s
  PROVE  high * s + (n % s) <= n
OBVIOUS
=============================================================================
