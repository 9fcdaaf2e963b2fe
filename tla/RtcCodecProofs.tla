---------------------------- MODULE RtcCodecProofs ----------------------------
(***************************************************************************)
(* Proofs about RtcCodec, for every time and every date that the calls can *)
(* be given.                                                               *)
(*                                                                         *)
(* A register holds what the last call that wrote it has put there; a      *)
(* field that is not cut, and that no other one reaches, is read back.     *)
(***************************************************************************)
EXTENDS RtcCodec, TLAPS

TimeType == [hour : 0 .. 23, minute : 0 .. 59, seconds : 0 .. 59]
DateType == [day : 1 .. 31, month : 1 .. 12, year : Years, week : 0 .. 273]

\* The year that DR was given.
WrittenYear == IF dateBy = "set_date_rtc" THEN date.year ELSE YearOffset(date.year)

IInv ==
  /\ time \in TimeType /\ date \in DateType /\ status \in {0, -2}
  /\ dateBy # "set_date_rtc" => YearOffset(date.year) <= BSD_MAX_YEAR
  /\ tr = TrOf(time) /\ dr = DrOf(date, WrittenYear)

-----------------------------------------------------------------------------
(* Fields.                                                                 *)

\* The weights of the bits of a byte.
LEMMA Weights ==
  2^0 = 1 /\ 2^1 = 2 /\ 2^2 = 4 /\ 2^3 = 8 /\ 2^4 = 16 /\ 2^5 = 32 /\ 2^6 = 64 /\ 2^7 = 128
BY SMT

Bit(reg, p, weight) == IF p \in reg THEN weight ELSE 0

Sum1(reg, pos) == Bit(reg, pos, 1)
Sum2(reg, pos) == Sum1(reg, pos) + Bit(reg, pos + 1, 2)
Sum3(reg, pos) == Sum2(reg, pos) + Bit(reg, pos + 2, 4)
Sum4(reg, pos) == Sum3(reg, pos) + Bit(reg, pos + 3, 8)
Sum8(reg, pos) == Sum4(reg, pos) + Bit(reg, pos + 4, 16) + Bit(reg, pos + 5, 32)
                                 + Bit(reg, pos + 6, 64) + Bit(reg, pos + 7, 128)

\* The sum of the weights of the bits that are set, for the widths that fields have.
LEMMA ValueIsSum ==
  ASSUME NEW reg, NEW pos \in Nat
  PROVE  /\ Value(reg, pos, 1) = Sum1(reg, pos) /\ Value(reg, pos, 2) = Sum2(reg, pos)
         /\ Value(reg, pos, 3) = Sum3(reg, pos) /\ Value(reg, pos, 4) = Sum4(reg, pos)
         /\ Value(reg, pos, 8) = Sum8(reg, pos)
<1> DEFINE T(i) == IF pos + i - 1 \in reg THEN 2^(i - 1) ELSE 0
           G(i) == CASE i = 0 -> 0
                     [] i = 1 -> T(1)
                     [] i = 2 -> T(1) + T(2)
                     [] i = 3 -> T(1) + T(2) + T(3)
                     [] i = 4 -> T(1) + T(2) + T(3) + T(4)
                     [] i = 5 -> T(1) + T(2) + T(3) + T(4) + T(5)
                     [] i = 6 -> T(1) + T(2) + T(3) + T(4) + T(5) + T(6)
                     [] i = 7 -> T(1) + T(2) + T(3) + T(4) + T(5) + T(6) + T(7)
                     [] i = 8 -> T(1) + T(2) + T(3) + T(4) + T(5) + T(6) + T(7) + T(8)
<1>1. /\ T(1) = Bit(reg, pos, 1) /\ T(2) = Bit(reg, pos + 1, 2) /\ T(3) = Bit(reg, pos + 2, 4)
      /\ T(4) = Bit(reg, pos + 3, 8) /\ T(5) = Bit(reg, pos + 4, 16)
      /\ T(6) = Bit(reg, pos + 5, 32) /\ T(7) = Bit(reg, pos + 6, 64)
      /\ T(8) = Bit(reg, pos + 7, 128)
  BY Weights DEF Bit
<1>2. \A i \in 1 .. 8 : T(i) \in Int
  <2> SUFFICES ASSUME NEW i \in 1 .. 8 PROVE T(i) \in Int
    OBVIOUS
  <2> QED
    BY <1>1 DEF Bit
<1> HIDE DEF T
<1>3. \A i \in 1 .. 8 : G(i) = G(i - 1) + T(i)
  <2> SUFFICES ASSUME NEW i \in 1 .. 8 PROVE G(i) = G(i - 1) + T(i)
    OBVIOUS
  <2>1. i \in {1, 2, 3, 4, 5, 6, 7, 8}
    OBVIOUS
  <2> QED
    BY <1>2, <2>1
<1>4. ASSUME NEW w \in 1 .. 8 PROVE Value(reg, pos, w) = G(w)
  <2> DEFINE Rec(f) == [i \in 0 .. w |-> IF i = 0 THEN 0 ELSE f[i - 1] + T(i)]
             g == [i \in 0 .. w |-> G(i)]
             S == CHOOSE f : f = Rec(f)
  <2>1. g = Rec(g)
    <3>1. \A i \in 0 .. w : g[i] = IF i = 0 THEN 0 ELSE g[i - 1] + T(i)
      <4> SUFFICES ASSUME NEW i \in 0 .. w PROVE g[i] = IF i = 0 THEN 0 ELSE g[i - 1] + T(i)
        OBVIOUS
      <4>1. CASE i = 0
        BY <4>1
      <4>2. CASE i # 0
        <5>1. i \in 1 .. 8 /\ i - 1 \in 0 .. w
          BY <4>2
        <5> HIDE DEF G
        <5> QED
          BY <1>3, <4>2, <5>1
      <4> QED
        BY <4>1, <4>2
    <3> HIDE DEF G, T
    <3> QED
      BY <3>1
  <2>2. S = Rec(S)
    BY <2>1, Zenon
  <2>3. Value(reg, pos, w) = S[w]
    BY DEF Value, T
  <2> HIDE DEF S
  <2>4. \A i \in 0 .. w : S[i] = IF i = 0 THEN 0 ELSE S[i - 1] + T(i)
    BY <2>2
  <2> HIDE DEF Rec
  <2>5. S[0] = G(0) /\ \A i \in 1 .. w : S[i - 1] = G(i - 1) => S[i] = G(i)
    <3>1. S[0] = G(0)
      BY <2>4
    <3>2. ASSUME NEW i \in 1 .. w, S[i - 1] = G(i - 1) PROVE S[i] = G(i)
      <4> HIDE DEF G
      <4>1. i \in 0 .. w /\ i # 0 /\ i \in 1 .. 8
        OBVIOUS
      <4> QED
        BY <1>3, <2>4, <3>2, <4>1
    <3> QED
      BY <3>1, <3>2
  <2> HIDE DEF G
  <2>7. w >= 1 => S[1] = G(1)
    BY <2>5
  <2>8. w >= 2 => S[2] = G(2)
    BY <2>5, <2>7
  <2>9. w >= 3 => S[3] = G(3)
    BY <2>5, <2>8
  <2>10. w >= 4 => S[4] = G(4)
    BY <2>5, <2>9
  <2>11. w >= 5 => S[5] = G(5)
    BY <2>5, <2>10
  <2>12. w >= 6 => S[6] = G(6)
    BY <2>5, <2>11
  <2>13. w >= 7 => S[7] = G(7)
    BY <2>5, <2>12
  <2>14. w >= 8 => S[8] = G(8)
    BY <2>5, <2>13
  <2>15. w \in {1, 2, 3, 4, 5, 6, 7, 8}
    OBVIOUS
  <2> QED
    BY <2>3, <2>7, <2>8, <2>9, <2>10, <2>11, <2>12, <2>13, <2>14, <2>15
<1>5. /\ G(1) = Sum1(reg, pos) /\ G(2) = Sum2(reg, pos) /\ G(3) = Sum3(reg, pos)
      /\ G(4) = Sum4(reg, pos) /\ G(8) = Sum8(reg, pos)
  BY <1>1 DEF Sum1, Sum2, Sum3, Sum4, Sum8
<1> HIDE DEF G
<1> QED
  BY <1>4, <1>5

\* The bits of a register that a value of this width puts at this position.
Holds(reg, pos, w, v) == \A i \in 0 .. w - 1 : pos + i \in reg <=> (v \div 2^i) % 2 = 1

\* A field reaches no bit outside its own, and puts the value into those.
LEMMA FieldRange ==
  ASSUME NEW v, NEW pos \in Nat, NEW w \in Nat
  PROVE  Field(v, pos, w) \subseteq pos .. pos + w - 1 /\ Holds(Field(v, pos, w), pos, w, v)
<1>1. Field(v, pos, w) \subseteq pos .. pos + w - 1
  BY DEF Field
<1>2. ASSUME NEW i \in 0 .. w - 1
      PROVE  pos + i \in Field(v, pos, w) <=> (v \div 2^i) % 2 = 1
  <2>1. ASSUME NEW j \in 0 .. w - 1, pos + i = pos + j PROVE i = j
    BY <2>1
  <2> QED
    BY <2>1 DEF Field
<1> QED
  BY <1>1, <1>2 DEF Holds

\* A value that is held, and fits the width, is read back.
LEMMA HeldReadsBack ==
  ASSUME NEW reg, NEW pos \in Nat, NEW v \in Nat
  PROVE  /\ v < 2  /\ Holds(reg, pos, 1, v) => Value(reg, pos, 1) = v
         /\ v < 4  /\ Holds(reg, pos, 2, v) => Value(reg, pos, 2) = v
         /\ v < 8  /\ Holds(reg, pos, 3, v) => Value(reg, pos, 3) = v
         /\ v < 16 /\ Holds(reg, pos, 4, v) => Value(reg, pos, 4) = v
<1> DEFINE b0 == IF v % 2 = 1 THEN 1 ELSE 0
           b1 == IF (v \div 2) % 2 = 1 THEN 2 ELSE 0
           b2 == IF (v \div 4) % 2 = 1 THEN 4 ELSE 0
           b3 == IF (v \div 8) % 2 = 1 THEN 8 ELSE 0
<1>1. /\ v < 2 => b0 = v
      /\ v < 4 => b0 + b1 = v
      /\ v < 8 => b0 + b1 + b2 = v
      /\ v < 16 => b0 + b1 + b2 + b3 = v
  OBVIOUS
<1>2. ASSUME NEW w \in {1, 2, 3, 4}, Holds(reg, pos, w, v)
      PROVE  /\ Bit(reg, pos, 1) = b0
             /\ w > 1 => Bit(reg, pos + 1, 2) = b1
             /\ w > 2 => Bit(reg, pos + 2, 4) = b2
             /\ w > 3 => Bit(reg, pos + 3, 8) = b3
  <2>1. 0 \in 0 .. w - 1 /\ (w > 1 => 1 \in 0 .. w - 1) /\ (w > 2 => 2 \in 0 .. w - 1)
        /\ (w > 3 => 3 \in 0 .. w - 1)
    OBVIOUS
  <2>2. \A i \in 0 .. w - 1 : pos + i \in reg <=> (v \div 2^i) % 2 = 1
    BY <1>2 DEF Holds
  <2> DEFINE P(i, n) == pos + i \in reg <=> (v \div n) % 2 = 1
  <2>4. P(0, 2^0)
    BY <2>1, <2>2
  <2>5. w > 1 => P(1, 2^1)
    BY <2>1, <2>2
  <2>6. w > 2 => P(2, 2^2)
    BY <2>1, <2>2
  <2>7. w > 3 => P(3, 2^3)
    BY <2>1, <2>2
  <2> HIDE DEF P
  <2>8. P(0, 1) /\ (w > 1 => P(1, 2)) /\ (w > 2 => P(2, 4)) /\ (w > 3 => P(3, 8))
    BY <2>4, <2>5, <2>6, <2>7, Weights
  <2>3. pos + 0 = pos /\ v \div 1 = v
    OBVIOUS
  <2> USE DEF P
  <2> QED
    BY <2>3, <2>8 DEF Bit
<1> HIDE DEF b0, b1, b2, b3
<1>3. /\ Value(reg, pos, 1) = Sum1(reg, pos) /\ Value(reg, pos, 2) = Sum2(reg, pos)
      /\ Value(reg, pos, 3) = Sum3(reg, pos) /\ Value(reg, pos, 4) = Sum4(reg, pos)
  BY ValueIsSum
<1> QED
  BY <1>1, <1>2, <1>3 DEF Sum1, Sum2, Sum3, Sum4

-----------------------------------------------------------------------------
(* The registers.                                                          *)

\* Part of a register: no other field reaches it, and the register has its bits.
LEMMA HoldsPart ==
  ASSUME NEW reg, NEW f, NEW pos \in Nat, NEW w \in Nat, NEW v, Holds(f, pos, w, v),
         \A p \in pos .. pos + w - 1 : p \in reg <=> p \in f
  PROVE  Holds(reg, pos, w, v)
BY DEF Holds

\* TR holds the digits of hour, minute and seconds.
LEMMA TrHolds ==
  ASSUME NEW t \in TimeType
  PROVE  /\ Holds(TrOf(t), 20, 2, t.hour \div 10) /\ Holds(TrOf(t), 16, 4, t.hour % 10)
         /\ Holds(TrOf(t), 12, 3, t.minute \div 10) /\ Holds(TrOf(t), 8, 4, t.minute % 10)
         /\ Holds(TrOf(t), 4, 3, t.seconds \div 10) /\ Holds(TrOf(t), 0, 4, t.seconds % 10)
<1> DEFINE h1 == Field(t.hour \div 10, 20, 2)
           h0 == Field(t.hour % 10, 16, 4)
           m1 == Field(t.minute \div 10, 12, 3)
           m0 == Field(t.minute % 10, 8, 4)
           s1 == Field(t.seconds \div 10, 4, 3)
           s0 == Field(t.seconds % 10, 0, 4)
<1>1. /\ h1 \subseteq 20 .. 21 /\ Holds(h1, 20, 2, t.hour \div 10)
      /\ h0 \subseteq 16 .. 19 /\ Holds(h0, 16, 4, t.hour % 10)
      /\ m1 \subseteq 12 .. 14 /\ Holds(m1, 12, 3, t.minute \div 10)
      /\ m0 \subseteq 8 .. 11 /\ Holds(m0, 8, 4, t.minute % 10)
      /\ s1 \subseteq 4 .. 6 /\ Holds(s1, 4, 3, t.seconds \div 10)
      /\ s0 \subseteq 0 .. 3 /\ Holds(s0, 0, 4, t.seconds % 10)
  <2>0. /\ 20 + 2 - 1 = 21 /\ 16 + 4 - 1 = 19 /\ 12 + 3 - 1 = 14 /\ 8 + 4 - 1 = 11
        /\ 4 + 3 - 1 = 6 /\ 0 + 4 - 1 = 3
    OBVIOUS
  <2>1. h1 \subseteq 20 .. 21 /\ Holds(h1, 20, 2, t.hour \div 10)
    BY <2>0, FieldRange
  <2>2. h0 \subseteq 16 .. 19 /\ Holds(h0, 16, 4, t.hour % 10)
    BY <2>0, FieldRange
  <2>3. m1 \subseteq 12 .. 14 /\ Holds(m1, 12, 3, t.minute \div 10)
    BY <2>0, FieldRange
  <2>4. m0 \subseteq 8 .. 11 /\ Holds(m0, 8, 4, t.minute % 10)
    BY <2>0, FieldRange
  <2>5. s1 \subseteq 4 .. 6 /\ Holds(s1, 4, 3, t.seconds \div 10)
    BY <2>0, FieldRange
  <2>6. s0 \subseteq 0 .. 3 /\ Holds(s0, 0, 4, t.seconds % 10)
    BY <2>0, FieldRange
  <2> QED
    BY <2>1, <2>2, <2>3, <2>4, <2>5, <2>6
<1>2. TrOf(t) = TrBits \cap (h1 \cup h0 \cup m1 \cup m0 \cup s1 \cup s0)
  BY DEF TrOf, SetBcd
<1> HIDE DEF h1, h0, m1, m0, s1, s0
<1>3. /\ \A p \in 20 .. 20 + 2 - 1 : p \in TrOf(t) <=> p \in h1
      /\ \A p \in 16 .. 16 + 4 - 1 : p \in TrOf(t) <=> p \in h0
      /\ \A p \in 12 .. 12 + 3 - 1 : p \in TrOf(t) <=> p \in m1
      /\ \A p \in 8 .. 8 + 4 - 1 : p \in TrOf(t) <=> p \in m0
      /\ \A p \in 4 .. 4 + 3 - 1 : p \in TrOf(t) <=> p \in s1
      /\ \A p \in 0 .. 0 + 4 - 1 : p \in TrOf(t) <=> p \in s0
  <2>1. \A p \in 20 .. 20 + 2 - 1 : p \in TrOf(t) <=> p \in h1
    BY <1>1, <1>2 DEF TrBits
  <2>2. \A p \in 16 .. 16 + 4 - 1 : p \in TrOf(t) <=> p \in h0
    BY <1>1, <1>2 DEF TrBits
  <2>3. \A p \in 12 .. 12 + 3 - 1 : p \in TrOf(t) <=> p \in m1
    BY <1>1, <1>2 DEF TrBits
  <2>4. \A p \in 8 .. 8 + 4 - 1 : p \in TrOf(t) <=> p \in m0
    BY <1>1, <1>2 DEF TrBits
  <2>5. \A p \in 4 .. 4 + 3 - 1 : p \in TrOf(t) <=> p \in s1
    BY <1>1, <1>2 DEF TrBits
  <2>6. \A p \in 0 .. 0 + 4 - 1 : p \in TrOf(t) <=> p \in s0
    BY <1>1, <1>2 DEF TrBits
  <2> QED
    BY <2>1, <2>2, <2>3, <2>4, <2>5, <2>6
<1> QED
  BY <1>1, <1>3, HoldsPart

\* A week in three bits leaves the bits of the year alone.
LEMMA ShortWeek ==
  ASSUME NEW v \in Nat, v % 256 < 8
  PROVE  Field(v, 13, 8) \subseteq 13 .. 15
<1>1. /\ (v \div 8) % 2 = 0 /\ (v \div 16) % 2 = 0 /\ (v \div 32) % 2 = 0
      /\ (v \div 64) % 2 = 0 /\ (v \div 128) % 2 = 0
  OBVIOUS
<1>2. ASSUME NEW p \in Field(v, 13, 8), p \notin 13 .. 15 PROVE FALSE
  <2>0. \E j \in {i \in 0 .. 8 - 1 : (v \div 2^i) % 2 = 1} : p = 13 + j
    BY DEF Field
  <2>1. PICK j \in 0 .. 8 - 1 : p = 13 + j /\ (v \div 2^j) % 2 = 1
    BY <2>0
  <2>2. j \in {3, 4, 5, 6, 7}
    BY <1>2, <2>1
  <2>3. 2^j \in {8, 16, 32, 64, 128}
    <3>1. 2^j \in {2^3, 2^4, 2^5, 2^6, 2^7}
      BY <2>2, Zenon
    <3> QED
      BY <3>1, Weights, Zenon
  <2> QED
    BY <1>1, <2>1, <2>3
<1> QED
  BY <1>2

\* DR holds the digits of month and day, three bits of the week, and the digits of
\* a year that has two of them if that is all of the week.
LEMMA DrHolds ==
  ASSUME NEW d \in DateType, NEW year \in Nat
  PROVE  /\ Holds(DrOf(d, year), 12, 1, d.month \div 10) /\ Holds(DrOf(d, year), 8, 4, d.month % 10)
         /\ Holds(DrOf(d, year), 4, 2, d.day \div 10) /\ Holds(DrOf(d, year), 0, 4, d.day % 10)
         /\ \A i \in 0 .. 2 : 13 + i \in DrOf(d, year) <=> (d.week \div 2^i) % 2 = 1
         /\ d.week % 256 < 8 => /\ Holds(DrOf(d, year), 20, 4, year \div 10)
                                /\ Holds(DrOf(d, year), 16, 4, year % 10)
<1>0. d.week \in 0 .. 273
  BY DEF DateType
<1> DEFINE y1 == Field(year \div 10, 20, 4)
           y0 == Field(year % 10, 16, 4)
           wk == Field(d.week, 13, 8)
           m1 == Field(d.month \div 10, 12, 1)
           m0 == Field(d.month % 10, 8, 4)
           d1 == Field(d.day \div 10, 4, 2)
           d0 == Field(d.day % 10, 0, 4)
<1>1. /\ y1 \subseteq 20 .. 23 /\ Holds(y1, 20, 4, year \div 10)
      /\ y0 \subseteq 16 .. 19 /\ Holds(y0, 16, 4, year % 10)
      /\ wk \subseteq 13 .. 20 /\ Holds(wk, 13, 8, d.week)
      /\ m1 \subseteq 12 .. 12 /\ Holds(m1, 12, 1, d.month \div 10)
      /\ m0 \subseteq 8 .. 11 /\ Holds(m0, 8, 4, d.month % 10)
      /\ d1 \subseteq 4 .. 5 /\ Holds(d1, 4, 2, d.day \div 10)
      /\ d0 \subseteq 0 .. 3 /\ Holds(d0, 0, 4, d.day % 10)
  <2>0. /\ 20 + 4 - 1 = 23 /\ 16 + 4 - 1 = 19 /\ 13 + 8 - 1 = 20 /\ 12 + 1 - 1 = 12
        /\ 8 + 4 - 1 = 11 /\ 4 + 2 - 1 = 5 /\ 0 + 4 - 1 = 3
    OBVIOUS
  <2>1. y1 \subseteq 20 .. 23 /\ Holds(y1, 20, 4, year \div 10)
    BY <2>0, FieldRange
  <2>2. y0 \subseteq 16 .. 19 /\ Holds(y0, 16, 4, year % 10)
    BY <2>0, FieldRange
  <2>3. wk \subseteq 13 .. 20 /\ Holds(wk, 13, 8, d.week)
    BY <2>0, FieldRange
  <2>4. m1 \subseteq 12 .. 12 /\ Holds(m1, 12, 1, d.month \div 10)
    BY <2>0, FieldRange
  <2>5. m0 \subseteq 8 .. 11 /\ Holds(m0, 8, 4, d.month % 10)
    BY <2>0, FieldRange
  <2>6. d1 \subseteq 4 .. 5 /\ Holds(d1, 4, 2, d.day \div 10)
    BY <2>0, FieldRange
  <2>7. d0 \subseteq 0 .. 3 /\ Holds(d0, 0, 4, d.day % 10)
    BY <2>0, FieldRange
  <2> QED
    BY <2>1, <2>2, <2>3, <2>4, <2>5, <2>6, <2>7
<1>2. DrOf(d, year) = DrBits \cap (y1 \cup y0 \cup wk \cup m1 \cup m0 \cup d1 \cup d0)
  BY DEF DrOf, SetBcd
<1>3. d.week % 256 < 8 => wk \subseteq 13 .. 15
  BY <1>0, ShortWeek
<1> HIDE DEF y1, y0, wk, m1, m0, d1, d0
<1>4. /\ \A p \in 12 .. 12 + 1 - 1 : p \in DrOf(d, year) <=> p \in m1
      /\ \A p \in 8 .. 8 + 4 - 1 : p \in DrOf(d, year) <=> p \in m0
      /\ \A p \in 4 .. 4 + 2 - 1 : p \in DrOf(d, year) <=> p \in d1
      /\ \A p \in 0 .. 0 + 4 - 1 : p \in DrOf(d, year) <=> p \in d0
  <2>1. \A p \in 12 .. 12 + 1 - 1 : p \in DrOf(d, year) <=> p \in m1
    BY <1>1, <1>2 DEF DrBits
  <2>2. \A p \in 8 .. 8 + 4 - 1 : p \in DrOf(d, year) <=> p \in m0
    BY <1>1, <1>2 DEF DrBits
  <2>3. \A p \in 4 .. 4 + 2 - 1 : p \in DrOf(d, year) <=> p \in d1
    BY <1>1, <1>2 DEF DrBits
  <2>4. \A p \in 0 .. 0 + 4 - 1 : p \in DrOf(d, year) <=> p \in d0
    BY <1>1, <1>2 DEF DrBits
  <2> QED
    BY <2>1, <2>2, <2>3, <2>4
<1>5. ASSUME d.week % 256 < 8
      PROVE  /\ \A p \in 20 .. 20 + 4 - 1 : p \in DrOf(d, year) <=> p \in y1
             /\ \A p \in 16 .. 16 + 4 - 1 : p \in DrOf(d, year) <=> p \in y0
  <2>1. \A p \in 20 .. 20 + 4 - 1 : p \in DrOf(d, year) <=> p \in y1
    BY <1>1, <1>2, <1>3, <1>5 DEF DrBits
  <2>2. \A p \in 16 .. 16 + 4 - 1 : p \in DrOf(d, year) <=> p \in y0
    BY <1>1, <1>2, <1>3, <1>5 DEF DrBits
  <2> QED
    BY <2>1, <2>2
<1>6. ASSUME NEW i \in 0 .. 2
      PROVE  13 + i \in DrOf(d, year) <=> (d.week \div 2^i) % 2 = 1
  <2>1. 13 + i \in wk <=> (d.week \div 2^i) % 2 = 1
    <3>1. i \in 0 .. 8 - 1
      OBVIOUS
    <3> QED
      BY <1>1, <3>1 DEF Holds
  <2>2. 13 + i \in DrOf(d, year) <=> 13 + i \in wk
    BY <1>1, <1>2 DEF DrBits
  <2> QED
    BY <2>1, <2>2
<1> QED
  BY <1>1, <1>4, <1>5, <1>6, HoldsPart

\* The low bits of the byte that is read for the week are three bits of the register.
LEMMA WeekBits ==
  ASSUME NEW reg, NEW v \in Nat, \A i \in 0 .. 2 : 13 + i \in reg <=> (v \div 2^i) % 2 = 1
  PROVE  Value(reg, 13, 8) % 8 = v % 8
<1>1. /\ 13 \in reg <=> (v \div 1) % 2 = 1
      /\ 14 \in reg <=> (v \div 2) % 2 = 1
      /\ 15 \in reg <=> (v \div 4) % 2 = 1
  <2>1. /\ 13 + 0 \in reg <=> (v \div 2^0) % 2 = 1
        /\ 13 + 1 \in reg <=> (v \div 2^1) % 2 = 1
        /\ 13 + 2 \in reg <=> (v \div 2^2) % 2 = 1
    OBVIOUS
  <2>2. 13 + 0 = 13 /\ 13 + 1 = 14 /\ 13 + 2 = 15
    OBVIOUS
  <2> QED
    BY <2>1, <2>2, Weights
<1>2. Sum3(reg, 13) = v % 8
  <2>1. /\ Bit(reg, 13, 1) = IF v % 2 = 1 THEN 1 ELSE 0
        /\ Bit(reg, 13 + 1, 2) = IF (v \div 2) % 2 = 1 THEN 2 ELSE 0
        /\ Bit(reg, 13 + 2, 4) = IF (v \div 4) % 2 = 1 THEN 4 ELSE 0
    BY <1>1 DEF Bit
  <2> QED
    BY <2>1 DEF Sum3, Sum2, Sum1
<1>3. PICK h \in Nat : Value(reg, 13, 8) = Sum3(reg, 13) + 8 * h
  <2> DEFINE One(p) == IF p \in reg THEN 1 ELSE 0
  <2>1. Value(reg, 13, 8) = Sum8(reg, 13)
    BY ValueIsSum
  <2>2. Sum8(reg, 13) = Sum3(reg, 13) + 8 * (One(16) + 2 * One(17) + 4 * One(18)
                                             + 8 * One(19) + 16 * One(20))
    BY DEF Sum8, Sum4, Sum3, Sum2, Sum1, Bit
  <2>3. One(16) + 2 * One(17) + 4 * One(18) + 8 * One(19) + 16 * One(20) \in Nat
    OBVIOUS
  <2> QED
    BY <2>1, <2>2, <2>3
<1>4. v % 8 \in 0 .. 7
  OBVIOUS
<1>5. \A r \in 0 .. 7 : (r + 8 * h) % 8 = r
  OBVIOUS
<1> QED
  BY <1>2, <1>3, <1>4, <1>5

\* The fields of the smallest numbers.
LEMMA SmallFields ==
  ASSUME NEW pos \in Nat, NEW w \in 1 .. 8
  PROVE  Field(0, pos, w) = {} /\ Field(1, pos, w) = {pos}
<1>1. \A j \in 0 .. w - 1 : 2^j \in {1, 2, 4, 8, 16, 32, 64, 128} /\ (2^j = 1 <=> j = 0)
  <2> SUFFICES ASSUME NEW j \in 0 .. w - 1
               PROVE  2^j \in {1, 2, 4, 8, 16, 32, 64, 128} /\ (2^j = 1 <=> j = 0)
    OBVIOUS
  <2>1. \/ j = 0 \/ j = 1 \/ j = 2 \/ j = 3 \/ j = 4 \/ j = 5 \/ j = 6 \/ j = 7
    OBVIOUS
  <2>2. j = 0 => 2^j = 1
    BY Weights
  <2>3. j = 1 => 2^j = 2
    BY Weights
  <2>4. j = 2 => 2^j = 4
    BY Weights
  <2>5. j = 3 => 2^j = 8
    BY Weights
  <2>6. j = 4 => 2^j = 16
    BY Weights
  <2>7. j = 5 => 2^j = 32
    BY Weights
  <2>8. j = 6 => 2^j = 64
    BY Weights
  <2>9. j = 7 => 2^j = 128
    BY Weights
  <2> QED
    BY <2>1, <2>2, <2>3, <2>4, <2>5, <2>6, <2>7, <2>8, <2>9
<1>2. \A n \in {1, 2, 4, 8, 16, 32, 64, 128} :
        (0 \div n) % 2 = 0 /\ ((1 \div n) % 2 = 1 <=> n = 1)
  OBVIOUS
<1>3. \A j \in 0 .. w - 1 : (0 \div 2^j) % 2 = 0 /\ ((1 \div 2^j) % 2 = 1 <=> j = 0)
  BY <1>1, <1>2
<1>4. 0 \in 0 .. w - 1 /\ pos + 0 = pos
  OBVIOUS
<1>5. Field(0, pos, w) = {}
  BY <1>3 DEF Field
<1>6. {j \in 0 .. w - 1 : (1 \div 2^j) % 2 = 1} = {0}
  BY <1>3, <1>4
<1>7. Field(1, pos, w) = {pos}
  <2>1. Field(1, pos, w) = {pos + i : i \in {0}}
    BY <1>6, Zenon DEF Field
  <2> QED
    BY <1>4, <2>1
<1> QED
  BY <1>5, <1>7

\* Years are natural numbers, and so is what is left of one in a uint8_t.
LEMMA YearType ==
  /\ Years \subseteq Nat /\ BSD_START_YEAR \in Nat
  /\ \A y \in Years : /\ YearOffset(y) \in 0 .. 255
                      /\ y \in BSD_START_YEAR .. BSD_START_YEAR + 255 =>
                           YearOffset(y) = y - BSD_START_YEAR
<1>1. Years \subseteq Nat
  BY SMT DEF Years
<1>2. BSD_START_YEAR \in Nat
  BY SMT DEF BSD_START_YEAR
<1>3. ASSUME NEW y \in Nat, NEW s \in Nat
      PROVE  (y - s) % 256 \in 0 .. 255 /\ (y \in s .. s + 255 => (y - s) % 256 = y - s)
  OBVIOUS
<1> QED
  BY <1>1, <1>2, <1>3 DEF YearOffset

-----------------------------------------------------------------------------
(* The inductive invariant.                                                *)

\* The registers after a reset of the backup domain hold midnight of January 1st.
LEMMA InitIInv == Init => IInv
<1> SUFFICES ASSUME Init PROVE IInv
  OBVIOUS
<1> DEFINE t == [hour |-> 0, minute |-> 0, seconds |-> 0]
           d == [day |-> 1, month |-> 1, year |-> BSD_START_YEAR, week |-> 1]
<1>1. time = t /\ date = d /\ tr = {} /\ dr = {0, 8, 13} /\ dateBy = "reset" /\ status = 0
  BY DEF Init
<1>2. t \in TimeType
  BY DEF TimeType
<1>3. BSD_START_YEAR \in Years /\ YearOffset(BSD_START_YEAR) = 0
  BY SMT DEF BSD_START_YEAR, Years, YearOffset
<1>4. d \in DateType
  BY <1>3 DEF DateType
<1>5. 0 \div 10 = 0 /\ 0 % 10 = 0 /\ 1 \div 10 = 0 /\ 1 % 10 = 1
  OBVIOUS
<1>6. SetBcd(0, 20, 2, 16) = {} /\ SetBcd(0, 12, 3, 8) = {} /\ SetBcd(0, 4, 3, 0) = {}
  BY <1>5, SmallFields DEF SetBcd
<1>7. TrOf(t) = {}
  BY <1>6 DEF TrOf
<1>8. /\ SetBcd(0, 20, 4, 16) = {} /\ Field(1, 13, 8) = {13}
      /\ SetBcd(1, 12, 1, 8) = {8} /\ SetBcd(1, 4, 2, 0) = {0}
  BY <1>5, SmallFields DEF SetBcd
<1>9. DrOf(d, 0) = {0, 8, 13}
  BY <1>8 DEF DrOf, DrBits
<1>10. WrittenYear = 0 /\ YearOffset(date.year) = 0 /\ 0 <= BSD_MAX_YEAR
  BY <1>1, <1>3 DEF WrittenYear, BSD_MAX_YEAR
<1> QED
  BY <1>1, <1>2, <1>4, <1>7, <1>9, <1>10 DEF IInv

\* A call writes whole registers, with the encoding of its arguments.
LEMMA StepIInv == IInv /\ [Next]_vars => IInv'
<1> SUFFICES ASSUME IInv, [Next]_vars PROVE IInv'
  OBVIOUS
<1>0. Times \subseteq TimeType /\ Dates \subseteq DateType
  BY TimesAssumption, DatesAssumption DEF TimeType, DateType
<1>1. CASE UNCHANGED vars
  BY <1>1 DEF IInv, vars, WrittenYear
<1>2. ASSUME NEW t \in Times, NEW d \in Dates, set_datetime_rtc(t, d) PROVE IInv'
  <2>1. t \in TimeType /\ d \in DateType
    BY <1>0, <1>2
  <2>2. WrittenYear' = YearOffset(d.year)
    BY <1>2 DEF set_datetime_rtc, WrittenYear
  <2> QED
    BY <1>2, <2>1, <2>2 DEF set_datetime_rtc, IInv
<1>3. ASSUME NEW t \in Times, set_time_rtc(t) PROVE IInv'
  <2>1. t \in TimeType /\ WrittenYear' = WrittenYear
    BY <1>0, <1>3 DEF set_time_rtc, WrittenYear
  <2> QED
    BY <1>3, <2>1 DEF set_time_rtc, IInv
<1>4. ASSUME NEW d \in Dates, set_date_rtc(d) PROVE IInv'
  <2>1. d \in DateType /\ WrittenYear' = d.year
    BY <1>0, <1>4 DEF set_date_rtc, WrittenYear
  <2> QED
    BY <1>4, <2>1 DEF set_date_rtc, IInv
<1>5. ASSUME NEW d \in Dates, Refused(d) PROVE IInv'
  <2>1. WrittenYear' = WrittenYear
    BY <1>5 DEF Refused, WrittenYear
  <2> QED
    BY <1>5, <2>1 DEF Refused, IInv
<1> QED
  BY <1>1, <1>2, <1>3, <1>4, <1>5 DEF Next

-----------------------------------------------------------------------------
(* The theorems.                                                           *)

\* The registers always hold what the last calls that wrote them were given.
THEOREM Invariance == Spec => []IInv
BY InitIInv, StepIInv, PTL DEF Spec

\* The registers have no bits of their own, and what is read from them, whatever
\* they hold, fits two decimal digits of which the tens are as wide as their field.
THEOREM TypeCorrect == Spec => []TypeOK
<1>1. ASSUME NEW reg, NEW pos \in Nat
      PROVE  /\ Value(reg, pos, 1) \in 0 .. 1 /\ Value(reg, pos, 2) \in 0 .. 3
             /\ Value(reg, pos, 3) \in 0 .. 7 /\ Value(reg, pos, 4) \in 0 .. 15
             /\ Value(reg, pos, 8) \in 0 .. 255
  BY ValueIsSum DEF Sum1, Sum2, Sum3, Sum4, Sum8, Bit
<1>2. ReadTime \in [hour : 0 .. 45, minute : 0 .. 85, seconds : 0 .. 85]
  <2>1. /\ GetBcd(tr, 20, 2, 16) \in 0 .. 45 /\ GetBcd(tr, 12, 3, 8) \in 0 .. 85
        /\ GetBcd(tr, 4, 3, 0) \in 0 .. 85
    BY <1>1 DEF GetBcd
  <2> QED
    BY <2>1 DEF ReadTime
<1>3. ReadDate \in [day : 0 .. 45, month : 0 .. 25, year : ReadYears, week : 0 .. 255]
  <2>1. /\ GetBcd(dr, 4, 2, 0) \in 0 .. 45 /\ GetBcd(dr, 12, 1, 8) \in 0 .. 25
        /\ GetBcd(dr, 20, 4, 16) \in 0 .. 165 /\ ReadWeek \in 0 .. 255
    BY <1>1 DEF GetBcd, ReadWeek
  <2>2. GetBcd(dr, 20, 4, 16) + BSD_START_YEAR \in ReadYears
    BY <2>1, YearType DEF ReadYears
  <2> QED
    BY <2>1, <2>2 DEF ReadDate
<1>4. IInv => tr \subseteq TrBits /\ dr \subseteq DrBits /\ status \in {0, -2}
  BY DEF IInv, TrOf, DrOf
<1>5. IInv => TypeOK
  BY <1>2, <1>3, <1>4 DEF TypeOK
<1> QED
  BY <1>5, Invariance, PTL

\* The time that is read is the last one that was set: every time of the day
\* survives the encoding.
THEOREM TimesReadBack == Spec => []TimeReadsBack
<1>1. ASSUME IInv PROVE ReadTime = time
  <2>1. time \in TimeType /\ tr = TrOf(time)
    BY <1>1 DEF IInv
  <2>2. /\ time.hour \in 0 .. 23 /\ time.minute \in 0 .. 59 /\ time.seconds \in 0 .. 59
        /\ time = [hour |-> time.hour, minute |-> time.minute, seconds |-> time.seconds]
    BY <2>1 DEF TimeType
  <2>3. /\ Value(tr, 20, 2) = time.hour \div 10 /\ Value(tr, 16, 4) = time.hour % 10
        /\ Value(tr, 12, 3) = time.minute \div 10 /\ Value(tr, 8, 4) = time.minute % 10
        /\ Value(tr, 4, 3) = time.seconds \div 10 /\ Value(tr, 0, 4) = time.seconds % 10
    <3>1. /\ time.hour \div 10 \in 0 .. 2 /\ time.minute \div 10 \in 0 .. 5
          /\ time.seconds \div 10 \in 0 .. 5 /\ time.hour % 10 \in 0 .. 9
          /\ time.minute % 10 \in 0 .. 9 /\ time.seconds % 10 \in 0 .. 9
      BY <2>2
    <3> QED
      BY <2>1, <3>1, TrHolds, HeldReadsBack
  <2>4. \A v \in Nat : (v \div 10) * 10 + (v % 10) = v
    OBVIOUS
  <2>5. /\ GetBcd(tr, 20, 2, 16) = time.hour /\ GetBcd(tr, 12, 3, 8) = time.minute
        /\ GetBcd(tr, 4, 3, 0) = time.seconds
    BY <2>2, <2>3, <2>4 DEF GetBcd
  <2> QED
    BY <2>2, <2>5 DEF ReadTime
<1> QED
  BY <1>1, Invariance, PTL DEF TimeReadsBack

\* The day and the month that are read are the last ones that were set, whatever
\* the week and the year; so are three bits of the week, and the year that
\* set_datetime_rtc was given.
THEOREM DatesReadBack == Spec => []DateReadsBack
<1>1. ASSUME IInv PROVE DateReadsBack
  <2>1. date \in DateType /\ dr = DrOf(date, WrittenYear)
    BY <1>1 DEF IInv
  <2>2. date.day \in 1 .. 31 /\ date.month \in 1 .. 12 /\ date.year \in Years
    BY <2>1 DEF DateType
  <2>3. WrittenYear \in Nat
    <3>1. date.year \in Nat
      BY <2>2, YearType
    <3>2. YearOffset(date.year) \in 0 .. 255
      BY <2>2, YearType
    <3>3. YearOffset(date.year) \in Nat
      BY <3>2
    <3> QED
      BY <3>1, <3>3, Zenon DEF WrittenYear
  <2>4. \A v \in Nat : (v \div 10) * 10 + (v % 10) = v
    OBVIOUS
  <2>5. GetBcd(dr, 4, 2, 0) = date.day /\ GetBcd(dr, 12, 1, 8) = date.month
    <3>1. /\ date.day \div 10 \in 0 .. 3 /\ date.month \div 10 \in 0 .. 1
          /\ date.day % 10 \in 0 .. 9 /\ date.month % 10 \in 0 .. 9
      BY <2>2
    <3>2. /\ Value(dr, 4, 2) = date.day \div 10 /\ Value(dr, 0, 4) = date.day % 10
          /\ Value(dr, 12, 1) = date.month \div 10 /\ Value(dr, 8, 4) = date.month % 10
      BY <2>1, <2>3, <3>1, DrHolds, HeldReadsBack
    <3> QED
      BY <2>2, <2>4, <3>2 DEF GetBcd
  <2>6. ASSUME dateBy # "set_date_rtc", date.week % 256 < 8,
               date.year \in BSD_START_YEAR .. BSD_START_YEAR + 255
        PROVE  GetBcd(dr, 20, 4, 16) + BSD_START_YEAR = date.year
    <3> DEFINE y == WrittenYear
    <3>1. y = date.year - BSD_START_YEAR /\ y <= BSD_MAX_YEAR
      BY <1>1, <2>2, <2>6, YearType DEF WrittenYear, IInv
    <3>2. y \div 10 \in 0 .. 9 /\ y % 10 \in 0 .. 9
      BY <2>3, <3>1 DEF BSD_MAX_YEAR
    <3>3. Value(dr, 20, 4) = y \div 10 /\ Value(dr, 16, 4) = y % 10
      <4>1. Holds(dr, 20, 4, y \div 10) /\ Holds(dr, 16, 4, y % 10)
        BY <2>1, <2>3, <2>6, DrHolds
      <4> HIDE DEF y
      <4> QED
        BY <3>2, <4>1, HeldReadsBack
    <3>4. GetBcd(dr, 20, 4, 16) = y
      BY <2>3, <2>4, <3>3 DEF GetBcd
    <3> HIDE DEF y
    <3>5. date.year \in Nat /\ BSD_START_YEAR \in Nat
      BY <2>2, YearType
    <3> QED
      BY <3>1, <3>4, <3>5
  <2>7. /\ ReadDate.day = GetBcd(dr, 4, 2, 0) /\ ReadDate.month = GetBcd(dr, 12, 1, 8)
        /\ ReadDate.year = GetBcd(dr, 20, 4, 16) + BSD_START_YEAR
    BY DEF ReadDate
  <2>8. (/\ dateBy # "set_date_rtc" /\ date.week % 256 < 8
         /\ date.year \in BSD_START_YEAR .. BSD_START_YEAR + 255)
        => ReadDate.year = date.year
    BY <2>6, <2>7
  <2>9. ReadDate.week % 8 = date.week % 8
    <3>1. date.week \in Nat
      BY <2>1 DEF DateType
    <3>2. \A i \in 0 .. 2 : 13 + i \in dr <=> (date.week \div 2^i) % 2 = 1
      BY <2>1, <2>3, DrHolds
    <3>3. ReadDate.week = Value(dr, 13, 8)
      BY DEF ReadDate, ReadWeek
    <3> QED
      BY <3>1, <3>2, <3>3, WeekBits
  <2> QED
    BY <2>5, <2>7, <2>8, <2>9, Zenon DEF DateReadsBack
<1> QED
  BY <1>1, Invariance, PTL
=============================================================================
