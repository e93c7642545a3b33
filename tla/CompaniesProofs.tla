--------------------------- MODULE CompaniesProofs ---------------------------
(***************************************************************************)
(* What the check digit is good for: no number with one digit wrong and    *)
(* none with two neighbours swapped passes for another, and the zeros a    *)
(* body lost come back as they were.  And, for every choice of companies,  *)
(* dialogs and sheets, what the settings form does with its companies: an  *)
(* edit or a removal acts on the company that was chosen, no company       *)
(* leaves the list otherwise, and the CUITs in it are those that were      *)
(* meant.                                                                  *)
(***************************************************************************)
EXTENDS Companies, SequenceTheorems, FiniteSetTheorems, WellFoundedInduction, TLAPS

\* A number of eleven digits.
Cuits == [1 .. Length -> Digit]

-----------------------------------------------------------------------------
(* The check digit is the one that makes the weighted sum a multiple of 11. *)

LEMMA CuitShape ==
    ASSUME NEW c \in Cuits
    PROVE  /\ c \in Seq(Digit) /\ Len(c) = 11 /\ DOMAIN c = 1 .. 11
           /\ \A i \in 1 .. 11 : c[i] \in 0 .. 9
<1>1. c \in [1 .. 11 -> 0 .. 9]
  BY DEF Cuits, Length, Digit
<1>2. c \in Seq(0 .. 9)
  <2>1. 11 \in Nat
    OBVIOUS
  <2> QED
    BY <1>1, <2>1, SeqDef
<1>3. Len(c) = 11
  <2>1. DOMAIN c = 1 .. 11
    BY <1>1
  <2> QED
    BY <2>1, <1>2
<1> QED
  BY <1>1, <1>2, <1>3 DEF Digit

LEMMA Digits ==
    ASSUME NEW c \in Cuits
    PROVE  \A i \in 1 .. 11 : c[i] \in 0 .. 9 /\ c[i] \in Nat
<1>1. c \in [1 .. 11 -> 0 .. 9]
  BY DEF Cuits, Length, Digit
<1> QED
  BY <1>1

LEMMA Remainder ==
    ASSUME NEW t \in Nat, NEW x \in 0 .. 9,
           LET e == IF t % 11 = 0 THEN 0 ELSE 11 - (t % 11) IN e # 10 /\ e = x
    PROVE  (t + x) % 11 = 0
BY SMT

\* A number of eleven digits, and its weighted sum with the check digit.
Sum(c) == Total(c) + c[11]

LEMMA PartsType ==
    ASSUME NEW c \in Cuits
    PROVE  Left(c) \in Nat /\ Middle(c) \in Nat /\ Right(c) \in Nat
<1>1. \A i \in 1 .. 11 : c[i] \in Nat
  BY Digits
<1>2. Left(c) \in Nat
  <2>1. c[1] \in Nat /\ c[2] \in Nat /\ c[3] \in Nat /\ c[4] \in Nat
    BY <1>1
  <2> QED
    BY ONLY <2>1, SMTT(20) DEF Left
<1>3. Middle(c) \in Nat
  <2>1. c[5] \in Nat /\ c[6] \in Nat /\ c[7] \in Nat /\ c[8] \in Nat
    BY <1>1
  <2> QED
    BY ONLY <2>1, SMTT(20) DEF Middle
<1>4. Right(c) \in Nat
  <2>1. c[9] \in Nat /\ c[10] \in Nat
    BY <1>1
  <2> QED
    BY ONLY <2>1, SMTT(20) DEF Right
<1> QED
  BY <1>2, <1>3, <1>4

LEMMA ValidSum ==
    ASSUME NEW c \in Cuits, IsValidCuit(c)
    PROVE  Sum(c) \in Nat /\ Sum(c) % 11 = 0
<1>1. Total(c) \in Nat /\ c[11] \in 0 .. 9
  <2>1. Left(c) \in Nat /\ Middle(c) \in Nat /\ Right(c) \in Nat
    BY PartsType
  <2>2. c[11] \in 0 .. 9
    BY Digits
  <2> QED
    BY <2>1, <2>2 DEF Total
<1>2. LET e == IF Total(c) % 11 = 0 THEN 0 ELSE 11 - (Total(c) % 11) IN e # 10 /\ e = c[11]
  BY DEF IsValidCuit, Expected, Length
<1>3. (Total(c) + c[11]) % 11 = 0
  <2> DEFINE t == Total(c)
             x == c[11]
  <2>1. /\ t \in Nat /\ x \in 0 .. 9
        /\ LET e == IF t % 11 = 0 THEN 0 ELSE 11 - (t % 11) IN e # 10 /\ e = x
    BY <1>1, <1>2
  <2> HIDE DEF t, x
  <2>2. (t + x) % 11 = 0
    BY <2>1, Remainder
  <2> QED
    BY <2>2 DEF t, x
<1> QED
  BY <1>1, <1>3 DEF Sum
-----------------------------------------------------------------------------
(* One wrong digit, and two neighbours in the wrong order.                 *)

\* How much one more at a position adds to the sum.
Weight == <<5, 4, 3, 2, 7, 6, 5, 4, 3, 2, 1>>

\* Eleven divides no product of a weight, or of the difference of two weights that
\* are neighbours, with the difference of two digits.
LEMMA NoProduct ==
    ASSUME NEW s \in Nat, NEW t \in Nat, NEW x \in 0 .. 9, NEW y \in 0 .. 9, x # y,
           NEW w \in {1, 2, 3, 4, 5, 6, 7}, s % 11 = 0, t % 11 = 0,
           s = t + w * (x - y)
    PROVE  FALSE
<1>1. CASE w = 1  BY <1>1
<1>2. CASE w = 2  BY <1>2
<1>3. CASE w = 3  BY <1>3
<1>4. CASE w = 4  BY <1>4
<1>5. CASE w = 5  BY <1>5
<1>6. CASE w = 6  BY <1>6
<1>7. CASE w = 7  BY <1>7
<1> QED
  BY <1>1, <1>2, <1>3, <1>4, <1>5, <1>6, <1>7

LEMMA LeftMoves ==
    ASSUME NEW c \in Cuits, NEW d \in Cuits, NEW p \in 1 .. 4,
           \A i \in 1 .. 11 : i # p => d[i] = c[i]
    PROVE  Left(d) = Left(c) + Weight[p] * (d[p] - c[p])
<1>1. \A i \in 1 .. 4 : c[i] \in Int /\ d[i] \in Int /\ (i # p => d[i] = c[i])
  BY Digits
<1>2. CASE p = 1  BY <1>1, <1>2 DEF Left, Weight
<1>3. CASE p = 2  BY <1>1, <1>3 DEF Left, Weight
<1>4. CASE p = 3  BY <1>1, <1>4 DEF Left, Weight
<1>5. CASE p = 4  BY <1>1, <1>5 DEF Left, Weight
<1> QED
  BY <1>2, <1>3, <1>4, <1>5

LEMMA MiddleMoves ==
    ASSUME NEW c \in Cuits, NEW d \in Cuits, NEW p \in 5 .. 8,
           \A i \in 1 .. 11 : i # p => d[i] = c[i]
    PROVE  Middle(d) = Middle(c) + Weight[p] * (d[p] - c[p])
<1>1. \A i \in 5 .. 8 : c[i] \in Int /\ d[i] \in Int /\ (i # p => d[i] = c[i])
  BY Digits
<1>2. CASE p = 5  BY <1>1, <1>2 DEF Middle, Weight
<1>3. CASE p = 6  BY <1>1, <1>3 DEF Middle, Weight
<1>4. CASE p = 7  BY <1>1, <1>4 DEF Middle, Weight
<1>5. CASE p = 8  BY <1>1, <1>5 DEF Middle, Weight
<1> QED
  BY <1>2, <1>3, <1>4, <1>5

LEMMA RightMoves ==
    ASSUME NEW c \in Cuits, NEW d \in Cuits, NEW p \in 9 .. 10,
           \A i \in 1 .. 11 : i # p => d[i] = c[i]
    PROVE  Right(d) = Right(c) + Weight[p] * (d[p] - c[p])
<1>1. \A i \in 9 .. 10 : c[i] \in Int /\ d[i] \in Int /\ (i # p => d[i] = c[i])
  BY Digits
<1>2. CASE p = 9  BY <1>1, <1>2 DEF Right, Weight
<1>3. CASE p = 10  BY <1>1, <1>3 DEF Right, Weight
<1> QED
  BY <1>2, <1>3

LEMMA SumMoves ==
    ASSUME NEW c \in Cuits, NEW d \in Cuits, NEW p \in 1 .. 11,
           \A i \in 1 .. 11 : i # p => d[i] = c[i]
    PROVE  Sum(d) = Sum(c) + Weight[p] * (d[p] - c[p])
<1>1. /\ Left(c) \in Int /\ Middle(c) \in Int /\ Right(c) \in Int /\ c[11] \in Int
      /\ Left(d) \in Int /\ Middle(d) \in Int /\ Right(d) \in Int /\ d[11] \in Int
  <2>1. /\ Left(c) \in Nat /\ Middle(c) \in Nat /\ Right(c) \in Nat
        /\ Left(d) \in Nat /\ Middle(d) \in Nat /\ Right(d) \in Nat
    BY PartsType
  <2>2. c[11] \in Int /\ d[11] \in Int
    BY Digits
  <2> QED
    BY <2>1, <2>2
<1>2. Weight[p] * (d[p] - c[p]) \in Int
  <2>1. c[p] \in Int /\ d[p] \in Int
    BY Digits
  <2>2. Weight[p] \in Int
    BY DEF Weight
  <2> QED
    BY <2>1, <2>2
<1>3. /\ p \notin 1 .. 4 => Left(d) = Left(c)
      /\ p \notin 5 .. 8 => Middle(d) = Middle(c)
      /\ p \notin 9 .. 10 => Right(d) = Right(c)
      /\ p # 11 => d[11] = c[11]
  BY DEF Left, Middle, Right
<1> DEFINE moved == Weight[p] * (d[p] - c[p])
<1>4. CASE p \in 1 .. 4
  <2>1. Left(d) = Left(c) + moved
    BY <1>4, LeftMoves
  <2> HIDE DEF moved
  <2> QED
    BY <1>1, <1>2, <1>3, <1>4, <2>1 DEF Sum, Total, moved
<1>5. CASE p \in 5 .. 8
  <2>1. Middle(d) = Middle(c) + moved
    BY <1>5, MiddleMoves
  <2> HIDE DEF moved
  <2> QED
    BY <1>1, <1>2, <1>3, <1>5, <2>1 DEF Sum, Total, moved
<1>6. CASE p \in 9 .. 10
  <2>1. Right(d) = Right(c) + moved
    BY <1>6, RightMoves
  <2> HIDE DEF moved
  <2> QED
    BY <1>1, <1>2, <1>3, <1>6, <2>1 DEF Sum, Total, moved
<1>7. CASE p = 11
  <2>1. d[11] = c[11] + Weight[p] * (d[p] - c[p])
    <3>1. c[11] \in Int /\ d[11] \in Int
      BY Digits
    <3> QED
      BY <3>1, <1>7 DEF Weight
  <2> HIDE DEF moved
  <2> QED
    BY <1>1, <1>2, <1>3, <1>7, <2>1 DEF Sum, Total, moved
<1> QED
  BY <1>4, <1>5, <1>6, <1>7

\* A number that differs from a CUIT in one digit, whatever the position, is no CUIT:
\* neither the fields of a company nor the rows of a sheet accept it.
THEOREM OneWrongCaught ==
    ASSUME NEW c \in Cuits, IsValidCuit(c), NEW d \in OneWrong(c)
    PROVE  ~IsValidCuit(d)
<1>1. PICK p \in 1 .. 11, x \in 0 .. 9 : d = [c EXCEPT ![p] = x] /\ d # c
  BY DEF OneWrong, Length, Digit
<1>2. c \in [1 .. 11 -> 0 .. 9]
  BY DEF Cuits, Length, Digit
<1>3. /\ d \in [1 .. 11 -> 0 .. 9] /\ d[p] = x /\ c[p] \in 0 .. 9 /\ c[p] # x
      /\ \A i \in 1 .. 11 : i # p => d[i] = c[i]
  BY <1>1, <1>2
<1>4. d \in Cuits
  BY <1>3 DEF Cuits, Length, Digit
<1>5. Weight[p] \in {1, 2, 3, 4, 5, 6, 7}
  BY DEF Weight
<1>6. SUFFICES ASSUME IsValidCuit(d) PROVE FALSE
  OBVIOUS
<1>7. Sum(c) \in Nat /\ Sum(c) % 11 = 0 /\ Sum(d) \in Nat /\ Sum(d) % 11 = 0
  BY <1>4, <1>6, ValidSum
<1>8. Sum(d) = Sum(c) + Weight[p] * (x - c[p])
  BY <1>3, <1>4, SumMoves
<1> QED
  BY <1>3, <1>5, <1>7, <1>8, NoProduct

LEMMA NeighbourWeights ==
    ASSUME NEW s \in Int, NEW x \in Int, NEW y \in Int, NEW v \in 1 .. 7, NEW w,
           (v \in 1 .. 6 /\ w = v + 1) \/ (v = 7 /\ w = 2)
    PROVE  \/ (s + w * (x - y)) + v * (y - x) = s + 1 * (x - y)
           \/ (s + w * (x - y)) + v * (y - x) = s + 5 * (y - x)
<1>1. CASE v = 1  BY <1>1
<1>2. CASE v = 2  BY <1>2
<1>3. CASE v = 3  BY <1>3
<1>4. CASE v = 4  BY <1>4
<1>5. CASE v = 5  BY <1>5
<1>6. CASE v = 6  BY <1>6
<1>7. CASE v = 7  BY <1>7
<1> QED
  BY <1>1, <1>2, <1>3, <1>4, <1>5, <1>6, <1>7

\* A CUIT of which two neighbouring digits were exchanged is no CUIT.
THEOREM SwapCaught ==
    ASSUME NEW c \in Cuits, IsValidCuit(c), NEW d \in SwapsNeighbours(c)
    PROVE  ~IsValidCuit(d)
<1>1. PICK p \in 1 .. 10 : d = Swapped(c, p) /\ d # c
  BY DEF SwapsNeighbours, Length
<1> DEFINE e == [c EXCEPT ![p] = c[p + 1]]
<1>2. c \in [1 .. 11 -> 0 .. 9] /\ p \in 1 .. 11 /\ p + 1 \in 1 .. 11 /\ p # p + 1
  BY DEF Cuits, Length, Digit
<1>3. c[p] \in 0 .. 9 /\ c[p + 1] \in 0 .. 9
  BY <1>2
<1>4. /\ e \in [1 .. 11 -> 0 .. 9] /\ e[p] = c[p + 1] /\ e[p + 1] = c[p + 1]
      /\ \A i \in 1 .. 11 : i # p => e[i] = c[i]
  BY <1>2, <1>3
<1>5. /\ d \in [1 .. 11 -> 0 .. 9] /\ d[p + 1] = c[p] /\ c[p] # c[p + 1]
      /\ \A i \in 1 .. 11 : i # p + 1 => d[i] = e[i]
  BY <1>1, <1>2, <1>3 DEF Swapped
<1>6. e \in Cuits /\ d \in Cuits
  BY <1>4, <1>5 DEF Cuits, Length, Digit
<1>7. SUFFICES ASSUME IsValidCuit(d) PROVE FALSE
  OBVIOUS
<1>8. Sum(c) \in Nat /\ Sum(c) % 11 = 0 /\ Sum(d) \in Nat /\ Sum(d) % 11 = 0
  BY <1>6, <1>7, ValidSum
<1>9. Sum(e) = Sum(c) + Weight[p] * (c[p + 1] - c[p])
  BY <1>2, <1>4, <1>6, SumMoves
<1> HIDE DEF e
<1>10. Sum(d) = Sum(e) + Weight[p + 1] * (c[p] - c[p + 1])
  <2>1. Sum(d) = Sum(e) + Weight[p + 1] * (d[p + 1] - e[p + 1])
    BY <1>2, <1>5, <1>6, SumMoves
  <2> QED
    BY <2>1, <1>4, <1>5
<1>11. \/ Weight[p + 1] \in 1 .. 6 /\ Weight[p] = Weight[p + 1] + 1
       \/ Weight[p + 1] = 7 /\ Weight[p] = 2
  BY DEF Weight
<1>12. \/ Sum(d) = Sum(c) + 1 * (c[p + 1] - c[p])
       \/ Sum(d) = Sum(c) + 5 * (c[p] - c[p + 1])
  <2> DEFINE x == c[p + 1]
             y == c[p]
             v == Weight[p + 1]
             w == Weight[p]
             s == Sum(c)
  <2>1. /\ s \in Int /\ x \in Int /\ y \in Int /\ v \in 1 .. 7
        /\ (v \in 1 .. 6 /\ w = v + 1) \/ (v = 7 /\ w = 2)
    BY <1>3, <1>8, <1>11
  <2>2. Sum(d) = (s + w * (x - y)) + v * (y - x)
    BY <1>9, <1>10
  <2> HIDE DEF x, y, v, w, s
  <2>3. \/ (s + w * (x - y)) + v * (y - x) = s + 1 * (x - y)
        \/ (s + w * (x - y)) + v * (y - x) = s + 5 * (y - x)
    BY <2>1, NeighbourWeights
  <2>4. Sum(d) = s + 1 * (x - y) \/ Sum(d) = s + 5 * (y - x)
    BY <2>2, <2>3
  <2> QED
    BY <2>4 DEF x, y, s
<1> QED
  BY <1>3, <1>5, <1>8, <1>12, NoProduct

-----------------------------------------------------------------------------
(* The zeros of a body.                                                    *)

LEMMA ShortenedShape ==
    ASSUME NEW c \in Cuits, NEW n \in 1 .. 2
    PROVE  /\ Len(Shortened(c, n)) = 11 - n
           /\ \A i \in 1 .. 11 - n : Shortened(c, n)[i] = IF i <= 2 THEN c[i] ELSE c[i + n]
<1> DEFINE d == Shortened(c, n)
<1>1. d = [i \in 1 .. 11 - n |-> IF i <= 2 THEN c[i] ELSE c[i + n]]
  BY DEF Shortened, Length, TypeLength
<1>2. c \in [1 .. 11 -> 0 .. 9]
  BY DEF Cuits, Length, Digit
<1>3. d \in [1 .. 11 - n -> 0 .. 9]
  BY <1>1, <1>2
<1>4. 11 - n \in Nat
  OBVIOUS
<1> HIDE DEF d
<1>5. d \in Seq(0 .. 9) /\ DOMAIN d = 1 .. 11 - n
  BY <1>3, <1>4, SeqDef
<1>6. Len(d) = 11 - n
  BY <1>4, <1>5
<1> QED
  BY <1>1, <1>6 DEF d

\* A CUIT whose body lost its first zeros, one or two, is taken for what it was: the
\* recovery gives back the digits that were dropped and no others.
THEOREM ZerosComeBack ==
    ASSUME NEW c \in Cuits, IsValidCuit(c), NEW d \in LosesZeros(c)
    PROVE  CoerceCuit(d) = c /\ Accepts(d)
<1>1. PICK n \in 1 .. 2 : d = Shortened(c, n) /\ \A i \in 1 .. n : c[2 + i] = 0
  BY DEF LosesZeros, TypeLength
<1>2. /\ Len(d) = 11 - n
      /\ \A i \in 1 .. 11 - n : d[i] = IF i <= 2 THEN c[i] ELSE c[i + n]
  BY <1>1, ShortenedShape
<1>3. c \in [1 .. 11 -> 0 .. 9]
  BY DEF Cuits, Length, Digit
<1>4. ASSUME NEW i \in 1 .. 11
      PROVE  (IF i <= 2 THEN d[i] ELSE IF i <= 2 + 11 - Len(d) THEN 0 ELSE d[i - (11 - Len(d))]) = c[i]
  <2>1. CASE i <= 2
    BY <1>2, <2>1
  <2>2. CASE i > 2 /\ i <= 2 + n
    <3>1. i - 2 \in 1 .. n /\ 2 + (i - 2) = i
      BY <2>2
    <3>2. c[2 + (i - 2)] = 0
      BY <1>1, <3>1
    <3>3. c[i] = 0
      BY <3>1, <3>2
    <3>4. ~(i <= 2) /\ i <= 2 + 11 - Len(d)
      BY <1>2, <2>2
    <3> QED
      BY <3>3, <3>4
  <2>3. CASE i > 2 + n
    <3>1. i - n \in 1 .. 11 - n /\ ~(i - n <= 2) /\ (i - n) + n = i /\ 11 - Len(d) = n
      BY <1>2, <2>3
    <3> QED
      BY <1>2, <2>3, <3>1
  <2> QED
    BY <2>1, <2>2, <2>3
<1>5. Rebuilt(d) = c
  BY <1>3, <1>4 DEF Rebuilt, Length, TypeLength
<1>6. Len(d) \in Recoverable
  BY <1>2 DEF Recoverable, Length
<1>7. CoerceCuit(d) = c
  BY <1>5, <1>6 DEF CoerceCuit
<1> QED
  BY <1>7 DEF Accepts

\* The recovery invents nothing: what it returns is what was typed, or a CUIT that the
\* loss of leading zeros of its body turns into what was typed.
THEOREM NothingInvented ==
    ASSUME NEW d \in Seq(Digit)
    PROVE  CoerceCuit(d) = d \/ (IsValidCuit(CoerceCuit(d)) /\ d \in LosesZeros(CoerceCuit(d)))
<1>1. SUFFICES ASSUME Len(d) \in 9 .. 10, IsValidCuit(Rebuilt(d))
               PROVE  d \in LosesZeros(Rebuilt(d))
  BY DEF CoerceCuit, Recoverable, Length
<1> DEFINE c == Rebuilt(d)
           n == 11 - Len(d)
<1>2. n \in 1 .. 2 /\ Len(d) = 11 - n
  <2>1. Len(d) = 9 \/ Len(d) = 10
    BY <1>1
  <2>2. CASE Len(d) = 9
    BY <2>2
  <2>3. CASE Len(d) = 10
    BY <2>3
  <2> QED
    BY <2>1, <2>2, <2>3
<1>3. c = [i \in 1 .. 11 |-> IF i <= 2 THEN d[i] ELSE IF i <= 2 + n THEN 0 ELSE d[i - n]]
  BY <1>2 DEF Rebuilt, Length, TypeLength
<1> HIDE DEF c, n
<1>4. \A i \in 1 .. n : c[2 + i] = 0
  <2> SUFFICES ASSUME NEW i \in 1 .. n PROVE c[2 + i] = 0
    OBVIOUS
  <2>1. 2 + i \in 1 .. 11 /\ ~(2 + i <= 2) /\ 2 + i <= 2 + n
    BY <1>2
  <2> QED
    BY <1>3, <2>1
<1>5. d = Shortened(c, n)
  <2>1. d = [i \in 1 .. 11 - n |-> d[i]]
    BY <1>2
  <2>2. ASSUME NEW i \in 1 .. 11 - n
        PROVE  (IF i <= 2 THEN c[i] ELSE c[i + n]) = d[i]
    <3>1. CASE i <= 2
      BY <1>2, <1>3, <3>1
    <3>2. CASE i > 2
      <4>1. i + n \in 1 .. 11 /\ ~(i + n <= 2) /\ ~(i + n <= 2 + n) /\ (i + n) - n = i
        BY <1>2, <3>2
      <4>2. c[i + n] = d[(i + n) - n]
        BY <1>3, <4>1
      <4> QED
        BY <3>2, <4>1, <4>2
    <3> QED
      BY <3>1, <3>2
  <2> QED
    BY <2>1, <2>2 DEF Shortened, Length, TypeLength
<1> QED
  BY <1>2, <1>4, <1>5 DEF LosesZeros, TypeLength, c
-----------------------------------------------------------------------------
(* Sets of places in a list.                                               *)

LEMMA Least ==
  ASSUME NEW T \in SUBSET Nat, T # {}
  PROVE  \E n \in T : \A m \in T : n <= m
<1>1. IsWellFoundedOn(OpToRel(<, Nat), Nat)
  BY NatLessThanWellFounded
<1>2. PICK x \in T : \A y \in T : ~ (<<y, x>> \in OpToRel(<, Nat))
  BY <1>1, WFMin
<1>3. \A y \in Nat : y < x => <<y, x>> \in OpToRel(<, Nat)
  BY DEF OpToRel
<1>4. \A y \in T : ~(y < x)
  BY <1>2, <1>3
<1> QED
  BY <1>4

LEMMA MinFacts ==
  ASSUME NEW T \in SUBSET Nat, T # {}
  PROVE  Min(T) \in T /\ \A m \in T : Min(T) <= m
<1>1. \E n \in T : \A m \in T : n <= m
  BY Least
<1> QED
  BY <1>1 DEF Min

LEMMA MaxFacts ==
  ASSUME NEW n \in Nat, NEW T \in SUBSET (1..n), T # {}
  PROVE  Max(T) \in T /\ \A m \in T : Max(T) >= m
<1>1. \E k \in T : \A m \in T : k >= m
  <2> DEFINE U == {n - k : k \in T}
  <2>1. U \in SUBSET Nat /\ U # {}
    <3>1. \A k \in T : n - k \in Nat
      OBVIOUS
    <3> QED
      BY <3>1, Zenon
  <2>2. PICK u \in U : \A v \in U : u <= v
    <3> HIDE DEF U
    <3> QED BY <2>1, Least
  <2>3. PICK k \in T : u = n - k
    BY <2>2
  <2>4. \A m \in T : n - k <= n - m
    BY <2>2, <2>3
  <2> QED
    BY <2>4
<1> QED
  BY <1>1 DEF Max

\* There is an n-th index, as long as there are n indices.
LEMMA NthFacts ==
  ASSUME NEW size \in Nat, NEW indices \in SUBSET (1..size), NEW n \in 1..Cardinality(indices)
  PROVE  Nth(indices, n) \in indices
<1> DEFINE Upto(k) == {j \in indices : j <= k}
           T == {k \in 0..size : n <= Cardinality(Upto(k))}
<1>1. IsFiniteSet(indices)
  <2>1. IsFiniteSet(1..size)
    BY FS_Interval
  <2> QED
    BY <2>1, FS_Subset
<1>2. \A k \in 0..size : IsFiniteSet(Upto(k)) /\ Cardinality(Upto(k)) \in Nat
  BY <1>1, FS_Subset, FS_CardinalityType
<1>3. Upto(size) = indices /\ Upto(0) = {}
  <2>1. \A j \in indices : j <= size /\ ~(j <= 0)
    OBVIOUS
  <2>2. Upto(size) = indices
    BY <2>1, Zenon
  <2>3. Upto(0) = {}
    BY <2>1, Zenon
  <2> QED
    BY <2>2, <2>3
<1>4. Cardinality(indices) \in Nat
  BY <1>1, FS_CardinalityType
<1>5. size \in T
  BY <1>3, <1>4
<1>6. 0 \notin T
  BY <1>3, <1>4, FS_EmptySet
<1>7. PICK k \in T : \A m \in T : k <= m
  <2>1. T \subseteq 0..size
    BY Zenon
  <2> HIDE DEF T
  <2>2. T \in SUBSET Nat
    BY <2>1
  <2> QED
    BY <1>5, <2>2, Least
<1>8. k \in 1..size /\ k - 1 \in 0..size /\ k - 1 \notin T
  <2>1. T \subseteq 0..size
    BY Zenon
  <2> HIDE DEF T
  <2>2. k \in 0..size /\ k # 0
    BY <1>6, <1>7, <2>1
  <2> QED
    BY <1>7, <2>2
<1>9. k \in indices
  <2>1. SUFFICES ASSUME k \notin indices PROVE FALSE
    OBVIOUS
  <2>2. \A j \in indices : j <= k <=> j <= k - 1
    BY <1>8, <2>1
  <2>3. Upto(k) = Upto(k - 1)
    BY <2>2, Zenon
  <2>4. n <= Cardinality(Upto(k)) /\ ~(n <= Cardinality(Upto(k - 1)))
    BY <1>7, <1>8
  <2> HIDE DEF Upto
  <2> QED
    BY <2>3, <2>4
<1>10. Cardinality(Upto(k)) = Cardinality(Upto(k - 1)) + 1
  <2>1. Upto(k) = Upto(k - 1) \union {k}
    <3>1. \A j \in indices : j <= k <=> (j <= k - 1 \/ j = k)
      BY <1>8
    <3> QED
      BY <1>9, <3>1, Zenon
  <2>2. k \notin Upto(k - 1)
    BY <1>8
  <2>3. IsFiniteSet(Upto(k - 1))
    BY <1>2, <1>8
  <2> HIDE DEF Upto
  <2> QED
    BY <2>1, <2>2, <2>3, FS_AddElement
<1>11. Cardinality(Upto(k)) = n
  <2>1. n <= Cardinality(Upto(k)) /\ ~(n <= Cardinality(Upto(k - 1)))
    BY <1>7, <1>8
  <2>2. Cardinality(Upto(k - 1)) \in Nat
    BY <1>2, <1>8
  <2>3. n \in Nat
    BY <1>4
  <2> HIDE DEF Upto
  <2> QED
    BY <1>10, <2>1, <2>2, <2>3
<1> QED
  BY <1>9, <1>11 DEF Nth

\* Every index is the n-th one for some n.
LEMMA NthIs ==
  ASSUME NEW size \in Nat, NEW indices \in SUBSET (1..size), NEW i \in indices
  PROVE  \E n \in 1..Cardinality(indices) : Nth(indices, n) = i
<1> DEFINE Upto(k) == {j \in indices : j <= k}
           n == Cardinality(Upto(i))
<1>1. IsFiniteSet(indices)
  <2>1. IsFiniteSet(1..size)
    BY FS_Interval
  <2> QED
    BY <2>1, FS_Subset
<1>2. \A k : IsFiniteSet(Upto(k)) /\ Cardinality(Upto(k)) \in Nat /\ Cardinality(Upto(k)) <= Cardinality(indices)
  BY <1>1, FS_Subset, FS_CardinalityType
<1>3. Cardinality(indices) \in Nat
  BY <1>1, FS_CardinalityType
<1>4. i \in Upto(i)
  OBVIOUS
<1>5. n \in 1..Cardinality(indices)
  <2>1. n # 0
    <3> HIDE DEF Upto
    <3> QED
      BY <1>2, <1>4, FS_EmptySet
  <2> HIDE DEF Upto
  <2> QED
    BY <1>2, <1>3, <2>1
<1>6. ASSUME NEW k \in indices, NEW m \in indices, k < m
      PROVE  Cardinality(Upto(k)) # Cardinality(Upto(m))
  <2>1. /\ \A j \in indices : j <= k => j <= m
        /\ m <= m /\ ~(m <= k)
    BY <1>6
  <2>2. Upto(k) \subseteq Upto(m) /\ m \in Upto(m) /\ m \notin Upto(k)
    BY <2>1, Zenon
  <2> HIDE DEF Upto
  <2> QED
    BY <1>2, <2>2, FS_Subset
<1>7. ASSUME NEW k \in indices, Cardinality(Upto(k)) = n
      PROVE  k = i
  <2>1. ~(k < i) /\ ~(i < k)
    <3> HIDE DEF Upto
    <3> QED
      BY <1>6, <1>7
  <2> QED
    BY <2>1
<1>8. Nth(indices, n) = CHOOSE k \in indices : Cardinality(Upto(k)) = n
  BY DEF Nth
<1>9. Nth(indices, n) = i
  <2> HIDE DEF Upto
  <2> QED
    BY <1>7, <1>8
<1> QED
  BY <1>5, <1>9

-----------------------------------------------------------------------------
(* Companies that are typed, merged and imported.                          *)

\* Whatever may stand as a CUIT in the list, and the companies of the list.
Slipped == UNION {Typed(c) : c \in Known}
Written == Known \union Slipped \union Seq(Digit)
Readings == {CoerceCuit(d) : d \in Written}
AllCompanies == [cuit : Readings, label : Labels, meant : Known]

\* What a dialog may return: one company, but the wizard may return none.
Returned == {list \in Seq(AllCompanies) : Len(list) = 1}

LEMMA Reading == \A d \in Written : CoerceCuit(d) \in Readings
BY DEF Readings

LEMMA EnterableType ==
  ASSUME NEW c \in Enterable
  PROVE  c \in AllCompanies /\ <<c>> \in Returned
<1>0. PICK k \in Known : \E e \in Typed(k) \X Entries : c = Company(e[1], e[2], k)
  BY DEF Enterable
<1>1. PICK e \in Typed(k) \X Entries : c = Company(e[1], e[2], k)
  BY <1>0
<1>2. e[1] \in Slipped /\ e[2] \in Labels
  BY <1>1, EntriesAssumption DEF Slipped
<1>3. c \in AllCompanies
  BY <1>1, <1>2, Reading DEF Company, AllCompanies, Written
<1> QED
  BY <1>3 DEF Returned

\* The first places of the CUITs are places, and every CUIT has one.
LEMMA FirstsFacts ==
  ASSUME NEW list, NEW among \in SUBSET Nat, NEW i \in among
  PROVE  \E m \in Firsts(list, among) : list[m].cuit = list[i].cuit
<1> DEFINE same == {j \in among : list[j].cuit = list[i].cuit}
<1>1. same \in SUBSET Nat /\ same # {}
  OBVIOUS
<1>2. PICK m \in same : \A j \in same : m <= j
  <2> HIDE DEF same
  <2> QED BY <1>1, Least
<1>3. \A j \in among : list[j].cuit = list[m].cuit => m <= j
  BY <1>2
<1> QED
  BY <1>2, <1>3 DEF Firsts

\* What an import leaves: companies of the list or of the sheet, and no CUIT is lost.
LEMMA MergedFacts ==
  ASSUME NEW S, NEW list \in Seq(S), NEW created \in Seq(S)
  PROVE  /\ Merged(list, created) \in Seq(S)
         /\ \A k \in DOMAIN Merged(list, created) :
               \/ \E i \in DOMAIN list : Merged(list, created)[k] = list[i]
               \/ \E i \in DOMAIN created : Merged(list, created)[k] = created[i]
         /\ CuitsOf(list) \subseteq CuitsOf(Merged(list, created))
<1> DEFINE both == list \o created
           size == Len(both)
           firsts == Firsts(both, DOMAIN both)
           Same(k) == {j \in DOMAIN both : both[j].cuit = both[Nth(firsts, k)].cuit}
           merged == Merged(list, created)
<1>1. both \in Seq(S) /\ size \in Nat /\ DOMAIN both = 1 .. size
  OBVIOUS
<1>2. /\ \A i \in DOMAIN list : i \in DOMAIN both /\ both[i] = list[i]
      /\ \A i \in DOMAIN both : \/ \E j \in DOMAIN list : both[i] = list[j]
                                \/ \E j \in DOMAIN created : both[i] = created[j]
  <2>1. /\ Len(both) = Len(list) + Len(created) /\ Len(list) \in Nat /\ Len(created) \in Nat
        /\ DOMAIN list = 1 .. Len(list) /\ DOMAIN created = 1 .. Len(created)
        /\ \A i \in 1 .. Len(list) : both[i] = list[i]
        /\ \A i \in 1 .. Len(both) : i > Len(list) => both[i] = created[i - Len(list)]
    OBVIOUS
  <2> HIDE DEF both
  <2>2. \A i \in DOMAIN list : i \in DOMAIN both /\ both[i] = list[i]
    BY <1>1, <2>1
  <2>3. ASSUME NEW i \in DOMAIN both
        PROVE  \/ \E j \in DOMAIN list : both[i] = list[j]
               \/ \E j \in DOMAIN created : both[i] = created[j]
    <3>1. CASE i <= Len(list)
      BY <1>1, <2>1, <3>1
    <3>2. CASE i > Len(list)
      <4>1. i - Len(list) \in 1 .. Len(created) /\ both[i] = created[i - Len(list)]
        BY <1>1, <2>1, <3>2
      <4> QED
        BY <4>1, <2>1
    <3> QED
      BY <1>1, <2>1, <3>1, <3>2
  <2> QED
    BY <2>2, <2>3
<1> HIDE DEF both
<1>3. firsts \subseteq 1 .. size
  BY <1>1 DEF Firsts
<1>4. Cardinality(firsts) \in Nat
  <2>1. IsFiniteSet(1 .. size)
    BY <1>1, FS_Interval
  <2> HIDE DEF firsts, size
  <2> QED
    BY <1>3, <2>1, FS_Subset, FS_CardinalityType
<1>5. merged = [k \in 1 .. Cardinality(firsts) |-> both[Max(Same(k))]]
  BY DEF Merged, both
<1>6. ASSUME NEW k \in 1 .. Cardinality(firsts)
      PROVE  Max(Same(k)) \in DOMAIN both /\ both[Max(Same(k))].cuit = both[Nth(firsts, k)].cuit
  <2>1. Nth(firsts, k) \in firsts
    <3> HIDE DEF firsts, size
    <3> QED BY <1>1, <1>3, NthFacts
  <2>2. Nth(firsts, k) \in DOMAIN both
    BY <2>1, <1>1, <1>3
  <2>3. Same(k) \in SUBSET (1 .. size) /\ Same(k) # {}
    BY <2>2, <1>1
  <2>4. Max(Same(k)) \in Same(k)
    <3> HIDE DEF Same, size
    <3> QED BY <2>3, <1>1, MaxFacts
  <2> QED
    BY <2>4
<1> HIDE DEF Same
<1>7. merged \in Seq(S)
  <2>1. \A k \in 1 .. Cardinality(firsts) : both[Max(Same(k))] \in S
    BY <1>1, <1>6
  <2> HIDE DEF firsts, merged
  <2> QED
    BY <2>1, <1>4, <1>5
<1>8. DOMAIN merged = 1 .. Cardinality(firsts)
  BY <1>5
<1>9. ASSUME NEW k \in DOMAIN merged
      PROVE  \/ \E i \in DOMAIN list : merged[k] = list[i]
             \/ \E i \in DOMAIN created : merged[k] = created[i]
  <2>1. merged[k] = both[Max(Same(k))] /\ Max(Same(k)) \in DOMAIN both
    BY <1>5, <1>6, <1>8
  <2> HIDE DEF merged
  <2> QED
    BY <1>2, <2>1
<1>10. ASSUME NEW i \in DOMAIN list
       PROVE  \E k \in DOMAIN merged : merged[k].cuit = list[i].cuit
  <2>1. i \in DOMAIN both /\ both[i] = list[i]
    BY <1>2
  <2>2. PICK m \in firsts : both[m].cuit = both[i].cuit
    <3>1. DOMAIN both \in SUBSET Nat
      BY <1>1
    <3> QED
      BY <2>1, <3>1, FirstsFacts
  <2>3. PICK n \in 1 .. Cardinality(firsts) : Nth(firsts, n) = m
    <3> HIDE DEF firsts, size
    <3> QED BY <1>1, <1>3, NthIs
  <2>4. merged[n] = both[Max(Same(n))] /\ n \in DOMAIN merged
    BY <1>5, <1>8
  <2>5. both[Max(Same(n))].cuit = both[m].cuit
    BY <1>6, <2>3
  <2> HIDE DEF merged
  <2> QED
    BY <2>1, <2>2, <2>4, <2>5
<1>11. CuitsOf(list) \subseteq CuitsOf(merged)
  <2> HIDE DEF merged
  <2> QED
    BY <1>10 DEF CuitsOf
<1> QED
  BY <1>7, <1>9, <1>11

LEMMA OfRowsFacts ==
  ASSUME NEW size \in Nat, NEW rows \in [1 .. size -> AllCompanies],
         NEW places \in SUBSET (1 .. size), places # {}
  PROVE  /\ OfRows(rows, places) \in AllCompanies
         /\ \E j \in places : /\ OfRows(rows, places).cuit = rows[j].cuit
                              /\ OfRows(rows, places).meant = rows[j].meant
<1> DEFINE traded == {i \in places : rows[i].label.trade # Blank}
           label == [legal |-> rows[Min(places)].label.legal,
                     trade |-> IF traded = {} THEN Blank ELSE rows[Min(traded)].label.trade,
                     aliases |-> UNION {rows[i].label.aliases : i \in places}]
<1>1. places \in SUBSET Nat /\ traded \in SUBSET Nat /\ traded \subseteq places
  <2>1. places \in SUBSET Nat
    OBVIOUS
  <2>2. traded \subseteq places
    BY Zenon
  <2> HIDE DEF traded
  <2> QED
    BY <2>1, <2>2
<1>2. Min(places) \in places
  BY <1>1, MinFacts
<1>3. traded # {} => Min(traded) \in places
  <2> HIDE DEF traded
  <2> QED
    BY <1>1, MinFacts
<1>4. \A i \in places : rows[i].label \in Labels /\ rows[i] \in AllCompanies
  BY DEF AllCompanies
<1>5. label \in Labels
  <2>1. rows[Min(places)].label.legal \in Names \union {Blank}
    BY <1>2, <1>4 DEF Labels
  <2>2. traded # {} => rows[Min(traded)].label.trade \in Names \union {Blank}
    BY <1>3, <1>4 DEF Labels
  <2>3. UNION {rows[i].label.aliases : i \in places} \in SUBSET Names
    BY <1>4 DEF Labels
  <2> HIDE DEF traded
  <2> QED
    BY <2>1, <2>2, <2>3 DEF Labels
<1>6. OfRows(rows, places) = [rows[Min(places)] EXCEPT !.label = label]
  BY DEF OfRows
<1> HIDE DEF label
<1>7. rows[Min(places)] \in AllCompanies
  BY <1>2, <1>4
<1>8. /\ OfRows(rows, places) \in AllCompanies
      /\ OfRows(rows, places).cuit = rows[Min(places)].cuit
      /\ OfRows(rows, places).meant = rows[Min(places)].meant
  BY <1>5, <1>6, <1>7 DEF AllCompanies
<1> QED
  BY <1>2, <1>8

\* The rows of a sheet become companies, each from a row that was accepted.
LEMMA CreatedFacts ==
  ASSUME NEW sheet \in Sheets
  PROVE  /\ Created(sheet) \in Seq(AllCompanies)
         /\ \A k \in DOMAIN Created(sheet) : \E j \in DOMAIN sheet :
               /\ IsCompany(sheet[j].digits, sheet[j].label)
               /\ Created(sheet)[k].cuit = CoerceCuit(sheet[j].digits)
               /\ Created(sheet)[k].meant = sheet[j].meant
<1> DEFINE Row == [digits : Seq(Digit), label : Labels, meant : Known]
           size == Len(sheet)
           valid == {i \in DOMAIN sheet : IsCompany(sheet[i].digits, sheet[i].label)}
           rows == [i \in DOMAIN sheet |-> Company(sheet[i].digits, sheet[i].label, sheet[i].meant)]
           firsts == Firsts(rows, valid)
           Places(k) == {j \in valid : rows[j].cuit = rows[Nth(firsts, k)].cuit}
           created == Created(sheet)
<1>1. sheet \in Seq(Row)
  BY EntriesAssumption
<1>2. size \in Nat /\ DOMAIN sheet = 1 .. size /\ \A i \in DOMAIN sheet : sheet[i] \in Row
  <2> HIDE DEF Row
  <2> QED
    BY <1>1
<1>3. ASSUME NEW i \in DOMAIN sheet
      PROVE  /\ rows[i] \in AllCompanies
             /\ rows[i].cuit = CoerceCuit(sheet[i].digits)
             /\ rows[i].meant = sheet[i].meant
  <2>1. sheet[i].digits \in Seq(Digit) /\ sheet[i].label \in Labels /\ sheet[i].meant \in Known
    BY <1>2
  <2>2. rows[i] = Company(sheet[i].digits, sheet[i].label, sheet[i].meant)
    BY Zenon
  <2>3. CoerceCuit(sheet[i].digits) \in Readings
    BY <2>1, Reading DEF Written
  <2> HIDE DEF rows
  <2> QED
    BY <2>1, <2>2, <2>3 DEF Company, AllCompanies
<1>4. rows \in [1 .. size -> AllCompanies]
  BY <1>2, <1>3
<1>5. valid \subseteq 1 .. size
  BY <1>2
<1> HIDE DEF size, valid, rows
<1>6. firsts \subseteq valid
  BY DEF Firsts
<1>7. Cardinality(firsts) \in Nat
  <2>1. IsFiniteSet(1 .. size)
    BY <1>2, FS_Interval
  <2> HIDE DEF firsts
  <2> QED
    BY <1>5, <1>6, <2>1, FS_Subset, FS_CardinalityType
<1>8. created = [k \in 1 .. Cardinality(firsts) |-> OfRows(rows, Places(k))]
  BY DEF Created, valid, rows
<1> HIDE DEF firsts
<1>9. ASSUME NEW k \in 1 .. Cardinality(firsts)
      PROVE  Places(k) \in SUBSET (1 .. size) /\ Places(k) # {} /\ Places(k) \subseteq valid
  <2>1. Nth(firsts, k) \in firsts
    BY <1>2, <1>5, <1>6, NthFacts
  <2> QED
    BY <2>1, <1>5, <1>6
<1> HIDE DEF Places
<1>10. ASSUME NEW k \in 1 .. Cardinality(firsts)
       PROVE  /\ OfRows(rows, Places(k)) \in AllCompanies
              /\ \E j \in valid : /\ OfRows(rows, Places(k)).cuit = rows[j].cuit
                                  /\ OfRows(rows, Places(k)).meant = rows[j].meant
  BY <1>2, <1>4, <1>9, OfRowsFacts
<1>11. created \in Seq(AllCompanies)
  <2> HIDE DEF created
  <2> QED
    BY <1>7, <1>8, <1>10
<1>12. ASSUME NEW k \in DOMAIN created
       PROVE  \E j \in DOMAIN sheet :
                 /\ IsCompany(sheet[j].digits, sheet[j].label)
                 /\ created[k].cuit = CoerceCuit(sheet[j].digits)
                 /\ created[k].meant = sheet[j].meant
  <2>1. k \in 1 .. Cardinality(firsts) /\ created[k] = OfRows(rows, Places(k))
    BY <1>8
  <2>2. PICK j \in valid : created[k].cuit = rows[j].cuit /\ created[k].meant = rows[j].meant
    BY <1>10, <2>1
  <2>3. j \in DOMAIN sheet /\ IsCompany(sheet[j].digits, sheet[j].label)
    BY DEF valid
  <2> HIDE DEF created
  <2> QED
    BY <1>3, <2>2, <2>3
<1> QED
  BY <1>11, <1>12

-----------------------------------------------------------------------------
(* The invariant.  A dialog behind which nothing happened is the one on    *)
(* top, and unless it is a box of the system, is opening or is closed it   *)
(* holds the grab; so while a button can be clicked nothing but a dialog   *)
(* that is opening is so, and a callback that returns leaves only dialogs  *)
(* behind which something happened.                                        *)

Kinds == {"add", "edit", "remove", "first run", "report"}
Dialogs == [kind : Kinds, index : Nat, of : SUBSET AllCompanies, opening : BOOLEAN,
            behind : SUBSET {"dialog", "import"}, closed : BOOLEAN, result : SUBSET Seq(AllCompanies)]

Types ==
    /\ companies \in Seq(AllCompanies)
    /\ dialogs \in Seq(Dialogs)
    /\ grab \in Int
    /\ importing \in [Imports -> Sheets \union {Refused, NoSheet}]

Results == \A p \in DOMAIN dialogs : dialogs[p].kind # "first run" => dialogs[p].result \subseteq Returned

IsBehind(p) == dialogs[p].behind # {}
IsOpening(p) == dialogs[p].opening
Holds(p) == dialogs[p].kind = "remove" \/ dialogs[p].closed \/ dialogs[p].opening \/ grab = p

Fresh == \A p \in DOMAIN dialogs : ~IsBehind(p) => p = Len(dialogs) /\ Holds(p)

\* The wizard of the first start finds no company.
FirstRun == \A p \in DOMAIN dialogs : dialogs[p].kind = "first run" /\ ~IsBehind(p) => companies = <<>>

Inv == Types /\ Results /\ Fresh /\ FirstRun /\ EditsItsOwn

LEMMA Filled ==
  ASSUME NEW S, NEW n \in Nat, NEW f, f = [i \in 1 .. n |-> f[i]], \A i \in 1 .. n : f[i] \in S
  PROVE  f \in Seq(S) /\ Len(f) = n
OBVIOUS

LEMMA SequenceFacts ==
  ASSUME NEW S, NEW s \in Seq(S)
  PROVE  /\ Len(s) \in Nat /\ DOMAIN s = 1 .. Len(s) /\ \A i \in DOMAIN s : s[i] \in S
         /\ s # <<>> => Len(s) # 0
         /\ DOMAIN s # {} => s # <<>>
OBVIOUS

LEMMA AppendFacts ==
  ASSUME NEW S, NEW s \in Seq(S), NEW d \in S
  PROVE  /\ Append(s, d) \in Seq(S) /\ Len(Append(s, d)) = Len(s) + 1
         /\ DOMAIN Append(s, d) = 1 .. Len(s) + 1
         /\ \A p \in 1 .. Len(s) : Append(s, d)[p] = s[p]
         /\ Append(s, d)[Len(s) + 1] = d
OBVIOUS

\* While a button can be clicked a dialog is opening or something happened behind it.
LEMMA ClickableBehind ==
  ASSUME Types, Fresh, Clickable
  PROVE  \A p \in DOMAIN dialogs : p \in Opening \/ IsBehind(p)
<1> SUFFICES ASSUME NEW p \in DOMAIN dialogs, ~IsBehind(p), ~IsOpening(p)
             PROVE  FALSE
  BY Zenon DEF Opening, IsOpening
<1>1. dialogs \in Seq(Dialogs)
  BY DEF Types
<1>2. dialogs # <<>> /\ p # 0
  <2>1. DOMAIN dialogs = 1 .. Len(dialogs) /\ Len(dialogs) \in Nat
    BY <1>1, SequenceFacts
  <2>2. p \in 1 .. Len(dialogs)
    BY <2>1
  <2> QED
    BY <1>1, <2>1, <2>2, SequenceFacts
<1>3. p = Len(dialogs) /\ Holds(p)
  BY Zenon DEF Fresh
<1>4. dialogs[p].kind # "remove" /\ ~dialogs[p].closed /\ grab = 0
  BY <1>2, <1>3 DEF Clickable, Settled, Box, Top, Nobody
<1>5. grab = p
  BY <1>3, <1>4, Zenon DEF Holds, IsOpening
<1> QED
  BY <1>2, <1>4, <1>5

\* A dialog that opens, for a new company or for one in the list.
NewDialog(d, kind, index) ==
    /\ d \in Dialogs
    /\ d.kind = kind /\ d.index = index
    /\ d.result = {} /\ d.closed = FALSE /\ (d.kind = "remove" \/ d.opening)
    /\ \A c \in d.of : index \in DOMAIN companies /\ companies[index] = c

LEMMA DialogFacts ==
  ASSUME Types, NEW kind \in Kinds, NEW index, index = 0 \/ index \in DOMAIN companies
  PROVE  NewDialog(Dialog(kind, index), kind, index)
<1>1. DOMAIN companies \subseteq Nat /\ \A i \in DOMAIN companies : companies[i] \in AllCompanies
  BY DEF Types
<1>2. index \in Nat
  BY <1>1
<1>3. 0 \notin DOMAIN companies
  BY DEF Types
<1>4. (IF index = 0 THEN {} ELSE {companies[index]}) \in SUBSET AllCompanies
  BY <1>1
<1>5. (kind # "remove") \in BOOLEAN
  OBVIOUS
<1>6. Dialog(kind, index) \in Dialogs
  BY <1>2, <1>4, <1>5 DEF Dialog, Dialogs
<1> QED
  BY <1>3, <1>6 DEF Dialog, NewDialog

\* The stack of dialogs with one on top, and something marked behind the others.
Topped(s, t, d) ==
    /\ t \in Seq(Dialogs) /\ Len(t) = Len(s) + 1 /\ t[Len(s) + 1] = d
    /\ \A p \in DOMAIN t : \/ p = Len(s) + 1
                          \/ /\ p \in DOMAIN s /\ t[p].behind # {}
                             /\ t[p].kind = s[p].kind /\ t[p].result = s[p].result

LEMMA MarkedFacts ==
  ASSUME dialogs \in Seq(Dialogs), NEW what \in {"dialog", "import"}, NEW among,
         \A p \in DOMAIN dialogs : p \in among \/ IsBehind(p)
  PROVE  /\ Marked(what, among) \in Seq(Dialogs) /\ Len(Marked(what, among)) = Len(dialogs)
         /\ \A p \in DOMAIN dialogs :
               /\ Marked(what, among)[p].behind # {}
               /\ Marked(what, among)[p].kind = dialogs[p].kind
               /\ Marked(what, among)[p].result = dialogs[p].result
<1> DEFINE m == Marked(what, among)
<1>1. DOMAIN dialogs = 1 .. Len(dialogs) /\ Len(dialogs) \in Nat /\ \A p \in DOMAIN dialogs : dialogs[p] \in Dialogs
  BY SequenceFacts
<1>2. m = [p \in DOMAIN dialogs |-> m[p]]
  BY DEF Marked
<1>3. ASSUME NEW p \in DOMAIN dialogs
      PROVE  m[p] \in Dialogs /\ m[p].behind # {} /\ m[p].kind = dialogs[p].kind /\ m[p].result = dialogs[p].result
  <2>1. dialogs[p] \in Dialogs
    BY <1>1, Zenon
  <2>2. CASE p \in among
    <3>1. m[p] = [dialogs[p] EXCEPT !.behind = dialogs[p].behind \union {what}]
      BY <2>2 DEF Marked
    <3> HIDE DEF m
    <3> QED
      BY <2>1, <3>1 DEF Dialogs
  <2>3. CASE p \notin among
    <3>1. m[p] = [dialogs[p] EXCEPT !.behind = dialogs[p].behind]
      BY <2>3 DEF Marked
    <3>2. dialogs[p].behind # {}
      BY <2>3 DEF IsBehind
    <3> HIDE DEF m
    <3> QED
      BY <2>1, <3>1, <3>2 DEF Dialogs
  <2> QED
    BY <2>2, <2>3
<1> HIDE DEF m
<1>4. m \in Seq(Dialogs) /\ Len(m) = Len(dialogs)
  <2>1. m = [p \in 1 .. Len(dialogs) |-> m[p]]
    BY <1>1, <1>2, Zenon
  <2>2. \A p \in 1 .. Len(dialogs) : m[p] \in Dialogs
    BY <1>1, <1>3, Zenon
  <2>3. Len(dialogs) \in Nat
    BY <1>1
  <2> QED
    BY <2>1, <2>2, <2>3, Filled
<1> QED
  BY <1>3, <1>4 DEF m

LEMMA ToppedFacts ==
  ASSUME dialogs \in Seq(Dialogs), NEW what \in {"dialog", "import"}, NEW among, NEW d \in Dialogs,
         \A p \in DOMAIN dialogs : p \in among \/ IsBehind(p)
  PROVE  Topped(dialogs, Append(Marked(what, among), d), d)
<1> DEFINE m == Marked(what, among)
           t == Append(m, d)
           n == Len(dialogs)
<1>1. /\ m \in Seq(Dialogs) /\ Len(m) = n
      /\ \A p \in DOMAIN dialogs :
            m[p].behind # {} /\ m[p].kind = dialogs[p].kind /\ m[p].result = dialogs[p].result
  BY MarkedFacts
<1>2. n \in Nat /\ DOMAIN dialogs = 1 .. n
  BY SequenceFacts
<1> HIDE DEF m
<1>3. m \in Seq(Dialogs) /\ d \in Dialogs
  BY <1>1
<1>4. /\ t \in Seq(Dialogs) /\ Len(t) = Len(m) + 1 /\ DOMAIN t = 1 .. Len(m) + 1
      /\ \A p \in 1 .. Len(m) : t[p] = m[p]
      /\ t[Len(m) + 1] = d
  BY ONLY <1>3, AppendFacts
<1> HIDE DEF t, n
<1>5. \A p \in 1 .. n + 1 : p = n + 1 \/ p \in 1 .. n
  BY <1>2
<1>6. \A p \in DOMAIN t : p = n + 1 \/ (p \in DOMAIN dialogs /\ t[p] = m[p])
  BY <1>1, <1>2, <1>4, <1>5, Zenon
<1>7. Topped(dialogs, t, d)
  BY <1>1, <1>4, <1>6, Zenon DEF Topped, n
<1> QED
  BY <1>7 DEF t, m

\* A dialog is put on the stack.
Pushes(what, among, kind, index) ==
    /\ kind \in Kinds \ {"first run"} /\ (index = 0 \/ index \in DOMAIN companies)
    /\ what \in {"dialog", "import"}
    /\ \A p \in DOMAIN dialogs : p \in among \/ IsBehind(p)
    /\ dialogs' = Append(Marked(what, among), Dialog(kind, index))
    /\ companies' \in Seq(AllCompanies) /\ (index = 0 \/ companies' = companies)
    /\ grab' \in Int
    /\ importing' \in [Imports -> Sheets \union {Refused, NoSheet}]

LEMMA PushInv ==
  ASSUME Inv, NEW what, NEW among, NEW kind, NEW index, Pushes(what, among, kind, index)
  PROVE  Inv'
<1> DEFINE d == Dialog(kind, index)
           n == Len(dialogs)
<1>1. Types /\ dialogs \in Seq(Dialogs) /\ kind \in Kinds /\ (index = 0 \/ index \in DOMAIN companies)
  BY Zenon DEF Inv, Types, Pushes
<1>2. NewDialog(d, kind, index)
  BY <1>1, DialogFacts, Zenon
<1>3. Topped(dialogs, dialogs', d)
  <2>1. d \in Dialogs /\ dialogs \in Seq(Dialogs)
    BY <1>1, <1>2, Zenon DEF NewDialog
  <2>2. /\ what \in {"dialog", "import"}
        /\ \A p \in DOMAIN dialogs : p \in among \/ IsBehind(p)
        /\ dialogs' = Append(Marked(what, among), d)
    BY DEF Pushes
  <2> HIDE DEF d
  <2>3. Topped(dialogs, Append(Marked(what, among), d), d)
    BY <2>1, <2>2, ToppedFacts, Zenon
  <2> QED
    BY <2>2, <2>3, Zenon
<1> HIDE DEF d, n
<1>4. \A p \in DOMAIN dialogs' : \/ p = n + 1 /\ dialogs'[p] = d
                                \/ /\ p \in DOMAIN dialogs /\ IsBehind(p)'
                                   /\ dialogs'[p].kind = dialogs[p].kind
                                   /\ dialogs'[p].result = dialogs[p].result
  BY <1>3, Zenon DEF Topped, IsBehind, n
<1>5. Types'
  <2>1. dialogs' \in Seq(Dialogs)
    BY <1>3 DEF Topped
  <2> QED
    BY <2>1, Zenon DEF Types, Pushes
<1>6. Results'
  <2> SUFFICES ASSUME NEW p \in DOMAIN dialogs', dialogs'[p].kind # "first run"
               PROVE  dialogs'[p].result \subseteq Returned
    BY Zenon DEF Results
  <2>1. {} \subseteq Returned
    OBVIOUS
  <2> QED
    BY <1>2, <1>4, <2>1, Zenon DEF Inv, Results, NewDialog
<1>7. Fresh'
  <2> SUFFICES ASSUME NEW p \in DOMAIN dialogs', ~IsBehind(p)'
               PROVE  p = Len(dialogs') /\ Holds(p)'
    BY Zenon DEF Fresh
  <2>1. p = n + 1 /\ dialogs'[p] = d
    BY <1>4, Zenon
  <2>2. Len(dialogs') = n + 1
    BY <1>3, Zenon DEF Topped, n
  <2> QED
    BY <1>2, <2>1, <2>2, Zenon DEF Holds, NewDialog
<1>8. FirstRun'
  <2>1. kind # "first run"
    BY DEF Pushes
  <2> QED
    BY <1>2, <1>4, <2>1, Zenon DEF FirstRun, NewDialog
<1>9. EditsItsOwn'
  <2> SUFFICES ASSUME NEW p \in DOMAIN dialogs', NEW c \in dialogs'[p].of, ~IsBehind(p)'
               PROVE  dialogs'[p].index \in DOMAIN companies' /\ companies'[dialogs'[p].index] = c
    BY Zenon DEF EditsItsOwn, IsBehind
  <2>1. dialogs'[p] = d
    BY <1>4, Zenon
  <2>2. index \in DOMAIN companies /\ companies[index] = c /\ d.index = index
    BY <1>2, <2>1, Zenon DEF NewDialog
  <2>3. index # 0
    <3>1. 0 \notin DOMAIN companies
      BY <1>1 DEF Types
    <3> QED
      BY <2>2, <3>1
  <2>4. companies' = companies
    BY <2>3, Zenon DEF Pushes
  <2> QED
    BY <2>1, <2>2, <2>4, Zenon
<1> QED
  BY <1>5, <1>6, <1>7, <1>8, <1>9, Zenon DEF Inv

LEMMA OpenInv ==
  ASSUME Inv, NEW kind \in {"add", "edit", "remove"}, NEW index,
         index = 0 \/ index \in DOMAIN companies, Open(kind, index)
  PROVE  Inv'
<1>1. \A p \in DOMAIN dialogs : p \in Opening \/ IsBehind(p)
  BY ClickableBehind, Zenon DEF Open, Inv
<1>2. kind \in Kinds \ {"first run"}
  BY DEF Kinds
<1>3. Pushes("dialog", Opening, kind, index)
  BY <1>1, <1>2, Zenon DEF Pushes, Open, Inv, Types
<1> QED
  BY <1>3, PushInv

LEMMA FrontFacts ==
  ASSUME NEW S, NEW s \in Seq(S), s # <<>>
  PROVE  /\ Front(s) \in Seq(S) /\ Len(Front(s)) = Len(s) - 1
         /\ DOMAIN Front(s) = 1 .. Len(s) - 1
         /\ \A p \in 1 .. Len(s) - 1 : Front(s)[p] = s[p]
<1>1. Len(s) \in Nat /\ Len(s) # 0
  OBVIOUS
<1>2. Len(s) - 1 \in Nat /\ Len(s) - 1 <= Len(s)
  BY <1>1
<1>3. SubSeq(s, 1, Len(s) - 1) = [i \in 1 .. Len(s) - 1 |-> s[i]]
  BY <1>1, <1>2
<1>4. \A i \in 1 .. Len(s) - 1 : s[i] \in S
  BY <1>1, <1>2
<1> DEFINE n == Len(s) - 1
<1>5. n \in Nat /\ (\A i \in 1 .. n : s[i] \in S) /\ Front(s) = [i \in 1 .. n |-> s[i]]
  BY <1>2, <1>3, <1>4 DEF Front
<1> HIDE DEF n
<1>6. /\ Front(s) \in Seq(S) /\ Len(Front(s)) = n /\ DOMAIN Front(s) = 1 .. n
      /\ \A p \in 1 .. n : Front(s)[p] = s[p]
  BY <1>5
<1> QED
  BY <1>6 DEF n

LEMMA Below ==
  ASSUME NEW n \in Nat, NEW p \in 1 .. n - 1
  PROVE  p \in 1 .. n /\ p # n /\ n # 1
OBVIOUS

LEMMA ReplaceFacts ==
  ASSUME NEW S, NEW s \in Seq(S), NEW p \in DOMAIN s, NEW d \in S
  PROVE  /\ [s EXCEPT ![p] = d] \in Seq(S) /\ Len([s EXCEPT ![p] = d]) = Len(s)
         /\ DOMAIN [s EXCEPT ![p] = d] = DOMAIN s
         /\ [s EXCEPT ![p] = d][p] = d
         /\ \A q \in DOMAIN s : q # p => [s EXCEPT ![p] = d][q] = s[q]
OBVIOUS

\* The stack of dialogs after the one at a place was seen, or has closed.
AfterShowing(s, p) == [s EXCEPT ![p].opening = FALSE]
AfterClosing(s, p, result) == [s EXCEPT ![p].closed = TRUE, ![p].result = result]

OnlyThere(s, t, p) ==
    /\ t \in Seq(Dialogs) /\ Len(t) = Len(s) /\ DOMAIN t = DOMAIN s
    /\ \A q \in DOMAIN s : /\ q # p => t[q] = s[q]
                           /\ t[q].kind = s[q].kind /\ t[q].index = s[q].index
                           /\ t[q].of = s[q].of /\ t[q].behind = s[q].behind

LEMMA ThereFacts ==
  ASSUME NEW s \in Seq(Dialogs), NEW p \in DOMAIN s, NEW d \in Dialogs,
         d.kind = s[p].kind, d.index = s[p].index, d.of = s[p].of, d.behind = s[p].behind
  PROVE  OnlyThere(s, [s EXCEPT ![p] = d], p) /\ [s EXCEPT ![p] = d][p] = d
<1>1. /\ [s EXCEPT ![p] = d] \in Seq(Dialogs) /\ Len([s EXCEPT ![p] = d]) = Len(s)
      /\ DOMAIN [s EXCEPT ![p] = d] = DOMAIN s
      /\ [s EXCEPT ![p] = d][p] = d
      /\ \A q \in DOMAIN s : q # p => [s EXCEPT ![p] = d][q] = s[q]
  BY ReplaceFacts, Zenon
<1> QED
  BY <1>1, Zenon DEF OnlyThere

LEMMA ClosedFacts ==
  ASSUME NEW s \in Seq(Dialogs), NEW p \in DOMAIN s, NEW result \in SUBSET Seq(AllCompanies)
  PROVE  /\ OnlyThere(s, AfterClosing(s, p, result), p)
         /\ AfterClosing(s, p, result)[p].closed
         /\ AfterClosing(s, p, result)[p].result = result
<1> DEFINE t == AfterClosing(s, p, result)
           d == [s[p] EXCEPT !.closed = TRUE, !.result = result]
<1>1. s[p] \in Dialogs
  OBVIOUS
<1>2. /\ d \in Dialogs /\ d.closed /\ d.result = result
      /\ d.kind = s[p].kind /\ d.index = s[p].index /\ d.of = s[p].of /\ d.behind = s[p].behind
  BY <1>1 DEF Dialogs
<1>3. t = [s EXCEPT ![p] = d]
  BY DEF AfterClosing
<1> HIDE DEF t, d
<1>4. OnlyThere(s, [s EXCEPT ![p] = d], p) /\ [s EXCEPT ![p] = d][p] = d
  BY <1>2, ThereFacts, Zenon
<1>5. OnlyThere(s, t, p) /\ t[p].closed /\ t[p].result = result
  BY <1>2, <1>3, <1>4, Zenon
<1> QED
  BY <1>5 DEF t

LEMMA ShownFacts ==
  ASSUME NEW s \in Seq(Dialogs), NEW p \in DOMAIN s
  PROVE  /\ OnlyThere(s, AfterShowing(s, p), p)
         /\ AfterShowing(s, p)[p].result = s[p].result
<1> DEFINE t == AfterShowing(s, p)
           d == [s[p] EXCEPT !.opening = FALSE]
<1>1. s[p] \in Dialogs
  OBVIOUS
<1>2. /\ d \in Dialogs /\ d.result = s[p].result
      /\ d.kind = s[p].kind /\ d.index = s[p].index /\ d.of = s[p].of /\ d.behind = s[p].behind
  BY <1>1 DEF Dialogs
<1>3. t = [s EXCEPT ![p] = d]
  BY DEF AfterShowing
<1> HIDE DEF t, d
<1>4. OnlyThere(s, [s EXCEPT ![p] = d], p) /\ [s EXCEPT ![p] = d][p] = d
  BY <1>2, ThereFacts, Zenon
<1>5. OnlyThere(s, t, p) /\ t[p].result = s[p].result
  BY <1>2, <1>3, <1>4, Zenon
<1> QED
  BY <1>5 DEF t

\* What one dialog's being seen or closed keeps of the invariant.
LEMMA ThereInv ==
  ASSUME Inv, NEW p \in DOMAIN dialogs, OnlyThere(dialogs, dialogs', p),
         dialogs'[p].kind # "first run" => dialogs'[p].result \subseteq Returned,
         grab' \in Int, UNCHANGED <<companies, importing>>
  PROVE  Types' /\ Results' /\ FirstRun' /\ EditsItsOwn'
<1>1. /\ dialogs' \in Seq(Dialogs) /\ DOMAIN dialogs' = DOMAIN dialogs
      /\ \A q \in DOMAIN dialogs :
            /\ q # p => dialogs'[q] = dialogs[q]
            /\ dialogs'[q].kind = dialogs[q].kind /\ dialogs'[q].index = dialogs[q].index
            /\ dialogs'[q].of = dialogs[q].of /\ dialogs'[q].behind = dialogs[q].behind
  BY Zenon DEF OnlyThere
<1>2. companies' = companies /\ importing' = importing
  OBVIOUS
<1>3. Types'
  <2>1. companies \in Seq(AllCompanies) /\ importing \in [Imports -> Sheets \union {Refused, NoSheet}]
    BY Zenon DEF Inv, Types
  <2> QED
    BY <1>1, <1>2, <2>1, Zenon DEF Types
<1>4. Results'
  BY <1>1, Zenon DEF Inv, Results
<1>5. FirstRun'
  BY <1>1, <1>2, Zenon DEF Inv, FirstRun, IsBehind
<1>6. EditsItsOwn'
  <2> SUFFICES ASSUME NEW q \in DOMAIN dialogs', NEW c \in dialogs'[q].of, ~(dialogs'[q].behind # {})
               PROVE  dialogs'[q].index \in DOMAIN companies' /\ companies'[dialogs'[q].index] = c
    BY Zenon DEF EditsItsOwn
  <2>1. /\ q \in DOMAIN dialogs /\ c \in dialogs[q].of /\ ~(dialogs[q].behind # {})
        /\ dialogs'[q].index = dialogs[q].index
    BY <1>1, Zenon
  <2>2. dialogs[q].index \in DOMAIN companies /\ companies[dialogs[q].index] = c
    BY <2>1, Zenon DEF Inv, EditsItsOwn
  <2> QED
    BY <1>2, <2>1, <2>2, Zenon
<1> QED
  BY <1>3, <1>4, <1>5, <1>6

\* A dialog is closed.
Closes(p, result) ==
    /\ Settled /\ ~Box /\ grab \in {Nobody, p} /\ grab' = Nobody
    /\ dialogs' = AfterClosing(dialogs, p, result)
    /\ UNCHANGED <<companies, importing>>
    /\ result \in SUBSET Seq(AllCompanies)
    /\ dialogs[p].kind # "first run" => result \subseteq Returned

LEMMA CloseCloses ==
  ASSUME NEW p, NEW result \in SUBSET Seq(AllCompanies),
         dialogs[p].kind # "first run" => result \subseteq Returned, Close(p, result)
  PROVE  \E r : Closes(p, r)
<1> DEFINE r == IF dialogs[p].opening THEN {} ELSE result
<1>1. dialogs' = AfterClosing(dialogs, p, r)
  BY DEF Close, AfterClosing
<1>2. r \in SUBSET Seq(AllCompanies) /\ (dialogs[p].kind # "first run" => r \subseteq Returned)
  OBVIOUS
<1> HIDE DEF r
<1>3. Closes(p, r)
  BY <1>1, <1>2, Zenon DEF Close, Closes
<1> QED
  BY <1>3

LEMMA CloseInv ==
  ASSUME Inv, NEW p \in DOMAIN dialogs, NEW result, Closes(p, result)
  PROVE  Inv'
<1>1. dialogs \in Seq(Dialogs) /\ result \in SUBSET Seq(AllCompanies)
  BY DEF Inv, Types, Closes
<1>2. OnlyThere(dialogs, dialogs', p) /\ dialogs'[p].closed /\ dialogs'[p].result = result
  <2>1. /\ OnlyThere(dialogs, AfterClosing(dialogs, p, result), p)
        /\ AfterClosing(dialogs, p, result)[p].closed
        /\ AfterClosing(dialogs, p, result)[p].result = result
    BY <1>1, ClosedFacts, Zenon
  <2>2. dialogs' = AfterClosing(dialogs, p, result)
    BY DEF Closes
  <2> QED
    BY <2>1, <2>2, Zenon
<1>3. grab \in {Nobody, p} /\ grab' = Nobody /\ UNCHANGED <<companies, importing>>
  BY Zenon DEF Closes
<1>4. dialogs'[p].kind # "first run" => dialogs'[p].result \subseteq Returned
  BY <1>2, Zenon DEF Closes, OnlyThere
<1>5. grab' \in Int
  BY <1>3 DEF Nobody
<1>6. Types' /\ Results' /\ FirstRun' /\ EditsItsOwn'
  BY <1>2, <1>3, <1>4, <1>5, ThereInv, Zenon
<1>7. Fresh'
  <2> SUFFICES ASSUME NEW q \in DOMAIN dialogs', ~IsBehind(q)'
               PROVE  q = Len(dialogs') /\ Holds(q)'
    BY Zenon DEF Fresh
  <2>1. q \in DOMAIN dialogs /\ ~IsBehind(q) /\ Len(dialogs') = Len(dialogs)
    BY <1>2, Zenon DEF OnlyThere, IsBehind
  <2>2. q = Len(dialogs) /\ Holds(q)
    BY <2>1, Zenon DEF Inv, Fresh
  <2>3. CASE q = p
    BY <1>2, <2>1, <2>2, <2>3, Zenon DEF Holds
  <2>4. CASE q # p
    <3>1. dialogs # <<>> /\ q # 0
      <4>1. DOMAIN dialogs = 1 .. Len(dialogs) /\ Len(dialogs) \in Nat
        BY <1>1, SequenceFacts
      <4>2. q \in 1 .. Len(dialogs)
        BY <2>1, <4>1, Zenon
      <4> QED
        BY <1>1, <4>1, <4>2, SequenceFacts
    <3>2. dialogs[q].kind # "remove" /\ ~dialogs[q].closed
      BY <2>2, <3>1, Zenon DEF Closes, Settled, Box, Top
    <3>3. grab # q
      BY <1>3, <2>4, <3>1 DEF Nobody
    <3>4. dialogs[q].opening /\ dialogs'[q] = dialogs[q]
      BY <1>2, <2>1, <2>2, <2>4, <3>2, <3>3, Zenon DEF Holds, OnlyThere
    <3> QED
      BY <2>1, <2>2, <3>4, Zenon DEF Holds
  <2> QED
    BY <2>3, <2>4
<1> QED
  BY <1>6, <1>7, Zenon DEF Inv

\* The dialog on top is seen.
LEMMA ShowModalInv ==
  ASSUME Inv, ShowModal
  PROVE  Inv'
<1> DEFINE p == Len(dialogs)
<1>1. dialogs # <<>> /\ grab' = p /\ dialogs' = AfterShowing(dialogs, p) /\ UNCHANGED <<companies, importing>>
  BY DEF ShowModal, AfterShowing
<1>2. dialogs \in Seq(Dialogs)
  BY DEF Inv, Types
<1>3. p \in DOMAIN dialogs /\ p \in Int
  BY <1>1, <1>2
<1> HIDE DEF p
<1>4. OnlyThere(dialogs, dialogs', p) /\ dialogs'[p].result = dialogs[p].result
  BY <1>1, <1>2, <1>3, ShownFacts, Zenon
<1>5. dialogs'[p].kind # "first run" => dialogs'[p].result \subseteq Returned
  BY <1>3, <1>4, Zenon DEF Inv, Results, OnlyThere
<1>6. grab' \in Int
  BY <1>1, <1>3, Zenon
<1>7. Types' /\ Results' /\ FirstRun' /\ EditsItsOwn'
  BY <1>1, <1>3, <1>4, <1>5, <1>6, ThereInv, Zenon
<1>8. Fresh'
  <2> SUFFICES ASSUME NEW q \in DOMAIN dialogs', ~IsBehind(q)'
               PROVE  q = Len(dialogs') /\ Holds(q)'
    BY Zenon DEF Fresh
  <2>1. q \in DOMAIN dialogs /\ ~IsBehind(q) /\ Len(dialogs') = Len(dialogs)
    BY <1>4, Zenon DEF OnlyThere, IsBehind
  <2>2. q = Len(dialogs)
    BY <2>1, Zenon DEF Inv, Fresh
  <2> QED
    BY <1>1, <2>1, <2>2, Zenon DEF Holds, p
<1> QED
  BY <1>7, <1>8, Zenon DEF Inv

\* A callback returns, whatever it makes of the list: something happened behind what is left
\* of the stack.
Pops(list) ==
    /\ companies' = list /\ dialogs' = Front(dialogs)
    /\ grab' \in Int
    /\ UNCHANGED importing

LEMMA ReturnInv ==
  ASSUME Inv, dialogs # <<>>, NEW list \in Seq(AllCompanies), Pops(list)
  PROVE  Inv'
<1>1. dialogs \in Seq(Dialogs)
  BY DEF Inv, Types
<1>2. Len(dialogs) \in Nat /\ DOMAIN dialogs = 1 .. Len(dialogs)
  BY <1>1, SequenceFacts
<1>3. companies' = list /\ dialogs' = Front(dialogs) /\ UNCHANGED importing
  BY DEF Pops
<1>4. /\ dialogs' \in Seq(Dialogs) /\ Len(dialogs') = Len(dialogs) - 1
      /\ DOMAIN dialogs' = 1 .. Len(dialogs) - 1
      /\ \A p \in 1 .. Len(dialogs) - 1 : dialogs'[p] = dialogs[p]
  BY <1>1, <1>3, FrontFacts
<1>5. ASSUME NEW p \in DOMAIN dialogs'
      PROVE  p \in DOMAIN dialogs /\ dialogs'[p] = dialogs[p] /\ IsBehind(p)'
  <2>1. p \in 1 .. Len(dialogs) - 1
    BY <1>4, Zenon
  <2>2. Len(dialogs) \in Nat
    BY <1>2
  <2>3. p \in 1 .. Len(dialogs) /\ p # Len(dialogs)
    BY <2>1, <2>2, Below
  <2>4. p \in DOMAIN dialogs
    BY <1>2, <2>3, Zenon
  <2>5. IsBehind(p)
    BY <2>3, <2>4, Zenon DEF Inv, Fresh
  <2> QED
    BY <1>4, <2>1, <2>4, <2>5, Zenon DEF IsBehind
<1>6. Types'
  <2>1. importing \in [Imports -> Sheets \union {Refused, NoSheet}]
    BY DEF Inv, Types
  <2>2. grab' \in Int
    BY DEF Pops
  <2> QED
    BY <1>3, <1>4, <2>1, <2>2, Zenon DEF Types
<1>7. Results'
  BY <1>5, Zenon DEF Inv, Results
<1>8. Fresh'
  BY <1>5, Zenon DEF Fresh
<1>9. FirstRun'
  BY <1>5, Zenon DEF FirstRun
<1>10. EditsItsOwn'
  BY <1>5, Zenon DEF IsBehind, EditsItsOwn
<1> QED
  BY <1>6, <1>7, <1>8, <1>9, <1>10, Zenon DEF Inv

LEMMA ShowReportInv ==
  ASSUME Inv, ShowReport
  PROVE  Inv'
<1>1. dialogs # <<>> /\ companies \in Seq(AllCompanies)
  BY DEF ShowReport, Inv, Types
<1>2. Pops(companies)
  <2>1. Report \in Int
    BY DEF Report
  <2> QED
    BY <2>1, Zenon DEF Pops, ShowReport
<1> QED
  BY <1>1, <1>2, ReturnInv

\* An import is applied, behind every dialog.
LEMMA ApplyInv ==
  ASSUME Inv, NEW t \in Imports, ApplySocieties(t)
  PROVE  Inv'
<1>1. importing \in [Imports -> Sheets \union {Refused, NoSheet}] /\ companies \in Seq(AllCompanies) /\ grab \in Int
  BY DEF Inv, Types
<1>2. importing[t] \in Sheets
  BY <1>1 DEF ApplySocieties
<1>3. /\ companies' = Merged(companies, Created(importing[t]))
      /\ dialogs' = Append(Marked("import", DOMAIN dialogs), Dialog("report", 0))
      /\ grab' = grab /\ importing' = [importing EXCEPT ![t] = NoSheet]
  BY DEF ApplySocieties
<1>4. companies' \in Seq(AllCompanies)
  <2>1. Created(importing[t]) \in Seq(AllCompanies)
    BY <1>2, CreatedFacts
  <2>2. Merged(companies, Created(importing[t])) \in Seq(AllCompanies)
    BY <1>1, <2>1, MergedFacts
  <2> QED
    BY <1>3, <2>2, Zenon
<1>5. importing' \in [Imports -> Sheets \union {Refused, NoSheet}]
  BY <1>1, <1>3
<1>6. "report" \in Kinds \ {"first run"}
  BY DEF Kinds
<1>7. Pushes("import", DOMAIN dialogs, "report", 0)
  BY <1>1, <1>3, <1>4, <1>5, <1>6, Zenon DEF Pushes
<1> QED
  BY <1>7, PushInv

LEMMA CloseReportInv ==
  ASSUME Inv, CloseReport
  PROVE  Inv'
<1>1. grab = Report /\ grab' = Nobody /\ UNCHANGED <<companies, dialogs, importing>>
  BY DEF CloseReport
<1>2. \A p \in DOMAIN dialogs : grab # p
  <2>1. dialogs \in Seq(Dialogs)
    BY DEF Inv, Types
  <2>2. DOMAIN dialogs \subseteq Nat
    BY <2>1
  <2> QED
    BY <1>1, <2>2 DEF Report
<1>3. Types'
  <2>1. grab' \in Int
    BY <1>1 DEF Nobody
  <2> QED
    BY <1>1, <2>1, Zenon DEF Inv, Types
<1>4. Results' /\ EditsItsOwn' /\ FirstRun'
  BY <1>1, Zenon DEF Inv, Results, EditsItsOwn, FirstRun, IsBehind
<1>5. Fresh'
  BY <1>1, <1>2, Zenon DEF Inv, Fresh, Holds, IsBehind
<1> QED
  BY <1>3, <1>4, <1>5, Zenon DEF Inv

LEMMA ImportInv ==
  ASSUME Inv, NEW t \in Imports, ImportSocieties(t) \/ GiveUp(t)
  PROVE  Inv'
<1>1. UNCHANGED <<companies, dialogs, grab>>
  BY DEF ImportSocieties, GiveUp
<1>2. importing' \in [Imports -> Sheets \union {Refused, NoSheet}]
  BY DEF Inv, Types, ImportSocieties, GiveUp
<1>3. Types'
  BY <1>1, <1>2, Zenon DEF Inv, Types
<1>4. Results' /\ EditsItsOwn' /\ Fresh' /\ FirstRun'
  BY <1>1, Zenon DEF Inv, Results, EditsItsOwn, Fresh, FirstRun, Holds, IsBehind
<1> QED
  BY <1>3, <1>4, Zenon DEF Inv

LEMMA InvInit == CompaniesInit => Inv
<1> SUFFICES ASSUME CompaniesInit PROVE Inv
  OBVIOUS
<1>1. companies \in Seq(AllCompanies)
  <2>1. PICK n \in 0 .. MaxCompanies : companies \in Loaded(n)
    BY DEF CompaniesInit
  <2>2. \A c \in Known, e \in Entries : Company(c, e, c) \in AllCompanies
    <3> SUFFICES ASSUME NEW c \in Known, NEW e \in Entries PROVE Company(c, e, c) \in AllCompanies
      OBVIOUS
    <3>1. e \in Labels /\ CoerceCuit(c) \in Readings
      BY EntriesAssumption, Reading DEF Written
    <3> QED
      BY <3>1 DEF Company, AllCompanies
  <2>3. companies \in [1 .. n -> AllCompanies]
    <3> DEFINE S == {Company(c, e, c) : c \in Known, e \in {l \in Entries : l.legal # Blank}}
    <3>1. S \subseteq AllCompanies
      BY <2>2
    <3>2. companies \in [1 .. n -> S]
      BY <2>1 DEF Loaded
    <3> HIDE DEF S
    <3> QED
      BY <3>1, <3>2
  <2>4. n \in Nat
    BY BoundsAssumption
  <2> QED
    BY <2>3, <2>4
<1>2. importing \in [Imports -> Sheets \union {Refused, NoSheet}] /\ grab \in Int
  BY DEF CompaniesInit, Nobody
<1>3. CASE dialogs = <<>>
  <2>1. DOMAIN dialogs = {} /\ dialogs \in Seq(Dialogs)
    BY <1>3
  <2> QED
    BY <1>1, <1>2, <2>1, Zenon DEF Inv, Types, Results, Fresh, FirstRun, EditsItsOwn
<1>4. CASE FirstStart
  <2> DEFINE d == Dialog("first run", 0)
  <2>1. d \in Dialogs /\ d.result = {} /\ d.of = {} /\ d.opening
    BY DEF Dialog, Dialogs, Kinds
  <2> HIDE DEF d
  <2>2. dialogs = <<d>> /\ companies = <<>>
    BY <1>4 DEF d, FirstStart
  <2>3. DOMAIN dialogs = {1} /\ dialogs \in Seq(Dialogs) /\ Len(dialogs) = 1 /\ dialogs[1] = d
    <3>1. d \in Dialogs
      BY <2>1
    <3> QED
      BY <2>2, <3>1
  <2>4. Types
    BY <1>1, <1>2, <2>3, Zenon DEF Types
  <2>5. \A p \in DOMAIN dialogs : p = 1 /\ dialogs[p] = d
    BY <2>3
  <2>6. Results /\ EditsItsOwn
    BY <2>1, <2>5, Zenon DEF Results, EditsItsOwn
  <2>7. Fresh
    BY <2>1, <2>3, <2>5, Zenon DEF Fresh, Holds
  <2>8. FirstRun
    BY <2>2, Zenon DEF FirstRun
  <2> QED
    BY <2>4, <2>6, <2>7, <2>8, Zenon DEF Inv
<1> QED
  BY <1>3, <1>4 DEF CompaniesInit

\* What the callbacks make of the list.
LEMMA TopFacts ==
  ASSUME Inv, dialogs # <<>>
  PROVE  /\ Len(dialogs) \in DOMAIN dialogs /\ Top = dialogs[Len(dialogs)]
         /\ Top \in Dialogs /\ Top.result \subseteq Seq(AllCompanies)
         /\ Top.kind # "first run" => Top.result \subseteq Returned
         /\ Top.kind = "first run" => companies = <<>> \/ MayTake
<1>1. dialogs \in Seq(Dialogs)
  BY DEF Inv, Types
<1>2. Len(dialogs) \in DOMAIN dialogs /\ dialogs[Len(dialogs)] \in Dialogs
  BY <1>1
<1>3. Top \in Dialogs
  BY <1>2 DEF Top
<1>4. Top.result \subseteq Seq(AllCompanies)
  BY <1>3 DEF Dialogs
<1>5. Top.kind # "first run" => Top.result \subseteq Returned
  BY <1>2, Zenon DEF Top, Inv, Results
<1>6. Top.kind = "first run" => companies = <<>> \/ MayTake
  BY <1>2, Zenon DEF Top, Inv, FirstRun, IsBehind, MayTake
<1> QED
  BY <1>2, <1>3, <1>4, <1>5, <1>6 DEF Top

LEMMA RemoveAtType ==
  ASSUME NEW S, NEW s \in Seq(S), NEW i \in DOMAIN s
  PROVE  RemoveAt(s, i) \in Seq(S)
<1>1. SubSeq(s, 1, i - 1) \in Seq(S)
  OBVIOUS
<1>2. SubSeq(s, i + 1, Len(s)) \in Seq(S)
  OBVIOUS
<1> QED
  BY <1>1, <1>2 DEF RemoveAt

LEMMA Single ==
  ASSUME NEW S, NEW s \in Seq(S), Len(s) = 1
  PROVE  s[1] \in S
OBVIOUS

LEMMA AppendedCuits ==
  ASSUME NEW S, NEW s \in Seq(S), NEW t \in Seq(S)
  PROVE  CuitsOf(s) \subseteq CuitsOf(s \o t)
<1>1. \A i \in DOMAIN s : i \in DOMAIN (s \o t) /\ (s \o t)[i] = s[i]
  OBVIOUS
<1> QED
  BY <1>1, Zenon DEF CuitsOf

\* What a callback that returns may do, in one of the ways the properties tell apart.
ReturnsTo(list, S) ==
    /\ list \in Seq(S)
    /\ Return(list)
    /\ MayTake \/ CuitsOf(companies) \subseteq CuitsOf(list)

LEMMA ReturnsFacts ==
  ASSUME Inv, Returns, NEW S, companies \in Seq(S), Top.result \subseteq Seq(S)
  PROVE  dialogs # <<>> /\ \E list : ReturnsTo(list, S)
<1>1. dialogs # <<>>
  BY Zenon DEF Returns, ReturnNothing, ReturnAdded, ReturnEdited, ReturnWizard, RemoveSociety, Returning, Box
<1> SUFFICES \E list : ReturnsTo(list, S)
  BY <1>1
<1>2. companies \in Seq(S)
  OBVIOUS
<1>3. /\ Top.result \subseteq Seq(S)
      /\ Top.kind # "first run" => Top.result \subseteq Returned
      /\ Top.kind = "first run" => companies = <<>> \/ MayTake
  BY <1>1, TopFacts
<1>4. CASE ReturnNothing
  BY <1>2, <1>4, Zenon DEF ReturnNothing, ReturnsTo
<1>5. CASE ReturnAdded
  <2>1. PICK list \in Top.result : Return(companies \o list)
    BY <1>5, Zenon DEF ReturnAdded
  <2>2. list \in Seq(S)
    BY <1>3, <2>1, Zenon
  <2>3. companies \o list \in Seq(S)
    BY <1>2, <2>2
  <2>4. CuitsOf(companies) \subseteq CuitsOf(companies \o list)
    BY <1>2, <2>2, AppendedCuits
  <2> QED
    BY <2>1, <2>3, <2>4, Zenon DEF ReturnsTo
<1>6. CASE ReturnEdited
  <2> DEFINE Edited(list) == IF Top.index \in DOMAIN companies THEN ReplaceAt(companies, Top.index, list[1])
                             ELSE companies
  <2>1. PICK list \in Top.result : Return(Edited(list))
    BY <1>6, Zenon DEF ReturnEdited
  <2>2. Top.kind = "edit"
    BY <1>6, Zenon DEF ReturnEdited, Returning
  <2>3. list \in Seq(S) /\ Len(list) = 1
    BY <1>3, <2>1, <2>2 DEF Returned
  <2>4. list[1] \in S
    BY <2>3, Single
  <2>5. Edited(list) \in Seq(S)
    <3>1. CASE Top.index \in DOMAIN companies
      <4>1. [companies EXCEPT ![Top.index] = list[1]] \in Seq(S)
        BY <1>2, <2>4, <3>1, ReplaceFacts
      <4> QED
        BY <3>1, <4>1, Zenon DEF ReplaceAt
    <3>2. CASE Top.index \notin DOMAIN companies
      BY <1>2, <3>2, Zenon
    <3> QED
      BY <3>1, <3>2
  <2> HIDE DEF Edited
  <2> QED
    BY <2>1, <2>2, <2>5 DEF ReturnsTo, MayTake
<1>7. CASE ReturnWizard
  <2>1. PICK list \in Top.result : Return(list) \/ Return(companies)
    BY <1>7, Zenon DEF ReturnWizard
  <2>2. list \in Seq(S) /\ (companies = <<>> \/ MayTake)
    BY <1>3, <1>7, <2>1, Zenon DEF ReturnWizard, Returning
  <2>3. companies = <<>> => CuitsOf(companies) = {}
    BY DEF CuitsOf
  <2>4. MayTake \/ CuitsOf(companies) \subseteq CuitsOf(list)
    BY <2>2, <2>3, Zenon
  <2>5. CuitsOf(companies) \subseteq CuitsOf(companies)
    OBVIOUS
  <2> QED
    BY <1>2, <2>1, <2>2, <2>4, <2>5, Zenon DEF ReturnsTo
<1>8. CASE RemoveSociety
  <2>1. Top.kind = "remove"
    BY <1>8, Zenon DEF RemoveSociety, Box
  <2>2. CASE Return(companies)
    BY <1>2, <2>1, <2>2 DEF ReturnsTo, MayTake
  <2>3. CASE Top.index \in DOMAIN companies /\ Return(RemoveAt(companies, Top.index))
    <3>1. RemoveAt(companies, Top.index) \in Seq(S)
      BY <1>2, <2>3, RemoveAtType
    <3> QED
      BY <2>1, <2>3, <3>1 DEF ReturnsTo, MayTake
  <2> QED
    BY <1>8, <2>2, <2>3, Zenon DEF RemoveSociety
<1> QED
  BY <1>4, <1>5, <1>6, <1>7, <1>8, Zenon DEF Returns

LEMMA InvNext == Inv /\ [CompaniesNext]_companiesVars => Inv'
<1> SUFFICES ASSUME Inv, [CompaniesNext]_companiesVars PROVE Inv'
  OBVIOUS
<1>2. CASE AddSociety
  BY <1>2, OpenInv DEF AddSociety
<1>3. CASE EditSociety
  BY <1>3, OpenInv DEF EditSociety
<1>4. CASE AskRemoval
  BY <1>4, OpenInv DEF AskRemoval
<1>5. CASE Settle
  <2>1. PICK p \in DOMAIN dialogs : SaveDialog(p) \/ FinishWizard(p) \/ Cancel(p)
    BY <1>5 DEF Settle
  <2>2. \E result : Closes(p, result)
    <3>1. \A c \in Enterable : {<<c>>} \subseteq Returned /\ {<<c>>} \in SUBSET Seq(AllCompanies)
      <4> SUFFICES ASSUME NEW c \in Enterable PROVE <<c>> \in Returned /\ <<c>> \in Seq(AllCompanies)
        OBVIOUS
      <4> QED
        BY EnterableType DEF Returned
    <3>2. CASE SaveDialog(p)
      BY <3>1, <3>2, CloseCloses, Zenon DEF SaveDialog
    <3>3. CASE FinishWizard(p)
      <4>1. {<<>>} \in SUBSET Seq(AllCompanies)
        OBVIOUS
      <4>2. dialogs[p].kind = "first run"
        BY <3>3, Zenon DEF FinishWizard
      <4>3. CASE Close(p, {<<>>})
        BY <4>1, <4>2, <4>3, CloseCloses, Zenon
      <4>4. CASE \E c \in Enterable : Close(p, {<<c>>})
        BY <3>1, <4>2, <4>4, CloseCloses, Zenon
      <4> QED
        BY <3>3, <4>3, <4>4, Zenon DEF FinishWizard
    <3>4. CASE Cancel(p)
      <4>1. {} \subseteq Returned /\ {} \in SUBSET Seq(AllCompanies)
        OBVIOUS
      <4> QED
        BY <3>4, <4>1, CloseCloses, Zenon DEF Cancel
    <3> QED
      BY <2>1, <3>2, <3>3, <3>4
  <2> QED
    BY <2>2, CloseInv
<1>6. CASE Returns
  <2>1. dialogs # <<>>
    BY <1>6, Zenon DEF Returns, ReturnNothing, ReturnAdded, ReturnEdited, ReturnWizard, RemoveSociety,
                       Returning, Box
  <2>2. companies \in Seq(AllCompanies) /\ Top.result \subseteq Seq(AllCompanies)
    BY <2>1, TopFacts DEF Inv, Types
  <2>3. PICK list : ReturnsTo(list, AllCompanies)
    BY <1>6, <2>2, ReturnsFacts
  <2>4. list \in Seq(AllCompanies) /\ Pops(list)
    <3>1. grab \in Int
      BY DEF Inv, Types
    <3> QED
      BY <2>3, <3>1, Zenon DEF ReturnsTo, Return, Pops
  <2> QED
    BY <2>1, <2>4, ReturnInv
<1>7. CASE CloseReport \/ ShowModal \/ ShowReport
  BY <1>7, CloseReportInv, ShowModalInv, ShowReportInv
<1>8. ASSUME NEW t \in Imports, ImportSocieties(t) \/ ApplySocieties(t) \/ GiveUp(t)
      PROVE  Inv'
  BY <1>8, ImportInv, ApplyInv
<1>9. CASE UNCHANGED companiesVars
  BY <1>9, Zenon DEF companiesVars, Inv, Types, Results, Fresh, FirstRun, EditsItsOwn, IsBehind, Holds
<1> QED
  BY <1>2, <1>3, <1>4, <1>5, <1>6, <1>7, <1>8, <1>9, Zenon DEF CompaniesNext

LEMMA AlwaysInv == CompaniesSpec => []Inv
<1> QED
  BY InvInit, InvNext, PTL DEF CompaniesSpec

\* For every choice of the constants: unless an import was applied since a dialog opened, or
\* another was opened before it had the grab, the company at its index is the one it shows,
\* so that edit_society and remove_society act on the company the user chose.
THEOREM EditsItsOwnCorrect == CompaniesSpec => []EditsItsOwn
<1>1. Inv => EditsItsOwn
  BY DEF Inv
<1> QED
  BY <1>1, AlwaysInv, PTL

\* A step of the callbacks and of the dialogs keeps the list, apart from a return and an import.
LEMMA KeepsList ==
  ASSUME [CompaniesNext]_companiesVars, ~Returns, \A t \in Imports : ~ApplySocieties(t)
  PROVE  companies' = companies
<1>1. CASE AddSociety \/ EditSociety \/ AskRemoval
  BY <1>1, Zenon DEF AddSociety, EditSociety, AskRemoval, Open
<1>2. CASE Settle
  BY <1>2, Zenon DEF Settle, SaveDialog, FinishWizard, Cancel, Close
<1>3. CASE CloseReport \/ ShowModal \/ ShowReport
  BY <1>3, Zenon DEF CloseReport, ShowModal, ShowReport
<1>4. CASE \E t \in Imports : ImportSocieties(t) \/ GiveUp(t)
  BY <1>4, Zenon DEF ImportSocieties, GiveUp
<1>5. CASE UNCHANGED companiesVars
  BY <1>5, Zenon DEF companiesVars
<1> QED
  BY <1>1, <1>2, <1>3, <1>4, <1>5, Zenon DEF CompaniesNext

\* For every choice of the constants: a company leaves the list only when the callback of an
\* edit or of a removal returns, or the wizard behind which something happened.
\* _apply_societies keeps every CUIT, and a dialog that was left takes none away.
THEOREM OnlyChosenLeaveCorrect == CompaniesSpec => OnlyChosenLeave
<1> DEFINE Stays == \/ CuitsOf(companies) \subseteq CuitsOf(companies')
                    \/ Len(dialogs') < Len(dialogs) /\ MayTake
<1>1. ASSUME Inv, [CompaniesNext]_companiesVars
      PROVE  Stays
  <2>1. CASE Returns
    <3>1. dialogs # <<>>
      BY <2>1, Zenon DEF Returns, ReturnNothing, ReturnAdded, ReturnEdited, ReturnWizard, RemoveSociety,
                         Returning, Box
    <3>2. companies \in Seq(AllCompanies) /\ Top.result \subseteq Seq(AllCompanies)
      BY <1>1, <3>1, TopFacts DEF Inv, Types
    <3>3. PICK list : ReturnsTo(list, AllCompanies)
      BY <1>1, <2>1, <3>2, ReturnsFacts
    <3>4. companies' = list /\ dialogs' = Front(dialogs)
      BY <3>3 DEF ReturnsTo, Return
    <3>5. Len(dialogs') < Len(dialogs)
      <4>1. dialogs \in Seq(Dialogs)
        BY <1>1 DEF Inv, Types
      <4>2. Len(Front(dialogs)) = Len(dialogs) - 1 /\ Len(dialogs) \in Nat
        BY <3>1, <4>1, FrontFacts, SequenceFacts
      <4>3. Len(Front(dialogs)) < Len(dialogs)
        BY <4>2
      <4> QED
        BY <3>4, <4>3, Zenon
    <3> QED
      BY <3>3, <3>4, <3>5, Zenon DEF ReturnsTo
  <2>2. ASSUME NEW t \in Imports, ApplySocieties(t)
        PROVE  Stays
    <3>1. importing[t] \in Sheets /\ companies \in Seq(AllCompanies)
      BY <1>1, <2>2 DEF ApplySocieties, Inv, Types
    <3>2. Created(importing[t]) \in Seq(AllCompanies)
      BY <3>1, CreatedFacts
    <3>3. CuitsOf(companies) \subseteq CuitsOf(Merged(companies, Created(importing[t])))
      BY <3>1, <3>2, MergedFacts
    <3>4. companies' = Merged(companies, Created(importing[t]))
      BY <2>2, Zenon DEF ApplySocieties
    <3> QED
      BY <3>3, <3>4, Zenon
  <2>3. CASE ~Returns /\ \A t \in Imports : ~ApplySocieties(t)
    <3>1. companies' = companies
      BY <1>1, <2>3, KeepsList
    <3> QED
      BY <3>1, Zenon
  <2> QED
    BY <2>1, <2>2, <2>3, Zenon
<1>2. Inv /\ [CompaniesNext]_companiesVars => [Stays]_companiesVars
  BY <1>1
<1> QED
  BY <1>2, AlwaysInv, PTL DEF CompaniesSpec, OnlyChosenLeave

-----------------------------------------------------------------------------
(* The CUITs that are meant.                                               *)

\* The slips the check digit is there for, in dialogs and in sheets; what is left out is a
\* digit that is lost, which the recovery may take for a zero.
SlipsCaught ==
    /\ Slips \subseteq {"exact", "zeros", "digit", "swap"}
    /\ \A sheet \in Sheets : \A i \in DOMAIN sheet : sheet[i].digits \in Typed(sheet[i].meant)

LEMMA WholeKept ==
  ASSUME NEW c \in Cuits
  PROVE  CoerceCuit(c) = c /\ (Accepts(c) => IsValidCuit(c))
<1>1. Len(c) = 11
  BY CuitShape
<1>2. Len(c) \notin Recoverable
  BY <1>1 DEF Recoverable, Length
<1> QED
  BY <1>2, Zenon DEF CoerceCuit, Accepts

LEMMA SlippedLength ==
  ASSUME NEW c \in Cuits
  PROVE  OneWrong(c) \subseteq Cuits /\ SwapsNeighbours(c) \subseteq Cuits
<1>1. c \in [1 .. 11 -> 0 .. 9]
  BY DEF Cuits, Length, Digit
<1>2. \A p \in 1 .. 11, x \in 0 .. 9 : [c EXCEPT ![p] = x] \in [1 .. 11 -> 0 .. 9]
  BY <1>1
<1>3. \A p \in 1 .. 10 : Swapped(c, p) \in [1 .. 11 -> 0 .. 9]
  <2> SUFFICES ASSUME NEW p \in 1 .. 10 PROVE Swapped(c, p) \in [1 .. 11 -> 0 .. 9]
    OBVIOUS
  <2>1. p \in 1 .. 11 /\ p + 1 \in 1 .. 11
    OBVIOUS
  <2> QED
    BY <1>1, <2>1 DEF Swapped
<1>4. OneWrong(c) \subseteq Cuits
  <2> SUFFICES ASSUME NEW d \in OneWrong(c) PROVE d \in [1 .. 11 -> 0 .. 9]
    BY DEF Cuits, Length, Digit
  <2>1. PICK p \in 1 .. 11, x \in 0 .. 9 : d = [c EXCEPT ![p] = x]
    BY DEF OneWrong, Length, Digit
  <2> QED
    BY <1>2, <2>1, Zenon
<1>5. SwapsNeighbours(c) \subseteq Cuits
  <2> SUFFICES ASSUME NEW d \in SwapsNeighbours(c) PROVE d \in [1 .. 11 -> 0 .. 9]
    BY DEF Cuits, Length, Digit
  <2>1. PICK p \in 1 .. 10 : d = Swapped(c, p)
    BY DEF SwapsNeighbours, Length
  <2> QED
    BY <1>3, <2>1, Zenon
<1> QED
  BY <1>4, <1>5

LEMMA TypedCases ==
  ASSUME SlipsCaught, NEW c, NEW d \in Typed(c)
  PROVE  d = c \/ d \in LosesZeros(c) \/ d \in OneWrong(c) \/ d \in SwapsNeighbours(c)
<1>1. PICK slip \in Slips :
         d \in CASE slip = "exact" -> {c}
                 [] slip = "zeros" -> LosesZeros(c)
                 [] slip = "digit" -> OneWrong(c)
                 [] slip = "swap" -> SwapsNeighbours(c)
                 [] slip = "lost" -> LosesDigit(c)
  BY Zenon DEF Typed
<1>2. slip \in {"exact", "zeros", "digit", "swap"}
  BY DEF SlipsCaught
<1> QED
  BY <1>1, <1>2

\* What a field or a row accepts, of these slips, is the CUIT that was meant.
LEMMA AcceptedIsMeant ==
  ASSUME SlipsCaught, NEW c \in Known, NEW d \in Typed(c), Accepts(d)
  PROVE  CoerceCuit(d) = c
<1>1. c \in Cuits /\ IsValidCuit(c)
  BY KnownAssumption DEF Cuits
<1>2. CASE d = c
  BY <1>1, <1>2, WholeKept
<1>3. CASE d \in LosesZeros(c)
  BY <1>1, <1>3, ZerosComeBack
<1>4. CASE d \in OneWrong(c)
  <2>1. ~IsValidCuit(d)
    BY <1>1, <1>4, OneWrongCaught
  <2>2. d \in Cuits
    BY <1>1, <1>4, SlippedLength
  <2> QED
    BY <2>1, <2>2, WholeKept
<1>5. CASE d \in SwapsNeighbours(c)
  <2>1. ~IsValidCuit(d)
    BY <1>1, <1>5, SwapCaught
  <2>2. d \in Cuits
    BY <1>1, <1>5, SlippedLength
  <2> QED
    BY <2>1, <2>2, WholeKept
<1> QED
  BY <1>2, <1>3, <1>4, <1>5, TypedCases

\* The companies whose CUIT is the one that was meant, and the invariant: there are no others
\* in the list or in what a dialog is about to return.
Meant == {c \in AllCompanies : c.cuit = c.meant}

AllMeant ==
    /\ companies \in Seq(Meant)
    /\ \A p \in DOMAIN dialogs : dialogs[p].result \subseteq Seq(Meant)

LEMMA EnterableMeant ==
  ASSUME SlipsCaught, NEW c \in Enterable
  PROVE  {<<c>>} \subseteq Seq(Meant)
<1>1. PICK k \in Known : \E e \in {x \in Typed(k) \X Entries : IsCompany(x[1], x[2])} : c = Company(e[1], e[2], k)
  BY Zenon DEF Enterable
<1>2. PICK e \in Typed(k) \X Entries : IsCompany(e[1], e[2]) /\ c = Company(e[1], e[2], k)
  BY <1>1, Zenon
<1>3. e[1] \in Typed(k) /\ Accepts(e[1])
  BY <1>2 DEF IsCompany
<1>4. CoerceCuit(e[1]) = k
  BY <1>3, AcceptedIsMeant
<1>5. c.cuit = c.meant
  BY <1>2, <1>4 DEF Company
<1>6. c \in Meant
  BY <1>5, EnterableType DEF Meant
<1> QED
  BY <1>6

LEMMA CreatedMeant ==
  ASSUME SlipsCaught, NEW sheet \in Sheets
  PROVE  Created(sheet) \in Seq(Meant)
<1> DEFINE created == Created(sheet)
<1>1. created \in Seq(AllCompanies)
  BY CreatedFacts
<1>2. ASSUME NEW k \in DOMAIN created
      PROVE  created[k].cuit = created[k].meant
  <2>1. PICK j \in DOMAIN sheet : /\ IsCompany(sheet[j].digits, sheet[j].label)
                                 /\ created[k].cuit = CoerceCuit(sheet[j].digits)
                                 /\ created[k].meant = sheet[j].meant
    BY CreatedFacts, Zenon
  <2>2. sheet[j].meant \in Known
    <3> DEFINE Row == [digits : Seq(Digit), label : Labels, meant : Known]
    <3>1. sheet \in Seq(Row)
      BY EntriesAssumption
    <3>2. sheet[j] \in Row
      <4> HIDE DEF Row
      <4> QED
        BY <3>1, SequenceFacts
    <3> QED
      BY <3>2
  <2>3. sheet[j].digits \in Typed(sheet[j].meant) /\ Accepts(sheet[j].digits)
    BY <2>1, Zenon DEF SlipsCaught, IsCompany
  <2>4. CoerceCuit(sheet[j].digits) = sheet[j].meant
    BY <2>2, <2>3, AcceptedIsMeant
  <2> QED
    BY <2>1, <2>4, Zenon
<1> HIDE DEF created
<1>3. Len(created) \in Nat /\ DOMAIN created = 1 .. Len(created) /\ \A i \in DOMAIN created : created[i] \in AllCompanies
  BY <1>1, SequenceFacts
<1>4. \A i \in 1 .. Len(created) : created[i] \in Meant
  BY <1>2, <1>3, Zenon DEF Meant
<1>5. created = [i \in 1 .. Len(created) |-> created[i]]
  BY <1>1
<1>6. created \in Seq(Meant)
  BY <1>3, <1>4, <1>5, Filled
<1> QED
  BY <1>6 DEF created

LEMMA MeantInit == CompaniesInit /\ SlipsCaught => AllMeant
<1> SUFFICES ASSUME CompaniesInit, SlipsCaught PROVE AllMeant
  OBVIOUS
<1>1. companies \in Seq(Meant)
  <2> DEFINE S == {Company(c, e, c) : c \in Known, e \in {l \in Entries : l.legal # Blank}}
  <2>1. PICK n \in 0 .. MaxCompanies : companies \in Loaded(n)
    BY DEF CompaniesInit
  <2>2. ASSUME NEW c \in Known, NEW e \in Entries PROVE Company(c, e, c) \in Meant
    <3>1. e \in Labels /\ CoerceCuit(c) \in Readings /\ c \in Cuits
      BY EntriesAssumption, KnownAssumption, Reading DEF Written, Cuits
    <3>2. CoerceCuit(c) = c
      BY <3>1, WholeKept
    <3> QED
      BY <3>1, <3>2 DEF Company, AllCompanies, Meant
  <2>3. S \subseteq Meant
    BY <2>2
  <2>4. companies \in [1 .. n -> S]
    BY <2>1 DEF Loaded
  <2>5. n \in Nat
    BY BoundsAssumption
  <2> HIDE DEF S
  <2>6. companies \in [1 .. n -> Meant]
    BY <2>3, <2>4
  <2> QED
    BY <2>5, <2>6
<1>2. CASE dialogs = <<>>
  <2>1. DOMAIN dialogs = {}
    BY <1>2
  <2> QED
    BY <1>1, <2>1, Zenon DEF AllMeant
<1>3. CASE FirstStart
  <2> DEFINE d == Dialog("first run", 0)
  <2>1. d.result = {}
    BY DEF Dialog
  <2> HIDE DEF d
  <2>2. dialogs = <<d>>
    BY <1>3 DEF d, FirstStart
  <2>3. \A p \in DOMAIN dialogs : dialogs[p] = d
    BY <2>2
  <2> QED
    BY <1>1, <2>1, <2>3, Zenon DEF AllMeant
<1>4. dialogs = <<>> \/ FirstStart
  BY DEF CompaniesInit
<1> QED
  BY <1>2, <1>3, <1>4

LEMMA AppendedOne ==
  ASSUME NEW S, NEW s \in Seq(S), NEW d
  PROVE  \A p \in DOMAIN Append(s, d) : Append(s, d)[p] = d \/ (p \in DOMAIN s /\ Append(s, d)[p] = s[p])
<1>1. /\ DOMAIN s = 1 .. Len(s) /\ DOMAIN Append(s, d) = 1 .. Len(s) + 1 /\ Len(s) \in Nat
      /\ \A p \in 1 .. Len(s) : Append(s, d)[p] = s[p]
      /\ Append(s, d)[Len(s) + 1] = d
  OBVIOUS
<1>2. Len(s) \in Nat
  BY <1>1
<1>3. \A p \in 1 .. Len(s) + 1 : p = Len(s) + 1 \/ p \in 1 .. Len(s)
  BY <1>2
<1> QED
  BY <1>1, <1>3, Zenon

LEMMA FrontIn ==
  ASSUME NEW S, NEW s \in Seq(S), s # <<>>
  PROVE  \A p \in DOMAIN Front(s) : p \in DOMAIN s /\ Front(s)[p] = s[p]
<1>1. Len(s) \in Nat /\ DOMAIN s = 1 .. Len(s)
  BY SequenceFacts
<1>2. DOMAIN Front(s) = 1 .. Len(s) - 1 /\ \A p \in 1 .. Len(s) - 1 : Front(s)[p] = s[p]
  BY FrontFacts
<1>3. \A p \in 1 .. Len(s) - 1 : p \in 1 .. Len(s)
  BY <1>1
<1> QED
  BY <1>1, <1>2, <1>3, Zenon

LEMMA ClosedResults ==
  ASSUME NEW s \in Seq(Dialogs), NEW p \in DOMAIN s, NEW result
  PROVE  \A q \in DOMAIN AfterClosing(s, p, result) :
            /\ q \in DOMAIN s
            /\ \/ AfterClosing(s, p, result)[q].result = result
               \/ AfterClosing(s, p, result)[q] = s[q]
<1>1. s[p] \in Dialogs
  BY SequenceFacts
<1>2. [s[p] EXCEPT !.closed = TRUE, !.result = result].result = result
  BY <1>1 DEF Dialogs
<1>3. AfterClosing(s, p, result) = [s EXCEPT ![p] = [s[p] EXCEPT !.closed = TRUE, !.result = result]]
  BY DEF AfterClosing
<1> QED
  BY <1>2, <1>3

LEMMA MeantNext == SlipsCaught /\ Inv /\ AllMeant /\ [CompaniesNext]_companiesVars => AllMeant'
<1> SUFFICES ASSUME SlipsCaught, Inv, AllMeant, [CompaniesNext]_companiesVars PROVE AllMeant'
  OBVIOUS
<1>1. dialogs \in Seq(Dialogs) /\ companies \in Seq(Meant)
  BY DEF Inv, Types, AllMeant
<1>2. ASSUME NEW what \in {"dialog", "import"}, NEW among, NEW kind \in Kinds, NEW index,
             index = 0 \/ index \in DOMAIN companies,
             \A p \in DOMAIN dialogs : p \in among \/ IsBehind(p),
             dialogs' = Append(Marked(what, among), Dialog(kind, index))
      PROVE  \A p \in DOMAIN dialogs' : dialogs'[p].result \subseteq Seq(Meant)
  <2> DEFINE d == Dialog(kind, index)
  <2>1. NewDialog(d, kind, index)
    BY <1>2, DialogFacts, Zenon DEF Inv
  <2>2. d \in Dialogs /\ d.result = {}
    BY <2>1, Zenon DEF NewDialog
  <2>3. dialogs' = Append(Marked(what, among), d)
    BY <1>2
  <2> HIDE DEF d
  <2>4. Topped(dialogs, dialogs', d)
    BY <1>1, <1>2, <2>2, <2>3, ToppedFacts, Zenon
  <2>5. {} \subseteq Seq(Meant)
    OBVIOUS
  <2> QED
    BY <2>2, <2>4, <2>5, Zenon DEF AllMeant, Topped
<1>3. ASSUME NEW kind \in {"add", "edit", "remove"}, NEW index,
             index = 0 \/ index \in DOMAIN companies, Open(kind, index)
      PROVE  AllMeant'
  <2>1. \A p \in DOMAIN dialogs : p \in Opening \/ IsBehind(p)
    BY <1>3, ClickableBehind, Zenon DEF Open, Inv
  <2>2. kind \in Kinds
    BY DEF Kinds
  <2>3. dialogs' = Append(Marked("dialog", Opening), Dialog(kind, index)) /\ companies' = companies
    BY <1>3 DEF Open
  <2>4. \A p \in DOMAIN dialogs' : dialogs'[p].result \subseteq Seq(Meant)
    BY <1>2, <1>3, <2>1, <2>2, <2>3, Zenon
  <2> QED
    BY <1>1, <2>3, <2>4, Zenon DEF AllMeant
<1>4. CASE AddSociety \/ EditSociety \/ AskRemoval
  BY <1>3, <1>4 DEF AddSociety, EditSociety, AskRemoval
<1>5. CASE ShowModal
  <2>1. dialogs' = AfterShowing(dialogs, Len(dialogs)) /\ dialogs # <<>> /\ companies' = companies
    BY <1>5 DEF ShowModal, AfterShowing
  <2>2. Len(dialogs) \in DOMAIN dialogs
    BY <1>1, <2>1
  <2>3. /\ OnlyThere(dialogs, dialogs', Len(dialogs))
        /\ dialogs'[Len(dialogs)].result = dialogs[Len(dialogs)].result
    BY <1>1, <2>1, <2>2, ShownFacts, Zenon
  <2>4. \A p \in DOMAIN dialogs' : p \in DOMAIN dialogs /\ dialogs'[p].result = dialogs[p].result
    BY <2>3, Zenon DEF OnlyThere
  <2> QED
    BY <1>1, <2>1, <2>4, Zenon DEF AllMeant
<1>6. ASSUME NEW p \in DOMAIN dialogs, NEW result \in SUBSET Seq(Meant), Close(p, result)
      PROVE  AllMeant'
  <2> DEFINE kept == IF dialogs[p].opening THEN {} ELSE result
  <2>1. dialogs' = AfterClosing(dialogs, p, kept) /\ UNCHANGED companies
    BY <1>6, Zenon DEF Close, AfterClosing
  <2>2. kept \subseteq Seq(Meant)
    OBVIOUS
  <2> HIDE DEF kept
  <2>3. \A q \in DOMAIN dialogs' : q \in DOMAIN dialogs /\ (dialogs'[q].result = kept \/ dialogs'[q] = dialogs[q])
    BY <1>1, <2>1, ClosedResults
  <2> QED
    BY <1>1, <2>1, <2>2, <2>3, Zenon DEF AllMeant
<1>7. CASE Settle
  <2>1. PICK p \in DOMAIN dialogs : SaveDialog(p) \/ FinishWizard(p) \/ Cancel(p)
    BY <1>7 DEF Settle
  <2>2. {<<>>} \subseteq Seq(Meant) /\ {} \subseteq Seq(Meant)
    OBVIOUS
  <2>3. \E result \in SUBSET Seq(Meant) : Close(p, result)
    <3>1. CASE \E c \in Enterable : Close(p, {<<c>>})
      BY <3>1, EnterableMeant, Zenon
    <3>2. CASE Close(p, {<<>>}) \/ Close(p, {})
      BY <2>2, <3>2, Zenon
    <3> QED
      BY <2>1, <3>1, <3>2, Zenon DEF SaveDialog, FinishWizard, Cancel
  <2> QED
    BY <1>6, <2>3, Zenon
<1>8. CASE Returns
  <2>1. dialogs # <<>>
    BY <1>8, Zenon DEF Returns, ReturnNothing, ReturnAdded, ReturnEdited, ReturnWizard, RemoveSociety,
                       Returning, Box
  <2>2. Top.result \subseteq Seq(Meant)
    BY <2>1, TopFacts, Zenon DEF AllMeant
  <2>3. PICK list : ReturnsTo(list, Meant)
    BY <1>1, <1>8, <2>2, ReturnsFacts
  <2>4. list \in Seq(Meant) /\ companies' = list /\ dialogs' = Front(dialogs)
    BY <2>3 DEF ReturnsTo, Return
  <2>5. \A p \in DOMAIN Front(dialogs) : p \in DOMAIN dialogs /\ Front(dialogs)[p] = dialogs[p]
    BY <1>1, <2>1, FrontIn
  <2> QED
    BY <2>4, <2>5, Zenon DEF AllMeant
<1>9. ASSUME NEW t \in Imports, ApplySocieties(t)
      PROVE  AllMeant'
  <2>1. importing[t] \in Sheets
    BY <1>9 DEF ApplySocieties, Inv, Types
  <2>2. Created(importing[t]) \in Seq(Meant)
    BY <2>1, CreatedMeant
  <2>3. Merged(companies, Created(importing[t])) \in Seq(Meant)
    BY <1>1, <2>2, MergedFacts
  <2>4. companies' = Merged(companies, Created(importing[t]))
        /\ dialogs' = Append(Marked("import", DOMAIN dialogs), Dialog("report", 0))
    BY <1>9 DEF ApplySocieties
  <2>5. "report" \in Kinds
    BY DEF Kinds
  <2>6. \A p \in DOMAIN dialogs' : dialogs'[p].result \subseteq Seq(Meant)
    BY <1>2, <2>4, <2>5, Zenon
  <2> QED
    BY <2>3, <2>4, <2>6, Zenon DEF AllMeant
<1>13. CASE ShowReport
  <2>1. dialogs' = Front(dialogs) /\ dialogs # <<>> /\ companies' = companies
    BY <1>13 DEF ShowReport
  <2>2. \A p \in DOMAIN Front(dialogs) : p \in DOMAIN dialogs /\ Front(dialogs)[p] = dialogs[p]
    BY <1>1, <2>1, FrontIn
  <2> QED
    BY <1>1, <2>1, <2>2, Zenon DEF AllMeant
<1>10. CASE CloseReport
  BY <1>10, Zenon DEF CloseReport, AllMeant
<1>11. CASE \E t \in Imports : ImportSocieties(t) \/ GiveUp(t)
  BY <1>11, Zenon DEF ImportSocieties, GiveUp, AllMeant
<1>12. CASE UNCHANGED companiesVars
  BY <1>12, Zenon DEF companiesVars, AllMeant
<1> QED
  BY <1>4, <1>5, <1>7, <1>8, <1>9, <1>10, <1>11, <1>12, <1>13, Zenon DEF CompaniesNext

\* When no digit is lost, of what is typed and of what a sheet holds: a CUIT in the list is
\* the one that was meant.  The check digit refuses a digit that was mistyped and two
\* neighbours that were exchanged, coerce_cuit gives back the zeros that were left out, and
\* neither an edit nor a merge puts the CUIT of one company in the place of another's.
THEOREM TypedIsMeantCorrect == SlipsCaught => (CompaniesSpec => []TypedIsMeant)
<1>1. AllMeant => TypedIsMeant
  <2> SUFFICES ASSUME AllMeant, NEW i \in DOMAIN companies PROVE companies[i].cuit = companies[i].meant
    BY DEF TypedIsMeant
  <2>1. companies[i] \in Meant
    BY SequenceFacts DEF AllMeant
  <2> QED
    BY <2>1 DEF Meant
<1> SUFFICES ASSUME SlipsCaught PROVE CompaniesSpec => []TypedIsMeant
  OBVIOUS
<1>2. CompaniesInit => AllMeant
  BY MeantInit
<1>3. Inv /\ AllMeant /\ [CompaniesNext]_companiesVars => AllMeant'
  BY MeantNext
<1> QED
  BY <1>1, <1>2, <1>3, AlwaysInv, PTL DEF CompaniesSpec

=============================================================================
