-------------------------------- MODULE Cuit --------------------------------
(***************************************************************************)
(* A CUIT as its digits: two of a type, eight of a body, and a check digit *)
(* over the ten before it.  domain/cuit.py says which numbers are CUITs    *)
(* and gives back the zeros a registry dropped at the left of the body.    *)
(* What a person or a sheet may do to a number is at the end: the slips    *)
(* the check digit is there for.                                           *)
(***************************************************************************)
EXTENDS Integers, Sequences

Digit == 0 .. 9

\* CUIT_LENGTH, _TYPE_LENGTH, _MIN_RECOVERABLE: at most two zeros are given back.
Length == 11
TypeLength == 2
Recoverable == 9 .. Length - 1

-----------------------------------------------------------------------------
(* The check digit and the recovery of zeros.                              *)

\* The weighted sum of the first ten digits, in three parts.
Left(d) == 5 * d[1] + 4 * d[2] + 3 * d[3] + 2 * d[4]
Middle(d) == 7 * d[5] + 6 * d[6] + 5 * d[7] + 4 * d[8]
Right(d) == 3 * d[9] + 2 * d[10]
Total(d) == Left(d) + Middle(d) + Right(d)

\* Ten means that these ten digits have no check digit.
Expected(d) == IF Total(d) % 11 = 0 THEN 0 ELSE 11 - (Total(d) % 11)

\* Mutant: any number of eleven digits that has a check digit is a CUIT.
AnyChecked(d) == Len(d) = Length /\ Expected(d) # 10

IsValidCuit(d) ==
    /\ Len(d) = Length
    /\ Expected(d) # 10
    /\ Expected(d) = d[Length]

\* The type, the body filled with zeros at its left, the check digit.
Rebuilt(d) ==
    [i \in 1 .. Length |->
        IF i <= TypeLength THEN d[i]
        ELSE IF i <= TypeLength + Length - Len(d) THEN 0
        ELSE d[i - (Length - Len(d))]]

CoerceCuit(d) ==
    IF Len(d) \in Recoverable /\ IsValidCuit(Rebuilt(d)) THEN Rebuilt(d) ELSE d

\* require_valid_cuit: what a field or a cell must hold to be accepted.
Accepts(d) == IsValidCuit(CoerceCuit(d))

-----------------------------------------------------------------------------
(* Slips.  A CUIT of eleven digits is c; d is what was typed for it.       *)

\* The body without its first n digits.
Shortened(c, n) == [i \in 1 .. Length - n |-> IF i <= TypeLength THEN c[i] ELSE c[i + n]]

LosesZeros(c) ==
    {Shortened(c, n) : n \in {k \in 1 .. 2 : \A i \in 1 .. k : c[TypeLength + i] = 0}}

LosesDigit(c) == {[i \in 1 .. Length - 1 |-> IF i < p THEN c[i] ELSE c[i + 1]] : p \in 1 .. Length}

OneWrong(c) == {[c EXCEPT ![p] = x] : p \in 1 .. Length, x \in Digit} \ {c}

Swapped(c, p) == [c EXCEPT ![p] = c[p + 1], ![p + 1] = c[p]]

SwapsNeighbours(c) == {Swapped(c, p) : p \in 1 .. Length - 1} \ {c}
=============================================================================
