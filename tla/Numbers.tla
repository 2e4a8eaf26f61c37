------------------------------ MODULE Numbers ------------------------------
(***************************************************************************)
(* How texts become numbers (src/src/Lib/StringOps/StringOps.cpp).  A text *)
(* is a sequence of characters, " " stands for any white space.  A result  *)
(* is [ok, value]; ok is FALSE where the code throws or returns false.     *)
(***************************************************************************)
EXTENDS Integers, Sequences, SequencesExt

CONSTANTS SizeMax,  \* the largest size_t
          IntMax    \* the largest int

ASSUME NumbersAssumption ==
    /\ SizeMax \in Nat /\ SizeMax >= 15
    /\ IntMax \in Nat

Digits == <<"0", "1", "2", "3", "4", "5", "6", "7", "8", "9">>
HexDigits == Digits \o <<"a", "b", "c", "d", "e", "f">>
IsDigit(c) == Contains(Digits, c)
Digit(c) == (CHOOSE i \in DOMAIN HexDigits : HexDigits[i] = c) - 1

None == [ok |-> FALSE, value |-> 0]
Some(n) == [ok |-> TRUE, value |-> n]

(* The loop of hexStrToSize and decStrToSize: one digit more, unless the   *)
(* result would not fit.                                                   *)
Extend(base, r, c) ==
    LET fits == \/ r.value < SizeMax \div base
                \/ r.value = SizeMax \div base /\ Digit(c) <= SizeMax % base
    IN IF r.ok /\ fits THEN Some(r.value * base + Digit(c)) ELSE None

Number(s, base, digits) ==
    IF s = <<>> \/ \E i \in DOMAIN s : ~Contains(digits, s[i]) THEN None
    ELSE FoldLeft(LAMBDA r, c : Extend(base, r, c), Some(0), s)

DecStrToSize(s) == Number(s, 10, Digits)
HexStrToSize(s) == Number(s, 16, HexDigits)

(* The characters from the first that is not in a set. *)
Skip(s, chars) ==
    LET kept == {i \in DOMAIN s : s[i] \notin chars}
        first == IF kept = {} THEN Len(s) + 1
                 ELSE CHOOSE i \in kept : \A j \in kept : i <= j
    IN SubSeq(s, first, Len(s))

Trim(s) == Reverse(Skip(Reverse(Skip(s, {" "})), {" "}))

(* ss >> number: white space before the number is skipped, a sign is read, *)
(* and what follows the number, white space too, is left: ss.eof() fails.  *)
Streamed(s, minus) ==
    LET body == Skip(s, {" "})
        signed == body # <<>> /\ Head(body) \in {"+", "-"}
        digits == IF signed THEN Tail(body) ELSE body
        r == DecStrToSize(digits)
    IN IF ~r.ok THEN None
       ELSE IF signed /\ Head(body) = "-" THEN IF minus THEN Some(-r.value) ELSE None
       ELSE r

ToSizeT(s) == Streamed(s, FALSE)

StringToInt(s) ==
    LET r == Streamed(s, TRUE)
    IN IF r.ok /\ r.value <= IntMax /\ r.value >= -IntMax - 1 THEN r ELSE None

(* A number and a unit: B or none, KB, MB, GB. *)
Kilo == 1024
Units == [u \in {<<>>, <<"B">>, <<"K", "B">>, <<"M", "B">>, <<"G", "B">>} |->
             CASE u = <<"K", "B">> -> Kilo
               [] u = <<"M", "B">> -> Kilo * Kilo
               [] u = <<"G", "B">> -> Kilo * Kilo * Kilo
               [] OTHER -> 1]

SizeByteStrToSizeT(s) ==
    LET body == Skip(s, {" "})
        rest == Skip(body, {Digits[i] : i \in DOMAIN Digits})
        r == DecStrToSize(SubSeq(body, 1, Len(body) - Len(rest)))
        unit == Trim(rest)
    IN IF r.ok /\ unit \in DOMAIN Units
       THEN IF r.value <= SizeMax \div Units[unit] THEN Some(r.value * Units[unit]) ELSE None
       ELSE None
=============================================================================
