-------------------------------- MODULE MCFraming --------------------------------
(* Binary numerals of at most four digits, for TLC.                        *)
EXTENDS Framing

MCLengths == 0..9

RECURSIVE Digits(_)
Digits(l) == IF l < Base THEN <<l>> ELSE Append(Digits(l \div Base), l % Base)

MCNumeral == [l \in Lengths |-> Digits(l)]

MCForeign == {<<Byte(1)>>, <<1, Byte(1)>>}
================================================================================
