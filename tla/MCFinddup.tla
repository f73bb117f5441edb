------------------------------ MODULE MCFinddup ------------------------------
(* File contents for Finddup: "ab" and "ba" have the same length and CRC,  *)
(* "cd" has their length and another CRC.                                  *)
EXTENDS Finddup

Length(c) == CASE c = "" -> 0 [] c = "abc" -> 3 [] OTHER -> 2
Crc(c) == IF c \in {"ab", "ba"} THEN 1 ELSE 2
=============================================================================
