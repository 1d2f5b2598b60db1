--------------------------- MODULE MCSerialBoard ----------------------------
(***************************************************************************)
(* A small table: three cards, two columns, an int4 of seven values.  A    *)
(* destination may be negative or past the end: handleCardMove passes on   *)
(* whatever number the form holds.                                         *)
(***************************************************************************)
EXTENDS SerialBoard, TLC

CONSTANTS c1, c2, c3

MCMinInt4 == -2
MCDestPositions == -1 .. 3
=============================================================================
