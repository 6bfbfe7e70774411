------------------------------- MODULE MCHeap -------------------------------
(* Heap for TLC, in units of four bytes: a marker takes four, sizes are      *)
(* rounded to two.  The first region holds four small blocks, or a large and *)
(* two small ones, so that runs of three are merged in the middle of a list  *)
(* and at its end; the second region holds a small block.  A small block's   *)
(* recorded size is less than what it was rounded to: runs are undercounted. *)
EXTENDS Heap

CONSTANTS c0, c1, First, Second

MCBase == <<2, 40>>
MCLength == <<First, Second>>
=============================================================================
