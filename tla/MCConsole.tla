----------------------------- MODULE MCConsole -----------------------------
(***************************************************************************)
(* Console with two applications and three sessions at the keyboard: one   *)
(* that attaches, types, detaches and attaches to the other application,   *)
(* one whose first command is spoiled, and one that detaches twice.  One   *)
(* application's name is shorter than the other's.                         *)
(***************************************************************************)
EXTENDS Console

CONSTANTS romfs, test

MCSession == {<<romfs, "char", "etx", test, "char">>,
              <<"char", romfs, test, "char">>,
              <<romfs, "etx", "char", "etx">>}

MCLength == [a \in App |-> IF a = romfs THEN 2 ELSE 1]
=============================================================================
