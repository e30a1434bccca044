------------------------------ MODULE MCLists ------------------------------
(***************************************************************************)
(* An instance of Lists for TLC.                                            *)
(***************************************************************************)
EXTENDS Lists

CONSTANTS h1, e1, e2, e3
OneHead == {h1}
ThreeElems == {e1, e2, e3}
=============================================================================
