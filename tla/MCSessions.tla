------------------------------ MODULE MCSessions ------------------------------
(* Sessions with two tabs of one browser: they share its cookie, and each has *)
(* a page of its own.                                                         *)
EXTENDS Sessions, TLC

CONSTANT b1

MCBrowserOf == [t \in Tabs |-> b1]
Symmetry    == Permutations(Tabs) \cup Permutations(Ids)
===============================================================================
