--------------------------- MODULE MCHostBinding ---------------------------
(* A small instance of HostBinding for TLC. *)
EXTENDS HostBinding, TLC

CONSTANTS h1, h2, h3, b1, b2, r1

\* Two keys of different lengths and one that is too short.
MCKeySize == [h \in Hosts |-> IF h = h1 THEN 16 ELSE IF h = h2 THEN 32 ELSE 15]

BinderSymmetry == Permutations(Binders)
=============================================================================
