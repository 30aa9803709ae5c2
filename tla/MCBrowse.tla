------------------------------ MODULE MCBrowse ------------------------------
(* Instances of Browse for TLC.                                            *)
EXTENDS Browse, TLC

CONSTANTS c0, c1, cw, cl

\* One page; two; a cycle; a long cursor at once and later; a wide one in the
\* middle, and one that leads to a long one.
Chain(a, b, c) == c0 :> a @@ c1 :> b @@ cw :> c
MCCatalogs == {Chain(NoNext, NoNext, NoNext), Chain(c1, NoNext, NoNext), Chain(c1, c1, NoNext),
               Chain(cl, NoNext, NoNext), Chain(c1, cl, NoNext),
               Chain(cw, NoNext, c1), Chain(c1, cw, cl)}
=============================================================================
