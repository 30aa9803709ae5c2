---------------------------- MODULE MCGrantsFile ----------------------------
(* Instances of GrantsFile for TLC.                                        *)
EXTENDS GrantsFile, TLC

CONSTANTS a, b, x, y    \* the heads and tails of two entries

\* Both entries, the second alone, none, and a file that has been truncated.
MCDocs == {<<a, x, b, y>>, <<b, y, Nothing, Nothing>>,
           <<Nothing, Nothing, Nothing, Nothing>>, <<Garbage, Nothing, Nothing, Nothing>>}

Symmetry == Permutations(Inodes)
=============================================================================
