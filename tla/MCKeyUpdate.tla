---------------------------- MODULE MCKeyUpdate ----------------------------
(* Model-checking instance of KeyUpdate: the param2 values are model       *)
(* values, and only equality is ever asked of them.                        *)
EXTENDS KeyUpdate, TLC

CONSTANTS t1, t2

MCTags == {t1, t2}

\* Renaming the random param2 values changes no behaviour; used only by the
\* safety-only runs (symmetry is unsound for liveness checking).
TagSymmetry == Permutations(MCTags)
=============================================================================
