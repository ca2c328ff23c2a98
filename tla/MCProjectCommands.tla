------------------------- MODULE MCProjectCommands -------------------------
(* Two request ids, two handlers and two contents. *)
EXTENDS ProjectCommands, TLC

CONSTANTS k1, k2, h1, h2, a, b

TwoKeys == {k1, k2}
TwoHandlers == {h1, h2}
TwoContents == {a, b}

\* Keys, handlers and contents are only compared with each other.
CommandSymmetry == Permutations(TwoKeys) \union Permutations(TwoHandlers)
    \union Permutations(TwoContents)
=============================================================================
