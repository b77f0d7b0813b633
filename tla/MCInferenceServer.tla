------------------------- MODULE MCInferenceServer -------------------------
(* Small instances of InferenceServer for TLC. *)
EXTENDS InferenceServer, TLC

CONSTANTS h1, h2, s1, s2, c1, c2, c3, a, b

\* One prompt, an extension of it, and a longer one that diverges.
FewPrompts == {<<a>>, <<a, b>>, <<b, a, b>>}

TwoPrompts == {<<b>>, <<b, a>>}
ShortPrompts == {<<>>, <<b>>, <<b, a>>}

AllFaults == {"load", "prefill", "decode", "rollback"}
FirstForwardFaults == {"prefill", "decode"}
\* A replay that fails: with this value KVCoherent is violated (README, findings).
LoadFaults == {"load"}

Symmetry == Permutations(Handlers) \cup Permutations(Convs)
            \cup Permutations(SessionIDs \ {Anonymous})

=============================================================================
