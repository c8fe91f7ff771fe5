----------------------------- MODULE MCKeyFiles -----------------------------
(* Small instances of KeyFiles.                                            *)
EXTENDS KeyFiles, TLC

CONSTANTS i, j, m, n, k1, k2, k3

\* Two processes of each command, and three keys for them to generate.
MCIniter == {i, j}
MCKeygen == {m, n}
MCKey == {k1, k2, k3}

\* Processes of a command, and keys, are interchangeable.
Symmetry == Permutations(MCIniter) \cup Permutations(MCKeygen)
                \cup Permutations(MCKey)
=============================================================================
