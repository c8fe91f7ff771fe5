----------------------------- MODULE MCPublish -----------------------------
(* Small instances of Publish.                                             *)
EXTENDS Publish

CONSTANTS x, y, A, B, k, l

\* Two proxies, two contents, and a node that was once installed with
\* another identity key.
MCProxies == <<x, y>>
MCContent == {A, B}
MCIdentity == {k, l}

MCFirst == [content |-> A, to |-> k]

\* Either content, and a half-done edit with the old key: what is sealed to
\* that key is read while the files change again.
MCDrafts == {[content |-> A, to |-> k], [content |-> B, to |-> k],
             [content |-> Broken, to |-> l]}
=============================================================================
