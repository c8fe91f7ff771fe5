--------------------------- MODULE MCAgentDaemon ---------------------------
(* Small instances of AgentDaemon.                                         *)
EXTENDS AgentDaemon

CONSTANTS d, o, w, t, u

Of(wg, text) == [wg |-> wg, stunmesh |-> text]

\* A daemon, which procd starts again when it ends, and a one-shot run.
MCDaemon == {d}
MCOneshot == {o}

\* Text changes, interface changes, and no text at all.
MCBundles == {Of(w, t), Of(NoWg, t), Of(w, u), Of(w, NoText)}

\* One bundle.
MCOneBundle == {Of(w, t)}
=============================================================================
