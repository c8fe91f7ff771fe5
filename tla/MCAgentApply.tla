---------------------------- MODULE MCAgentApply ----------------------------
(* Small instances of AgentApply.                                          *)
EXTENDS AgentApply

CONSTANTS a, b, p, o, t, u

Bare == [opts |-> {}, kids |-> {}]
Plain == [opts |-> {}, kids |-> {p}]
Other == [opts |-> {o}, kids |-> {}]

\* A bundle with content ca for interface a, cb for b, and stunmesh text x.
With(ca, cb, x) == [wg |-> [i \in Iface |-> IF i = a THEN ca ELSE cb],
                    stunmesh |-> x]

MCIface == {a, b}
MCChild == {p}
MCOpt == {o}
MCText == {t, u}

EmptyBundle == With(None, None, NoText)

\* None; one interface; two, the first of them the same, so that it is
\* "unchanged" between them; and one with an option more and a peer less.
MCBundles == {EmptyBundle, With(Plain, None, t), With(Plain, Bare, t),
              With(Other, None, NoText)}

\* Two bundles that share an interface, and a third that changes it.
MCRecordBundles == {With(Plain, None, t), With(Plain, None, NoText),
                    With(Bare, None, t)}

\* Two texts for one interface, and the first text with another content.
MCFileBundles == {With(Plain, None, t), With(Plain, None, u), With(Bare, None, t)}

\* One interface, and two.
MCMemberBundles == {With(Plain, None, t), With(Plain, Bare, t)}

\* One interface, and none.
MCTeardownBundles == {With(Plain, None, t), EmptyBundle}
=============================================================================
