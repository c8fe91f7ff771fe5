--------------------------- MODULE AppliedBundle ---------------------------
(***************************************************************************)
(* What the agent of one node promises, seen from outside: it takes the    *)
(* published bundle, one at a time, installs its stunmesh text, and then   *)
(* records the bundle as applied -- or gives it up at any point.  The      *)
(* record is always one whole bundle, the one the apply began with, and    *)
(* the config file is always the text of one.                              *)
(*                                                                         *)
(* AgentApply (every step of an apply) and AgentDaemon (every process that *)
(* may run one) are both shown to implement this.                          *)
(***************************************************************************)
CONSTANTS
    Bundles,    \* what the controller may publish
    Nothing,    \* the record of a node that has applied no bundle
    None        \* no bundle

VARIABLES
    published,  \* the bundle a fetch selects, or None
    pending,    \* the bundle that is being applied, or None
    file,       \* the stunmesh-go config file
    recorded    \* last.json: the content applied last

vars == <<published, pending, file, recorded>>

Init ==
    /\ published \in Bundles \cup {None}
    /\ pending = None
    /\ recorded = Nothing
    /\ file = recorded.stunmesh

Publish(b) ==
    /\ published' = b
    /\ UNCHANGED <<pending, file, recorded>>

\* An apply begins.
Take ==
    /\ pending = None /\ published # None
    /\ pending' = published
    /\ UNCHANGED <<published, file, recorded>>

Install ==
    /\ pending # None
    /\ file' = pending.stunmesh
    /\ UNCHANGED <<published, pending, recorded>>

Record ==
    /\ pending # None
    /\ recorded' = pending
    /\ pending' = None
    /\ UNCHANGED <<published, file>>

\* An apply ends without a record: a failure, a kill, a reboot.
Abandon ==
    /\ pending' = None
    /\ UNCHANGED <<published, file, recorded>>

Next ==
    \/ \E b \in Bundles \cup {None} : Publish(b)
    \/ Take \/ Install \/ Record \/ Abandon

Spec == Init /\ [][Next]_vars
=============================================================================
