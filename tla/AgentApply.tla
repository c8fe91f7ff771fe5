----------------------------- MODULE AgentApply -----------------------------
(***************************************************************************)
(* The apply procedure of stunmesh-agent: what one fetch cycle does to the *)
(* OpenWrt node once it has selected a bundle.  One action per step of     *)
(* applyDiff, each with its failure, and the two ways a cycle can be cut   *)
(* short: the process is killed, or the node reboots.                      *)
(*                                                                         *)
(* Names (interfaces, peers, options) are unordered model values: the Go   *)
(* code walks them in sorted order, and a step that stops half way stops   *)
(* after any of the prefixes some order of the names would give.           *)
(*                                                                         *)
(* An operator named X_Slip is X with a plausible slip in it.  No action   *)
(* uses one: putting it in X's place must break one of the properties.     *)
(***************************************************************************)
EXTENDS Naturals

CONSTANTS
    Iface,      \* WireGuard interface names
    Child,      \* names of peers (and routes) below an interface
    Own,        \* the key of an interface's own section
    Opt,        \* optional UCI options a section may carry
    Text,       \* non-empty stunmesh-go config texts
    NoText,     \* the empty stunmesh text, and the absent config file
    None,       \* "this interface is not there"
    Bundles,    \* the bundles the controller may publish
    MaxFaults,  \* bound: failing commands, kills and reboots
    MaxPublish  \* bound: changes of the published bundle

VARIABLES
    published,     \* the bundle a fetch selects from the DHT
    publishes,     \* how many times it changed (bounded)
    netStaged,     \* /etc/config/network with the uncommitted delta
    netCommitted,  \* /etc/config/network
    netLoaded,     \* what netifd and the kernel run
    fwStaged,      \* /etc/config/firewall with the uncommitted delta
    fwCommitted,   \* /etc/config/firewall
    fwLoaded,      \* what the firewall enforces
    file,          \* the stunmesh-go config file
    last,          \* last.json
    pc,            \* the step applyDiff is about to run
    job,           \* the apply in flight
    faults,        \* faults so far (bounded)
    clean,         \* history: no staged change was ever left behind
    intact         \* history: no cycle was given up after its first commit

netVars == <<netStaged, netCommitted, netLoaded>>
fwVars == <<fwStaged, fwCommitted, fwLoaded>>
vars == <<published, publishes, netVars, fwVars, file, last, pc, job, faults,
          clean, intact>>

-----------------------------------------------------------------------------
(* Data.                                                                   *)

Key == Child \cup {Own}

\* bundle.Interface: its optional scalar settings and its peers and routes.
Content == [opts : SUBSET Opt, kids : SUBSET Child]

\* bundle.Bundle without its header: `wg` and `stunmesh`.
Bundle == [wg : [Iface -> Content \cup {None}], stunmesh : Text \cup {NoText}]

\* One UCI section: its options, and how often each value of its list
\* option ("addresses", "allowed_ips") is listed.
Section == [there : BOOLEAN, opts : SUBSET Opt, entries : Nat]
NoSection == [there |-> FALSE, opts |-> {}, entries |-> 0]

Network == [Iface -> [Key -> Section]]

\* The three forwarding sections that go with the zone.
Fwd == {"lan_stunmesh", "stunmesh_lan", "stunmesh_wan"}

\* firewall.stunmesh: who created it, the forwardings, and how often each
\* managed interface is in its network list.
Firewall == [zone : {"none", "agent", "operator"}, fwd : SUBSET Fwd,
             members : [Iface -> Nat]]

\* last.FirewallState.
FirewallState == [owned : BOOLEAN, members : SUBSET Iface]
NoFirewallState == [owned |-> FALSE, members |-> {}]

\* last.State.  The recorded section names of an interface are always
\* sectionsFor(content), so only the content is kept.
State == [wg : [Iface -> Content \cup {None}], stunmesh : Text \cup {NoText},
          firewall : FirewallState]
EmptyState == [wg |-> [i \in Iface |-> None], stunmesh |-> NoText,
               firewall |-> NoFirewallState]

Steps == {"idle", "writeUCI", "manageFirewall", "commitNetwork",
          "commitFirewall", "networkReload", "ifup", "firewallReload",
          "stunmeshConfig", "writeLast"}

\* The steps that run after "uci commit network".
CommittedSteps == {"commitFirewall", "networkReload", "ifup", "firewallReload",
                   "stunmeshConfig", "writeLast"}

\* The apply in flight: its bundle, forceAll, and what manageFirewall returned.
Job == [bundle : Bundle, force : BOOLEAN, firewall : FirewallState,
        fwChanged : BOOLEAN]

ASSUME ConstantsAssumption ==
    /\ Own \notin Child
    /\ None \notin Content
    /\ NoText \notin Text
    /\ Bundles \subseteq Bundle /\ None \notin Bundle
    /\ MaxFaults \in Nat
    /\ MaxPublish \in Nat

-----------------------------------------------------------------------------
(* computeDiff: the change class of every interface and of the stunmesh    *)
(* text, for the apply in flight.                                          *)

InNew(i) == job.bundle.wg[i] # None
InOld(i) == last.wg[i] # None

interfaceEqual(i) == job.bundle.wg[i] = last.wg[i]

InterfaceNew == {i \in Iface : InNew(i) /\ ~InOld(i)}
InterfaceRemoved == {i \in Iface : ~InNew(i) /\ InOld(i)}
InterfaceChanged_Slip ==
    {i \in Iface : InNew(i) /\ InOld(i) /\ ~interfaceEqual(i)}
InterfaceChanged ==
    {i \in Iface : InNew(i) /\ InOld(i) /\ (job.force \/ ~interfaceEqual(i))}
InterfaceUnchanged == {i \in Iface : InNew(i) /\ InOld(i)} \ InterfaceChanged

Created == InterfaceNew \cup InterfaceChanged
Touched == Created \cup InterfaceRemoved
anyInterfaceChanged == Touched # {}

StunmeshEmpty == job.bundle.stunmesh = NoText
StunmeshChanged ==
    /\ job.bundle.stunmesh # NoText
    /\ job.force \/ job.bundle.stunmesh # last.stunmesh

\* The shortcut of checkAndApply: same `wg`, same `stunmesh`.
sameContent(b) == b.wg = last.wg /\ b.stunmesh = last.stunmesh

-----------------------------------------------------------------------------
(* Step 1, writeUCI: delete the recorded sections, create the new ones.    *)

\* The sections BuildInterface creates for content c.
sectionsFor(c) == {Own} \cup c.kids

\* last.Sections of interface i.
Recorded(i) == IF last.wg[i] = None THEN {} ELSE sectionsFor(last.wg[i])

\* "uci delete" of the sections in ks that are there.
deleteSections(secs, ks) ==
    [k \in Key |-> IF k \in ks THEN NoSection ELSE secs[k]]

\* "uci delete" of the list options in ks that are there.
clearListOptions(secs, ks) ==
    [k \in Key |-> IF k \in ks THEN [secs[k] EXCEPT !.entries = 0] ELSE secs[k]]

\* "uci set" overwrites or adds an option and drops none; "uci add_list"
\* appends to what the list holds.
BuildInterface(secs, ks, opts) ==
    [k \in Key |-> IF k \in ks
                   THEN [there |-> TRUE, opts |-> secs[k].opts \cup opts,
                         entries |-> secs[k].entries + 1]
                   ELSE secs[k]]

createInterface_Slip(secs, c) == BuildInterface(secs, sectionsFor(c), c.opts)
createInterface(secs, c) ==
    BuildInterface(clearListOptions(secs, sectionsFor(c)), sectionsFor(c), c.opts)

\* What writeUCI makes of the sections of interface i.
Written(i) ==
    LET emptied == deleteSections(netStaged[i], Recorded(i))
    IN  IF InNew(i) THEN createInterface(emptied, job.bundle.wg[i]) ELSE emptied

\* The sections of i after a delete that stopped early (peers and routes go
\* first, the interface section last).
PartlyDeleted(i) ==
    {deleteSections(netStaged[i], ks) :
        ks \in (SUBSET (Recorded(i) \ {Own})) \cup {Recorded(i)}}

\* Section k with some of its options set and its list perhaps not yet.
HalfBuilt(secs, k, opts) ==
    {[secs EXCEPT ![k] = [there |-> TRUE, opts |-> secs[k].opts \cup o,
                          entries |-> n]] : o \in SUBSET opts, n \in 0..1}

\* What a createInterface that stopped early leaves: it was clearing lists, or
\* it was in the middle of section q[2] after the sections q[1] were done (the
\* interface section comes first).
CreatePrefixes(c) == {{}} \cup {{Own} \cup ks : ks \in SUBSET c.kids}

PartlyCleared(secs, c) == {clearListOptions(secs, ks) : ks \in CreatePrefixes(c)}

PartlyBuilt(secs, c) ==
    UNION {HalfBuilt(BuildInterface(secs, q[1], c.opts), q[2], c.opts) :
               q \in CreatePrefixes(c) \X sectionsFor(c)}

PartlyCreated(secs, c) ==
    PartlyCleared(secs, c)
    \cup PartlyBuilt(clearListOptions(secs, sectionsFor(c)), c)

StoppedAt(i) ==
    PartlyDeleted(i)
    \cup IF InNew(i)
         THEN PartlyCreated(deleteSections(netStaged[i], Recorded(i)),
                            job.bundle.wg[i])
         ELSE {}

\* The staged network config when writeUCI stops inside interface i.
WriteStops ==
    \E done \in SUBSET Touched : \E i \in Touched \ done :
        \E secs \in StoppedAt(i) :
            netStaged' = [j \in Iface |-> IF j \in done THEN Written(j)
                                          ELSE IF j = i THEN secs
                                          ELSE netStaged[j]]

-----------------------------------------------------------------------------
(* Step 1a, manageFirewall.                                                *)

Have == last.firewall
Remaining == {i \in Iface : InNew(i)}
ToAdd == Remaining \ Have.members
ToRemove == InterfaceRemoved \cap Have.members

\* uci set firewall.stunmesh=zone ..., then the three forwardings.
runFirewallZoneCreate(fw) ==
    [zone |-> "agent", fwd |-> fw.fwd \cup Fwd, members |-> fw.members]

EditMembers_Slip(fw, removed, added) ==
    [fw EXCEPT !.members =
        [i \in Iface |-> IF i \in added THEN 1
                         ELSE IF i \in removed THEN fw.members[i] - 1
                         ELSE fw.members[i]]]

\* del_list for every removed member; del_list then add_list for every new one.
EditMembers(fw, removed, added) ==
    [fw EXCEPT !.members =
        [i \in Iface |-> IF i \in added THEN 1
                         ELSE IF i \in removed THEN 0
                         ELSE fw.members[i]]]

NoZone(fw) == [fw EXCEPT !.zone = "none", !.members = [i \in Iface |-> 0]]

firewallZonePresent_Slip == fwStaged.zone = "agent"

\* "uci get firewall.stunmesh", which sees staged changes.
firewallZonePresent == fwStaged.zone # "none"

\* A "uci delete" of a section that is not there fails, and so do add_list
\* and del_list below one: neither is probed for first.
FirewallMustFail ==
    /\ Have.owned
    /\ \/ Remaining = {} /\ (fwStaged.fwd # Fwd \/ ~firewallZonePresent)
       \/ /\ Remaining # {} /\ ToAdd \cup ToRemove # {}
          /\ ~firewallZonePresent

\* The staged firewall config when manageFirewall stops early.
FirewallStops ==
    LET zoneCreated ==
            IF Have.owned THEN fwStaged ELSE runFirewallZoneCreate(fwStaged)
    IN
    \/ fwStaged' = fwStaged
    \/ /\ Remaining = {} /\ Have.owned
       /\ \E ks \in SUBSET Fwd : fwStaged' = [fwStaged EXCEPT !.fwd = @ \ ks]
    \/ /\ Remaining # {} /\ ~Have.owned /\ ~firewallZonePresent
       /\ \E ks \in SUBSET Fwd :
            fwStaged' = [zoneCreated EXCEPT !.fwd = fwStaged.fwd \cup ks]
    \/ /\ Remaining # {} /\ (Have.owned <=> firewallZonePresent)
       /\ \E removed \in SUBSET ToRemove, added \in SUBSET ToAdd :
            /\ added # {} => removed = ToRemove
            /\ fwStaged' = EditMembers(zoneCreated, removed, added)

-----------------------------------------------------------------------------
(* The specification.                                                      *)

Init ==
    /\ published \in Bundles
    /\ publishes = 0
    /\ netStaged = [i \in Iface |-> [k \in Key |-> NoSection]]
    /\ netCommitted = netStaged
    /\ netLoaded = netStaged
    /\ \E zone \in {"none", "operator"} :
        fwStaged = [zone |-> zone, fwd |-> {}, members |-> [i \in Iface |-> 0]]
    /\ fwCommitted = fwStaged
    /\ fwLoaded = fwStaged
    /\ file = NoText
    /\ last = EmptyState
    /\ pc = "idle"
    /\ job = [bundle |-> published, force |-> FALSE,
              firewall |-> NoFirewallState, fwChanged |-> FALSE]
    /\ faults = 0
    /\ clean = TRUE
    /\ intact = TRUE

Fault == faults < MaxFaults /\ faults' = faults + 1

\* The controller publishes another bundle, or an older one resurfaces.
Publish(b) ==
    /\ publishes < MaxPublish
    /\ b # published
    /\ published' = b
    /\ publishes' = publishes + 1
    /\ UNCHANGED <<netVars, fwVars, file, last, pc, job, faults, clean, intact>>

\* checkAndApply(b, forceAll), up to the call of applyDiff.
checkAndApply(force) ==
    /\ pc = "idle"
    /\ force \/ ~sameContent(published)
    /\ job' = [bundle |-> published, force |-> force,
               firewall |-> last.firewall, fwChanged |-> FALSE]
    /\ pc' = "writeUCI"
    /\ UNCHANGED <<published, publishes, netVars, fwVars, file, last,
                   faults, clean, intact>>

\* Step 1.
writeUCI ==
    /\ pc = "writeUCI"
    /\ netStaged' = [i \in Iface |-> IF i \in Touched THEN Written(i)
                                     ELSE netStaged[i]]
    /\ pc' = IF anyInterfaceChanged THEN "manageFirewall" ELSE "commitNetwork"
    /\ UNCHANGED <<published, publishes, netCommitted, netLoaded, fwVars,
                   file, last, job, faults, clean, intact>>

\* A failed command of step 1: "uci revert network", best effort.
writeUCIFails ==
    /\ pc = "writeUCI"
    /\ Fault
    /\ \/ netStaged' = netCommitted /\ clean' = clean
       \/ WriteStops /\ clean' = FALSE
    /\ pc' = "idle"
    /\ UNCHANGED <<published, publishes, netCommitted, netLoaded, fwVars,
                   file, last, job, intact>>

\* What manageFirewall returned: the FirewallState to record and "changed".
FirewallResult(state, changed) ==
    /\ pc = "manageFirewall"
    /\ job' = [job EXCEPT !.firewall = state, !.fwChanged = changed]
    /\ pc' = "commitNetwork"
    /\ UNCHANGED <<published, publishes, netVars, fwCommitted, fwLoaded,
                   file, last, faults, clean, intact>>

\* Membership already is what the record says.
FirewallUnchanged ==
    /\ Remaining # {} /\ ToAdd \cup ToRemove = {}
    /\ FirewallResult(Have, FALSE)
    /\ UNCHANGED fwStaged

\* Nothing owned and nothing to own, or a zone under this name that the
\* record does not claim: hands off.
FirewallLeftAlone ==
    /\ ~Have.owned
    /\ Remaining = {} \/ (ToAdd \cup ToRemove # {} /\ firewallZonePresent)
    /\ FirewallResult(NoFirewallState, FALSE)
    /\ UNCHANGED fwStaged

FirewallTornDown_Slip ==
    /\ Remaining = {} /\ Have.owned
    /\ ~FirewallMustFail
    /\ fwStaged' = NoZone(fwStaged)
    /\ FirewallResult(NoFirewallState, TRUE)

\* The last interface goes: forwardings, then the zone.
FirewallTornDown ==
    /\ Remaining = {} /\ Have.owned
    /\ ~FirewallMustFail
    /\ fwStaged' = NoZone([fwStaged EXCEPT !.fwd = @ \ Fwd])
    /\ FirewallResult(NoFirewallState, TRUE)

\* Create the zone unless it is owned, then edit its network list.
FirewallReconciled ==
    /\ Remaining # {} /\ ToAdd \cup ToRemove # {}
    /\ Have.owned <=> firewallZonePresent
    /\ fwStaged' = EditMembers(IF Have.owned THEN fwStaged
                               ELSE runFirewallZoneCreate(fwStaged),
                               ToRemove, ToAdd)
    /\ FirewallResult([owned |-> TRUE,
                       members |-> Remaining \cap (Have.members \cup ToAdd)],
                      TRUE)

\* "uci revert network" and "uci revert firewall", each best effort.
RevertBoth(netLeft, fwLeft) ==
    \E netOk, fwOk \in BOOLEAN :
        /\ IF netOk THEN netStaged' = netCommitted ELSE netLeft
        /\ IF fwOk THEN fwStaged' = fwCommitted ELSE fwLeft
        /\ clean' = (clean /\ netOk /\ fwOk)

manageFirewallFails_Slip ==
    /\ pc = "manageFirewall"
    /\ Fault /\ FirewallStops
    /\ netStaged' = netCommitted
    /\ pc' = "idle"
    /\ UNCHANGED <<published, publishes, netCommitted, netLoaded,
                   fwCommitted, fwLoaded, file, last, job, clean, intact>>

manageFirewallFails ==
    /\ pc = "manageFirewall"
    /\ \/ Fault /\ RevertBoth(UNCHANGED netStaged, FirewallStops)
       \/ /\ FirewallMustFail
          /\ netStaged' = netCommitted /\ fwStaged' = fwCommitted
          /\ UNCHANGED <<faults, clean>>
    /\ pc' = "idle"
    /\ UNCHANGED <<published, publishes, netCommitted, netLoaded,
                   fwCommitted, fwLoaded, file, last, job, intact>>

\* Step 2.
commitNetwork ==
    /\ pc = "commitNetwork"
    /\ netCommitted' = netStaged
    /\ pc' = IF job.fwChanged THEN "commitFirewall" ELSE "networkReload"
    /\ UNCHANGED <<published, publishes, netStaged, netLoaded, fwVars,
                   file, last, job, faults, clean, intact>>

commitNetworkFails ==
    /\ pc = "commitNetwork"
    /\ Fault
    /\ RevertBoth(UNCHANGED netStaged, UNCHANGED fwStaged)
    /\ pc' = "idle"
    /\ UNCHANGED <<published, publishes, netCommitted, netLoaded,
                   fwCommitted, fwLoaded, file, last, job, intact>>

\* Step 3.
commitFirewall ==
    /\ pc = "commitFirewall"
    /\ fwCommitted' = fwStaged
    /\ pc' = "networkReload"
    /\ UNCHANGED <<published, publishes, netVars, fwStaged, fwLoaded, file,
                   last, job, faults, clean, intact>>

commitFirewallFails ==
    /\ pc = "commitFirewall"
    /\ Fault
    /\ \/ fwStaged' = fwCommitted /\ clean' = clean
       \/ fwStaged' = fwStaged /\ clean' = FALSE
    /\ intact' = FALSE
    /\ pc' = "idle"
    /\ UNCHANGED <<published, publishes, netVars, fwCommitted, fwLoaded,
                   file, last, job>>

\* Step 4, "ubus call network reload": netifd picks up an interface whose
\* own section differs, and no change that is only in a peer section.
networkReload ==
    /\ pc = "networkReload"
    /\ netLoaded' = [i \in Iface |->
                        IF netCommitted[i][Own] = netLoaded[i][Own]
                        THEN netLoaded[i] ELSE netCommitted[i]]
    /\ pc' = "ifup"
    /\ UNCHANGED <<published, publishes, netStaged, netCommitted, fwVars,
                   file, last, job, faults, clean, intact>>

\* "ifup" of the interfaces in up.
BroughtUp(up) == [i \in Iface |-> IF i \in up THEN netCommitted[i]
                                  ELSE netLoaded[i]]

ifupChangedInterfaces_Slip ==
    /\ pc = "ifup"
    /\ netLoaded' = BroughtUp(InterfaceNew)
    /\ pc' = IF job.fwChanged THEN "firewallReload" ELSE "stunmeshConfig"
    /\ UNCHANGED <<published, publishes, netStaged, netCommitted, fwVars,
                   file, last, job, faults, clean, intact>>

\* Step 5.
ifupChangedInterfaces ==
    /\ pc = "ifup"
    /\ netLoaded' = BroughtUp(Created)
    /\ pc' = IF job.fwChanged THEN "firewallReload" ELSE "stunmeshConfig"
    /\ UNCHANGED <<published, publishes, netStaged, netCommitted, fwVars,
                   file, last, job, faults, clean, intact>>

\* Step 6.
firewallReload ==
    /\ pc = "firewallReload"
    /\ fwLoaded' = fwCommitted
    /\ pc' = "stunmeshConfig"
    /\ UNCHANGED <<published, publishes, netVars, fwStaged, fwCommitted,
                   file, last, job, faults, clean, intact>>

\* Step 7: write the file atomically, remove it, or leave it.
applyStunmeshConfig ==
    /\ pc = "stunmeshConfig"
    /\ file' = IF StunmeshEmpty \/ StunmeshChanged THEN job.bundle.stunmesh
               ELSE file
    /\ pc' = "writeLast"
    /\ UNCHANGED <<published, publishes, netVars, fwVars, last, job,
                   faults, clean, intact>>

buildState_Slip ==
    [wg |-> [i \in Iface |-> IF i \in InterfaceNew THEN job.bundle.wg[i]
                             ELSE IF InNew(i) THEN last.wg[i]
                             ELSE None],
     stunmesh |-> job.bundle.stunmesh,
     firewall |-> job.firewall]

\* buildState: a new or changed interface is recorded from the bundle, an
\* unchanged one carried forward, a removed one dropped.
buildState ==
    [wg |-> [i \in Iface |-> IF i \in Created THEN job.bundle.wg[i]
                             ELSE IF i \in InterfaceUnchanged THEN last.wg[i]
                             ELSE None],
     stunmesh |-> job.bundle.stunmesh,
     firewall |-> job.firewall]

\* Step 8, last.Write: a rename, so it happens or it does not.
writeLast ==
    /\ pc = "writeLast"
    /\ last' = buildState
    /\ pc' = "idle"
    /\ UNCHANGED <<published, publishes, netVars, fwVars, file, job,
                   faults, clean, intact>>

\* Steps 4 to 8 fail without any revert; ifup may have run for some.
LateStepFails ==
    /\ pc \in {"networkReload", "ifup", "firewallReload", "stunmeshConfig",
               "writeLast"}
    /\ Fault
    /\ \/ UNCHANGED netLoaded
       \/ pc = "ifup" /\ \E up \in SUBSET Created : netLoaded' = BroughtUp(up)
    /\ intact' = FALSE
    /\ pc' = "idle"
    /\ UNCHANGED <<published, publishes, netStaged, netCommitted, fwVars,
                   file, last, job, clean>>

\* The process dies in the middle of a cycle and is started again: nothing
\* is reverted, and the staged delta outlives it.
Kill ==
    /\ pc # "idle"
    /\ Fault
    /\ netStaged' = netStaged \/ (pc = "writeUCI" /\ WriteStops)
    /\ fwStaged' = fwStaged \/ (pc = "manageFirewall" /\ FirewallStops)
    /\ netLoaded' = netLoaded
       \/ (pc = "ifup" /\ \E up \in SUBSET Created : netLoaded' = BroughtUp(up))
    /\ clean' = (clean /\ netStaged' = netCommitted /\ fwStaged' = fwCommitted)
    /\ intact' = (intact /\ pc \notin CommittedSteps)
    /\ pc' = "idle"
    /\ UNCHANGED <<published, publishes, netCommitted, fwCommitted,
                   fwLoaded, file, last, job>>

\* The node reboots: the staged delta (a tmpfs) is gone, netifd and the
\* firewall start from the committed configuration.
Reboot ==
    /\ Fault
    /\ netStaged' = netCommitted
    /\ netLoaded' = netCommitted
    /\ fwStaged' = fwCommitted
    /\ fwLoaded' = fwCommitted
    /\ intact' = (intact /\ pc \notin CommittedSteps)
    /\ pc' = "idle"
    /\ UNCHANGED <<published, publishes, netCommitted, fwCommitted, file,
                   last, job, clean>>

\* The operator deletes a zone of his own, commits and reloads.
OperatorRemovesZone ==
    /\ fwStaged.zone = "operator"
    /\ fwStaged' = NoZone(fwStaged)
    /\ fwCommitted' = fwStaged'
    /\ fwLoaded' = fwStaged'
    /\ UNCHANGED <<published, publishes, netVars, file, last, pc, job,
                   faults, clean, intact>>

\* A step of applyDiff, failing or not.
ApplyStep ==
    \/ writeUCI \/ writeUCIFails
    \/ FirewallUnchanged \/ FirewallLeftAlone \/ FirewallTornDown
    \/ FirewallReconciled \/ manageFirewallFails
    \/ commitNetwork \/ commitNetworkFails
    \/ commitFirewall \/ commitFirewallFails
    \/ networkReload \/ ifupChangedInterfaces \/ firewallReload
    \/ applyStunmeshConfig \/ writeLast \/ LateStepFails

Next ==
    \/ \E b \in Bundles : Publish(b)
    \/ \E force \in BOOLEAN : checkAndApply(force)
    \/ ApplyStep
    \/ Kill
    \/ Reboot
    \/ OperatorRemovesZone

Spec == Init /\ [][Next]_vars

\* A started cycle goes on, and both of the daemon's tickers keep firing.
Fairness ==
    /\ WF_vars(ApplyStep)
    /\ SF_vars(checkAndApply(FALSE))
    /\ SF_vars(checkAndApply(TRUE))

FairSpec == Spec /\ Fairness
-----------------------------------------------------------------------------
(* Properties.                                                             *)

\* Type invariant of every variable of the apply procedure.
TypeOK ==
    /\ published \in Bundles
    /\ publishes \in 0..MaxPublish
    /\ netStaged \in Network /\ netCommitted \in Network /\ netLoaded \in Network
    /\ fwStaged \in Firewall /\ fwCommitted \in Firewall /\ fwLoaded \in Firewall
    /\ file \in Text \cup {NoText}
    /\ last \in State
    /\ pc \in Steps
    /\ job \in Job
    /\ faults \in 0..MaxFaults
    /\ clean \in BOOLEAN /\ intact \in BOOLEAN

Once(net) == \A i \in Iface, k \in Key : net[i][k].entries <= 1
MembersOnce(fw) == \A i \in Iface : fw.members[i] <= 1

\* However often a cycle fails, is killed or is retried, no list option and
\* no zone membership is ever listed twice: createInterface clears a list
\* before it appends to it, and adding a member is del_list then add_list.
NoDuplicateEntries ==
    /\ Once(netStaged) /\ Once(netCommitted) /\ Once(netLoaded)
    /\ MembersOnce(fwStaged) /\ MembersOnce(fwCommitted) /\ MembersOnce(fwLoaded)

\* A firewall.stunmesh that the operator created is never claimed in
\* last.json (nor in a cycle on its way there), so manageFirewall neither
\* adds a member or a forwarding to it nor deletes it.
OperatorZoneUntouched ==
    "operator" \in {fwStaged.zone, fwCommitted.zone} =>
        /\ fwStaged = fwCommitted /\ fwCommitted.zone = "operator"
        /\ fwCommitted.fwd = {} /\ \A i \in Iface : fwCommitted.members[i] = 0
        /\ ~last.firewall.owned /\ ~job.firewall.owned

\* Every way out of applyDiff, success or error at any step, leaves nothing
\* staged in either UCI config, as long as the process was not killed half
\* way and the reverts it ran worked: the next cycle starts clean.
NothingLeftStaged ==
    clean /\ pc = "idle" => netStaged = netCommitted /\ fwStaged = fwCommitted

\* The committed zone and its three forwardings appear and disappear as one
\* unit (manageFirewall stages them together and one commit publishes them).
ForwardingsShareZoneLifecycle ==
    clean => fwCommitted.fwd = (IF fwCommitted.zone = "agent" THEN Fwd ELSE {})

\* Section k of an interface holds what content c asks for ...
Holds(sec, c) == sec.there /\ c.opts \subseteq sec.opts /\ sec.entries = 1
\* ... and nothing else.
HoldsExactly(sec, c) == Holds(sec, c) /\ sec.opts = c.opts

\* A network config that holds what the apply in flight is to create.
NetReady(net) ==
    /\ \A i \in Created : \A k \in sectionsFor(job.bundle.wg[i]) :
        /\ Holds(net[i][k], job.bundle.wg[i])
        /\ k \in Recorded(i) => HoldsExactly(net[i][k], job.bundle.wg[i])
    /\ \A i \in InterfaceRemoved : ~net[i][Own].there

\* A firewall config with the members the apply in flight is to add and drop.
FwReady(fw) ==
    /\ fw.zone # "operator"
    /\ \A i \in ToAdd : fw.members[i] = 1
    /\ \A i \in ToRemove : fw.members[i] = 0

\* The sections of content c (none for None), and those of all of wg.
Sections(c) ==
    [k \in Key |-> IF c # None /\ k \in sectionsFor(c)
                   THEN [there |-> TRUE, opts |-> c.opts, entries |-> 1]
                   ELSE NoSection]
Image(wg) == [i \in Iface |-> Sections(wg[i])]

\* What last.FirewallState st says of the firewall config fw.
FirewallIs(fw, st) ==
    /\ fw.zone = "agent" <=> st.owned
    /\ fw.fwd = IF st.owned THEN Fwd ELSE {}
    /\ fw.members = [i \in Iface |-> IF i \in st.members THEN 1 ELSE 0]

\* The node is configured with, and runs, exactly this: no interface, peer,
\* option or zone member more or less.
NodeIs(wg, text, st) ==
    /\ netCommitted = Image(wg) /\ netLoaded = netCommitted
    /\ FirewallIs(fwCommitted, st) /\ fwLoaded = fwCommitted
    /\ file = text

\* When applyDiff is about to write last.json, every interface it has created
\* or changed is committed in full and running, a section that was recorded
\* before has no option left over from its old content, no interface it has
\* removed runs, the zone members it has added and dropped are enforced, and a
\* stunmesh text it has written or removed is in place, whatever earlier,
\* abandoned cycles left behind.  This says nothing of what computeDiff calls
\* unchanged (nothing is, in a full apply): it is taken over from the old
\* record, which an abandoned cycle may have made wrong (UnchangedStillRecorded,
\* RecordedTextIsWritten).  While no cycle was given up after its first commit
\* or left anything staged, though, whatever else failed, was killed or
\* rebooted before, the node is exactly what is about to be recorded: every
\* interface, the zone, its members, the file, and nothing beside them.
RecordedOnlyWhenRealised ==
    pc = "writeLast" =>
        /\ NetReady(netCommitted)
        /\ \A i \in Created : netLoaded[i] = netCommitted[i]
        /\ \A i \in InterfaceRemoved : ~netLoaded[i][Own].there
        /\ job.fwChanged => FwReady(fwCommitted) /\ fwLoaded = fwCommitted
        /\ StunmeshEmpty \/ StunmeshChanged => file = job.bundle.stunmesh
        /\ clean /\ intact =>
            NodeIs(job.bundle.wg, job.bundle.stunmesh, job.firewall)

\* The node runs bundle b: config, kernel and stunmesh file.  What earlier
\* cycles left that b does not name, and the zone, are part of it only if no
\* cycle was given up after its first commit or left anything staged.
Realised(b) ==
    /\ \A i \in Iface : b.wg[i] # None =>
        /\ \A k \in sectionsFor(b.wg[i]) : HoldsExactly(netCommitted[i][k], b.wg[i])
        /\ netLoaded[i] = netCommitted[i]
    /\ file = b.stunmesh
    /\ clean /\ intact => NodeIs(b.wg, b.stunmesh, last.firewall)

\* The zone and the forwardings that last.json claims are there.
RecordedZoneExists ==
    last.firewall.owned => fwCommitted.zone = "agent" /\ fwCommitted.fwd = Fwd

\* Once the controller stops changing the bundle and the faults stop, the
\* refresh and full-apply ticks bring every interface that the bundle names,
\* and the stunmesh file, to that bundle and keep them there, whatever
\* half-applied bundles came before.  Three things are not restored where a
\* cycle was given up after its first commit, and are excluded: a zone that
\* last.json claims and that is gone (TeardownIsRetried), interfaces and
\* sections that neither the record nor the bundle names (EmptyRemovesAll),
\* and zone members that the record has and the zone has not
\* (InterfacesAreMembers).  Where none was, the node is the bundle exactly.
Converges ==
    <>[](RecordedZoneExists => Realised(published) /\ sameContent(published))

\* applyDiff says a cycle that failed is simply retried: so a bundle that
\* removes the last interface is eventually recorded as applied, at least
\* where no kill or failed revert ever left anything staged.
TeardownIsRetried == <>[](clean => sameContent(published))

\* last.FirewallState says ZoneOwned is true once the agent has created the
\* zone: whenever last.json is rewritten while the agent's zone is committed,
\* it claims that zone.
ZoneOwnedRecorded ==
    [][last' # last /\ fwCommitted.zone = "agent" => last'.firewall.owned]_vars

\* buildState carries an unchanged interface forward because "its recorded
\* sections still name what is in UCI": when last.json is about to be
\* written, the committed sections of an unchanged interface are the
\* recorded ones, at least where nothing was ever left staged.
UnchangedStillRecorded ==
    clean /\ pc = "writeLast" =>
        \A i \in InterfaceUnchanged :
            {k \in Key : netCommitted[i][k].there} = Recorded(i)

\* docs/format.md says of `wg` that it "can be empty (remove all interfaces)":
\* while a bundle without interfaces stays published, all interfaces stop for
\* good, at least where the zone that last.json claims is there and nothing
\* was ever left staged.
EmptyRemovesAll ==
    <>[](clean /\ RecordedZoneExists /\ published.wg = EmptyState.wg =>
            \A i \in Iface : ~netLoaded[i][Own].there)

\* last.State says Stunmesh is "the stunmesh-go config text the agent last
\* wrote": whenever last.json is rewritten, the file has the text it records.
RecordedTextIsWritten == [][last' # last => file = last'.stunmesh]_vars

\* manageFirewall says that every managed interface, "new, changed, or
\* unchanged", "ends up a member": so it leaves none out of a zone it owns,
\* at least where nothing was ever left staged.
InterfacesAreMembers ==
    [][clean /\ pc = "manageFirewall" /\ pc' = "commitNetwork"
        /\ job'.firewall.owned =>
            \A i \in Remaining : fwStaged'.members[i] = 1]_vars

-----------------------------------------------------------------------------
(* The abstract specification.                                             *)

Applied == INSTANCE AppliedBundle WITH
    Nothing <- [wg |-> EmptyState.wg, stunmesh |-> EmptyState.stunmesh],
    pending <- IF pc = "idle" THEN None ELSE job.bundle,
    recorded <- [wg |-> last.wg, stunmesh |-> last.stunmesh]

\* All the steps of applyDiff, with their failures, kills and reboots, apply
\* one whole bundle at a time: what buildState puts together from the bundle
\* and the old record is always exactly the bundle the cycle started with,
\* although another one may have been published since.
ImplementsAppliedBundle == Applied!Spec

-----------------------------------------------------------------------------
(* Inductive invariants of the proofs in AgentApplyProofs.                 *)

Unit(fw) == fw.fwd = (IF fw.zone = "agent" THEN Fwd ELSE {})

\* Where a difference between the staged and the committed config may be.
StagingInv ==
    clean =>
        /\ pc \notin {"manageFirewall", "commitNetwork"} => netStaged = netCommitted
        /\ ~(pc \in {"commitNetwork", "commitFirewall"} /\ job.fwChanged) =>
            fwStaged = fwCommitted
        /\ Unit(fwStaged) /\ Unit(fwCommitted)

\* How far the apply in flight has got, step by step.
ProgressInv ==
    /\ pc \in {"writeUCI", "manageFirewall"} => ~job.fwChanged
    /\ pc \in {"manageFirewall", "commitNetwork"} => NetReady(netStaged)
    /\ pc \in {"commitFirewall", "networkReload", "ifup", "firewallReload",
               "stunmeshConfig", "writeLast"} => NetReady(netCommitted)
    /\ pc \in {"ifup", "firewallReload", "stunmeshConfig", "writeLast"} =>
        \A i \in InterfaceRemoved : ~netLoaded[i][Own].there
    /\ pc \in {"firewallReload", "stunmeshConfig", "writeLast"} =>
        \A i \in Created : netLoaded[i] = netCommitted[i]
    /\ job.fwChanged =>
        /\ pc \in {"commitNetwork", "commitFirewall"} => FwReady(fwStaged)
        /\ pc \in {"networkReload", "ifup", "firewallReload", "stunmeshConfig",
                   "writeLast"} => FwReady(fwCommitted)
        /\ pc \in {"stunmeshConfig", "writeLast"} => fwLoaded = fwCommitted
    /\ pc = "writeLast" =>
        (StunmeshEmpty \/ StunmeshChanged => file = job.bundle.stunmesh)

\* The firewall state st claims exactly the interfaces of wg, or nothing.
Claims(st, wg) ==
    st.members = IF st.owned THEN {i \in Iface : wg[i] # None} ELSE {}

\* Where the network config, the firewall config and the file are, between
\* the record and the bundle of the apply in flight.
NetIntact ==
    /\ pc \in {"manageFirewall", "commitNetwork"} =>
        netStaged = Image(job.bundle.wg)
    /\ netCommitted = Image(IF pc \in CommittedSteps THEN job.bundle.wg
                            ELSE last.wg)
    /\ CASE pc \in {"firewallReload", "stunmeshConfig", "writeLast"} ->
                netLoaded = netCommitted
         [] pc = "ifup" ->
                \A i \in Iface \ Created : netLoaded[i] = netCommitted[i]
         [] OTHER -> netLoaded = Image(last.wg)

FwIntact ==
    /\ Claims(last.firewall, last.wg)
    /\ pc \in {"writeUCI", "manageFirewall"} => job.firewall = last.firewall
    /\ pc \in CommittedSteps \cup {"commitNetwork"} =>
        /\ Claims(job.firewall, job.bundle.wg)
        /\ ~job.fwChanged => FirewallIs(fwCommitted, job.firewall)
    /\ job.fwChanged =>
        /\ pc \in {"commitNetwork", "commitFirewall"} =>
            FirewallIs(fwStaged, job.firewall)
        /\ pc \in CommittedSteps \ {"commitFirewall"} =>
            FirewallIs(fwCommitted, job.firewall)
    /\ ~(job.fwChanged /\ pc \in CommittedSteps \ {"commitFirewall"}) =>
        FirewallIs(fwCommitted, last.firewall)
    /\ ~(job.fwChanged /\ pc \in {"networkReload", "ifup", "firewallReload"}) =>
        fwLoaded = fwCommitted

FileIntact ==
    file = IF pc = "writeLast" THEN job.bundle.stunmesh ELSE last.stunmesh

\* Where no cycle was given up after its first commit or left anything staged,
\* node and record differ by what the apply in flight has done, and no more.
IntactInv == clean /\ intact => NetIntact /\ FwIntact /\ FileIntact
=============================================================================
