-------------------------- MODULE AgentApplyProofs --------------------------
(***************************************************************************)
(* Theorems about AgentApply for every set of names, every set of bundles  *)
(* and every fault budget.                                                 *)
(***************************************************************************)
EXTENDS AgentApply, TLAPS

USE ConstantsAssumption

-----------------------------------------------------------------------------
(* The operators on one interface's sections.                              *)

\* deleteSections, clearListOptions and BuildInterface map section tables to
\* section tables.
LEMMA SectionOps ==
    ASSUME NEW secs \in [Key -> Section], NEW ks, NEW os \in SUBSET Opt
    PROVE  /\ deleteSections(secs, ks) \in [Key -> Section]
           /\ clearListOptions(secs, ks) \in [Key -> Section]
           /\ BuildInterface(secs, ks, os) \in [Key -> Section]
<1>1. NoSection \in Section
  BY DEF NoSection, Section
<1>2. \A k \in Key : [secs[k] EXCEPT !.entries = 0] \in Section
  BY DEF Section
<1>3. \A k \in Key : [there |-> TRUE, opts |-> secs[k].opts \cup os,
                      entries |-> secs[k].entries + 1] \in Section
  BY DEF Section
<1> QED
  BY <1>1, <1>2, <1>3 DEF deleteSections, clearListOptions, BuildInterface

\* A half-built section is a section.
LEMMA HalfBuiltTyped ==
    ASSUME NEW secs \in [Key -> Section], NEW k, NEW os \in SUBSET Opt,
           NEW half \in HalfBuilt(secs, k, os)
    PROVE  half \in [Key -> Section]
<1>1. PICK o \in SUBSET os, n \in 0..1 :
        half = [secs EXCEPT ![k] = [there |-> TRUE, opts |-> secs[k].opts \cup o,
                                    entries |-> n]]
  BY DEF HalfBuilt
<1>2. k \in Key => [there |-> TRUE, opts |-> secs[k].opts \cup o,
                    entries |-> n] \in Section
  BY <1>1 DEF Section
<1> QED
  BY <1>1, <1>2

\* A present interface has a content.
LEMMA ContentTyped ==
    ASSUME TypeOK, NEW i \in Iface, InNew(i)
    PROVE  /\ job.bundle.wg[i] \in Content
           /\ job.bundle.wg[i].opts \in SUBSET Opt
           /\ job.bundle.wg[i].kids \in SUBSET Child
BY DEF TypeOK, InNew, Job, Bundle, Content

\* What writeUCI makes of an interface is a section table.
LEMMA WrittenTyped ==
    ASSUME TypeOK, NEW i \in Iface
    PROVE  Written(i) \in [Key -> Section]
<1>1. netStaged[i] \in [Key -> Section]
  BY DEF TypeOK, Network
<1> DEFINE emptied == deleteSections(netStaged[i], Recorded(i))
<1>2. emptied \in [Key -> Section]
  BY <1>1, SectionOps
<1>3. CASE InNew(i)
  <2> DEFINE c == job.bundle.wg[i]
  <2>1. c.opts \in SUBSET Opt
    BY <1>3, ContentTyped
  <2>2. clearListOptions(emptied, sectionsFor(c)) \in [Key -> Section]
    BY <1>2, SectionOps
  <2>3. createInterface(emptied, c) \in [Key -> Section]
    BY <2>1, <2>2, SectionOps DEF createInterface
  <2> QED
    BY <1>3, <2>3 DEF Written
<1>4. CASE ~InNew(i)
  BY <1>2, <1>4 DEF Written
<1> QED
  BY <1>3, <1>4

\* So is what a createInterface that stopped early leaves ...
LEMMA PartlyCreatedTyped ==
    ASSUME NEW secs \in [Key -> Section], NEW c, c.opts \in SUBSET Opt,
           NEW part \in PartlyCreated(secs, c)
    PROVE  part \in [Key -> Section]
<1> DEFINE cleared == clearListOptions(secs, sectionsFor(c))
<1>1. cleared \in [Key -> Section]
  BY SectionOps
<1>2. CASE part \in PartlyCleared(secs, c)
  BY <1>2, SectionOps DEF PartlyCleared
<1>3. CASE part \in PartlyBuilt(cleared, c)
  <2> HIDE DEF cleared
  <2>1. PICK q : part \in HalfBuilt(BuildInterface(cleared, q[1], c.opts), q[2], c.opts)
    BY <1>3 DEF PartlyBuilt
  <2>2. BuildInterface(cleared, q[1], c.opts) \in [Key -> Section]
    BY <1>1, SectionOps
  <2> QED
    BY <2>1, <2>2, HalfBuiltTyped
<1> QED
  BY <1>2, <1>3 DEF PartlyCreated

\* ... and what a writeUCI that stopped inside the interface leaves.
LEMMA StoppedTyped ==
    ASSUME TypeOK, NEW i \in Iface, NEW secs \in StoppedAt(i)
    PROVE  secs \in [Key -> Section]
<1>1. netStaged[i] \in [Key -> Section]
  BY DEF TypeOK, Network
<1>2. CASE secs \in PartlyDeleted(i)
  <2>1. PICK ks : secs = deleteSections(netStaged[i], ks)
    BY <1>2 DEF PartlyDeleted
  <2> QED
    BY <1>1, <2>1, SectionOps
<1>3. CASE InNew(i) /\ secs \in PartlyCreated(deleteSections(netStaged[i], Recorded(i)),
                                               job.bundle.wg[i])
  BY <1>1, <1>3, SectionOps, ContentTyped, PartlyCreatedTyped
<1> QED
  BY <1>2, <1>3 DEF StoppedAt

-----------------------------------------------------------------------------
(* Type correctness.                                                       *)

\* The staged network config keeps its type when writeUCI stops early.
LEMMA WriteStopsTyped ==
    ASSUME TypeOK, WriteStops
    PROVE  netStaged' \in Network
<1>1. PICK done \in SUBSET Touched, i \in Touched : \E secs \in StoppedAt(i) :
        netStaged' = [j \in Iface |-> IF j \in done THEN Written(j)
                                      ELSE IF j = i THEN secs
                                      ELSE netStaged[j]]
  BY DEF WriteStops
<1>2. i \in Iface
  BY DEF Touched, Created, InterfaceNew, InterfaceChanged, InterfaceRemoved
<1>3. PICK secs \in [Key -> Section] :
        netStaged' = [j \in Iface |-> IF j \in done THEN Written(j)
                                      ELSE IF j = i THEN secs
                                      ELSE netStaged[j]]
  BY <1>1, <1>2, StoppedTyped
<1>4. \A j \in Iface : Written(j) \in [Key -> Section]
  BY WrittenTyped
<1>5. \A j \in Iface : netStaged[j] \in [Key -> Section]
  BY DEF TypeOK, Network
<1> QED
  BY <1>3, <1>4, <1>5 DEF Network

\* The firewall edits map firewall configs to firewall configs.
LEMMA FirewallOps ==
    ASSUME NEW fw \in Firewall, NEW removed, NEW added, NEW ks
    PROVE  /\ runFirewallZoneCreate(fw) \in Firewall
           /\ EditMembers(fw, removed, added) \in Firewall
           /\ NoZone(fw) \in Firewall
           /\ [fw EXCEPT !.fwd = @ \ ks] \in Firewall
           /\ fw.fwd \in SUBSET Fwd
BY DEF Firewall, runFirewallZoneCreate, EditMembers, NoZone

\* The staged firewall config keeps its type when manageFirewall stops early.
LEMMA FirewallStopsTyped ==
    ASSUME TypeOK, FirewallStops
    PROVE  fwStaged' \in Firewall
<1>1. fwStaged \in Firewall
  BY DEF TypeOK
<1> DEFINE zoneCreated ==
        IF Have.owned THEN fwStaged ELSE runFirewallZoneCreate(fwStaged)
<1>2. zoneCreated \in Firewall
  BY <1>1, FirewallOps
<1>3. \A ks \in SUBSET Fwd :
        /\ [fwStaged EXCEPT !.fwd = @ \ ks] \in Firewall
        /\ [zoneCreated EXCEPT !.fwd = fwStaged.fwd \cup ks] \in Firewall
  BY <1>1, <1>2 DEF Firewall
<1>4. \A removed, added : EditMembers(zoneCreated, removed, added) \in Firewall
  BY <1>2, FirewallOps
<1> HIDE DEF zoneCreated
<1> QED
  BY <1>1, <1>3, <1>4 DEF FirewallStops, zoneCreated

\* A node before the first cycle has the right types.
LEMMA InitType == Init => TypeOK
<1> SUFFICES ASSUME Init PROVE TypeOK
  OBVIOUS
<1>1. [i \in Iface |-> [k \in Key |-> NoSection]] \in Network
  BY DEF Network, NoSection, Section
<1>2. EmptyState \in State
  BY DEF EmptyState, State, NoFirewallState, FirewallState
<1>3. job \in Job
  BY DEF Init, Job, NoFirewallState, FirewallState
<1>4. fwStaged \in Firewall
  BY DEF Init, Firewall
<1> QED
  BY <1>1, <1>2, <1>3, <1>4 DEF Init, TypeOK, Steps

\* A fault stays within the budget.
LEMMA FaultType ==
    ASSUME TypeOK, Fault
    PROVE  faults' \in 0..MaxFaults
BY DEF TypeOK, Fault

\* A FirewallResult keeps the type when the recorded state is one.
LEMMA FirewallResultType ==
    ASSUME TypeOK, NEW st \in FirewallState, NEW changed \in BOOLEAN,
           FirewallResult(st, changed), fwStaged' \in Firewall
    PROVE  TypeOK'
<1>1. job' \in Job
  BY DEF FirewallResult, TypeOK, Job
<1> QED
  BY <1>1 DEF FirewallResult, TypeOK, Steps, netVars

\* Every step of the apply, and every fault, keeps the types.
LEMMA StepType == TypeOK /\ [Next]_vars => TypeOK'
<1> SUFFICES ASSUME TypeOK, [Next]_vars PROVE TypeOK'
  OBVIOUS
<1> USE DEF netVars, fwVars
<1>1. ASSUME NEW b \in Bundles, Publish(b) PROVE TypeOK'
  BY <1>1 DEF Publish, TypeOK
<1>2. ASSUME NEW force \in BOOLEAN, checkAndApply(force) PROVE TypeOK'
  <2>1. job' \in Job
    BY <1>2 DEF checkAndApply, TypeOK, Job, State
  <2> QED
    BY <1>2, <2>1 DEF checkAndApply, TypeOK, Steps
<1>3. CASE writeUCI
  <2>1. \A i \in Iface : Written(i) \in [Key -> Section]
    BY WrittenTyped
  <2>2. netStaged' \in Network
    BY <1>3, <2>1 DEF writeUCI, TypeOK, Network
  <2> QED
    BY <1>3, <2>2 DEF writeUCI, TypeOK, Steps
<1>4. CASE writeUCIFails
  <2>1. netStaged' \in Network /\ clean' \in BOOLEAN
    BY <1>4, WriteStopsTyped DEF writeUCIFails, TypeOK
  <2> QED
    BY <1>4, <2>1, FaultType DEF writeUCIFails, TypeOK, Steps
<1>5. CASE FirewallUnchanged
  BY <1>5, FirewallResultType DEF FirewallUnchanged, TypeOK, Have, State
<1>6. CASE FirewallLeftAlone
  <2>1. NoFirewallState \in FirewallState
    BY DEF NoFirewallState, FirewallState
  <2> QED
    BY <1>6, <2>1, FirewallResultType DEF FirewallLeftAlone, TypeOK
<1>7. CASE FirewallTornDown
  <2>1. NoFirewallState \in FirewallState
    BY DEF NoFirewallState, FirewallState
  <2>2. fwStaged' \in Firewall
    BY <1>7, FirewallOps DEF FirewallTornDown, TypeOK
  <2> QED
    BY <1>7, <2>1, <2>2, FirewallResultType DEF FirewallTornDown
<1>8. CASE FirewallReconciled
  <2>1. [owned |-> TRUE, members |-> Remaining \cap (Have.members \cup ToAdd)]
            \in FirewallState
    BY DEF FirewallState, Remaining
  <2>2. fwStaged' \in Firewall
    BY <1>8, FirewallOps DEF FirewallReconciled, TypeOK
  <2> QED
    BY <1>8, <2>1, <2>2, FirewallResultType DEF FirewallReconciled
<1>9. CASE manageFirewallFails
  <2>1. /\ netStaged' \in Network /\ fwStaged' \in Firewall
        /\ clean' \in BOOLEAN /\ faults' \in 0..MaxFaults
    <3>1. CASE Fault /\ RevertBoth(UNCHANGED netStaged, FirewallStops)
      <4>1. (UNCHANGED netStaged) => netStaged' \in Network
        BY DEF TypeOK
      <4>2. FirewallStops => fwStaged' \in Firewall
        BY FirewallStopsTyped
      <4> QED
        BY <3>1, <4>1, <4>2, FaultType DEF RevertBoth, TypeOK
    <3>2. CASE netStaged' = netCommitted /\ fwStaged' = fwCommitted
               /\ UNCHANGED <<faults, clean>>
      BY <3>2 DEF TypeOK
    <3> QED
      BY <1>9, <3>1, <3>2 DEF manageFirewallFails
  <2> QED
    BY <1>9, <2>1 DEF manageFirewallFails, TypeOK, Steps
<1>10. CASE commitNetwork
  BY <1>10 DEF commitNetwork, TypeOK, Steps
<1>11. CASE commitNetworkFails
  BY <1>11, FaultType DEF commitNetworkFails, RevertBoth, TypeOK, Steps
<1>12. CASE commitFirewall
  BY <1>12 DEF commitFirewall, TypeOK, Steps
<1>13. CASE commitFirewallFails
  BY <1>13, FaultType DEF commitFirewallFails, TypeOK, Steps
<1>14. CASE networkReload
  <2>1. netLoaded' \in Network
    BY <1>14 DEF networkReload, TypeOK, Network
  <2> QED
    BY <1>14, <2>1 DEF networkReload, TypeOK, Steps
<1>15. \A up : BroughtUp(up) \in Network
  BY DEF BroughtUp, TypeOK, Network
<1>16. CASE ifupChangedInterfaces
  BY <1>15, <1>16 DEF ifupChangedInterfaces, TypeOK, Steps
<1>17. CASE firewallReload
  BY <1>17 DEF firewallReload, TypeOK, Steps
<1>18. CASE applyStunmeshConfig
  <2>1. file' \in Text \cup {NoText}
    BY <1>18 DEF applyStunmeshConfig, TypeOK, Job, Bundle
  <2> QED
    BY <1>18, <2>1 DEF applyStunmeshConfig, TypeOK, Steps
<1>19. CASE writeLast
  <2>1. buildState \in State
    BY DEF buildState, State, TypeOK, Job, Bundle
  <2> QED
    BY <1>19, <2>1 DEF writeLast, TypeOK, Steps
<1>20. CASE LateStepFails
  BY <1>15, <1>20, FaultType DEF LateStepFails, TypeOK, Steps
<1>21. CASE Kill
  <2>1. netStaged' \in Network
    BY <1>21, WriteStopsTyped DEF Kill, TypeOK
  <2>2. fwStaged' \in Firewall
    BY <1>21, FirewallStopsTyped DEF Kill, TypeOK
  <2>3. netLoaded' \in Network
    BY <1>15, <1>21 DEF Kill, TypeOK
  <2>4. clean' \in BOOLEAN
    BY <1>21 DEF Kill, TypeOK
  <2> QED
    BY <1>21, <2>1, <2>2, <2>3, <2>4, FaultType DEF Kill, TypeOK, Steps
<1>22. CASE Reboot
  BY <1>22, FaultType DEF Reboot, TypeOK, Steps
<1>23. CASE OperatorRemovesZone
  BY <1>23, FirewallOps DEF OperatorRemovesZone, TypeOK
<1>24. CASE UNCHANGED vars
  BY <1>24 DEF vars, TypeOK
<1> QED
  BY <1>1, <1>2, <1>3, <1>4, <1>5, <1>6, <1>7, <1>8, <1>9, <1>10, <1>11, <1>12,
     <1>13, <1>14, <1>16, <1>17, <1>18, <1>19, <1>20, <1>21, <1>22, <1>23, <1>24
     DEF Next, ApplyStep

\* Every variable of the apply procedure keeps its type.
THEOREM TypeCorrect == Spec => []TypeOK
BY InitType, StepType, PTL DEF Spec

-----------------------------------------------------------------------------
(* An operator's zone.                                                     *)

\* Every step of the apply, and every fault, leaves an operator's zone alone.
LEMMA StepOperator ==
    TypeOK /\ OperatorZoneUntouched /\ [Next]_vars => OperatorZoneUntouched'
<1> SUFFICES ASSUME TypeOK, OperatorZoneUntouched, [Next]_vars
             PROVE  OperatorZoneUntouched'
  OBVIOUS
<1> USE DEF OperatorZoneUntouched, netVars, fwVars
<1>a. /\ fwStaged \in Firewall /\ fwCommitted \in Firewall
      /\ last \in State /\ job \in Job
  BY DEF TypeOK
\* A manageFirewall that stops early has not touched an operator's zone, and
\* has not turned any other zone into one.
<1>b. FirewallStops =>
        \/ fwStaged' = fwStaged
        \/ fwStaged.zone # "operator" /\ fwStaged'.zone # "operator"
  <2> SUFFICES ASSUME FirewallStops, fwStaged' # fwStaged
               PROVE  fwStaged.zone # "operator" /\ fwStaged'.zone # "operator"
    OBVIOUS
  <2>1. CASE Have.owned
    <3>1. fwStaged.zone # "operator"
      BY <1>a, <2>1 DEF Have
    <3> QED
      BY <1>a, <2>1, <3>1 DEF FirewallStops, Firewall, EditMembers
  <2>2. CASE ~Have.owned
    <3>1. ~firewallZonePresent
      BY <2>2 DEF FirewallStops
    <3> QED
      BY <1>a, <2>2, <3>1 DEF FirewallStops, Firewall, EditMembers,
                              runFirewallZoneCreate, firewallZonePresent
  <2> QED
    BY <2>1, <2>2
<1>1. ASSUME NEW b \in Bundles, Publish(b) PROVE OperatorZoneUntouched'
  BY <1>1 DEF Publish
<1>2. ASSUME NEW force \in BOOLEAN, checkAndApply(force)
      PROVE OperatorZoneUntouched'
  BY <1>2 DEF checkAndApply
<1>3. CASE writeUCI \/ writeUCIFails
  BY <1>3 DEF writeUCI, writeUCIFails
<1>4. CASE FirewallUnchanged
  BY <1>4, <1>a DEF FirewallUnchanged, FirewallResult, Have, Job
<1>5. CASE FirewallLeftAlone
  BY <1>5, <1>a DEF FirewallLeftAlone, FirewallResult, NoFirewallState, Job
<1>6. CASE FirewallTornDown
  <2>1. fwStaged.zone # "operator" /\ fwCommitted.zone # "operator"
    BY <1>6 DEF FirewallTornDown, Have
  <2>2. fwStaged'.zone = "none" /\ fwCommitted' = fwCommitted
    BY <1>6, <1>a DEF FirewallTornDown, FirewallResult, NoZone, Firewall
  <2> QED
    BY <2>1, <2>2
<1>7. CASE FirewallReconciled
  <2>1. fwStaged.zone # "operator" /\ fwCommitted.zone # "operator"
    BY <1>7 DEF FirewallReconciled, Have, firewallZonePresent
  <2>2. fwStaged'.zone # "operator" /\ fwCommitted' = fwCommitted
    BY <1>7, <1>a, <2>1 DEF FirewallReconciled, FirewallResult, EditMembers,
                            runFirewallZoneCreate, Firewall
  <2> QED
    BY <2>1, <2>2
<1>8. CASE manageFirewallFails
  <2>1. \/ fwStaged' = fwCommitted \/ FirewallStops
    BY <1>8 DEF manageFirewallFails, RevertBoth
  <2> QED
    BY <1>8, <2>1, <1>b DEF manageFirewallFails
<1>9. CASE commitNetwork \/ commitFirewall \/ commitFirewallFails
  BY <1>9 DEF commitNetwork, commitFirewall, commitFirewallFails
<1>10. CASE commitNetworkFails
  BY <1>10 DEF commitNetworkFails, RevertBoth
<1>11. CASE networkReload \/ ifupChangedInterfaces \/ firewallReload
            \/ applyStunmeshConfig \/ LateStepFails
  BY <1>11 DEF networkReload, ifupChangedInterfaces, firewallReload,
               applyStunmeshConfig, LateStepFails
<1>12. CASE writeLast
  BY <1>12, <1>a DEF writeLast, buildState
<1>13. CASE Kill
  BY <1>13, <1>b DEF Kill
<1>14. CASE Reboot
  BY <1>14 DEF Reboot
<1>15. CASE OperatorRemovesZone
  BY <1>15, <1>a DEF OperatorRemovesZone, NoZone, Firewall
<1>16. CASE UNCHANGED vars
  BY <1>16 DEF vars
<1> QED
  BY <1>1, <1>2, <1>3, <1>4, <1>5, <1>6, <1>7, <1>8, <1>9, <1>10, <1>11, <1>12,
     <1>13, <1>14, <1>15, <1>16 DEF Next, ApplyStep

\* manageFirewall never claims, edits or deletes a zone the operator created,
\* through any sequence of failures, kills, reboots and retries.
THEOREM OperatorZoneSafe == Spec => []OperatorZoneUntouched
<1>1. Init => OperatorZoneUntouched
  BY DEF Init, OperatorZoneUntouched, EmptyState, NoFirewallState
<1> QED
  BY <1>1, TypeCorrect, StepOperator, PTL DEF Spec

-----------------------------------------------------------------------------
(* No entry is listed twice.                                               *)

\* Tables in which no list entry is doubled.
OnceIn(secs) == \A k \in Key : secs[k].entries <= 1

\* deleteSections, clearListOptions and createInterface double no entry.
LEMMA SectionOpsOnce ==
    ASSUME NEW secs \in [Key -> Section], OnceIn(secs), NEW ks, NEW c
    PROVE  /\ OnceIn(deleteSections(secs, ks))
           /\ OnceIn(clearListOptions(secs, ks))
           /\ OnceIn(createInterface(secs, c))
<1>1. OnceIn(deleteSections(secs, ks))
  BY DEF OnceIn, deleteSections, NoSection
<1>2. ASSUME NEW js PROVE OnceIn(clearListOptions(secs, js))
  BY DEF OnceIn, clearListOptions, Section
<1>3. \A k \in Key : k \in sectionsFor(c) =>
        clearListOptions(secs, sectionsFor(c))[k].entries = 0
  BY DEF clearListOptions, Section
<1>4. OnceIn(createInterface(secs, c))
  <2>1. OnceIn(clearListOptions(secs, sectionsFor(c)))
    BY <1>2
  <2> QED
    BY <1>3, <2>1 DEF OnceIn, createInterface, BuildInterface
<1> QED
  BY <1>1, <1>2, <1>4

\* Neither does a createInterface that stops early.
LEMMA PartlyCreatedOnce ==
    ASSUME NEW secs \in [Key -> Section], OnceIn(secs),
           NEW c, c.opts \in SUBSET Opt, NEW part \in PartlyCreated(secs, c)
    PROVE  OnceIn(part)
<1> DEFINE cleared == clearListOptions(secs, sectionsFor(c))
<1>1. /\ cleared \in [Key -> Section]
      /\ OnceIn(cleared)
      /\ \A k \in Key : k \in sectionsFor(c) => cleared[k].entries = 0
  <2>1. cleared \in [Key -> Section]
    BY SectionOps
  <2>2. OnceIn(cleared)
    BY SectionOpsOnce
  <2>3. \A k \in Key : k \in sectionsFor(c) => cleared[k].entries = 0
    BY DEF clearListOptions, Section
  <2> QED
    BY <2>1, <2>2, <2>3
<1>2. CASE part \in PartlyCleared(secs, c)
  BY <1>2, SectionOpsOnce DEF PartlyCleared
<1>3. CASE part \in PartlyBuilt(cleared, c)
  <2> HIDE DEF cleared
  <2>1. PICK q \in CreatePrefixes(c) \X sectionsFor(c) :
            part \in HalfBuilt(BuildInterface(cleared, q[1], c.opts), q[2], c.opts)
    BY <1>3 DEF PartlyBuilt
  <2> DEFINE built == BuildInterface(cleared, q[1], c.opts)
  <2>2. built \in [Key -> Section]
    BY <1>1, SectionOps
  <2>3. q[1] \subseteq sectionsFor(c)
    BY <2>1 DEF CreatePrefixes, sectionsFor
  <2>4. OnceIn(built)
    BY <1>1, <2>3 DEF OnceIn, BuildInterface
  <2> HIDE DEF built
  <2>5. PICK o \in SUBSET c.opts, n \in 0..1 :
            part = [built EXCEPT ![q[2]] = [there |-> TRUE,
                                            opts |-> built[q[2]].opts \cup o,
                                            entries |-> n]]
    BY <2>1 DEF HalfBuilt, built
  <2> QED
    BY <2>2, <2>4, <2>5 DEF OnceIn
<1> QED
  BY <1>2, <1>3 DEF PartlyCreated

\* So writeUCI, finished or stopped early, doubles no entry.
LEMMA WriteOnce ==
    ASSUME TypeOK, Once(netStaged), NEW i \in Iface
    PROVE  OnceIn(Written(i)) /\ \A secs \in StoppedAt(i) : OnceIn(secs)
<1>1. netStaged[i] \in [Key -> Section] /\ OnceIn(netStaged[i])
  BY DEF TypeOK, Network, Once, OnceIn
<1> DEFINE emptied == deleteSections(netStaged[i], Recorded(i))
<1>2. emptied \in [Key -> Section] /\ OnceIn(emptied)
  BY <1>1, SectionOps, SectionOpsOnce
<1>3. OnceIn(Written(i))
  BY <1>2, SectionOpsOnce DEF Written
<1>4. \A secs \in PartlyDeleted(i) : OnceIn(secs)
  BY <1>1, SectionOpsOnce DEF PartlyDeleted
<1>5. InNew(i) => \A secs \in PartlyCreated(emptied, job.bundle.wg[i]) : OnceIn(secs)
  BY <1>2, ContentTyped, PartlyCreatedOnce
<1> QED
  BY <1>3, <1>4, <1>5 DEF StoppedAt

\* Every step of the apply, and every fault, lists a value at most once.
LEMMA StepOnce ==
    TypeOK /\ NoDuplicateEntries /\ [Next]_vars => NoDuplicateEntries'
<1> SUFFICES ASSUME TypeOK, NoDuplicateEntries, [Next]_vars
             PROVE  NoDuplicateEntries'
  OBVIOUS
<1> USE DEF netVars, fwVars, NoDuplicateEntries
\* The network side.
<1>1. WriteStops => Once(netStaged')
  <2> SUFFICES ASSUME WriteStops PROVE Once(netStaged')
    OBVIOUS
  <2>1. PICK done \in SUBSET Touched, i \in Touched : \E secs \in StoppedAt(i) :
            netStaged' = [j \in Iface |-> IF j \in done THEN Written(j)
                                          ELSE IF j = i THEN secs
                                          ELSE netStaged[j]]
    BY DEF WriteStops
  <2>2. i \in Iface
    BY DEF Touched, Created, InterfaceNew, InterfaceChanged, InterfaceRemoved
  <2>3. PICK secs : /\ OnceIn(secs)
                    /\ netStaged' = [j \in Iface |-> IF j \in done THEN Written(j)
                                                     ELSE IF j = i THEN secs
                                                     ELSE netStaged[j]]
    BY <2>1, <2>2, WriteOnce
  <2>4. \A j \in Iface : OnceIn(Written(j))
    BY WriteOnce
  <2> QED
    BY <2>3, <2>4 DEF Once, OnceIn
<1>2. writeUCI => Once(netStaged')
  <2>1. \A j \in Iface : OnceIn(Written(j))
    BY WriteOnce
  <2> QED
    BY <2>1 DEF writeUCI, Once, OnceIn
<1>3. \A up : Once(BroughtUp(up))
  BY DEF BroughtUp, Once
<1>4. networkReload => Once(netLoaded')
  BY DEF networkReload, Once
\* The firewall side.
<1>5. fwStaged \in Firewall
  BY DEF TypeOK
<1>6. \A fw \in Firewall : \A removed, added :
        MembersOnce(fw) => MembersOnce(EditMembers(fw, removed, added))
  BY DEF MembersOnce, EditMembers, Firewall
<1>7. /\ runFirewallZoneCreate(fwStaged) \in Firewall
      /\ MembersOnce(runFirewallZoneCreate(fwStaged))
  BY <1>5, FirewallOps DEF MembersOnce, runFirewallZoneCreate
<1>8. \A fw \in Firewall : MembersOnce(NoZone(fw))
  BY DEF MembersOnce, NoZone, Firewall
<1>9. FirewallStops => MembersOnce(fwStaged')
  <2> DEFINE zoneCreated ==
        IF Have.owned THEN fwStaged ELSE runFirewallZoneCreate(fwStaged)
  <2>1. zoneCreated \in Firewall /\ MembersOnce(zoneCreated)
    BY <1>5, <1>7
  <2>2. \A ks : /\ MembersOnce([fwStaged EXCEPT !.fwd = @ \ ks])
                /\ MembersOnce([zoneCreated EXCEPT !.fwd = fwStaged.fwd \cup ks])
    BY <1>5, <2>1 DEF MembersOnce, Firewall
  <2>3. \A removed, added : MembersOnce(EditMembers(zoneCreated, removed, added))
    BY <1>6, <2>1
  <2> HIDE DEF zoneCreated
  <2> QED
    BY <2>2, <2>3 DEF FirewallStops, zoneCreated
\* The actions.
<1>10. ASSUME NEW b \in Bundles, Publish(b) PROVE NoDuplicateEntries'
  BY <1>10 DEF Publish
<1>11. ASSUME NEW force \in BOOLEAN, checkAndApply(force) PROVE NoDuplicateEntries'
  BY <1>11 DEF checkAndApply
<1>12. CASE writeUCI
  BY <1>2, <1>12 DEF writeUCI
<1>13. CASE writeUCIFails
  BY <1>1, <1>13 DEF writeUCIFails
<1>14. CASE FirewallUnchanged \/ FirewallLeftAlone
  BY <1>14 DEF FirewallUnchanged, FirewallLeftAlone, FirewallResult
<1>15. CASE FirewallTornDown
  BY <1>5, <1>8, <1>15, FirewallOps DEF FirewallTornDown, FirewallResult
<1>16. CASE FirewallReconciled
  BY <1>5, <1>6, <1>7, <1>16 DEF FirewallReconciled, FirewallResult
<1>17. CASE manageFirewallFails
  BY <1>9, <1>17 DEF manageFirewallFails, RevertBoth
<1>18. CASE commitNetwork \/ commitFirewall \/ commitFirewallFails
  BY <1>18 DEF commitNetwork, commitFirewall, commitFirewallFails
<1>19. CASE commitNetworkFails
  BY <1>19 DEF commitNetworkFails, RevertBoth
<1>20. CASE networkReload \/ ifupChangedInterfaces \/ LateStepFails
  BY <1>3, <1>4, <1>20 DEF networkReload, ifupChangedInterfaces, LateStepFails
<1>21. CASE firewallReload \/ applyStunmeshConfig \/ writeLast
  BY <1>21 DEF firewallReload, applyStunmeshConfig, writeLast
<1>22. CASE Kill
  BY <1>1, <1>3, <1>9, <1>22 DEF Kill
<1>23. CASE Reboot
  BY <1>23 DEF Reboot
<1>24. CASE OperatorRemovesZone
  BY <1>5, <1>8, <1>24 DEF OperatorRemovesZone
<1>25. CASE UNCHANGED vars
  BY <1>25 DEF vars
<1> QED
  BY <1>10, <1>11, <1>12, <1>13, <1>14, <1>15, <1>16, <1>17, <1>18, <1>19,
     <1>20, <1>21, <1>22, <1>23, <1>24, <1>25 DEF Next, ApplyStep

\* No retry, however often a cycle is cut short, lists a value twice.
THEOREM NothingListedTwice == Spec => []NoDuplicateEntries
<1>1. Init => NoDuplicateEntries
  BY DEF Init, NoDuplicateEntries, Once, MembersOnce, NoSection
<1> QED
  BY <1>1, TypeCorrect, StepOnce, PTL DEF Spec

-----------------------------------------------------------------------------
(* Every way out of applyDiff leaves nothing staged.                       *)

\* Every step keeps the staged changes where StagingInv allows them.
LEMMA StepStaging == TypeOK /\ StagingInv /\ [Next]_vars => StagingInv'
<1> SUFFICES ASSUME TypeOK, StagingInv, [Next]_vars, clean' PROVE StagingInv'
  BY DEF StagingInv
<1> USE DEF StagingInv, netVars, fwVars
<1>a. /\ fwStaged \in Firewall /\ fwCommitted \in Firewall
      /\ job \in Job /\ clean \in BOOLEAN
  BY DEF TypeOK
<1>b. Unit(fwStaged) => Unit(NoZone([fwStaged EXCEPT !.fwd = @ \ Fwd]))
  BY <1>a DEF Unit, NoZone, Firewall
<1>c. \A removed, added :
        /\ Unit(fwStaged) => Unit(EditMembers(fwStaged, removed, added))
        /\ Unit(EditMembers(runFirewallZoneCreate(fwStaged), removed, added))
  BY <1>a DEF Unit, EditMembers, runFirewallZoneCreate, Firewall
<1>1. ASSUME NEW b \in Bundles, Publish(b) PROVE StagingInv'
  BY <1>1 DEF Publish
<1>2. ASSUME NEW force \in BOOLEAN, checkAndApply(force) PROVE StagingInv'
  BY <1>2 DEF checkAndApply
<1>3. CASE writeUCI
  BY <1>3, <1>a DEF writeUCI, anyInterfaceChanged
<1>4. CASE writeUCIFails
  BY <1>4, <1>a DEF writeUCIFails
<1>5. CASE FirewallUnchanged \/ FirewallLeftAlone
  BY <1>5, <1>a DEF FirewallUnchanged, FirewallLeftAlone, FirewallResult
<1>6. CASE FirewallTornDown
  <2>1. job'.fwChanged
    BY <1>6, <1>a DEF FirewallTornDown, FirewallResult, Job
  <2> QED
    BY <1>6, <1>b, <2>1 DEF FirewallTornDown, FirewallResult
<1>7. CASE FirewallReconciled
  <2>1. job'.fwChanged
    BY <1>7, <1>a DEF FirewallReconciled, FirewallResult, Job
  <2> QED
    BY <1>7, <1>c, <2>1 DEF FirewallReconciled, FirewallResult
<1>8. CASE manageFirewallFails
  BY <1>8, <1>a DEF manageFirewallFails, RevertBoth
<1>9. CASE commitNetwork
  BY <1>9 DEF commitNetwork
<1>10. CASE commitNetworkFails
  BY <1>10, <1>a DEF commitNetworkFails, RevertBoth
<1>11. CASE commitFirewall
  BY <1>11 DEF commitFirewall
<1>12. CASE commitFirewallFails
  BY <1>12 DEF commitFirewallFails
<1>13. CASE networkReload \/ ifupChangedInterfaces \/ firewallReload
  BY <1>13 DEF networkReload, ifupChangedInterfaces, firewallReload
<1>14. CASE applyStunmeshConfig \/ writeLast \/ LateStepFails
  BY <1>14 DEF applyStunmeshConfig, writeLast, LateStepFails
<1>15. CASE Kill
  BY <1>15, <1>a DEF Kill
<1>16. CASE Reboot
  BY <1>16 DEF Reboot
<1>17. CASE OperatorRemovesZone
  <2>1. Unit(fwStaged')
    BY <1>17, <1>a DEF OperatorRemovesZone, NoZone, Unit, Firewall
  <2> QED
    BY <1>17, <2>1 DEF OperatorRemovesZone
<1>18. CASE UNCHANGED vars
  BY <1>18 DEF vars
<1> QED
  BY <1>1, <1>2, <1>3, <1>4, <1>5, <1>6, <1>7, <1>8, <1>9, <1>10, <1>11, <1>12,
     <1>13, <1>14, <1>15, <1>16, <1>17, <1>18 DEF Next, ApplyStep

\* Staged changes are only where the next step of the apply commits them.
LEMMA StagingCorrect == Spec => []StagingInv
<1>1. Init => StagingInv
  BY DEF Init, StagingInv, Unit
<1> QED
  BY <1>1, TypeCorrect, StepStaging, PTL DEF Spec

\* After a cycle, failed or not, both configs have nothing staged, unless the
\* process was killed or a revert failed.
THEOREM NextCycleStartsClean == Spec => []NothingLeftStaged
<1>1. StagingInv => NothingLeftStaged
  BY DEF StagingInv, NothingLeftStaged
<1> QED
  BY <1>1, StagingCorrect, PTL

\* The zone and its forwardings are committed and deleted as one unit.
THEOREM ZoneIsAUnit == Spec => []ForwardingsShareZoneLifecycle
<1>1. StagingInv => ForwardingsShareZoneLifecycle
  BY DEF StagingInv, ForwardingsShareZoneLifecycle, Unit
<1> QED
  BY <1>1, StagingCorrect, PTL

-----------------------------------------------------------------------------
(* What last.json records is committed, loaded and enforced.               *)

\* The diff depends on nothing but the job's bundle and force, and last.json.
LEMMA SameDiff ==
    ASSUME job'.bundle = job.bundle, job'.force = job.force, last' = last
    PROVE  /\ Created' = Created
           /\ InterfaceRemoved' = InterfaceRemoved
           /\ \A i : Recorded(i)' = Recorded(i)
           /\ ToAdd' = ToAdd /\ ToRemove' = ToRemove
           /\ StunmeshEmpty' = StunmeshEmpty /\ StunmeshChanged' = StunmeshChanged
BY DEF Created, InterfaceNew, InterfaceChanged, InterfaceRemoved, InNew, InOld,
       interfaceEqual, Recorded, ToAdd, ToRemove, Remaining, Have,
       StunmeshEmpty, StunmeshChanged

\* As long as the diff is the same, NetReady and FwReady are about the same.
LEMMA SameReady ==
    ASSUME job'.bundle = job.bundle, job'.force = job.force, last' = last
    PROVE  /\ netStaged' = netStaged => NetReady(netStaged)' = NetReady(netStaged)
           /\ netCommitted' = netCommitted =>
                NetReady(netCommitted)' = NetReady(netCommitted)
           /\ netCommitted' = netStaged =>
                NetReady(netCommitted)' = NetReady(netStaged)
           /\ fwStaged' = fwStaged => FwReady(fwStaged)' = FwReady(fwStaged)
           /\ fwCommitted' = fwCommitted => FwReady(fwCommitted)' = FwReady(fwCommitted)
           /\ fwCommitted' = fwStaged => FwReady(fwCommitted)' = FwReady(fwStaged)
<1>1. /\ Created' = Created /\ InterfaceRemoved' = InterfaceRemoved
      /\ \A i : Recorded(i)' = Recorded(i)
      /\ ToAdd' = ToAdd /\ ToRemove' = ToRemove
  BY SameDiff
<1> QED
  BY <1>1, Zenon DEF NetReady, FwReady

\* writeUCI gives a created interface exactly what its content asks for, but
\* for options of sections nobody recorded.
LEMMA WrittenHolds ==
    ASSUME TypeOK, NEW i \in Iface, InNew(i),
           NEW k \in sectionsFor(job.bundle.wg[i])
    PROVE  /\ Holds(Written(i)[k], job.bundle.wg[i])
           /\ k \in Recorded(i) => HoldsExactly(Written(i)[k], job.bundle.wg[i])
<1> DEFINE c == job.bundle.wg[i]
           emptied == deleteSections(netStaged[i], Recorded(i))
           cleared == clearListOptions(emptied, sectionsFor(c))
<1>1. c.opts \in SUBSET Opt /\ k \in Key
  BY ContentTyped DEF sectionsFor, Key
<1>2. emptied \in [Key -> Section] /\ cleared \in [Key -> Section]
  <2>1. netStaged[i] \in [Key -> Section]
    BY DEF TypeOK, Network
  <2>2. emptied \in [Key -> Section]
    BY <2>1, SectionOps
  <2> QED
    BY <2>2, SectionOps
<1>3. k \in Recorded(i) => emptied[k] = NoSection
  BY <1>1 DEF deleteSections
<1> HIDE DEF emptied
<1>4. cleared[k] = [emptied[k] EXCEPT !.entries = 0]
  BY <1>1 DEF clearListOptions
<1>5. cleared[k].entries = 0 /\ cleared[k].opts = emptied[k].opts
  BY <1>1, <1>2, <1>4 DEF Section
<1> HIDE DEF cleared
<1>6. Written(i) = BuildInterface(cleared, sectionsFor(c), c.opts)
  BY DEF Written, createInterface, cleared, emptied
<1>7. Written(i)[k] = [there |-> TRUE, opts |-> cleared[k].opts \cup c.opts,
                       entries |-> cleared[k].entries + 1]
  BY <1>1, <1>6 DEF BuildInterface
<1>8. Holds(Written(i)[k], c)
  BY <1>5, <1>7 DEF Holds
<1>9. k \in Recorded(i) => HoldsExactly(Written(i)[k], c)
  BY <1>3, <1>5, <1>7, <1>8 DEF HoldsExactly, NoSection
<1> QED
  BY <1>8, <1>9

\* So a finished writeUCI has staged what the apply is to create.
LEMMA WriteReady ==
    ASSUME TypeOK, writeUCI
    PROVE  NetReady(netStaged)'
<1>1. job' = job /\ last' = last
  BY DEF writeUCI
<1>2. /\ Created' = Created /\ InterfaceRemoved' = InterfaceRemoved
      /\ \A i : Recorded(i)' = Recorded(i)
  BY <1>1, SameDiff
<1>3. Created \subseteq Iface /\ InterfaceRemoved \subseteq Iface
  BY DEF Created, InterfaceNew, InterfaceChanged, InterfaceRemoved
<1>4. \A i \in Touched : i \in Iface => netStaged'[i] = Written(i)
  BY DEF writeUCI
<1>5. ASSUME NEW i \in Created, NEW k \in sectionsFor(job.bundle.wg[i])
      PROVE  /\ Holds(netStaged'[i][k], job.bundle.wg[i])
             /\ k \in Recorded(i) =>
                    HoldsExactly(netStaged'[i][k], job.bundle.wg[i])
  <2>1. InNew(i)
    BY DEF Created, InterfaceNew, InterfaceChanged
  <2>2. netStaged'[i] = Written(i)
    BY <1>3, <1>4 DEF Touched
  <2> QED
    BY <1>3, <2>1, <2>2, WrittenHolds
<1>6. ASSUME NEW i \in InterfaceRemoved PROVE ~netStaged'[i][Own].there
  <2>1. ~InNew(i) /\ last.wg[i] # None
    BY DEF InterfaceRemoved, InOld
  <2>2. Own \in Recorded(i) /\ Own \in Key
    BY <2>1 DEF Recorded, sectionsFor, Key
  <2>3. netStaged'[i] = deleteSections(netStaged[i], Recorded(i))
    BY <1>3, <1>4, <2>1 DEF Touched, Written
  <2> QED
    BY <2>2, <2>3 DEF deleteSections, NoSection
<1> QED
  BY <1>1, <1>2, <1>5, <1>6 DEF NetReady

\* Every step leaves behind what the later steps of the apply count on.
LEMMA StepProgress ==
    TypeOK /\ OperatorZoneUntouched /\ ProgressInv /\ [Next]_vars => ProgressInv'
<1> SUFFICES ASSUME TypeOK, OperatorZoneUntouched, ProgressInv, [Next]_vars
             PROVE  ProgressInv'
  OBVIOUS
<1> USE DEF netVars, fwVars
<1>a. /\ fwStaged \in Firewall /\ fwCommitted \in Firewall /\ job \in Job
      /\ netCommitted \in Network /\ netLoaded \in Network
  BY DEF TypeOK
\* The cycle ends, or has not staged anything yet.
<1>1. CASE \/ writeUCIFails \/ manageFirewallFails \/ commitNetworkFails
           \/ commitFirewallFails \/ LateStepFails \/ Kill \/ Reboot \/ writeLast
  <2>1. pc' = "idle"
    BY <1>1 DEF writeUCIFails, manageFirewallFails, commitNetworkFails,
          commitFirewallFails, LateStepFails, Kill, Reboot, writeLast
  <2> QED
    BY <2>1 DEF ProgressInv
<1>2. ASSUME NEW force \in BOOLEAN, checkAndApply(force) PROVE ProgressInv'
  BY <1>2 DEF checkAndApply, ProgressInv
<1>3. ASSUME NEW b \in Bundles, Publish(b) PROVE ProgressInv'
  BY <1>3, SameReady, SameDiff DEF Publish, ProgressInv
<1>4. CASE writeUCI
  <2>1. pc' \in {"manageFirewall", "commitNetwork"} /\ ~job'.fwChanged
    BY <1>4 DEF writeUCI, ProgressInv
  <2>2. NetReady(netStaged)'
    BY <1>4, WriteReady
  <2> QED
    BY <2>1, <2>2 DEF ProgressInv
<1>5. ASSUME NEW st, NEW changed \in BOOLEAN, FirewallResult(st, changed),
             changed => FwReady(fwStaged')
      PROVE  ProgressInv'
  <2>1. /\ job'.bundle = job.bundle /\ job'.force = job.force /\ last' = last
        /\ job'.fwChanged = changed /\ pc = "manageFirewall"
        /\ pc' = "commitNetwork" /\ netStaged' = netStaged
    BY <1>5, <1>a DEF FirewallResult, Job
  <2>2. NetReady(netStaged)'
    BY <2>1, SameReady DEF ProgressInv
  <2>3. ToAdd' = ToAdd /\ ToRemove' = ToRemove
    BY <2>1, SameDiff
  <2>4. changed => FwReady(fwStaged)'
    BY <1>5, <2>3 DEF FwReady
  <2> QED
    BY <2>1, <2>2, <2>4 DEF ProgressInv
<1>6. CASE FirewallUnchanged
  BY <1>5, <1>6 DEF FirewallUnchanged
<1>7. CASE FirewallLeftAlone
  BY <1>5, <1>7 DEF FirewallLeftAlone
<1>b. ToAdd \subseteq Iface /\ ToRemove \subseteq Iface /\ ToAdd \cap ToRemove = {}
  BY DEF ToAdd, ToRemove, Remaining, InterfaceRemoved
<1>8. CASE FirewallTornDown
  <2>1. ToAdd = {}
    BY <1>8 DEF FirewallTornDown, ToAdd
  <2>2. FwReady(fwStaged')
    BY <1>8, <1>a, <1>b, <2>1 DEF FirewallTornDown, FwReady, NoZone, Firewall
  <2> QED
    BY <1>5, <1>8, <2>2 DEF FirewallTornDown
<1>9. CASE FirewallReconciled
  <2>1. fwStaged.zone # "operator"
    BY <1>9 DEF FirewallReconciled, Have, firewallZonePresent,
                OperatorZoneUntouched
  <2>2. FwReady(fwStaged')
    <3> DEFINE base == IF Have.owned THEN fwStaged
                       ELSE runFirewallZoneCreate(fwStaged)
    <3>1. base \in Firewall /\ base.zone # "operator"
      BY <1>a, <2>1, FirewallOps DEF runFirewallZoneCreate
    <3>2. fwStaged' = EditMembers(base, ToRemove, ToAdd)
      BY <1>9 DEF FirewallReconciled
    <3> HIDE DEF base
    <3> QED
      BY <1>b, <3>1, <3>2 DEF FwReady, EditMembers, Firewall
  <2> QED
    BY <1>5, <1>9, <2>2 DEF FirewallReconciled
<1>10. CASE commitNetwork
  <2>1. NetReady(netCommitted)'
    BY <1>10, SameReady DEF commitNetwork, ProgressInv
  <2>2. job.fwChanged => FwReady(fwStaged)'
    BY <1>10, SameReady DEF commitNetwork, ProgressInv
  <2> QED
    BY <1>10, <2>1, <2>2 DEF commitNetwork, ProgressInv
<1>11. CASE commitFirewall
  <2>1. NetReady(netCommitted)'
    BY <1>11, SameReady DEF commitFirewall, ProgressInv
  <2>2. job.fwChanged => FwReady(fwCommitted)'
    BY <1>11, SameReady DEF commitFirewall, ProgressInv
  <2> QED
    BY <1>11, <2>1, <2>2 DEF commitFirewall, ProgressInv
<1>12. CASE networkReload
  <2>1. NetReady(netCommitted)' /\ (job.fwChanged => FwReady(fwCommitted)')
    BY <1>12, SameReady DEF networkReload, ProgressInv
  <2>2. InterfaceRemoved' = InterfaceRemoved /\ InterfaceRemoved \subseteq Iface
    BY <1>12, SameDiff DEF networkReload, InterfaceRemoved
  <2>3. \A i \in InterfaceRemoved : ~netCommitted[i][Own].there
    BY <1>12 DEF networkReload, ProgressInv, NetReady
  <2>4. \A i \in InterfaceRemoved : ~netLoaded'[i][Own].there
    BY <1>12, <2>2, <2>3 DEF networkReload
  <2> QED
    BY <1>12, <2>1, <2>2, <2>4 DEF networkReload, ProgressInv
<1>13. CASE ifupChangedInterfaces
  <2>1. NetReady(netCommitted)' /\ (job.fwChanged => FwReady(fwCommitted)')
    BY <1>13, SameReady DEF ifupChangedInterfaces, ProgressInv
  <2>2. /\ InterfaceRemoved' = InterfaceRemoved /\ Created' = Created
        /\ InterfaceRemoved \subseteq Iface /\ Created \subseteq Iface
        /\ InterfaceRemoved \cap Created = {}
    BY <1>13, SameDiff DEF ifupChangedInterfaces, InterfaceRemoved, Created,
                           InterfaceNew, InterfaceChanged
  <2>3. \A i \in Created : netLoaded'[i] = netCommitted'[i]
    BY <1>13, <2>2 DEF ifupChangedInterfaces, BroughtUp
  <2>4. \A i \in InterfaceRemoved : ~netLoaded'[i][Own].there
    BY <1>13, <2>2 DEF ifupChangedInterfaces, BroughtUp, ProgressInv
  <2>5. job.fwChanged => pc' = "firewallReload"
    BY <1>13 DEF ifupChangedInterfaces
  <2> QED
    BY <1>13, <2>1, <2>2, <2>3, <2>4, <2>5
       DEF ifupChangedInterfaces, ProgressInv
<1>14. CASE firewallReload
  <2>1. NetReady(netCommitted)' /\ (job.fwChanged => FwReady(fwCommitted)')
    BY <1>14, SameReady DEF firewallReload, ProgressInv
  <2>2. InterfaceRemoved' = InterfaceRemoved /\ Created' = Created
    BY <1>14, SameDiff DEF firewallReload
  <2> QED
    BY <1>14, <2>1, <2>2 DEF firewallReload, ProgressInv
<1>15. CASE applyStunmeshConfig
  <2>1. NetReady(netCommitted)' /\ (job.fwChanged => FwReady(fwCommitted)')
    BY <1>15, SameReady DEF applyStunmeshConfig, ProgressInv
  <2>2. /\ InterfaceRemoved' = InterfaceRemoved /\ Created' = Created
        /\ StunmeshEmpty' = StunmeshEmpty /\ StunmeshChanged' = StunmeshChanged
    BY <1>15, SameDiff DEF applyStunmeshConfig
  <2>3. StunmeshEmpty \/ StunmeshChanged => file' = job.bundle.stunmesh
    BY <1>15 DEF applyStunmeshConfig
  <2> QED
    BY <1>15, <2>1, <2>2, <2>3 DEF applyStunmeshConfig, ProgressInv
<1>16. CASE OperatorRemovesZone
  \* FwReady rules it out once this apply has changed the firewall.
  <2>1. fwCommitted.zone = "operator" /\ fwStaged.zone = "operator"
    BY <1>16 DEF OperatorRemovesZone, OperatorZoneUntouched
  <2>2. /\ job' = job /\ last' = last /\ pc' = pc /\ file' = file
        /\ netStaged' = netStaged /\ netCommitted' = netCommitted
        /\ netLoaded' = netLoaded
    BY <1>16 DEF OperatorRemovesZone
  <2>3. job.fwChanged => pc \notin {"commitNetwork", "commitFirewall",
            "networkReload", "ifup", "firewallReload", "stunmeshConfig",
            "writeLast"}
    BY <2>1 DEF ProgressInv, FwReady
  <2>4. /\ NetReady(netStaged)' = NetReady(netStaged)
        /\ NetReady(netCommitted)' = NetReady(netCommitted)
    BY <2>2, SameReady
  <2>5. /\ InterfaceRemoved' = InterfaceRemoved /\ Created' = Created
        /\ StunmeshEmpty' = StunmeshEmpty /\ StunmeshChanged' = StunmeshChanged
    BY <2>2, SameDiff
  <2> QED
    BY <2>2, <2>3, <2>4, <2>5 DEF ProgressInv
<1>17. CASE UNCHANGED vars
  BY <1>17, SameReady, SameDiff DEF vars, ProgressInv
<1> QED
  BY <1>1, <1>2, <1>3, <1>4, <1>6, <1>7, <1>8, <1>9, <1>10, <1>11, <1>12,
     <1>13, <1>14, <1>15, <1>16, <1>17 DEF Next, ApplyStep

\* The apply in flight has a whole bundle, which is not None.
LEMMA JobBundle ==
    ASSUME TypeOK
    PROVE  /\ published # None /\ job.bundle # None
           /\ job.bundle = [wg |-> job.bundle.wg, stunmesh |-> job.bundle.stunmesh]
           /\ job.bundle.wg = [i \in Iface |-> job.bundle.wg[i]]
<1>1. published \in Bundle /\ job.bundle \in Bundle
  BY ConstantsAssumption DEF TypeOK, Job
<1>2. published # None /\ job.bundle # None
  BY <1>1, ConstantsAssumption
<1> QED
  BY <1>1, <1>2 DEF Bundle

\* buildState puts together exactly the bundle of the apply: what it carries
\* forward from the old record is what the bundle says too.
LEMMA RecordsJob ==
    ASSUME TypeOK
    PROVE  [wg |-> buildState.wg, stunmesh |-> buildState.stunmesh] = job.bundle
<1>1. ASSUME NEW i \in Iface PROVE
        (IF i \in Created THEN job.bundle.wg[i]
         ELSE IF i \in InterfaceUnchanged THEN last.wg[i] ELSE None)
            = job.bundle.wg[i]
  <2>1. CASE ~InNew(i)
    BY <2>1 DEF Created, InterfaceNew, InterfaceChanged, InterfaceUnchanged, InNew
  <2>2. CASE InNew(i) /\ i \notin Created
    BY <2>2 DEF Created, InterfaceNew, InterfaceChanged, InterfaceUnchanged,
                interfaceEqual
  <2> QED
    BY <2>1, <2>2
<1>2. buildState.wg = [i \in Iface |-> job.bundle.wg[i]]
  BY <1>1 DEF buildState
<1> QED
  BY <1>2, JobBundle DEF buildState

\* An interface the diff leaves alone is the same in record and bundle.
LEMMA SameUnlessTouched ==
    ASSUME NEW i \in Iface, i \notin Touched
    PROVE  last.wg[i] = job.bundle.wg[i]
BY DEF Touched, Created, InterfaceNew, InterfaceChanged, InterfaceRemoved,
       InNew, InOld, interfaceEqual

\* Written over the sections of the record, an interface has exactly those of
\* its content.
LEMMA WrittenImage ==
    ASSUME TypeOK, NEW i \in Iface, netStaged[i] = Sections(last.wg[i])
    PROVE  Written(i) = Sections(job.bundle.wg[i])
<1> DEFINE c == job.bundle.wg[i]
           empty == [k \in Key |-> NoSection]
<1>1. deleteSections(netStaged[i], Recorded(i)) = empty
  BY DEF deleteSections, Recorded, Sections
<1>2. CASE InNew(i)
  <2>1. c # None /\ c.opts \in SUBSET Opt
    BY <1>2, ContentTyped DEF InNew
  <2>2. clearListOptions(empty, sectionsFor(c)) = empty
    BY DEF clearListOptions, NoSection
  <2>3. BuildInterface(empty, sectionsFor(c), c.opts) = Sections(c)
    BY <2>1 DEF BuildInterface, Sections, NoSection
  <2> QED
    BY <1>1, <1>2, <2>2, <2>3 DEF Written, createInterface
<1>3. CASE ~InNew(i)
  BY <1>1, <1>3 DEF Written, InNew, Sections
<1> QED
  BY <1>2, <1>3

\* Where nothing half done was left behind, each step finds and leaves the
\* network config where the record or the bundle of the apply says.
LEMMA StepNetIntact ==
    ASSUME TypeOK, StagingInv, clean, intact, NetIntact, [Next]_vars, clean', intact'
    PROVE  NetIntact'
<1> USE DEF netVars, fwVars, CommittedSteps
<1>a. /\ netCommitted \in Network /\ netLoaded \in Network /\ job \in Job
      /\ netStaged' \in Network /\ netLoaded' \in Network
  BY StepType DEF TypeOK
<1>1. ASSUME NEW b \in Bundles, Publish(b) PROVE NetIntact'
  <2>1. Created' = Created
    BY <1>1, SameDiff DEF Publish
  <2> QED
    BY <1>1, <2>1 DEF Publish, NetIntact, Image
<1>2. ASSUME NEW force \in BOOLEAN, checkAndApply(force) PROVE NetIntact'
  BY <1>2 DEF checkAndApply, NetIntact, Image
<1>3. CASE writeUCI
  <2>1. netStaged = Image(last.wg)
    BY <1>3 DEF writeUCI, NetIntact, StagingInv
  <2>2. ASSUME NEW i \in Iface PROVE netStaged'[i] = Sections(job.bundle.wg[i])
    <3>1. netStaged[i] = Sections(last.wg[i])
      BY <2>1 DEF Image
    <3>2. CASE i \in Touched
      BY <1>3, <3>1, <3>2, WrittenImage DEF writeUCI
    <3>3. CASE i \notin Touched
      BY <1>3, <3>1, <3>3, SameUnlessTouched DEF writeUCI
    <3> QED
      BY <3>2, <3>3
  <2>3. netStaged' = Image(job.bundle.wg)
    BY <1>a, <2>2 DEF Image, Network
  <2> QED
    BY <1>3, <2>3 DEF writeUCI, NetIntact, Image
<1>4. CASE writeUCIFails \/ manageFirewallFails \/ commitNetworkFails
           \/ commitFirewallFails \/ LateStepFails
  BY <1>4 DEF writeUCIFails, manageFirewallFails, commitNetworkFails,
        commitFirewallFails, LateStepFails, NetIntact, Image
<1>5. ASSUME NEW st, NEW changed, FirewallResult(st, changed) PROVE NetIntact'
  <2>1. job'.bundle = job.bundle
    BY <1>5, <1>a DEF FirewallResult, Job
  <2> QED
    BY <1>5, <2>1 DEF FirewallResult, NetIntact, Image
<1>6. CASE FirewallUnchanged \/ FirewallLeftAlone \/ FirewallTornDown
           \/ FirewallReconciled
  BY <1>5, <1>6 DEF FirewallUnchanged, FirewallLeftAlone, FirewallTornDown,
                    FirewallReconciled
<1>7. CASE commitNetwork \/ commitFirewall
  BY <1>7 DEF commitNetwork, commitFirewall, NetIntact, Image
<1>8. CASE networkReload
  <2>1. Created' = Created
    BY <1>8, SameDiff DEF networkReload
  <2>2. ASSUME NEW i \in Iface, i \notin Created
        PROVE  netLoaded'[i] = netCommitted[i]
    <3>1. /\ netLoaded[i] = Sections(last.wg[i])
          /\ netCommitted[i] = Sections(job.bundle.wg[i])
      BY <1>8 DEF networkReload, NetIntact, Image
    <3>2. CASE i \in Touched
      \* A removed interface has lost its own section.
      <4>1. job.bundle.wg[i] = None /\ last.wg[i] # None
        BY <2>2, <3>2 DEF Touched, InterfaceRemoved, InNew, InOld
      <4>2. Own \in Key /\ Own \in sectionsFor(last.wg[i])
        BY DEF Key, sectionsFor
      <4>3. ~netCommitted[i][Own].there /\ netLoaded[i][Own].there
        BY <3>1, <4>1, <4>2 DEF Sections, NoSection
      <4> QED
        BY <1>8, <4>3 DEF networkReload
    <3>3. CASE i \notin Touched
      BY <1>8, <3>1, <3>3, SameUnlessTouched DEF networkReload
    <3> QED
      BY <3>2, <3>3
  <2>3. pc' = "ifup" /\ netCommitted' = netCommitted /\ job' = job
    BY <1>8 DEF networkReload
  <2> QED
    BY <1>8, <2>1, <2>2, <2>3 DEF networkReload, NetIntact, Image
<1>9. CASE ifupChangedInterfaces
  <2>1. \A i \in Iface : netLoaded'[i] = netCommitted[i]
    BY <1>9 DEF ifupChangedInterfaces, BroughtUp, NetIntact
  <2>2. netLoaded' = netCommitted
    BY <1>a, <2>1 DEF Network
  <2> QED
    BY <1>9, <2>2 DEF ifupChangedInterfaces, NetIntact, Image
<1>10. CASE firewallReload \/ applyStunmeshConfig
  BY <1>10 DEF firewallReload, applyStunmeshConfig, NetIntact, Image
<1>11. CASE writeLast
  <2>1. last'.wg = job.bundle.wg
    BY <1>11, RecordsJob, JobBundle DEF writeLast
  <2> QED
    BY <1>11, <2>1 DEF writeLast, NetIntact, Image
<1>12. CASE Kill \/ Reboot
  BY <1>12 DEF Kill, Reboot, NetIntact, Image
<1>13. CASE OperatorRemovesZone \/ UNCHANGED vars
  <2>1. Created' = Created
    BY <1>13, SameDiff DEF OperatorRemovesZone, vars
  <2> QED
    BY <1>13, <2>1 DEF OperatorRemovesZone, vars, NetIntact, Image
<1> QED
  BY <1>1, <1>2, <1>3, <1>4, <1>6, <1>7, <1>8, <1>9, <1>10, <1>11, <1>12,
     <1>13 DEF Next, ApplyStep

\* The firewall edits lead from what the record claims to what the bundle asks.
LEMMA EditsIntact ==
    ASSUME NEW fw \in Firewall, FirewallIs(fw, last.firewall),
           Claims(last.firewall, last.wg), last.firewall \in FirewallState,
           NEW base, base = IF Have.owned THEN fw ELSE runFirewallZoneCreate(fw),
           NEW st, st = [owned |-> TRUE,
                         members |-> Remaining \cap (Have.members \cup ToAdd)]
    PROVE  Claims(st, job.bundle.wg) /\ FirewallIs(EditMembers(base, ToRemove, ToAdd), st)
<1>1. st.owned /\ st.members = Remaining
  BY DEF ToAdd
<1>2. Claims(st, job.bundle.wg)
  BY <1>1 DEF Claims, Remaining, InNew
<1>3. /\ base.zone = "agent" /\ base.fwd = Fwd
      /\ base.members = [i \in Iface |-> IF i \in Have.members THEN 1 ELSE 0]
      /\ base \in Firewall
  BY DEF FirewallIs, Have, runFirewallZoneCreate, Firewall
<1>4. \A i \in Iface : i \in Have.members => InOld(i)
  BY DEF Claims, Have, InOld
<1>5. \A i \in Iface :
        (IF i \in ToAdd THEN 1 ELSE IF i \in ToRemove THEN 0 ELSE base.members[i])
            = IF i \in Remaining THEN 1 ELSE 0
  BY <1>3, <1>4 DEF ToAdd, ToRemove, Remaining, InterfaceRemoved
<1> QED
  BY <1>1, <1>2, <1>3, <1>5 DEF FirewallIs, EditMembers, Firewall

\* The same for the firewall config.
LEMMA StepFwIntact ==
    ASSUME TypeOK, StagingInv, ProgressInv, OperatorZoneUntouched, clean, intact,
           FwIntact, [Next]_vars, clean', intact'
    PROVE  FwIntact'
<1> USE DEF netVars, fwVars, CommittedSteps
<1>a. /\ job \in Job /\ job' \in Job /\ fwStaged \in Firewall
      /\ fwCommitted \in Firewall /\ last.firewall \in FirewallState
      /\ job.firewall \in FirewallState
  BY StepType DEF TypeOK, Job, State
<1>1. ASSUME NEW b \in Bundles, Publish(b) PROVE FwIntact'
  BY <1>1 DEF Publish, FwIntact, Claims, FirewallIs
<1>2. ASSUME NEW force \in BOOLEAN, checkAndApply(force) PROVE FwIntact'
  BY <1>2 DEF checkAndApply, FwIntact, Claims, FirewallIs
<1>3. CASE writeUCI
  <2>1. ~anyInterfaceChanged => Claims(job.firewall, job.bundle.wg)
    <3>1. ASSUME ~anyInterfaceChanged
          PROVE  {i \in Iface : job.bundle.wg[i] # None} = {i \in Iface : last.wg[i] # None}
      BY <3>1, SameUnlessTouched DEF anyInterfaceChanged
    <3> QED
      BY <1>3, <3>1 DEF writeUCI, FwIntact, Claims
  <2>2. ~job.fwChanged
    BY <1>3 DEF writeUCI, ProgressInv
  <2> QED
    BY <1>3, <2>1, <2>2 DEF writeUCI, FwIntact, Claims, FirewallIs
<1>4. CASE writeUCIFails \/ manageFirewallFails \/ commitNetworkFails
           \/ commitFirewallFails \/ LateStepFails \/ Kill \/ Reboot
  <2>1. /\ pc' = "idle" /\ last' = last /\ job' = job
        /\ pc \notin CommittedSteps /\ fwCommitted' = fwCommitted
        /\ fwLoaded' = fwLoaded \/ fwLoaded' = fwCommitted
    BY <1>4 DEF writeUCIFails, manageFirewallFails, commitNetworkFails, Kill, Reboot,
          commitFirewallFails, LateStepFails
  <2> QED
    BY <2>1 DEF FwIntact
\* What manageFirewall returns is what it leaves staged.
<1>5. ASSUME NEW st \in FirewallState, NEW changed \in BOOLEAN,
             FirewallResult(st, changed), Claims(st, job.bundle.wg),
             IF changed THEN FirewallIs(fwStaged', st) ELSE FirewallIs(fwCommitted, st)
      PROVE  FwIntact'
  <2>1. /\ job'.bundle = job.bundle /\ job'.firewall = st
        /\ job'.fwChanged = changed
    BY <1>5, <1>a DEF FirewallResult, Job
  <2>2. /\ pc = "manageFirewall" /\ pc' = "commitNetwork" /\ last' = last
        /\ fwCommitted' = fwCommitted /\ fwLoaded' = fwLoaded
    BY <1>5 DEF FirewallResult
  <2> QED
    BY <1>5, <2>1, <2>2 DEF FwIntact, Claims, FirewallIs
<1>b. ASSUME pc = "manageFirewall"
      PROVE  /\ fwStaged = fwCommitted /\ Claims(last.firewall, last.wg)
             /\ FirewallIs(fwCommitted, last.firewall)
  BY <1>b DEF FwIntact, StagingInv
<1>c. NoFirewallState \in FirewallState /\ Claims(NoFirewallState, job.bundle.wg)
  BY DEF NoFirewallState, FirewallState, Claims
<1>6. CASE FirewallUnchanged
  <2>1. pc = "manageFirewall"
    BY <1>6 DEF FirewallUnchanged, FirewallResult
  <2>2. PICK i \in Iface : i \in Remaining
    BY <1>6 DEF FirewallUnchanged, Remaining
  <2>3. Remaining \subseteq Have.members
    BY <1>6 DEF FirewallUnchanged, ToAdd
  <2>4. Have.owned /\ Have.members = {x \in Iface : last.wg[x] # None}
    BY <1>b, <2>1, <2>2, <2>3 DEF Claims, Have
  <2>5. Have.members = Remaining
    BY <1>6, <2>3, <2>4 DEF FirewallUnchanged, ToRemove, InterfaceRemoved,
                            Remaining, InOld
  <2>6. Claims(Have, job.bundle.wg)
    BY <2>4, <2>5 DEF Claims, Remaining, InNew
  <2> QED
    BY <1>5, <1>6, <1>a, <1>b, <2>1, <2>6 DEF FirewallUnchanged, Have
<1>7. CASE FirewallLeftAlone
  <2>1. pc = "manageFirewall" /\ ~last.firewall.owned
    BY <1>7 DEF FirewallLeftAlone, FirewallResult, Have
  <2>2. FirewallIs(fwCommitted, NoFirewallState)
    BY <1>b, <2>1 DEF FirewallIs, Claims, NoFirewallState
  <2> QED
    BY <1>5, <1>7, <1>c, <2>2 DEF FirewallLeftAlone
<1>8. CASE FirewallTornDown
  <2>1. FirewallIs(fwStaged', NoFirewallState)
    BY <1>8, <1>a DEF FirewallTornDown, FirewallIs, NoFirewallState, NoZone, Firewall
  <2> QED
    BY <1>5, <1>8, <1>c, <2>1 DEF FirewallTornDown
<1>9. CASE FirewallReconciled
  <2> DEFINE base == IF Have.owned THEN fwStaged ELSE runFirewallZoneCreate(fwStaged)
             st == [owned |-> TRUE,
                    members |-> Remaining \cap (Have.members \cup ToAdd)]
  <2>1. pc = "manageFirewall" /\ FirewallResult(st, TRUE)
        /\ fwStaged' = EditMembers(base, ToRemove, ToAdd)
    BY <1>9 DEF FirewallReconciled, FirewallResult
  <2>2. st \in FirewallState
    BY DEF FirewallState, Remaining
  <2> HIDE DEF base, st
  <2>3. Claims(st, job.bundle.wg) /\ FirewallIs(fwStaged', st)
    BY <1>a, <1>b, <2>1, EditsIntact DEF base, st
  <2> QED
    BY <1>5, <2>1, <2>2, <2>3
<1>10. CASE commitNetwork
  BY <1>10 DEF commitNetwork, FwIntact
<1>11. CASE commitFirewall
  BY <1>11 DEF commitFirewall, FwIntact, StagingInv
<1>12. CASE networkReload \/ ifupChangedInterfaces \/ firewallReload
           \/ applyStunmeshConfig
  BY <1>12 DEF networkReload, ifupChangedInterfaces, firewallReload,
               applyStunmeshConfig, FwIntact
<1>13. CASE writeLast
  <2>1. last'.wg = job.bundle.wg /\ last'.firewall = job.firewall
    BY <1>13, RecordsJob, JobBundle DEF writeLast, buildState
  <2> QED
    BY <1>13, <2>1 DEF writeLast, FwIntact, Claims, FirewallIs
<1>14. CASE OperatorRemovesZone
  <2>1. /\ ~last.firewall.owned /\ ~job.firewall.owned /\ fwStaged.fwd = {}
    BY <1>14 DEF OperatorRemovesZone, OperatorZoneUntouched
  <2>2. \A st \in FirewallState : ~st.owned /\ st.members = {} =>
            FirewallIs(fwStaged', st)
    BY <1>14, <1>a, <2>1 DEF OperatorRemovesZone, FirewallIs, NoZone, Firewall
  <2>3. last.firewall.members = {}
    BY <2>1 DEF FwIntact, Claims
  <2>4. pc \in CommittedSteps \cup {"commitNetwork"} => job.firewall.members = {}
    BY <2>1 DEF FwIntact, Claims
  <2>5. /\ FirewallIs(fwStaged', last.firewall)
        /\ pc \in CommittedSteps \cup {"commitNetwork"} =>
                FirewallIs(fwStaged', job.firewall)
    BY <1>a, <2>1, <2>2, <2>3, <2>4
  <2>6. /\ job' = job /\ last' = last /\ pc' = pc
        /\ fwCommitted' = fwStaged' /\ fwLoaded' = fwStaged'
    BY <1>14 DEF OperatorRemovesZone
  <2> QED
    BY <2>5, <2>6 DEF FwIntact, Claims, FirewallIs
<1>15. CASE UNCHANGED vars
  BY <1>15 DEF vars, FwIntact, Claims, FirewallIs
<1> QED
  BY <1>1, <1>2, <1>3, <1>4, <1>6, <1>7, <1>8, <1>9, <1>10, <1>11, <1>12,
     <1>13, <1>14, <1>15 DEF Next, ApplyStep

\* And for the file.
LEMMA StepFileIntact ==
    ASSUME TypeOK, intact, FileIntact, [Next]_vars, intact'
    PROVE  FileIntact'
<1> USE DEF netVars, fwVars, CommittedSteps, FileIntact
<1>1. CASE applyStunmeshConfig
  BY <1>1 DEF applyStunmeshConfig, StunmeshEmpty, StunmeshChanged
<1>2. CASE writeLast
  BY <1>2, RecordsJob, JobBundle DEF writeLast
<1>3. CASE \/ writeUCIFails \/ manageFirewallFails \/ commitNetworkFails
           \/ commitFirewallFails \/ LateStepFails \/ Kill \/ Reboot
  BY <1>3 DEF writeUCIFails, manageFirewallFails, commitNetworkFails,
        commitFirewallFails, LateStepFails, Kill, Reboot
<1>4. CASE \/ \E b \in Bundles : Publish(b)
           \/ \E force \in BOOLEAN : checkAndApply(force)
           \/ OperatorRemovesZone \/ UNCHANGED vars
  BY <1>4 DEF Publish, checkAndApply, OperatorRemovesZone, vars
<1>5. CASE writeUCI \/ FirewallUnchanged \/ FirewallLeftAlone \/ FirewallTornDown
           \/ FirewallReconciled
  <2>1. pc' \in {"manageFirewall", "commitNetwork"} /\ pc # "writeLast"
        /\ last' = last /\ file' = file
    BY <1>5 DEF writeUCI, FirewallUnchanged, FirewallLeftAlone, FirewallTornDown,
                FirewallReconciled, FirewallResult
  <2> QED
    BY <2>1
<1>6. CASE commitNetwork \/ commitFirewall \/ networkReload
           \/ ifupChangedInterfaces \/ firewallReload
  BY <1>6 DEF commitNetwork, commitFirewall, networkReload, ifupChangedInterfaces,
              firewallReload
<1> QED
  BY <1>1, <1>2, <1>3, <1>4, <1>5, <1>6 DEF Next, ApplyStep

\* What was ever half done stays known.
LEMMA IntactBefore ==
    ASSUME TypeOK, [Next]_vars
    PROVE  (clean' => clean) /\ (intact' => intact)
<1> USE DEF netVars, fwVars
<1>1. clean \in BOOLEAN /\ intact \in BOOLEAN
  BY DEF TypeOK
<1>2. CASE \/ \E b \in Bundles : Publish(b)
           \/ \E force \in BOOLEAN : checkAndApply(force)
           \/ OperatorRemovesZone \/ UNCHANGED vars \/ Kill \/ Reboot
  BY <1>1, <1>2 DEF Publish, checkAndApply, OperatorRemovesZone, vars, Kill, Reboot
<1>3. CASE ApplyStep
  BY <1>1, <1>3 DEF ApplyStep, writeUCI, writeUCIFails, FirewallUnchanged,
     FirewallLeftAlone, FirewallTornDown, FirewallReconciled, FirewallResult,
     manageFirewallFails, RevertBoth, commitNetwork, commitNetworkFails,
     commitFirewall, commitFirewallFails, networkReload, ifupChangedInterfaces,
     firewallReload, applyStunmeshConfig, writeLast, LateStepFails
<1> QED
  BY <1>2, <1>3 DEF Next

LEMMA StepIntact ==
    /\ TypeOK /\ StagingInv /\ ProgressInv /\ OperatorZoneUntouched /\ IntactInv
    /\ [Next]_vars
    => IntactInv'
BY IntactBefore, StepNetIntact, StepFwIntact, StepFileIntact DEF IntactInv

\* A node without anything applied is what an empty record says.
LEMMA InitIntact == Init => IntactInv
<1> SUFFICES ASSUME Init PROVE NetIntact /\ FwIntact /\ FileIntact
  BY DEF IntactInv
<1>1. Image(last.wg) = [i \in Iface |-> [k \in Key |-> NoSection]]
  BY DEF Init, EmptyState, Image, Sections
<1>2. NetIntact
  BY <1>1 DEF Init, NetIntact, CommittedSteps
<1>3. FwIntact
  BY DEF Init, FwIntact, Claims, FirewallIs, EmptyState, NoFirewallState,
         CommittedSteps
<1> QED
  BY <1>2, <1>3 DEF Init, FileIntact, EmptyState

\* last.json is only ever written when what the cycle has created, changed or
\* removed is committed, running and enforced; and as long as no cycle was given
\* up after its first commit or left anything staged, when the node is exactly
\* what is going to be recorded.
THEOREM RecordIsHonest == Spec => []RecordedOnlyWhenRealised
<1>1. Init => ProgressInv
  BY DEF Init, ProgressInv
<1>2. TypeOK /\ ProgressInv /\ IntactInv => RecordedOnlyWhenRealised
  <2> SUFFICES ASSUME TypeOK, ProgressInv, IntactInv, pc = "writeLast"
               PROVE  RecordedOnlyWhenRealised
    BY DEF RecordedOnlyWhenRealised
  <2>1. clean /\ intact => NodeIs(job.bundle.wg, job.bundle.stunmesh, job.firewall)
    <3> SUFFICES ASSUME NetIntact, FwIntact, FileIntact
                 PROVE  NodeIs(job.bundle.wg, job.bundle.stunmesh, job.firewall)
      BY DEF IntactInv
    <3>1. netCommitted = Image(job.bundle.wg) /\ netLoaded = netCommitted
      BY DEF NetIntact, CommittedSteps
    <3>2. FirewallIs(fwCommitted, job.firewall) /\ fwLoaded = fwCommitted
      BY DEF FwIntact, CommittedSteps
    <3> QED
      BY <3>1, <3>2 DEF NodeIs, FileIntact
  <2> QED
    BY <2>1 DEF ProgressInv, RecordedOnlyWhenRealised
<1> QED
  BY <1>1, <1>2, InitIntact, TypeCorrect, OperatorZoneSafe, StagingCorrect,
     StepProgress, StepIntact, PTL DEF Spec

-----------------------------------------------------------------------------
(* The refinement.                                                         *)

\* A node starts with nothing applied and nothing under way.
LEMMA InitApplied == Init => Applied!Init
BY DEF Init, Applied!Init, EmptyState

\* An apply that ends without a record is given up; where none is under way,
\* nothing happens.
LEMMA GivesUp ==
    ASSUME pc' = "idle", UNCHANGED <<published, file, last>>
    PROVE  [Applied!Next]_(Applied!vars)
BY DEF Applied!Next, Applied!Abandon

\* A step within an apply is invisible.
LEMMA GoesOn ==
    ASSUME pc # "idle", pc' # "idle", job'.bundle = job.bundle,
           UNCHANGED <<published, file, last>>
    PROVE  UNCHANGED Applied!vars
BY DEF Applied!vars

\* Every step of the apply procedure is one of AppliedBundle, or none.
LEMMA StepApplied ==
    TypeOK /\ [Next]_vars => [Applied!Next]_(Applied!vars)
<1> SUFFICES ASSUME TypeOK, [Next]_vars PROVE [Applied!Next]_(Applied!vars)
  OBVIOUS
<1>1. ASSUME NEW b \in Bundles, Publish(b) PROVE Applied!Publish(b)
  BY <1>1 DEF Publish, Applied!Publish
<1>2. ASSUME NEW force \in BOOLEAN, checkAndApply(force) PROVE Applied!Take
  BY <1>2, JobBundle DEF checkAndApply, Applied!Take
<1>3. CASE writeUCI
  BY <1>3, GoesOn DEF writeUCI
<1>4. ASSUME NEW state, NEW changed, FirewallResult(state, changed)
      PROVE UNCHANGED Applied!vars
  <2>1. job'.bundle = job.bundle
    BY <1>4 DEF FirewallResult, TypeOK, Job
  <2> QED
    BY <1>4, <2>1, GoesOn DEF FirewallResult
<1>5. CASE FirewallUnchanged \/ FirewallLeftAlone \/ FirewallTornDown
               \/ FirewallReconciled
  BY <1>4, <1>5 DEF FirewallUnchanged, FirewallLeftAlone, FirewallTornDown,
                    FirewallReconciled
<1>6. CASE commitNetwork \/ commitFirewall
  BY <1>6, GoesOn DEF commitNetwork, commitFirewall
<1>7. CASE networkReload \/ ifupChangedInterfaces \/ firewallReload
  BY <1>7, GoesOn DEF networkReload, ifupChangedInterfaces, firewallReload
<1>8. CASE applyStunmeshConfig
  <2>1. pc # "idle" /\ pc' # "idle" /\ UNCHANGED <<published, last, job>>
    BY <1>8 DEF applyStunmeshConfig
  <2>2. CASE StunmeshEmpty \/ StunmeshChanged
    <3>1. job.bundle # None /\ file' = job.bundle.stunmesh
      BY <1>8, <2>2, JobBundle DEF applyStunmeshConfig
    <3> QED
      BY <2>1, <3>1 DEF Applied!Next, Applied!Install
  <2>3. CASE ~(StunmeshEmpty \/ StunmeshChanged)
    BY <1>8, <2>1, <2>3, GoesOn DEF applyStunmeshConfig
  <2> QED
    BY <2>2, <2>3
<1>9. CASE writeLast
  <2>1. job.bundle # None /\ pc # "idle" /\ pc' = "idle"
    BY <1>9, JobBundle DEF writeLast
  <2>2. [wg |-> last'.wg, stunmesh |-> last'.stunmesh] = job.bundle
    BY <1>9, RecordsJob DEF writeLast
  <2> QED
    BY <1>9, <2>1, <2>2 DEF writeLast, Applied!Next, Applied!Record
<1>10. CASE writeUCIFails \/ manageFirewallFails \/ commitNetworkFails
                \/ commitFirewallFails \/ LateStepFails
  BY <1>10, GivesUp DEF writeUCIFails, manageFirewallFails, commitNetworkFails,
                        commitFirewallFails, LateStepFails
<1>11. CASE Kill \/ Reboot
  BY <1>11, GivesUp DEF Kill, Reboot
<1>12. CASE OperatorRemovesZone \/ UNCHANGED vars
  BY <1>12 DEF OperatorRemovesZone, vars, Applied!vars
<1> QED
  BY <1>1, <1>2, <1>3, <1>5, <1>6, <1>7, <1>8, <1>9, <1>10, <1>11, <1>12
     DEF Next, ApplyStep, Applied!Next

\* Through failures, kills and reboots the node applies one whole bundle at a
\* time, and last.json records no other.
THEOREM ApplyImplements == Spec => ImplementsAppliedBundle
<1> QED
  BY TypeCorrect, InitApplied, StepApplied, PTL
     DEF Spec, ImplementsAppliedBundle, Applied!Spec
=============================================================================
