-------------------------- MODULE AgentDaemonProofs --------------------------
(***************************************************************************)
(* Proofs about AgentDaemon, for any number of processes and any bundles.  *)
(* HolderInv is inductive together with the type invariant: a process that *)
(* is alive holds the lock, so there is one, and it has stopped its app    *)
(* before it starts another or gives the lock back.  The refinement of     *)
(* AppliedBundle follows from it: no two processes are in an apply.        *)
(* On top of it come RecordInv, FileInv and MatchInv, which say what file, *)
(* record and app have to do with each other at each step of a cycle, the  *)
(* last two as long as no apply was given up half done.                    *)
(***************************************************************************)
EXTENDS AgentDaemon, SequenceTheorems, TLAPS

USE ConstantsAssumption

-----------------------------------------------------------------------------
(* Operators.                                                              *)

\* Arithmetic on the number of instances.
LEMMA OneLess ==
    \A k \in Nat \ {0} :
        k - 1 \in Nat /\ (1 <= k - 1 \/ k - 1 = 0) /\ (k <= 1 => k - 1 = 0)
OBVIOUS

\* stop drops one app instance and yields a sequence of instances again.
LEMMA StopType ==
    ASSUME NEW apps \in Seq(App), apps # <<>>
    PROVE  stopped(apps) \in Seq(App) /\ Len(stopped(apps)) = Len(apps) - 1
<1> DEFINE n == Len(apps) - 1
<1>1. Len(apps) \in Nat \ {0}
  BY EmptySeq
<1>2. n \in Nat /\ (1 <= n \/ n = 0)
  BY <1>1, OneLess
<1>3. \A i \in 1..n : apps[i] \in App
  BY <1>1, ElementOfSeq
<1>4. /\ SubSeq(apps, 1, n) \in Seq(App)
      /\ Len(SubSeq(apps, 1, n)) = IF 1 <= n THEN n - 1 + 1 ELSE 0
  <2> HIDE DEF n
  <2> QED
    BY <1>2, <1>3, SubSeqProperties
<1> QED
  BY <1>1, <1>2, <1>4 DEF stopped

\* Where at most one instance runs, none is left after a stop.
LEMMA StopLeavesNone ==
    ASSUME NEW apps \in Seq(App), Len(apps) <= 1, apps # <<>>
    PROVE  stopped(apps) = <<>>
<1>1. Len(apps) \in Nat \ {0}
  BY EmptySeq
<1>2. Len(apps) - 1 = 0
  BY <1>1, OneLess
<1> QED
  BY <1>2, SubSeqEmpty DEF stopped

\* A cycle with another diff is a cycle.
LEMMA DiffSet ==
    ASSUME NEW c \in Cycle, NEW d \in Diff \cup {None}
    PROVE  [c EXCEPT !.diff = d] \in Cycle /\ [c EXCEPT !.diff = d].diff = d
<1>1. [c EXCEPT !.diff = d] = [force |-> c.force, first |-> c.first, diff |-> d]
  BY DEF Cycle
<1> QED
  BY <1>1 DEF Cycle

\* computeDiff yields a Diff for a published bundle.
LEMMA DiffType ==
    ASSUME NEW b \in Bundles, NEW force \in BOOLEAN
    PROVE  computeDiff(b, force) \in Diff
BY DEF computeDiff, Diff, anyInterfaceChanged, Bundle

-----------------------------------------------------------------------------
(* Types.                                                                  *)

\* The initial state is well typed.
LEMMA InitType == Init => TypeOK
<1> SUFFICES ASSUME Init PROVE TypeOK
  OBVIOUS
<1>1. app \in [Proc -> Seq(App)]
  BY EmptySeq DEF Init
<1>2. /\ net \in Wg /\ file \in Text /\ last \in Bundle
      /\ pc \in [Proc -> PC] /\ cycle \in [Proc -> Cycle]
  BY DEF Init, Bundle, Wg, Text, NothingApplied, PC, Cycle
<1>3. newFirewall \in [Proc -> BOOLEAN] /\ \A p \in Proc : pc[p] = "off"
  BY DEF Init
<1>4. publishes \in 0..MaxPublish /\ faults \in 0..MaxFaults
  BY DEF Init
<1> QED
  BY <1>1, <1>2, <1>3, <1>4 DEF Init, TypeOK

\* A counted fault stays within its bound.
LEMMA FaultType ==
    ASSUME faults \in 0..MaxFaults, Fault
    PROVE  faults' \in 0..MaxFaults
BY DEF Fault

\* A process that stops where it is leaves the node well typed.
LEMMA GivenUpType ==
    ASSUME TypeOK, NEW p \in Proc,
           \/ GivenUp(p)
           \/ FirewallMustFail(p) /\ UNCHANGED <<net, zone, intact>>
    PROVE  net' \in Wg /\ zone' \in BOOLEAN /\ intact' \in BOOLEAN
<1>1. CASE UNCHANGED <<net, zone>>
  BY <1>1, Zenon DEF TypeOK, GivenUp
<1>2. CASE pc[p] = "applyUCI" /\ zone' = ZoneAfter(p) /\ net' \in {net, NetAfter(p)}
  <2>1. cycle[p].diff \in Diff
    BY <1>2 DEF TypeOK, Cycle
  <2>2. NetAfter(p) \in Wg /\ ZoneAfter(p) \in BOOLEAN
    BY <2>1 DEF TypeOK, NetAfter, ZoneAfter, Diff, Bundle
  <2>3. intact' \in BOOLEAN
    BY Zenon DEF TypeOK, GivenUp
  <2> QED
    BY <1>2, <2>2, <2>3 DEF TypeOK
<1> QED
  BY <1>1, <1>2 DEF GivenUp

\* Stopping the app of a process keeps every list of instances well typed.
LEMMA StopAppType ==
    ASSUME app \in [Proc -> Seq(App)], NEW p \in Proc, Stop(p)
    PROVE  app' \in [Proc -> Seq(App)]
<1>1. CASE app[p] = <<>>
  BY <1>1 DEF Stop
<1>2. CASE app[p] # <<>>
  BY <1>2, StopType DEF Stop
<1> QED
  BY <1>1, <1>2

\* Where a process that changes nothing in its cycle goes, all processes have
\* the diff they need there.
LEMMA GotoType ==
    ASSUME TypeOK, NEW p \in Proc, NEW l \in PC, Goto(p, l), UNCHANGED cycle,
           l \notin {"fetch", "applyUCI", "applyStunmeshConfig", "writeLast"}
    PROVE  /\ pc' \in [Proc -> PC]
           /\ \A q \in Proc :
                /\ pc'[q] = "fetch" => cycle'[q].diff = None
                /\ pc'[q] \in {"applyUCI", "applyStunmeshConfig", "writeLast"} =>
                    cycle'[q].diff # None
<1>1. pc' \in [Proc -> PC] /\ pc'[p] = l
  BY DEF Goto, TypeOK
<1>2. \A q \in Proc : q # p => pc'[q] = pc[q]
  BY DEF Goto, TypeOK
<1> QED
  BY <1>1, <1>2 DEF TypeOK

\* Every step keeps every variable in its type.
LEMMA StepType == TypeOK /\ [Next]_vars => TypeOK'
<1> SUFFICES ASSUME TypeOK, [Next]_vars PROVE TypeOK'
  OBVIOUS
<1> USE DEF TypeOK
<1>1. ASSUME NEW b \in Bundles \cup {None}, Publish(b) PROVE TypeOK'
  BY <1>1 DEF Publish, shared, firewall
<1>2. ASSUME NEW p \in Proc PROVE
      /\ acquireLock(p) => TypeOK'
      /\ Step(p) => TypeOK'
      /\ AppExits(p) => TypeOK'
      /\ ShutDown(p) => TypeOK'
      /\ Kill(p) => TypeOK'
      /\ \A force \in BOOLEAN : Tick(p, force) => TypeOK'
  <2>1. acquireLock(p) => TypeOK'
    <3>1. SUFFICES ASSUME acquireLock(p) PROVE TypeOK'
      OBVIOUS
    <3> QED
      BY <3>1 DEF acquireLock, shared, firewall, Goto, PC, Cycle
  <2>2. FetchFails(p) => TypeOK'
    <3>1. SUFFICES ASSUME FetchFails(p) PROVE TypeOK'
      OBVIOUS
    <3>2. PICK l \in {"wait", "stop"} : Goto(p, l)
      BY <3>1 DEF FetchFails, CycleOver
    <3>3. UNCHANGED cycle /\ l \in PC
      BY <3>1 DEF FetchFails, PC
    <3> QED
      BY <3>1, <3>2, <3>3, GotoType, FaultType DEF FetchFails, shared, firewall
  <2>3. NothingToDo(p) => TypeOK'
    <3>1. SUFFICES ASSUME NothingToDo(p) PROVE TypeOK'
      OBVIOUS
    <3> QED
      BY <3>1, FaultType DEF NothingToDo, shared, firewall, Goto, PC
  <2>4. checkAndApply(p) => TypeOK'
    <3>1. SUFFICES ASSUME checkAndApply(p) PROVE TypeOK'
      OBVIOUS
    <3>2. computeDiff(published, cycle[p].force) \in Diff
      BY <3>1, DiffType DEF checkAndApply, Cycle
    <3>3. cycle' \in [Proc -> Cycle] /\ cycle'[p].diff # None
      <4> DEFINE d == computeDiff(published, cycle[p].force)
                 next == [cycle[p] EXCEPT !.diff = d]
      <4>1. next \in Cycle /\ next.diff = d
        BY <3>2, DiffSet
      <4>2. cycle' = [cycle EXCEPT ![p] = next]
        BY <3>1 DEF checkAndApply
      <4> HIDE DEF next
      <4> QED
        BY <3>2, <4>1, <4>2
    <3>4. pc' \in [Proc -> PC] /\ pc'[p] = "applyUCI"
      BY <3>1 DEF checkAndApply, Goto, PC
    <3>5. \A q \in Proc : q # p => pc'[q] = pc[q] /\ cycle'[q] = cycle[q]
      BY <3>1 DEF checkAndApply, Goto
    <3> QED
      BY <3>1, <3>3, <3>4, <3>5 DEF checkAndApply, shared, firewall
  <2>5. applyUCI(p) => TypeOK'
    <3>1. SUFFICES ASSUME applyUCI(p) PROVE TypeOK'
      OBVIOUS
    <3>2. cycle[p].diff \in Diff
      BY <3>1 DEF applyUCI, Cycle
    <3>3. net' \in Wg /\ zone' \in BOOLEAN /\ OwnedAfter(p) \in BOOLEAN
      BY <3>1, <3>2 DEF applyUCI, NetAfter, ZoneAfter, OwnedAfter, Diff, Bundle
    <3> QED
      BY <3>1, <3>3 DEF applyUCI, Goto, PC
  <2>6. applyStunmeshConfig(p) => TypeOK'
    <3>1. SUFFICES ASSUME applyStunmeshConfig(p) PROVE TypeOK'
      OBVIOUS
    <3> QED
      BY <3>1 DEF applyStunmeshConfig, shared, firewall, Goto, PC, Cycle, Diff, Bundle
  <2>7. writeLast(p) => TypeOK'
    <3>1. SUFFICES ASSUME writeLast(p) PROVE TypeOK'
      OBVIOUS
    <3> QED
      BY <3>1 DEF writeLast, shared, firewall, Goto, PC, Cycle, Diff, Bundle
  <2>8. ApplyFails(p) => TypeOK'
    <3>1. SUFFICES ASSUME ApplyFails(p) PROVE TypeOK'
      OBVIOUS
    <3>2. cycle' \in [Proc -> Cycle] /\ cycle'[p].diff = None
      <4> DEFINE over == [cycle[p] EXCEPT !.diff = None]
      <4>1. over \in Cycle /\ over.diff = None
        BY DiffSet
      <4>2. cycle' = [cycle EXCEPT ![p] = over]
        BY <3>1 DEF ApplyFails
      <4> HIDE DEF over
      <4> QED
        BY <4>1, <4>2
    <3>3. pc' \in [Proc -> PC] /\ pc'[p] \in {"wait", "stop"}
      BY <3>1 DEF ApplyFails, CycleOver, Goto, PC
    <3>4. \A q \in Proc : q # p => pc'[q] = pc[q] /\ cycle'[q] = cycle[q]
      BY <3>1 DEF ApplyFails, CycleOver, Goto
    <3>5. net' \in Wg /\ zone' \in BOOLEAN /\ intact' \in BOOLEAN
      BY <3>1, GivenUpType DEF ApplyFails
    <3>6. faults' \in 0..MaxFaults
      BY <3>1, FaultType DEF ApplyFails
    <3> QED
      BY <3>1, <3>2, <3>3, <3>4, <3>5, <3>6 DEF ApplyFails
  <2>9. reconcileEmbedded(p) => TypeOK'
    <3>1. SUFFICES ASSUME reconcileEmbedded(p) PROVE TypeOK'
      OBVIOUS
    <3>2. PICK l \in {"startEmbedded", "wait"} : Goto(p, l)
      BY <3>1 DEF reconcileEmbedded
    <3>3. app' \in [Proc -> Seq(App)]
      BY <3>1, StopAppType DEF reconcileEmbedded
    <3>4. UNCHANGED cycle /\ l \in PC
      BY <3>1 DEF reconcileEmbedded, PC
    <3> QED
      BY <3>1, <3>2, <3>3, <3>4, GotoType DEF reconcileEmbedded, shared, firewall
  <2>10. startEmbedded(p) => TypeOK'
    <3>1. SUFFICES ASSUME startEmbedded(p) PROVE TypeOK'
      OBVIOUS
    <3>2. [text |-> file, wg |-> net, up |-> TRUE] \in App
      BY DEF App
    <3>3. Append(app[p], [text |-> file, wg |-> net, up |-> TRUE]) \in Seq(App)
      BY <3>2
    <3>4. app' \in [Proc -> Seq(App)]
      BY <3>1, <3>3 DEF startEmbedded
    <3> QED
      BY <3>1, <3>4 DEF startEmbedded, shared, firewall, Goto, PC
  <2>11. startEmbeddedFails(p) => TypeOK'
    <3>1. SUFFICES ASSUME startEmbeddedFails(p) PROVE TypeOK'
      OBVIOUS
    <3>2. PICK l \in {"wait", "stop"} : Goto(p, l)
      BY <3>1 DEF startEmbeddedFails, CycleOver
    <3>3. UNCHANGED cycle /\ l \in PC
      BY <3>1 DEF startEmbeddedFails, PC
    <3> QED
      BY <3>1, <3>2, <3>3, GotoType, FaultType DEF startEmbeddedFails, shared, firewall
  <2>12. RunOneshot(p) => TypeOK'
    <3>1. SUFFICES ASSUME RunOneshot(p) PROVE TypeOK'
      OBVIOUS
    <3> QED
      BY <3>1 DEF RunOneshot, shared, firewall, Goto, PC
  <2>13. StopEmbedded(p) => TypeOK'
    <3>1. SUFFICES ASSUME StopEmbedded(p) PROVE TypeOK'
      OBVIOUS
    <3> QED
      BY <3>1, StopAppType DEF StopEmbedded, shared, firewall, Goto, PC
  <2>14. Release(p) => TypeOK'
    <3>1. SUFFICES ASSUME Release(p) PROVE TypeOK'
      OBVIOUS
    <3> QED
      BY <3>1 DEF Release, shared, firewall, Goto, PC
  <2>15. AppExits(p) => TypeOK'
    <3>1. SUFFICES ASSUME AppExits(p) PROVE TypeOK'
      OBVIOUS
    <3> DEFINE n == Len(app[p])
               dead == [app[p][n] EXCEPT !.up = FALSE]
    <3>2. app[p] \in Seq(App) /\ app[p] # <<>>
      BY <3>1 DEF AppExits
    <3>3. n \in 1..Len(app[p]) /\ app[p][n] \in App
      BY <3>2, EmptySeq, ElementOfSeq
    <3>4. dead \in App
      BY <3>3 DEF App
    <3>5. [app[p] EXCEPT ![n] = dead] \in Seq(App)
      <4> HIDE DEF n, dead
      <4> QED
        BY <3>2, <3>3, <3>4, ExceptSeq
    <3>6. app' \in [Proc -> Seq(App)]
      BY <3>1, <3>5 DEF AppExits
    <3> QED
      BY <3>1, <3>6, FaultType DEF AppExits, shared, firewall
  <2>16. ShutDown(p) => TypeOK'
    <3>1. SUFFICES ASSUME ShutDown(p) PROVE TypeOK'
      OBVIOUS
    <3> QED
      BY <3>1 DEF ShutDown, shared, firewall, Goto, PC
  <2>17. Kill(p) => TypeOK'
    <3>1. SUFFICES ASSUME Kill(p) PROVE TypeOK'
      OBVIOUS
    <3>2. net' \in Wg /\ zone' \in BOOLEAN /\ intact' \in BOOLEAN
      BY <3>1, GivenUpType DEF Kill
    <3>3. app' \in [Proc -> Seq(App)] /\ faults' \in 0..MaxFaults
      BY <3>1, FaultType, EmptySeq DEF Kill
    <3> QED
      BY <3>1, <3>2, <3>3 DEF Kill, Goto, PC
  <2>18. ASSUME NEW force \in BOOLEAN, Tick(p, force) PROVE TypeOK'
    BY <2>18 DEF Tick, shared, firewall, Goto, PC, Cycle
  <2> QED
    BY <2>1, <2>2, <2>3, <2>4, <2>5, <2>6, <2>7, <2>8, <2>9, <2>10, <2>11, <2>12, <2>13, <2>14, <2>15, <2>16, <2>17, <2>18 DEF Step
<1>3. CASE UNCHANGED vars
  BY <1>3 DEF vars, shared, firewall
<1> QED
  BY <1>1, <1>2, <1>3 DEF Next

\* Every reachable state of the agent's processes is well typed, and a cycle
\* never starts with the diff of an earlier one.
THEOREM DaemonTypeCorrect == Spec => []TypeOK
<1>1. Init => TypeOK
  BY InitType
<1>2. TypeOK /\ [Next]_vars => TypeOK'
  BY StepType
<1> QED
  BY <1>1, <1>2, PTL DEF Spec

-----------------------------------------------------------------------------
(* One app.                                                                *)

\* No process is alive at first, so none has an app.
LEMMA InitHolder == Init => HolderInv
BY EmptySeq DEF Init, HolderInv

\* A step of the lock holder p that leaves the lock and the apps alone keeps
\* HolderInv, if p has no app where it must have none.
LEMMA HolderMoves ==
    ASSUME TypeOK, HolderInv, NEW p \in Proc, NEW l \in PC,
           pc[p] # "off", Goto(p, l), UNCHANGED <<lock, app>>,
           l \in {"off", "startEmbedded", "Release"} => app[p] = <<>>,
           p \in Oneshot /\ l \notin {"RunOneshot", "stop"} => app[p] = <<>>
    PROVE  HolderInv'
BY DEF TypeOK, HolderInv, Goto

\* Stopping the only app of p leaves none.
LEMMA Stopped ==
    ASSUME TypeOK, HolderInv, NEW p \in Proc, Stop(p)
    PROVE  app'[p] = <<>> /\ \A q \in Proc : q # p => app'[q] = app[q]
<1>1. app[p] \in Seq(App) /\ Len(app[p]) <= 1
  BY DEF TypeOK, HolderInv
<1>2. CASE app[p] = <<>>
  BY <1>2 DEF Stop, TypeOK
<1>3. CASE app[p] # <<>>
  BY <1>1, <1>3, StopLeavesNone DEF Stop, TypeOK
<1> QED
  BY <1>2, <1>3

\* The same for a step in which p stops its app.
LEMMA HolderStops ==
    ASSUME TypeOK, HolderInv, NEW p \in Proc, NEW l \in PC,
           pc[p] # "off", Goto(p, l), Stop(p), UNCHANGED lock
    PROVE  HolderInv'
<1>1. app'[p] = <<>> /\ \A q \in Proc : q # p => app'[q] = app[q]
  BY Stopped
<1>2. pc'[p] = l /\ \A q \in Proc : q # p => pc'[q] = pc[q]
  BY DEF Goto, TypeOK
<1> QED
  BY <1>1, <1>2, EmptySeq DEF HolderInv, TypeOK

\* Every step keeps HolderInv.
LEMMA StepHolder == TypeOK /\ HolderInv /\ [Next]_vars => HolderInv'
<1> SUFFICES ASSUME TypeOK, HolderInv, [Next]_vars PROVE HolderInv'
  OBVIOUS
<1>1. ASSUME NEW b \in Bundles \cup {None}, Publish(b) PROVE HolderInv'
  BY <1>1 DEF Publish, HolderInv
<1>2. ASSUME NEW p \in Proc PROVE
      /\ acquireLock(p) => HolderInv'
      /\ Step(p) => HolderInv'
      /\ AppExits(p) => HolderInv'
      /\ ShutDown(p) => HolderInv'
      /\ Kill(p) => HolderInv'
      /\ \A force \in BOOLEAN : Tick(p, force) => HolderInv'
  <2> USE DEF HolderInv
  <2>1. acquireLock(p) => HolderInv'
    BY DEF acquireLock, Goto, TypeOK
  <2>2. FetchFails(p) => HolderInv'
    BY HolderMoves DEF FetchFails, PC, CycleOver
  <2>3. NothingToDo(p) => HolderInv'
    BY HolderMoves DEF NothingToDo, PC
  <2>4. checkAndApply(p) => HolderInv'
    BY HolderMoves DEF checkAndApply, PC
  <2>5. applyUCI(p) => HolderInv'
    BY HolderMoves DEF applyUCI, PC
  <2>6. applyStunmeshConfig(p) => HolderInv'
    BY HolderMoves DEF applyStunmeshConfig, PC
  <2>7. writeLast(p) => HolderInv'
    BY HolderMoves DEF writeLast, PC, Proc
  <2>8. ApplyFails(p) => HolderInv'
    <3>1. SUFFICES ASSUME ApplyFails(p) PROVE HolderInv'
      OBVIOUS
    <3>2. PICK l \in {"wait", "stop"} : Goto(p, l) /\ (p \in Oneshot => l = "stop")
      BY <3>1 DEF ApplyFails, CycleOver
    <3>3. pc[p] # "off" /\ UNCHANGED <<lock, app>>
      BY <3>1 DEF ApplyFails, ApplySteps
    <3> QED
      BY <3>2, <3>3, HolderMoves DEF PC
  <2>9. reconcileEmbedded(p) => HolderInv'
    <3>1. CASE mustReconcile(cycle[p])
      BY <3>1, HolderStops DEF reconcileEmbedded, PC
    <3>2. CASE ~mustReconcile(cycle[p])
      BY <3>2, HolderMoves DEF reconcileEmbedded, PC
    <3> QED
      BY <3>1, <3>2
  <2>10. startEmbedded(p) => HolderInv'
    <3> DEFINE new == [text |-> file, wg |-> net, up |-> TRUE]
    <3>1. SUFFICES ASSUME startEmbedded(p) PROVE HolderInv'
      OBVIOUS
    <3>2. app[p] = <<>> /\ pc[p] = "startEmbedded"
      BY <3>1 DEF startEmbedded
    <3>3. Len(Append(<<>>, new)) = 1
      BY EmptySeq
    <3>4. Len(app'[p]) = 1 /\ \A q \in Proc : q # p => app'[q] = app[q]
      BY <3>1, <3>2, <3>3 DEF startEmbedded, TypeOK
    <3>5. /\ pc'[p] = IF p \in Daemon THEN "wait" ELSE "RunOneshot"
          /\ \A q \in Proc : q # p => pc'[q] = pc[q]
      BY <3>1 DEF startEmbedded, Goto, TypeOK
    <3> QED
      BY <3>1, <3>2, <3>4, <3>5 DEF startEmbedded, Proc
  <2>11. startEmbeddedFails(p) => HolderInv'
    BY HolderMoves DEF startEmbeddedFails, PC, CycleOver
  <2>12. RunOneshot(p) => HolderInv'
    BY HolderMoves DEF RunOneshot, PC
  <2>13. StopEmbedded(p) => HolderInv'
    BY HolderStops DEF StopEmbedded, PC
  <2>14. Release(p) => HolderInv'
    BY DEF Release, Goto, TypeOK
  <2>15. AppExits(p) => HolderInv'
    <3>1. SUFFICES ASSUME AppExits(p) PROVE HolderInv'
      OBVIOUS
    <3>2. app[p] \in Seq(App) /\ app[p] # <<>> /\ Len(app[p]) <= 1
      BY <3>1 DEF AppExits, TypeOK
    <3>3. Len(app'[p]) = Len(app[p])
      BY <3>1, <3>2 DEF AppExits, TypeOK
    <3>4. \A q \in Proc : q # p => app'[q] = app[q]
      BY <3>1 DEF AppExits, TypeOK
    <3> QED
      BY <3>1, <3>2, <3>3, <3>4 DEF AppExits
  <2>16. ShutDown(p) => HolderInv'
    BY HolderMoves DEF ShutDown, PC
  <2>17. Kill(p) => HolderInv'
    BY EmptySeq DEF Kill, Goto, TypeOK
  <2>18. ASSUME NEW force \in BOOLEAN, Tick(p, force) PROVE HolderInv'
    BY <2>18, HolderMoves DEF Tick, PC
  <2> QED
    BY <2>1, <2>2, <2>3, <2>4, <2>5, <2>6, <2>7, <2>8, <2>9, <2>10, <2>11, <2>12, <2>13, <2>14, <2>15, <2>16, <2>17, <2>18 DEF Step
<1>3. CASE UNCHANGED vars
  BY <1>3 DEF vars, HolderInv
<1> QED
  BY <1>1, <1>2, <1>3 DEF Next

\* Two instances of the embedded app never run at once: not within a daemon
\* that rebuilds it, nor across processes that hand the lock on.
THEOREM OneApp == Spec => []AtMostOneApp
<1>1. Spec => []TypeOK
  BY DaemonTypeCorrect
<1>2. Init => HolderInv
  BY InitHolder
<1>3. TypeOK /\ HolderInv /\ [Next]_vars => HolderInv'
  BY StepHolder
<1>4. HolderInv => AtMostOneApp
  BY DEF HolderInv, AtMostOneApp
<1> QED
  BY <1>1, <1>2, <1>3, <1>4, PTL DEF Spec

-----------------------------------------------------------------------------
(* An app only for a recorded text.                                        *)

\* While p is alive, or nobody is and p starts, all others are off.
LEMMA OthersOff ==
    ASSUME TypeOK, HolderInv, NEW p \in Proc, NEW l, Goto(p, l),
           pc[p] # "off" \/ lock = None
    PROVE  /\ pc'[p] = l
           /\ \A q \in Proc : q # p => pc[q] = "off" /\ pc'[q] = "off"
<1>1. \A q \in Proc : q # p => pc[q] = "off"
  BY DEF HolderInv
<1> QED
  BY <1>1 DEF Goto, TypeOK

\* A step of p has to keep what RecordInv says of p alone.
LEMMA RecordOfOne ==
    ASSUME NEW p \in Proc, \A q \in Proc : q # p => pc'[q] = "off",
           p \in Daemon => RecordAt(p)'
    PROVE  RecordInv'
<1>1. ASSUME NEW d \in Daemon, d # p PROVE RecordAt(d)'
  <2>1. pc'[d] = "off"
    BY <1>1 DEF Proc
  <2> QED
    BY <2>1 DEF RecordAt, ApplySteps
<1> QED
  BY <1>1 DEF RecordInv

\* So does a step that leaves last.json, the cycle and the app of p alone.
LEMMA RecordStays ==
    ASSUME TypeOK, HolderInv, RecordInv, NEW p \in Proc, NEW l, Goto(p, l),
           pc[p] # "off", UNCHANGED <<last, cycle, app>>,
           \/ l \in {"stop", "Release", "RunOneshot", "off"}
           \/ l = "wait" /\ pc[p] \in {"fetch", "startEmbedded"}
           \/ l \in ApplySteps /\ pc[p] \in ApplySteps
           \/ l = "reconcile" /\ pc[p] = "fetch"
    PROVE  RecordInv'
<1>1. pc'[p] = l /\ \A q \in Proc : q # p => pc'[q] = "off"
  BY OthersOff
<1>2. ASSUME p \in Daemon PROVE RecordAt(p)'
  <2>1. RecordAt(p)
    BY <1>2 DEF RecordInv
  <2>2. pc[p] = "fetch" => cycle[p].diff = None
    BY DEF TypeOK
  <2>3. pc[p] = "startEmbedded" => app[p] = <<>>
    BY DEF HolderInv
  <2> QED
    BY <1>1, <2>1, <2>2, <2>3 DEF RecordAt, ApplySteps
<1> QED
  BY <1>1, <1>2, RecordOfOne

\* No daemon has an app, or a diff, at first.
LEMMA InitRecord == Init => RecordInv
BY DEF Init, RecordInv, RecordAt, ApplySteps, Proc

\* Every step keeps RecordInv.
LEMMA StepRecord ==
    TypeOK /\ HolderInv /\ RecordInv /\ [Next]_vars => RecordInv'
<1> SUFFICES ASSUME TypeOK, HolderInv, RecordInv, [Next]_vars PROVE RecordInv'
  OBVIOUS
<1>1. ASSUME NEW b \in Bundles \cup {None}, Publish(b) PROVE RecordInv'
  BY <1>1 DEF Publish, shared, firewall, RecordInv, RecordAt, wantRunning
<1>2. ASSUME NEW p \in Proc PROVE
      /\ acquireLock(p) => RecordInv'
      /\ Step(p) => RecordInv'
      /\ AppExits(p) => RecordInv'
      /\ ShutDown(p) => RecordInv'
      /\ Kill(p) => RecordInv'
      /\ \A force \in BOOLEAN : Tick(p, force) => RecordInv'
  <2>1. acquireLock(p) => RecordInv'
    <3>1. SUFFICES ASSUME acquireLock(p) PROVE RecordInv'
      OBVIOUS
    <3>2. pc'[p] = "fetch" /\ \A q \in Proc : q # p => pc'[q] = "off"
      BY <3>1, OthersOff DEF acquireLock
    <3>3. app'[p] = <<>>
      BY <3>1 DEF acquireLock, HolderInv
    <3> QED
      BY <3>2, <3>3, RecordOfOne DEF RecordAt, ApplySteps
  <2>2. FetchFails(p) => RecordInv'
    BY RecordStays DEF FetchFails, CycleOver, shared, firewall
  <2>3. NothingToDo(p) => RecordInv'
    BY RecordStays DEF NothingToDo, shared, firewall
  <2>4. checkAndApply(p) => RecordInv'
    <3>1. SUFFICES ASSUME checkAndApply(p) PROVE RecordInv'
      OBVIOUS
    <3>2. pc'[p] = "applyUCI" /\ \A q \in Proc : q # p => pc'[q] = "off"
      BY <3>1, OthersOff DEF checkAndApply
    <3>3. cycle'[p].diff = computeDiff(published, cycle[p].force)
      BY <3>1 DEF checkAndApply, TypeOK, Cycle
    <3>4. cycle'[p].diff.stunmesh = "empty" <=> cycle'[p].diff.bundle.stunmesh = NoText
      BY <3>3 DEF computeDiff
    <3>5. p \in Daemon /\ app[p] # <<>> => last.stunmesh # NoText
      BY <3>1 DEF checkAndApply, RecordInv, RecordAt
    <3>6. UNCHANGED <<last, app>>
      BY <3>1 DEF checkAndApply, shared, firewall
    <3> QED
      BY <3>2, <3>4, <3>5, <3>6, RecordOfOne DEF RecordAt, ApplySteps
  <2>5. applyUCI(p) => RecordInv'
    BY RecordStays DEF applyUCI, ApplySteps
  <2>6. applyStunmeshConfig(p) => RecordInv'
    BY RecordStays DEF applyStunmeshConfig, ApplySteps
  <2>7. writeLast(p) => RecordInv'
    <3>1. SUFFICES ASSUME writeLast(p) PROVE RecordInv'
      OBVIOUS
    <3>2. PICK l : Goto(p, l) /\ (p \in Daemon => l = "reconcile")
      BY <3>1 DEF writeLast
    <3>3. pc'[p] = l /\ \A q \in Proc : q # p => pc'[q] = "off"
      BY <3>1, <3>2, OthersOff DEF writeLast
    <3>4. cycle'[p].diff # None /\ last' = cycle'[p].diff.bundle
      BY <3>1 DEF writeLast, TypeOK
    <3>5. p \in Daemon => (cycle'[p].diff.stunmesh = "empty"
                               <=> cycle'[p].diff.bundle.stunmesh = NoText)
      BY <3>1, <3>4 DEF writeLast, RecordInv, RecordAt, ApplySteps
    <3> QED
      BY <3>2, <3>3, <3>4, <3>5, RecordOfOne DEF RecordAt, ApplySteps
  <2>8. ApplyFails(p) => RecordInv'
    <3>1. SUFFICES ASSUME ApplyFails(p) PROVE RecordInv'
      OBVIOUS
    <3>2. PICK l \in {"wait", "stop"} : Goto(p, l)
      BY <3>1 DEF ApplyFails, CycleOver
    <3>3. pc'[p] = l /\ \A q \in Proc : q # p => pc'[q] = "off"
      BY <3>1, <3>2, OthersOff DEF ApplyFails, ApplySteps
    <3>4. p \in Daemon /\ app[p] # <<>> => last.stunmesh # NoText
      BY <3>1 DEF ApplyFails, RecordInv, RecordAt, ApplySteps
    <3>5. UNCHANGED <<last, app>>
      BY <3>1 DEF ApplyFails, shared, firewall
    <3> QED
      BY <3>2, <3>3, <3>4, <3>5, RecordOfOne DEF RecordAt, ApplySteps
  <2>9. reconcileEmbedded(p) => RecordInv'
    <3>1. SUFFICES ASSUME reconcileEmbedded(p), p \in Daemon => RecordAt(p)
                   PROVE  RecordInv'
      BY DEF RecordInv
    <3>2. PICK l : Goto(p, l) /\ l = IF /\ mustReconcile(cycle[p])
                                        /\ wantRunning(cycle[p])
                                     THEN "startEmbedded" ELSE "wait"
      BY <3>1 DEF reconcileEmbedded
    <3>3. pc[p] = "reconcile" /\ UNCHANGED <<last, cycle>>
      BY <3>1 DEF reconcileEmbedded, shared, firewall
    <3>4. pc'[p] = l /\ \A q \in Proc : q # p => pc'[q] = "off"
      BY <3>2, <3>3, OthersOff
    <3>5. CASE mustReconcile(cycle[p])
      <4>1. app'[p] = <<>>
        BY <3>1, <3>5, Stopped DEF reconcileEmbedded
      <4>2. wantRunning(cycle[p])' <=> wantRunning(cycle[p])
        BY <3>3 DEF wantRunning
      <4> QED
        BY <3>1, <3>2, <3>3, <3>4, <4>1, <4>2, RecordOfOne DEF RecordAt, ApplySteps
    <3>6. CASE ~mustReconcile(cycle[p])
      <4>1. UNCHANGED app /\ l = "wait"
        BY <3>1, <3>2, <3>6 DEF reconcileEmbedded
      <4>2. cycle[p].diff # None => cycle[p].diff.stunmesh = "unchanged"
        BY <3>6 DEF mustReconcile
      <4> QED
        BY <3>1, <3>3, <3>4, <4>1, <4>2, RecordOfOne DEF RecordAt, ApplySteps
    <3> QED
      BY <3>5, <3>6
  <2>10. startEmbedded(p) => RecordInv'
    <3>1. SUFFICES ASSUME startEmbedded(p) PROVE RecordInv'
      OBVIOUS
    <3>2. PICK l \in {"wait", "RunOneshot"} : Goto(p, l)
      BY <3>1 DEF startEmbedded
    <3>3. pc'[p] = l /\ \A q \in Proc : q # p => pc'[q] = "off"
      BY <3>1, <3>2, OthersOff DEF startEmbedded
    <3>4. p \in Daemon => last.stunmesh # NoText
      BY <3>1 DEF startEmbedded, RecordInv, RecordAt, wantRunning, ApplySteps
    <3>5. UNCHANGED last
      BY <3>1 DEF startEmbedded, shared, firewall
    <3> QED
      BY <3>2, <3>3, <3>4, <3>5, RecordOfOne DEF RecordAt, ApplySteps
  <2>11. startEmbeddedFails(p) => RecordInv'
    BY RecordStays DEF startEmbeddedFails, CycleOver, shared, firewall
  <2>12. RunOneshot(p) => RecordInv'
    BY RecordStays DEF RunOneshot, shared, firewall
  <2>13. StopEmbedded(p) => RecordInv'
    <3>1. SUFFICES ASSUME StopEmbedded(p) PROVE RecordInv'
      OBVIOUS
    <3>2. pc'[p] = "Release" /\ \A q \in Proc : q # p => pc'[q] = "off"
      BY <3>1, OthersOff DEF StopEmbedded
    <3> QED
      BY <3>2, RecordOfOne DEF RecordAt, ApplySteps
  <2>14. Release(p) => RecordInv'
    BY RecordStays DEF Release, shared, firewall
  <2>15. AppExits(p) => RecordInv'
    <3>1. SUFFICES ASSUME AppExits(p) PROVE RecordInv'
      OBVIOUS
    <3>2. \A q \in Proc : q # p => pc'[q] = "off"
      BY <3>1 DEF AppExits, HolderInv
    <3>3. p \in Daemon => last.stunmesh # NoText
      BY <3>1 DEF AppExits, RecordInv, RecordAt
    <3>4. pc'[p] = "wait" /\ UNCHANGED last
      BY <3>1 DEF AppExits, shared, firewall
    <3> QED
      BY <3>2, <3>3, <3>4, RecordOfOne DEF RecordAt, ApplySteps
  <2>16. ShutDown(p) => RecordInv'
    BY RecordStays DEF ShutDown, shared, firewall
  <2>17. Kill(p) => RecordInv'
    <3>1. SUFFICES ASSUME Kill(p) PROVE RecordInv'
      OBVIOUS
    <3>2. pc'[p] = "off" /\ \A q \in Proc : q # p => pc'[q] = "off"
      BY <3>1, OthersOff DEF Kill
    <3> QED
      BY <3>2, RecordOfOne DEF RecordAt, ApplySteps
  <2>18. ASSUME NEW force \in BOOLEAN, Tick(p, force) PROVE RecordInv'
    <3>1. pc'[p] = "fetch" /\ \A q \in Proc : q # p => pc'[q] = "off"
      BY <2>18, OthersOff DEF Tick
    <3>2. app[p] # <<>> => last.stunmesh # NoText
      BY <2>18 DEF Tick, RecordInv, RecordAt
    <3>3. UNCHANGED <<last, app>>
      BY <2>18 DEF Tick, shared, firewall
    <3> QED
      BY <3>1, <3>2, <3>3, RecordOfOne DEF RecordAt, ApplySteps
  <2> QED
    BY <2>1, <2>2, <2>3, <2>4, <2>5, <2>6, <2>7, <2>8, <2>9, <2>10, <2>11, <2>12, <2>13, <2>14, <2>15, <2>16, <2>17, <2>18 DEF Step
<1>3. CASE UNCHANGED vars
  BY <1>3 DEF vars, shared, firewall, RecordInv, RecordAt, wantRunning
<1> QED
  BY <1>1, <1>2, <1>3 DEF Next

\* A waiting daemon runs an app only while last.json records a text for it,
\* whatever failed, exited or was killed before.
THEOREM AppRecorded == Spec => []AppOnlyWhenRecorded
<1>1. Spec => [](TypeOK /\ HolderInv)
  BY DaemonTypeCorrect, InitHolder, StepHolder, PTL DEF Spec
<1>2. RecordInv => AppOnlyWhenRecorded
  BY DEF RecordInv, RecordAt, AppOnlyWhenRecorded
<1> QED
  BY <1>1, <1>2, InitRecord, StepRecord, PTL DEF Spec

-----------------------------------------------------------------------------
(* The recorded app, as long as no apply is given up half done.            *)

\* The count of faults never goes back to zero.
LEMMA FaultsStay ==
    ASSUME TypeOK, Fault \/ UNCHANGED faults
    PROVE  (faults' = 0 => faults = 0) /\ (Fault => faults' # 0)
BY DEF Fault, TypeOK

\* An app that is left alone stays what a daemon may have.
LEMMA AppStays ==
    ASSUME NEW d, AppAsRecorded(d), app'[d] = app[d],
           last'.stunmesh = last.stunmesh, last'.wg = last.wg,
           faults' = 0 => faults = 0
    PROVE  AppAsRecorded(d)'
BY DEF AppAsRecorded, RecordedApp, FailedApps

\* After a fault, a daemon may have no app.
LEMMA NoAppAfterFault ==
    ASSUME NEW d, app'[d] = <<>>, faults' # 0
    PROVE  AppAsRecorded(d)'
BY DEF AppAsRecorded, FailedApps

\* A step of p has to keep what the two invariants say of p, and, where p is
\* not in an apply afterwards, the node as it is recorded.
LEMMA MatchOfOne ==
    ASSUME NEW p \in Proc, \A q \in Proc : q # p => pc'[q] = "off",
           pc'[p] \notin ApplySteps => NodeRecorded',
           pc'[p] \in ApplySteps => AppliedSoFar(p)',
           p \in Daemon => MatchAt(p)'
    PROVE  FileInv' /\ MatchInv'
<1>1. "off" \notin ApplySteps
  BY DEF ApplySteps
<1>2. Applying' = IF pc'[p] \in ApplySteps THEN {p} ELSE {}
  BY <1>1 DEF Applying
<1>3. ASSUME NEW d \in Daemon, d # p PROVE MatchAt(d)'
  <2>1. pc'[d] = "off"
    BY <1>3 DEF Proc
  <2> QED
    BY <2>1 DEF MatchAt, ApplySteps
<1>4. FileInv'
  <2>1. CASE pc'[p] \in ApplySteps
    BY <1>2, <2>1 DEF FileInv
  <2>2. CASE pc'[p] \notin ApplySteps
    BY <1>2, <2>2 DEF FileInv
  <2> QED
    BY <2>1, <2>2
<1> QED
  BY <1>3, <1>4 DEF MatchInv

\* What the invariants say of a process that is about to step.
LEMMA MatchGives ==
    ASSUME TypeOK, HolderInv, FileInv, MatchInv, intact, NEW p \in Proc,
           pc[p] # "off" \/ lock = None
    PROVE  /\ pc[p] \notin ApplySteps => NodeRecorded
           /\ pc[p] \in ApplySteps => AppliedSoFar(p)
           /\ p \in Daemon => MatchAt(p)
<1>1. \A q \in Proc : q # p => pc[q] = "off"
  BY DEF HolderInv
<1>2. pc[p] \notin ApplySteps => Applying = {}
  BY <1>1 DEF Applying, ApplySteps
<1>3. pc[p] \in ApplySteps => p \in Applying
  BY DEF Applying
<1> QED
  BY <1>2, <1>3 DEF FileInv, MatchInv

\* A step, failing or not, that leaves the node alone and does not take p where
\* MatchAt asks for more.
LEMMA MatchStays ==
    ASSUME TypeOK, HolderInv, FileInv, MatchInv, NEW p \in Proc,
           NEW l, Goto(p, l), pc[p] # "off" \/ lock = None, pc[p] \notin ApplySteps,
           UNCHANGED <<net, file, last, zone, owned, intact>>,
           \/ l \in {"stop", "Release", "RunOneshot", "off", "startEmbedded"}
           \/ l = "wait" /\ (p \in Daemon /\ intact => AppAsRecorded(p)')
    PROVE  FileInv' /\ MatchInv'
<1>1. CASE ~intact
  BY <1>1 DEF FileInv, MatchInv
<1>2. CASE intact
  <2>1. pc'[p] = l /\ \A q \in Proc : q # p => pc'[q] = "off"
    BY OthersOff
  <2>2. NodeRecorded'
    BY <1>2, MatchGives DEF NodeRecorded
  <2>3. (p \in Daemon => MatchAt(p)') /\ pc'[p] \notin ApplySteps
    BY <1>2, <2>1 DEF MatchAt, ApplySteps
  <2> QED
    BY <2>1, <2>2, <2>3, MatchOfOne
<1> QED
  BY <1>1, <1>2

\* Nothing is applied or recorded at first, and nobody is alive.
LEMMA InitMatch == Init => FileInv /\ MatchInv
<1> SUFFICES ASSUME Init PROVE FileInv /\ MatchInv
  OBVIOUS
<1>1. Applying = {}
  BY DEF Init, Applying, ApplySteps
<1>2. FileInv
  BY <1>1 DEF Init, FileInv, NodeRecorded, NothingApplied
<1>3. MatchInv
  BY DEF Init, MatchInv, MatchAt, ApplySteps, Proc
<1> QED
  BY <1>2, <1>3

\* A cycle that begins has nothing applied of its own.
LEMMA BeginsMatch ==
    ASSUME TypeOK, HolderInv, FileInv, MatchInv, NEW p \in Proc,
           acquireLock(p) \/ \E force \in BOOLEAN : Tick(p, force)
    PROVE  FileInv' /\ MatchInv'
<1>1. UNCHANGED <<shared, app, faults>>
  BY DEF acquireLock, Tick, shared, firewall
<1>2. CASE ~intact
  BY <1>1, <1>2 DEF shared, FileInv, MatchInv
<1>3. CASE intact
  <2>1. pc'[p] = "fetch" /\ \A q \in Proc : q # p => pc'[q] = "off"
    BY OthersOff DEF acquireLock, Tick
  <2>2. pc[p] \notin ApplySteps /\ (pc[p] # "off" \/ lock = None)
    BY DEF acquireLock, Tick, ApplySteps
  <2>3. NodeRecorded'
    BY <1>1, <1>3, <2>2, MatchGives DEF NodeRecorded, shared, firewall
  <2>4. CASE acquireLock(p)
    <3>1. app'[p] = <<>>
      BY <1>1, <2>4 DEF acquireLock, HolderInv
    <3>2. p \in Daemon => cycle'[p].first
      BY <2>4 DEF acquireLock, TypeOK
    <3>3. p \in Daemon => MatchAt(p)'
      BY <2>1, <3>1, <3>2 DEF MatchAt, ApplySteps
    <3> QED
      BY <2>1, <2>3, <3>3, MatchOfOne DEF ApplySteps
  <2>5. CASE \E force \in BOOLEAN : Tick(p, force)
    <3>1. ~cycle'[p].first
      BY <2>5 DEF Tick, TypeOK
    <3>2. pc[p] = "wait" /\ p \in Daemon
      BY <2>5 DEF Tick
    <3>3. AppAsRecorded(p)
      BY <1>3, <3>2, MatchGives DEF MatchAt
    <3>4. AppAsRecorded(p)'
      BY <1>1, <3>3, AppStays DEF shared
    <3>5. MatchAt(p)'
      BY <2>1, <3>1, <3>4 DEF MatchAt, ApplySteps
    <3> QED
      BY <2>1, <2>3, <3>5, MatchOfOne DEF ApplySteps
  <2> QED
    BY <2>4, <2>5
<1> QED
  BY <1>2, <1>3

\* A cycle that ends without an apply, having failed, leaves the app of a later
\* cycle as it is, and none in a first one.
LEMMA FailedCycle ==
    ASSUME TypeOK, MatchInv, HolderInv, FileInv, NEW p \in Daemon, intact,
           pc[p] \in {"fetch"} \cup ApplySteps, UNCHANGED <<last, app>>, Fault
    PROVE  AppAsRecorded(p)'
<1>1. p \in Proc /\ pc[p] # "off"
  BY DEF Proc, ApplySteps
<1>2. IF cycle[p].first THEN app[p] = <<>> ELSE AppAsRecorded(p)
  BY <1>1, MatchGives DEF MatchAt
<1>3. faults' # 0
  BY FaultsStay
<1>4. CASE cycle[p].first
  BY <1>2, <1>3, <1>4, NoAppAfterFault
<1>5. CASE ~cycle[p].first
  BY <1>2, <1>3, <1>5, AppStays
<1> QED
  BY <1>4, <1>5

\* A fetch that finds nothing to do leaves the app of a later cycle as it is.
LEMMA NothingMatch ==
    ASSUME TypeOK, HolderInv, FileInv, MatchInv, NEW p \in Proc, NothingToDo(p)
    PROVE  FileInv' /\ MatchInv'
<1>1. /\ pc[p] = "fetch" /\ UNCHANGED <<shared, cycle, app>>
      /\ faults' = 0 => faults = 0
  BY FaultsStay DEF NothingToDo, shared, firewall
<1>2. CASE ~intact
  BY <1>1, <1>2 DEF shared, FileInv, MatchInv
<1>3. CASE intact
  <2>1. PICK l \in {"reconcile", "stop"} : Goto(p, l)
    BY DEF NothingToDo
  <2>2. pc'[p] = l /\ \A q \in Proc : q # p => pc'[q] = "off"
    BY <1>1, <2>1, OthersOff
  <2>3. NodeRecorded'
    BY <1>1, <1>3, MatchGives DEF ApplySteps, NodeRecorded, shared, firewall
  <2>4. p \in Daemon /\ ~mustReconcile(cycle[p])' => AppAsRecorded(p)'
    <3> SUFFICES ASSUME p \in Daemon, ~mustReconcile(cycle[p])'
                 PROVE  AppAsRecorded(p)'
      OBVIOUS
    <3>1. ~cycle[p].first
      BY <1>1 DEF mustReconcile
    <3>2. AppAsRecorded(p)
      BY <1>1, <1>3, <3>1, MatchGives DEF MatchAt
    <3> QED
      BY <1>1, <3>2, AppStays DEF shared
  <2>5. p \in Daemon => MatchAt(p)'
    BY <2>2, <2>4 DEF MatchAt, ApplySteps
  <2> QED
    BY <2>2, <2>3, <2>5, MatchOfOne DEF ApplySteps
<1> QED
  BY <1>2, <1>3

\* What a diff calls unchanged, or no change of an interface, is as recorded.
LEMMA DiffSays ==
    ASSUME NEW b, NEW force
    PROVE  LET diff == computeDiff(b, force)
           IN  /\ diff.stunmesh = "unchanged" => diff.bundle.stunmesh = last.stunmesh
               /\ ~diff.interfaces => diff.bundle.wg = last.wg
<1>1. computeDiff(b, force).stunmesh = "unchanged" =>
          computeDiff(b, force).bundle.stunmesh = last.stunmesh
  BY SMT DEF computeDiff
<1>2. ~computeDiff(b, force).interfaces => computeDiff(b, force).bundle.wg = last.wg
  BY Zenon DEF computeDiff, anyInterfaceChanged
<1> QED
  BY <1>1, <1>2

\* A new diff compares the published bundle with what is applied.
LEMMA DiffMatch ==
    ASSUME TypeOK, HolderInv, FileInv, MatchInv, NEW p \in Proc, checkAndApply(p)
    PROVE  FileInv' /\ MatchInv'
<1>1. pc[p] = "fetch" /\ UNCHANGED <<shared, app, faults>>
  BY DEF checkAndApply, shared, firewall
<1>2. CASE ~intact
  BY <1>1, <1>2 DEF shared, FileInv, MatchInv
<1>3. CASE intact
  <2>1. pc'[p] = "applyUCI" /\ \A q \in Proc : q # p => pc'[q] = "off"
    BY OthersOff DEF checkAndApply
  <2>2. NodeRecorded /\ UNCHANGED <<net, file, last, zone, owned>>
    BY <1>1, <1>3, MatchGives DEF ApplySteps, shared, firewall
  <2>3. /\ cycle'[p].diff = computeDiff(published, cycle[p].force)
        /\ cycle'[p].first = cycle[p].first
    BY DEF checkAndApply, TypeOK, Cycle
  <2>4. /\ cycle'[p].diff.stunmesh = "unchanged" =>
               cycle'[p].diff.bundle.stunmesh = last.stunmesh
        /\ ~cycle'[p].diff.interfaces => cycle'[p].diff.bundle.wg = last.wg
    BY <2>3, DiffSays
  <2>5. AppliedSoFar(p)'
    BY <2>1, <2>2, <2>4 DEF AppliedSoFar, NodeRecorded
  <2>6. p \in Daemon => IF cycle[p].first THEN app[p] = <<>> ELSE AppAsRecorded(p)
    BY <1>1, <1>3, MatchGives DEF MatchAt
  <2>7. p \in Daemon =>
            IF cycle'[p].first THEN app'[p] = <<>> ELSE AppAsRecorded(p)'
    BY <1>1, <2>3, <2>6, AppStays DEF shared
  <2>8. p \in Daemon => MatchAt(p)'
    BY <2>1, <2>7 DEF MatchAt, ApplySteps
  <2> QED
    BY <2>1, <2>5, <2>8, MatchOfOne DEF ApplySteps
<1> QED
  BY <1>2, <1>3

\* A zone that a diff is to record is there once manageFirewall has run.
LEMMA OwnedIsThere ==
    ASSUME NEW p \in Proc, zone \in BOOLEAN, owned \in BOOLEAN,
           owned => zone, OwnedAfter(p)
    PROVE  ZoneAfter(p)
BY DEF OwnedAfter, ZoneAfter

\* The steps of an apply bring the node one part at a time to its bundle.
LEMMA ApplyMatch ==
    ASSUME TypeOK, HolderInv, FileInv, MatchInv, NEW p \in Proc,
           applyUCI(p) \/ applyStunmeshConfig(p)
    PROVE  FileInv' /\ MatchInv'
<1>1. UNCHANGED <<last, intact, cycle, app, faults>>
  BY DEF applyUCI, applyStunmeshConfig
<1>2. CASE ~intact
  BY <1>1, <1>2 DEF FileInv, MatchInv
<1>3. CASE intact
  <2>1. PICK l \in {"applyStunmeshConfig", "writeLast"} : Goto(p, l)
    BY DEF applyUCI, applyStunmeshConfig
  <2>2. pc[p] \in ApplySteps
    BY DEF applyUCI, applyStunmeshConfig, ApplySteps
  <2>3. pc'[p] = l /\ \A q \in Proc : q # p => pc'[q] = "off"
    BY <2>1, <2>2, OthersOff DEF ApplySteps
  <2>4. pc'[p] \in ApplySteps
    BY <2>3 DEF ApplySteps
  <2>5. AppliedSoFar(p) /\ (p \in Daemon => MatchAt(p))
    BY <1>3, <2>2, MatchGives DEF ApplySteps
  <2>6. AppliedSoFar(p)'
    <3>1. CASE applyUCI(p)
      <4>1. pc[p] = "applyUCI" /\ pc'[p] = "applyStunmeshConfig"
        BY <2>3, <3>1 DEF applyUCI, Goto, TypeOK
      <4>2. net' = cycle[p].diff.bundle.wg /\ file' = last.stunmesh
        BY <2>5, <3>1, <4>1 DEF AppliedSoFar, applyUCI, NetAfter
      <4>3. newFirewall'[p] = OwnedAfter(p) /\ zone' = ZoneAfter(p)
        BY <3>1 DEF applyUCI, TypeOK
      <4>4. newFirewall'[p] => zone'
        BY <2>5, <4>1, <4>3, OwnedIsThere DEF AppliedSoFar, TypeOK
      <4> QED
        BY <1>1, <2>5, <4>1, <4>2, <4>4 DEF AppliedSoFar
    <3>2. CASE applyStunmeshConfig(p)
      <4>1. pc[p] = "applyStunmeshConfig" /\ pc'[p] = "writeLast"
        BY <2>3, <3>2 DEF applyStunmeshConfig, Goto, TypeOK
      <4>2. UNCHANGED <<net, zone, newFirewall>>
        BY <3>2 DEF applyStunmeshConfig, firewall
      <4>3. file' = cycle[p].diff.bundle.stunmesh
        BY <2>5, <3>2, <4>1 DEF AppliedSoFar, applyStunmeshConfig
      <4> QED
        BY <1>1, <2>5, <4>1, <4>2, <4>3 DEF AppliedSoFar
    <3> QED
      BY <3>1, <3>2
  <2>7. p \in Daemon => IF cycle[p].first THEN app[p] = <<>> ELSE AppAsRecorded(p)
    BY <2>2, <2>5 DEF MatchAt
  <2>8. p \in Daemon =>
            IF cycle'[p].first THEN app'[p] = <<>> ELSE AppAsRecorded(p)'
    BY <1>1, <2>7, AppStays
  <2>9. p \in Daemon => MatchAt(p)'
    BY <2>3, <2>4, <2>8 DEF MatchAt
  <2> QED
    BY <2>3, <2>4, <2>6, <2>9, MatchOfOne
<1> QED
  BY <1>2, <1>3

\* writeLast records what the node has; a diff that reconcile may ignore has
\* not changed what the app runs.
LEMMA WriteMatch ==
    ASSUME TypeOK, HolderInv, FileInv, MatchInv, NEW p \in Proc, writeLast(p)
    PROVE  FileInv' /\ MatchInv'
<1>1. CASE ~intact
  BY <1>1 DEF writeLast, FileInv, MatchInv
<1>2. CASE intact
  <2> DEFINE diff == cycle[p].diff
  <2>1. PICK l \in {"reconcile", "startEmbedded", "stop"} : Goto(p, l)
    BY DEF writeLast
  <2>2. pc[p] = "writeLast" /\ UNCHANGED <<net, file, zone, cycle, app, faults>>
    BY DEF writeLast
  <2>3. pc'[p] = l /\ \A q \in Proc : q # p => pc'[q] = "off"
    BY <2>1, <2>2, OthersOff
  <2>4. AppliedSoFar(p) /\ (p \in Daemon => MatchAt(p))
    BY <1>2, <2>2, MatchGives DEF ApplySteps
  <2>5. last' = diff.bundle /\ owned' = newFirewall[p]
    BY DEF writeLast
  <2>6. NodeRecorded'
    BY <2>2, <2>4, <2>5 DEF AppliedSoFar, NodeRecorded
  <2>7. p \in Daemon => MatchAt(p)'
    <3>1. SUFFICES ASSUME p \in Daemon, ~mustReconcile(cycle[p])
                   PROVE  AppAsRecorded(p)'
      BY <2>2, <2>3 DEF MatchAt, ApplySteps, mustReconcile
    <3>2. ~cycle[p].first /\ diff.stunmesh = "unchanged" /\ ~diff.interfaces
      BY <2>2, <3>1 DEF mustReconcile, TypeOK
    <3>3. AppAsRecorded(p)
      BY <2>2, <2>4, <3>1, <3>2 DEF MatchAt, ApplySteps
    <3>4. last'.stunmesh = last.stunmesh /\ last'.wg = last.wg
      BY <2>4, <2>5, <3>2 DEF AppliedSoFar
    <3> QED
      BY <2>2, <3>3, <3>4, AppStays
  <2>8. pc'[p] \notin ApplySteps
    BY <2>3 DEF ApplySteps
  <2> QED
    BY <2>3, <2>6, <2>7, <2>8, MatchOfOne
<1> QED
  BY <1>1, <1>2

\* An apply that is given up before it has changed anything leaves the node and
\* the app as recorded; it fails without a new fault only where the zone that
\* is claimed is gone, as no apply that was not given up half done leaves it.
LEMMA GivenUpMatch ==
    ASSUME TypeOK, HolderInv, FileInv, MatchInv, NEW p \in Proc, ApplyFails(p)
    PROVE  FileInv' /\ MatchInv'
<1>1. CASE ~intact'
  BY <1>1 DEF FileInv, MatchInv
<1>2. CASE intact'
  <2>1. /\ pc[p] \in ApplySteps /\ pc[p] # "off"
        /\ UNCHANGED <<file, last, owned, app>>
    BY DEF ApplyFails, ApplySteps
  <2>2. intact /\ pc[p] = "applyUCI" /\ UNCHANGED <<net, zone>>
    BY <1>2, <2>1 DEF ApplyFails, GivenUp, FirewallMustFail
  <2>3. AppliedSoFar(p)
    BY <2>1, <2>2, MatchGives
  <2>4. NodeRecorded'
    BY <2>1, <2>2, <2>3 DEF NodeRecorded, AppliedSoFar
  <2>5. Fault
    BY <2>2, <2>3 DEF ApplyFails, FirewallMustFail, AppliedSoFar
  <2>6. p \in Daemon => AppAsRecorded(p)'
    BY <2>1, <2>2, <2>5, FailedCycle
  <2>7. PICK l \in {"wait", "stop"} : Goto(p, l)
    BY DEF ApplyFails, CycleOver
  <2>8. pc'[p] = l /\ \A q \in Proc : q # p => pc'[q] = "off"
    BY <2>1, <2>7, OthersOff
  <2>9. (p \in Daemon => MatchAt(p)') /\ pc'[p] \notin ApplySteps
    BY <2>6, <2>8 DEF MatchAt, ApplySteps
  <2> QED
    BY <2>4, <2>8, <2>9, MatchOfOne
<1> QED
  BY <1>1, <1>2

\* A kill takes the app with it, and leaves the node as it was unless it cuts
\* an apply short.
LEMMA KillMatch ==
    ASSUME TypeOK, HolderInv, FileInv, MatchInv, NEW p \in Proc, Kill(p)
    PROVE  FileInv' /\ MatchInv'
<1>1. CASE ~intact'
  BY <1>1 DEF FileInv, MatchInv
<1>2. CASE intact'
  <2>1. pc[p] # "off" /\ Goto(p, "off") /\ UNCHANGED <<file, last, owned>>
    BY DEF Kill
  <2>2. /\ intact /\ UNCHANGED <<net, zone>>
        /\ pc[p] \in ApplySteps => pc[p] = "applyUCI"
    BY <1>2 DEF Kill, GivenUp, ApplySteps
  <2>3. NodeRecorded
    <3>1. CASE pc[p] \in ApplySteps
      BY <2>1, <2>2, <3>1, MatchGives DEF AppliedSoFar, NodeRecorded
    <3>2. CASE pc[p] \notin ApplySteps
      BY <2>1, <2>2, <3>2, MatchGives
    <3> QED
      BY <3>1, <3>2
  <2>4. NodeRecorded'
    BY <2>1, <2>2, <2>3 DEF NodeRecorded
  <2>5. pc'[p] = "off" /\ \A q \in Proc : q # p => pc'[q] = "off"
    BY <2>1, OthersOff
  <2>6. MatchAt(p)' /\ pc'[p] \notin ApplySteps
    BY <2>5 DEF MatchAt, ApplySteps
  <2> QED
    BY <2>4, <2>5, <2>6, MatchOfOne
<1> QED
  BY <1>1, <1>2

\* An app of the same content that is not up.
LEMMA DownApp ==
    ASSUME NEW r \in App, NEW v
    PROVE  [r EXCEPT !.up = v] = [text |-> r.text, wg |-> r.wg, up |-> v]
BY DEF App

\* An app whose Run returns is the recorded one, no longer up.
LEMMA ExitMatch ==
    ASSUME TypeOK, HolderInv, RecordInv, FileInv, MatchInv, NEW p \in Proc,
           AppExits(p)
    PROVE  FileInv' /\ MatchInv'
<1>1. /\ pc[p] = "wait" /\ app[p] # <<>> /\ UNCHANGED <<shared, pc, cycle>>
      /\ faults' # 0
  BY FaultsStay DEF AppExits, shared, firewall
<1>2. CASE ~intact
  BY <1>1, <1>2 DEF shared, FileInv, MatchInv
<1>3. CASE intact
  <2>1. pc'[p] = "wait" /\ \A q \in Proc : q # p => pc'[q] = "off"
    BY <1>1 DEF HolderInv
  <2>2. NodeRecorded'
    BY <1>1, <1>3, MatchGives DEF ApplySteps, NodeRecorded, shared, firewall
  <2>3. p \in Daemon => AppAsRecorded(p)'
    <3> SUFFICES ASSUME p \in Daemon PROVE AppAsRecorded(p)'
      OBVIOUS
    <3> DEFINE a == [text |-> last.stunmesh, wg |-> last.wg, up |-> TRUE]
               dead == [text |-> last.stunmesh, wg |-> last.wg, up |-> FALSE]
    <3>1. last.stunmesh # NoText
      BY <1>1 DEF RecordInv, RecordAt
    <3>2. app[p] = <<a>> \/ app[p] = <<dead>>
      <4>1. AppAsRecorded(p)
        BY <1>1, <1>3, MatchGives DEF MatchAt
      <4>2. RecordedApp = <<a>>
        BY <3>1 DEF RecordedApp
      <4>3. \A x \in FailedApps : x = <<>> \/ x = <<dead>>
        BY <3>1, Zenon DEF FailedApps
      <4> HIDE DEF a, dead
      <4> QED
        BY <1>1, <4>1, <4>2, <4>3 DEF AppAsRecorded
    <3>3. app[p][1] = a \/ app[p][1] = dead
      BY <3>2
    <3>4. Len(app[p]) = 1
      BY <3>2
    <3>5. [app[p][1] EXCEPT !.up = FALSE] = dead
      <4>1. a \in App /\ dead \in App
        BY DEF TypeOK, Bundle, App
      <4>2. a.text = dead.text /\ a.wg = dead.wg
        OBVIOUS
      <4>3. dead = [text |-> dead.text, wg |-> dead.wg, up |-> FALSE]
        OBVIOUS
      <4> HIDE DEF a, dead
      <4> QED
        BY <3>3, <4>1, <4>2, <4>3, DownApp
    <3>6. app'[p] = [app[p] EXCEPT ![1] = dead]
      BY <3>4, <3>5 DEF AppExits, TypeOK
    <3>7. app'[p] = <<dead>>
      <4> HIDE DEF a, dead
      <4> QED
        BY <3>2, <3>6
    <3> QED
      BY <1>1, <3>1, <3>7 DEF AppAsRecorded, FailedApps, shared
  <2>4. p \in Daemon => MatchAt(p)'
    BY <2>1, <2>3 DEF MatchAt, ApplySteps
  <2> QED
    BY <2>1, <2>2, <2>4, MatchOfOne DEF ApplySteps
<1> QED
  BY <1>2, <1>3

\* reconcileEmbedded leaves the recorded app, or none where none is recorded,
\* or goes on to start it.
LEMMA ReconcileMatch ==
    ASSUME TypeOK, HolderInv, RecordInv, FileInv, MatchInv, NEW p \in Proc,
           reconcileEmbedded(p)
    PROVE  FileInv' /\ MatchInv'
<1>1. UNCHANGED <<shared, cycle, faults>> /\ pc[p] = "reconcile"
  BY DEF reconcileEmbedded, shared, firewall
<1>2. CASE ~intact
  BY <1>1, <1>2 DEF shared, FileInv, MatchInv
<1>3. CASE intact
  <2>1. PICK l : Goto(p, l) /\ l = IF mustReconcile(cycle[p]) /\ wantRunning(cycle[p])
                                   THEN "startEmbedded" ELSE "wait"
    BY DEF reconcileEmbedded
  <2>2. p \in Daemon /\ l = "wait" => AppAsRecorded(p)'
    <3> SUFFICES ASSUME p \in Daemon, l = "wait" PROVE AppAsRecorded(p)'
      OBVIOUS
    <3>1. CASE ~mustReconcile(cycle[p])
      <4>1. AppAsRecorded(p) /\ UNCHANGED app
        BY <1>1, <1>3, <3>1, MatchGives DEF MatchAt, reconcileEmbedded
      <4> QED
        BY <1>1, <4>1, AppStays DEF shared
    <3>2. CASE mustReconcile(cycle[p])
      <4>1. app'[p] = <<>>
        BY <3>2, Stopped DEF reconcileEmbedded
      <4>2. RecordAt(p)
        BY DEF RecordInv
      <4>3. ~wantRunning(cycle[p]) => last.stunmesh = NoText
        BY <1>1, <4>2 DEF RecordAt, wantRunning
      <4>4. UNCHANGED last
        BY <1>1 DEF shared
      <4> QED
        BY <2>1, <3>2, <4>1, <4>3, <4>4 DEF AppAsRecorded, RecordedApp
    <3> QED
      BY <3>1, <3>2
  <2>3. UNCHANGED <<net, file, last, zone, owned, intact>>
    BY <1>1 DEF shared, firewall
  <2> QED
    BY <1>1, <2>1, <2>2, <2>3, MatchStays DEF ApplySteps
<1> QED
  BY <1>2, <1>3

\* The app that is started reads the recorded text and interfaces.
LEMMA StartMatch ==
    ASSUME TypeOK, HolderInv, RecordInv, FileInv, MatchInv, NEW p \in Proc,
           startEmbedded(p)
    PROVE  FileInv' /\ MatchInv'
<1>1. UNCHANGED <<net, file, last, zone, owned, intact>> /\ pc[p] = "startEmbedded"
  BY DEF startEmbedded, shared, firewall
<1>2. ASSUME p \in Daemon, intact PROVE AppAsRecorded(p)'
  <2> DEFINE new == [text |-> last.stunmesh, wg |-> last.wg, up |-> TRUE]
  <2>1. file = last.stunmesh /\ net = last.wg
    BY <1>1, <1>2, MatchGives DEF ApplySteps, NodeRecorded
  <2>2. app[p] = <<>>
    BY <1>1 DEF HolderInv
  <2>3. app' = [app EXCEPT ![p] = Append(@, new)]
    BY <2>1 DEF startEmbedded
  <2>4. Append(<<>>, new) = <<new>>
    OBVIOUS
  <2>5. app'[p] = <<new>>
    <3> HIDE DEF new
    <3> QED
      BY <2>2, <2>3, <2>4 DEF TypeOK
  <2>6. last.stunmesh # NoText
    BY <1>1, <1>2 DEF RecordInv, RecordAt, wantRunning
  <2> QED
    BY <1>1, <2>5, <2>6 DEF AppAsRecorded, RecordedApp
<1>3. PICK l : Goto(p, l) /\ l = IF p \in Daemon THEN "wait" ELSE "RunOneshot"
  BY DEF startEmbedded
<1> QED
  BY <1>1, <1>2, <1>3, MatchStays DEF ApplySteps

\* Every step keeps FileInv and MatchInv.
LEMMA StepMatch ==
    TypeOK /\ HolderInv /\ RecordInv /\ FileInv /\ MatchInv /\ [Next]_vars =>
        FileInv' /\ MatchInv'
<1> SUFFICES ASSUME TypeOK, HolderInv, RecordInv, FileInv, MatchInv, [Next]_vars
             PROVE  FileInv' /\ MatchInv'
  OBVIOUS
<1>1. ASSUME UNCHANGED <<shared, pc, cycle, app, faults>> PROVE FileInv' /\ MatchInv'
  <2>1. FileInv'
    BY <1>1 DEF shared, firewall, FileInv, NodeRecorded, AppliedSoFar, Applying
  <2>2. MatchInv'
    BY <1>1 DEF shared, MatchInv, MatchAt, AppAsRecorded, RecordedApp, FailedApps,
                mustReconcile
  <2> QED
    BY <2>1, <2>2
<1>2. ASSUME NEW b \in Bundles \cup {None}, Publish(b) PROVE FileInv' /\ MatchInv'
  BY <1>1, <1>2 DEF Publish
<1>3. ASSUME NEW p \in Proc, \/ acquireLock(p) \/ \E force \in BOOLEAN : Tick(p, force)
      PROVE  FileInv' /\ MatchInv'
  BY <1>3, BeginsMatch
<1>4. ASSUME NEW p \in Proc, FetchFails(p) \/ startEmbeddedFails(p)
      PROVE  FileInv' /\ MatchInv'
  <2>1. PICK l \in {"wait", "stop"} : Goto(p, l)
    BY <1>4 DEF FetchFails, startEmbeddedFails, CycleOver
  <2>2. /\ pc[p] \in {"fetch", "startEmbedded"} /\ Fault
        /\ UNCHANGED <<net, file, last, zone, owned, intact, app>>
    BY <1>4 DEF FetchFails, startEmbeddedFails, shared, firewall
  <2>3. ASSUME p \in Daemon, intact PROVE AppAsRecorded(p)'
    <3>1. CASE pc[p] = "fetch"
      BY <2>2, <2>3, <3>1, FailedCycle
    <3>2. CASE pc[p] = "startEmbedded"
      BY <2>2, <3>2, FaultsStay, NoAppAfterFault DEF HolderInv
    <3> QED
      BY <2>2, <3>1, <3>2
  <2> QED
    BY <2>1, <2>2, <2>3, MatchStays DEF ApplySteps
<1>5. ASSUME NEW p \in Proc, NothingToDo(p) \/ checkAndApply(p)
      PROVE  FileInv' /\ MatchInv'
  BY <1>5, NothingMatch, DiffMatch
<1>6. ASSUME NEW p \in Proc, applyUCI(p) \/ applyStunmeshConfig(p) \/ writeLast(p)
      PROVE  FileInv' /\ MatchInv'
  BY <1>6, ApplyMatch, WriteMatch
<1>7. ASSUME NEW p \in Proc, ApplyFails(p) \/ Kill(p) \/ AppExits(p)
      PROVE  FileInv' /\ MatchInv'
  BY <1>7, GivenUpMatch, KillMatch, ExitMatch
<1>8. ASSUME NEW p \in Proc, reconcileEmbedded(p) \/ startEmbedded(p)
      PROVE  FileInv' /\ MatchInv'
  BY <1>8, ReconcileMatch, StartMatch
<1>9. ASSUME NEW p \in Proc, RunOneshot(p) \/ ShutDown(p) \/ StopEmbedded(p)
                             \/ Release(p)
      PROVE  FileInv' /\ MatchInv'
  <2>1. PICK l \in {"stop", "Release", "off"} : Goto(p, l)
    BY <1>9 DEF RunOneshot, ShutDown, StopEmbedded, Release
  <2>2. pc[p] # "off" /\ pc[p] \notin ApplySteps
    BY <1>9 DEF RunOneshot, ShutDown, StopEmbedded, Release, ApplySteps
  <2>3. UNCHANGED <<net, file, last, zone, owned, intact>>
    BY <1>9 DEF RunOneshot, ShutDown, StopEmbedded, Release, shared, firewall
  <2> QED
    BY <2>1, <2>2, <2>3, MatchStays
<1>10. CASE UNCHANGED vars
  BY <1>1, <1>10 DEF vars
<1> QED
  BY <1>2, <1>3, <1>4, <1>5, <1>6, <1>7, <1>8, <1>9, <1>10 DEF Next, Step

\* As long as no apply was given up after it had changed something, a waiting
\* daemon has no app of another text or other interfaces than last.json
\* records, whatever the controller published, which process applied it and
\* what else failed or was killed; without any fault it has exactly the one
\* that is recorded.
THEOREM AppIsRecorded == Spec => []AppMatchesRecord
<1>1. Spec => [](TypeOK /\ HolderInv)
  BY DaemonTypeCorrect, InitHolder, StepHolder, PTL DEF Spec
<1>2. Spec => []RecordInv
  BY <1>1, InitRecord, StepRecord, PTL DEF Spec
<1>3. MatchInv => AppMatchesRecord
  BY DEF MatchInv, MatchAt, AppMatchesRecord
<1> QED
  BY <1>1, <1>2, <1>3, InitMatch, StepMatch, PTL DEF Spec

-----------------------------------------------------------------------------
(* The refinement.                                                         *)

\* The bundle of the process that is in one of them, by the control points
\* and cycles of all: the `pending` of the refinement.
PendingIn(pcs, cycles) ==
    IF {p \in Proc : pcs[p] \in ApplySteps} = {} THEN None
    ELSE cycles[CHOOSE p \in {p \in Proc : pcs[p] \in ApplySteps} : TRUE].diff.bundle

\* Where no process but p applies, p's bundle is the pending one, if any.
LEMMA PendingOfOne ==
    ASSUME NEW pcs, NEW cycles, NEW p \in Proc,
           \A q \in Proc : q # p => pcs[q] \notin ApplySteps
    PROVE  PendingIn(pcs, cycles) =
               IF pcs[p] \in ApplySteps THEN cycles[p].diff.bundle ELSE None
<1> DEFINE S == {q \in Proc : pcs[q] \in ApplySteps}
<1>1. CASE pcs[p] \in ApplySteps
  <2>1. p \in S /\ \A q \in S : q = p
    BY <1>1
  <2>2. (CHOOSE q \in S : TRUE) = p
    BY <2>1
  <2> QED
    BY <1>1, <2>1, <2>2 DEF PendingIn
<1>2. CASE pcs[p] \notin ApplySteps
  BY <1>2 DEF PendingIn
<1> QED
  BY <1>1, <1>2

\* While p is alive, or nobody is and p starts, all others are off; so the
\* bundle that is pending before and after a step of p is p's.
LEMMA PendingMoves ==
    ASSUME TypeOK, HolderInv, NEW p \in Proc, NEW l, Goto(p, l),
           pc[p] # "off" \/ lock = None
    PROVE  /\ PendingIn(pc, cycle) =
                  IF pc[p] \in ApplySteps THEN cycle[p].diff.bundle ELSE None
           /\ PendingIn(pc', cycle') =
                  IF l \in ApplySteps THEN cycle'[p].diff.bundle ELSE None
<1>1. \A q \in Proc : q # p => pc[q] = "off"
  BY DEF HolderInv
<1>2. pc'[p] = l /\ \A q \in Proc : q # p => pc'[q] = "off"
  BY <1>1 DEF Goto, TypeOK
<1>3. "off" \notin ApplySteps
  BY DEF ApplySteps
<1>4. PendingIn(pc, cycle) =
          IF pc[p] \in ApplySteps THEN cycle[p].diff.bundle ELSE None
  BY <1>1, <1>3, PendingOfOne
<1>5. PendingIn(pc', cycle') =
          IF pc'[p] \in ApplySteps THEN cycle'[p].diff.bundle ELSE None
  BY <1>2, <1>3, PendingOfOne
<1> QED
  BY <1>2, <1>4, <1>5

\* The bundle of an apply is a bundle, and not None.
LEMMA BundleOfCycle ==
    ASSUME TypeOK, NEW p \in Proc, pc[p] \in ApplySteps
    PROVE  cycle[p].diff.bundle # None
BY DEF TypeOK, ApplySteps, Cycle, Diff

\* What the refinement takes as `pending', before and after a step.
LEMMA PendingIs ==
    /\ PendingIn(pc, cycle) =
           (IF Applying = {} THEN None
            ELSE cycle[CHOOSE p \in Applying : TRUE].diff.bundle)
    /\ PendingIn(pc', cycle') =
           (IF Applying' = {} THEN None
            ELSE cycle'[CHOOSE p \in Applying' : TRUE].diff.bundle)
BY DEF PendingIn, Applying

\* A node starts with nothing applied and no apply under way.
LEMMA InitApplied == Init => Applied!Init
<1> SUFFICES ASSUME Init PROVE Applied!Init
  OBVIOUS
<1>1. Applying = {}
  BY DEF Init, Applying, ApplySteps
<1> QED
  BY <1>1 DEF Init, Applied!Init, NothingApplied

\* A step that leaves the content alone and the pending bundle as it is, or
\* ends with none, maps to nothing or to an apply that is given up.
LEMMA GoesOnOrGivesUp ==
    ASSUME UNCHANGED <<published, file, last>>,
           \/ PendingIn(pc', cycle') = PendingIn(pc, cycle)
           \/ PendingIn(pc', cycle') = None
    PROVE  [Applied!Next]_(Applied!vars)
BY PendingIs DEF Applied!Next, Applied!Abandon, Applied!vars

\* Every step of every process is one of AppliedBundle, or none.
LEMMA StepApplied ==
    TypeOK /\ HolderInv /\ [Next]_vars => [Applied!Next]_(Applied!vars)
<1> SUFFICES ASSUME TypeOK, HolderInv, [Next]_vars
             PROVE  [Applied!Next]_(Applied!vars)
  OBVIOUS
<1>1. ASSUME NEW b \in Bundles \cup {None}, Publish(b)
      PROVE  [Applied!Next]_(Applied!vars)
  <2>1. PendingIn(pc', cycle') = PendingIn(pc, cycle)
    BY <1>1 DEF Publish
  <2> QED
    BY <1>1, <2>1, PendingIs DEF Publish, shared, firewall, Applied!Publish, Applied!Next
<1>2. ASSUME NEW p \in Proc,
             \/ acquireLock(p) \/ FetchFails(p) \/ NothingToDo(p) \/ ApplyFails(p)
             \/ reconcileEmbedded(p) \/ startEmbedded(p) \/ startEmbeddedFails(p)
             \/ RunOneshot(p) \/ StopEmbedded(p) \/ Release(p) \/ ShutDown(p)
             \/ Kill(p) \/ \E force \in BOOLEAN : Tick(p, force)
      PROVE  [Applied!Next]_(Applied!vars)
  <2>1. PICK l : Goto(p, l) /\ l \notin ApplySteps
    BY <1>2 DEF acquireLock, FetchFails, NothingToDo, ApplyFails,
                reconcileEmbedded, startEmbedded, startEmbeddedFails, RunOneshot,
                StopEmbedded, Release, ShutDown, Kill, Tick, CycleOver, ApplySteps
  <2>2. pc[p] # "off" \/ lock = None
    BY <1>2 DEF acquireLock, FetchFails, NothingToDo, ApplyFails,
                reconcileEmbedded, startEmbedded, startEmbeddedFails, RunOneshot,
                StopEmbedded, Release, ShutDown, Kill, Tick, ApplySteps
  <2>3. UNCHANGED <<published, file, last>>
    BY <1>2 DEF acquireLock, FetchFails, NothingToDo, ApplyFails,
                reconcileEmbedded, startEmbedded, startEmbeddedFails, RunOneshot,
                StopEmbedded, Release, ShutDown, Kill, Tick, shared, firewall
  <2> QED
    BY <2>1, <2>2, <2>3, PendingMoves, GoesOnOrGivesUp
<1>3. ASSUME NEW p \in Proc, checkAndApply(p) PROVE [Applied!Next]_(Applied!vars)
  <2>1. pc[p] = "fetch" /\ Goto(p, "applyUCI")
    BY <1>3 DEF checkAndApply
  <2>2. cycle'[p].diff.bundle = published
    <3>1. cycle'[p].diff = computeDiff(published, cycle[p].force)
      BY <1>3 DEF checkAndApply, TypeOK, Cycle
    <3> QED
      BY <3>1 DEF computeDiff
  <2>3. PendingIn(pc, cycle) = None /\ PendingIn(pc', cycle') = published
    BY <2>1, <2>2, PendingMoves DEF ApplySteps
  <2> QED
    BY <1>3, <2>3, PendingIs DEF checkAndApply, shared, firewall, Applied!Take, Applied!Next
<1>4. ASSUME NEW p \in Proc, applyUCI(p) PROVE [Applied!Next]_(Applied!vars)
  <2>1. pc[p] = "applyUCI" /\ Goto(p, "applyStunmeshConfig")
    BY <1>4 DEF applyUCI
  <2>2. PendingIn(pc', cycle') = PendingIn(pc, cycle)
    BY <1>4, <2>1, PendingMoves DEF ApplySteps, applyUCI
  <2> QED
    BY <1>4, <2>2, GoesOnOrGivesUp DEF applyUCI
<1>5. ASSUME NEW p \in Proc, applyStunmeshConfig(p)
      PROVE  [Applied!Next]_(Applied!vars)
  <2>1. pc[p] = "applyStunmeshConfig" /\ Goto(p, "writeLast")
    BY <1>5 DEF applyStunmeshConfig
  <2>2. /\ PendingIn(pc, cycle) = cycle[p].diff.bundle
        /\ PendingIn(pc', cycle') = cycle[p].diff.bundle
    BY <1>5, <2>1, PendingMoves DEF ApplySteps, applyStunmeshConfig
  <2>3. cycle[p].diff.bundle # None
    BY <2>1, BundleOfCycle DEF ApplySteps
  <2>4. CASE cycle[p].diff.stunmesh = "unchanged"
    BY <1>5, <2>2, <2>4, GoesOnOrGivesUp DEF applyStunmeshConfig
  <2>5. CASE cycle[p].diff.stunmesh # "unchanged"
    BY <1>5, <2>2, <2>3, <2>5, PendingIs
       DEF applyStunmeshConfig, Applied!Install, Applied!Next
  <2> QED
    BY <2>4, <2>5
<1>6. ASSUME NEW p \in Proc, writeLast(p) PROVE [Applied!Next]_(Applied!vars)
  <2>1. pc[p] = "writeLast" /\ \E l : Goto(p, l) /\ l \notin ApplySteps
    BY <1>6 DEF writeLast, ApplySteps
  <2>2. PendingIn(pc, cycle) = cycle[p].diff.bundle /\ PendingIn(pc', cycle') = None
    BY <2>1, PendingMoves DEF ApplySteps
  <2>3. cycle[p].diff.bundle # None
    BY <2>1, BundleOfCycle DEF ApplySteps
  <2> QED
    BY <1>6, <2>2, <2>3, PendingIs DEF writeLast, Applied!Record, Applied!Next
<1>7. ASSUME NEW p \in Proc, AppExits(p) PROVE [Applied!Next]_(Applied!vars)
  BY <1>7, GoesOnOrGivesUp DEF AppExits, shared, firewall
<1>8. CASE UNCHANGED vars
  BY <1>8, GoesOnOrGivesUp DEF vars, shared, firewall
<1> QED
  BY <1>1, <1>2, <1>3, <1>4, <1>5, <1>6, <1>7, <1>8 DEF Next, Step

\* Daemons and one-shot runs together apply one whole bundle at a time,
\* however many there are and whatever fails or is killed.
THEOREM DaemonImplements == Spec => ImplementsAppliedBundle
<1>1. Spec => [](TypeOK /\ HolderInv)
  BY DaemonTypeCorrect, InitHolder, StepHolder, PTL DEF Spec
<1> QED
  BY <1>1, InitApplied, StepApplied, PTL
     DEF Spec, ImplementsAppliedBundle, Applied!Spec
=============================================================================
