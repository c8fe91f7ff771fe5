---------------------------- MODULE AgentDaemon ----------------------------
(***************************************************************************)
(* The processes of stunmesh-agent on one node: daemons, which tick, and   *)
(* one-shot runs.  They share a lock file, the stunmesh-go config file and *)
(* last.json, and each runs the embedded stunmesh-go app inside itself.    *)
(* One apply is three steps here (UCI, stunmesh file, last.json), and all  *)
(* `wg` sections but NoWg name the same interfaces, so that the zone comes *)
(* with the first and goes with the last of them.  Module AgentApply has   *)
(* every step, and interfaces one by one.                                  *)
(*                                                                         *)
(* An operator named X_Slip is X with a plausible slip in it.  No action   *)
(* uses one: putting it in X's place must break one of the properties.     *)
(***************************************************************************)
EXTENDS Naturals, Sequences

CONSTANTS
    Daemon,       \* daemon processes
    Oneshot,      \* --oneshot processes
    Bundles,      \* what the controller may publish: records [wg, stunmesh]
    NoWg,         \* the `wg` section without interfaces
    NoText,       \* the empty stunmesh text, and the absent config file
    None,         \* no bundle, no diff, nobody
    FullApply,    \* full_apply_interval is positive
    MaxFaults,    \* bound: failures, lost answers, dying apps, kills
    MaxPublish    \* bound: changes of the published bundle

VARIABLES
    published,    \* the bundle a fetch selects, or None
    publishes,    \* how many times it changed (bounded)
    lock,         \* the process that holds flock on cfg.LockPath, or None
    net,          \* the `wg` section the kernel runs
    zone,         \* firewall.stunmesh is committed, the agent's or another
    file,         \* the stunmesh-go config file
    last,         \* last.json: [wg, stunmesh] ...
    owned,        \* ... and its FirewallState.ZoneOwned
    newFirewall,  \* the ZoneOwned that each process's apply is to record
    intact,       \* history: no apply was given up with something changed
    pc,           \* what each process is about to do
    cycle,        \* each process's fetch/apply cycle
    app,          \* the app instances that run inside each process
    faults        \* faults so far (bounded)

firewall == <<zone, owned, newFirewall>>
shared == <<net, file, last, firewall, intact>>
vars == <<published, publishes, lock, shared, pc, cycle, app, faults>>

-----------------------------------------------------------------------------
(* Data.                                                                   *)

Proc == Daemon \cup Oneshot
Wg == {b.wg : b \in Bundles} \cup {NoWg}
Text == {b.stunmesh : b \in Bundles} \cup {NoText}
Bundle == [wg : Wg, stunmesh : Text]
NothingApplied == [wg |-> NoWg, stunmesh |-> NoText]

\* fetch_diff.Diff: the new content, its stunmesh class, and whether any
\* interface is new, changed or removed.
Diff == [bundle : Bundle, stunmesh : {"unchanged", "changed", "empty"},
         interfaces : BOOLEAN]

\* One cycle: forceAll, whether it is the daemon's first, and fetchOutcome.Diff.
Cycle == [force : BOOLEAN, first : BOOLEAN, diff : Diff \cup {None}]

\* A running app: the config file and the interfaces it started from, and
\* whether its Run is still going.
App == [text : Text, wg : Wg, up : BOOLEAN]

PC == {"off", "fetch", "applyUCI", "applyStunmeshConfig", "writeLast",
       "reconcile", "startEmbedded", "wait", "RunOneshot", "stop", "Release"}

ASSUME ConstantsAssumption ==
    /\ Bundles \subseteq Bundle
    /\ None \notin Bundle /\ None \notin Diff /\ None \notin Proc
    /\ Daemon \cap Oneshot = {}
    /\ FullApply \in BOOLEAN
    /\ MaxFaults \in Nat /\ MaxPublish \in Nat

-----------------------------------------------------------------------------
(* Decisions.                                                              *)

sameContent(b) == b = last

anyInterfaceChanged(b, force) ==
    b.wg # last.wg \/ (force /\ b.wg # NoWg)

computeDiff_Slip(b, force) ==
    [bundle |-> b,
     stunmesh |-> IF b.stunmesh = NoText THEN "empty"
                  ELSE IF b.stunmesh # last.stunmesh THEN "changed"
                  ELSE "unchanged",
     interfaces |-> b.wg # last.wg]

computeDiff(b, force) ==
    [bundle |-> b,
     stunmesh |-> IF b.stunmesh = NoText THEN "empty"
                  ELSE IF force \/ b.stunmesh # last.stunmesh THEN "changed"
                  ELSE "unchanged",
     interfaces |-> anyInterfaceChanged(b, force)]

\* needsEmbeddedRun: what a one-shot cycle does with the app.
needsEmbeddedRun(diff) ==
    /\ diff # None
    /\ diff.stunmesh # "empty"
    /\ diff.stunmesh = "changed" \/ diff.interfaces

\* reconcileEmbedded: whether it acts at all ...
mustReconcile_Slip(c) ==
    c.first \/ (c.diff # None /\ c.diff.stunmesh # "unchanged")
mustReconcile(c) ==
    \/ c.first
    \/ c.diff # None /\ (c.diff.stunmesh # "unchanged" \/ c.diff.interfaces)

\* ... and whether an app should run afterwards.
wantRunning_Slip(c) == c.diff # None \/ last.stunmesh # NoText
wantRunning(c) ==
    IF c.diff # None THEN c.diff.stunmesh # "empty" ELSE last.stunmesh # NoText

-----------------------------------------------------------------------------
Init ==
    /\ published \in Bundles \cup {None}
    /\ publishes = 0
    /\ lock = None
    /\ net = NoWg /\ file = NoText /\ last = NothingApplied
    /\ zone \in BOOLEAN /\ owned = FALSE
    /\ newFirewall = [p \in Proc |-> FALSE]
    /\ intact = TRUE
    /\ pc = [p \in Proc |-> "off"]
    /\ cycle = [p \in Proc |-> [force |-> FALSE, first |-> FALSE, diff |-> None]]
    /\ app = [p \in Proc |-> <<>>]
    /\ faults = 0

Fault == faults < MaxFaults /\ faults' = faults + 1

Goto(p, l) == pc' = [pc EXCEPT ![p] = l]
\* The end of a failed cycle: a daemon ticks on, a one-shot run exits.
CycleOver(p) == IF p \in Daemon THEN Goto(p, "wait") ELSE Goto(p, "stop")

\* The controller publishes something else, or the last value expires.
Publish(b) ==
    /\ publishes < MaxPublish /\ b # published
    /\ published' = b
    /\ publishes' = publishes + 1
    /\ UNCHANGED <<lock, shared, pc, cycle, app, faults>>

acquireLock_Slip(p) ==
    /\ pc[p] = "off"
    /\ lock' = p
    /\ cycle' = [cycle EXCEPT ![p] = [force |-> p \in Oneshot,
                                      first |-> p \in Daemon, diff |-> None]]
    /\ Goto(p, "fetch")
    /\ UNCHANGED <<published, publishes, shared, app, faults>>

\* The process starts and gets the lock; one that does not get it exits at
\* once, having done nothing.  The first cycle follows.
acquireLock(p) ==
    /\ pc[p] = "off" /\ lock = None
    /\ lock' = p
    /\ cycle' = [cycle EXCEPT ![p] = [force |-> p \in Oneshot,
                                      first |-> p \in Daemon, diff |-> None]]
    /\ Goto(p, "fetch")
    /\ UNCHANGED <<published, publishes, shared, app, faults>>

Tick_Slip(p, force) ==
    /\ p \in Daemon /\ pc[p] = "wait"
    /\ force => FullApply
    /\ cycle' = [cycle EXCEPT ![p].force = force, ![p].first = FALSE]
    /\ Goto(p, "fetch")
    /\ UNCHANGED <<published, publishes, lock, shared, app, faults>>

\* The refresh ticker (force = FALSE) or the full-apply ticker.
Tick(p, force) ==
    /\ p \in Daemon /\ pc[p] = "wait"
    /\ force => FullApply
    /\ cycle' = [cycle EXCEPT ![p] = [force |-> force, first |-> FALSE,
                                      diff |-> None]]
    /\ Goto(p, "fetch")
    /\ UNCHANGED <<published, publishes, lock, shared, app, faults>>

-----------------------------------------------------------------------------
(* runFetchApply.                                                          *)

\* No proxy answers, or a file of the agent cannot be read.
FetchFails(p) ==
    /\ pc[p] = "fetch" /\ Fault
    /\ CycleOver(p)
    /\ UNCHANGED <<published, publishes, lock, shared, cycle, app>>

\* No value, none usable, or (without forceAll) nothing new.  An outage of
\* the proxies that hold the value looks the same.
NothingToDo(p) ==
    /\ pc[p] = "fetch"
    /\ \/ /\ published = None \/ (sameContent(published) /\ ~cycle[p].force)
          /\ UNCHANGED faults
       \/ Fault
    /\ Goto(p, IF p \in Daemon THEN "reconcile" ELSE "stop")
    /\ UNCHANGED <<published, publishes, lock, shared, cycle, app>>

checkAndApply(p) ==
    /\ pc[p] = "fetch"
    /\ published # None
    /\ cycle[p].force \/ ~sameContent(published)
    /\ cycle' = [cycle EXCEPT ![p].diff = computeDiff(published, cycle[p].force)]
    /\ Goto(p, "applyUCI")
    /\ UNCHANGED <<published, publishes, lock, shared, app, faults>>

\* manageFirewall of the apply of p, which runs if any interface changed: the
\* zone goes with the last interface if last.json claims it, and is made for
\* the first if there is none; one that is not claimed is left alone.
ZoneAfter(p) ==
    LET diff == cycle[p].diff
    IN  IF ~diff.interfaces THEN zone
        ELSE IF diff.bundle.wg = NoWg THEN zone /\ ~owned
        ELSE zone \/ ~owned

OwnedAfter(p) ==
    LET diff == cycle[p].diff
    IN  IF ~diff.interfaces THEN owned
        ELSE diff.bundle.wg # NoWg /\ (owned \/ ~zone)

\* A zone that last.json claims is deleted without a probe, so the apply fails
\* where an earlier one has committed the deletion and not recorded it.
FirewallMustFail(p) ==
    /\ pc[p] = "applyUCI"
    /\ cycle[p].diff.interfaces /\ cycle[p].diff.bundle.wg = NoWg
    /\ owned /\ ~zone

\* What `uci commit', the reload and ifup make the kernel run.
NetAfter(p) ==
    IF cycle[p].diff.interfaces THEN cycle[p].diff.bundle.wg ELSE net

applyUCI(p) ==
    /\ pc[p] = "applyUCI" /\ ~FirewallMustFail(p)
    /\ net' = NetAfter(p)
    /\ zone' = ZoneAfter(p)
    /\ newFirewall' = [newFirewall EXCEPT ![p] = OwnedAfter(p)]
    /\ Goto(p, "applyStunmeshConfig")
    /\ UNCHANGED <<published, publishes, lock, file, last, owned, intact, cycle,
                   app, faults>>

applyStunmeshConfig(p) ==
    /\ pc[p] = "applyStunmeshConfig"
    /\ file' = IF cycle[p].diff.stunmesh = "unchanged" THEN file
               ELSE cycle[p].diff.bundle.stunmesh
    /\ Goto(p, "writeLast")
    /\ UNCHANGED <<published, publishes, lock, net, last, firewall, intact,
                   cycle, app, faults>>

writeLast(p) ==
    /\ pc[p] = "writeLast"
    /\ last' = cycle[p].diff.bundle
    /\ owned' = newFirewall[p]
    /\ Goto(p, IF p \in Daemon THEN "reconcile"
               ELSE IF needsEmbeddedRun(cycle[p].diff) THEN "startEmbedded"
               ELSE "stop")
    /\ UNCHANGED <<published, publishes, lock, net, file, zone, newFirewall,
                   intact, cycle, app, faults>>

\* The steps of applyDiff.
ApplySteps == {"applyUCI", "applyStunmeshConfig", "writeLast"}

\* p stops where it is, in an apply or not: what an apply did before stays.
\* Step applyUCI may stop between its commits and the reload, too.
GivenUp(p) ==
    /\ \/ UNCHANGED <<net, zone>>
       \/ /\ pc[p] = "applyUCI" /\ ~FirewallMustFail(p)
          /\ zone' = ZoneAfter(p) /\ net' \in {net, NetAfter(p)}
    /\ intact' = (/\ intact
                  /\ pc[p] \in ApplySteps =>
                        pc[p] = "applyUCI" /\ UNCHANGED <<net, zone>>)

\* A step of applyDiff fails.
ApplyFails(p) ==
    /\ pc[p] \in ApplySteps
    /\ \/ Fault /\ GivenUp(p)
       \/ FirewallMustFail(p) /\ UNCHANGED <<net, zone, intact, faults>>
    /\ CycleOver(p)
    /\ cycle' = [cycle EXCEPT ![p].diff = None]
    /\ UNCHANGED <<published, publishes, lock, file, last, owned, newFirewall,
                   app>>

-----------------------------------------------------------------------------
(* The embedded app.                                                       *)

\* embeddedRunner.stop: cancel, wait for Run to return, Close.
stopped(apps) == SubSeq(apps, 1, Len(apps) - 1)
Stop(p) == app' = [app EXCEPT ![p] = IF @ = <<>> THEN @ ELSE stopped(@)]

reconcileEmbedded_Slip(p) ==
    /\ pc[p] = "reconcile"
    /\ IF mustReconcile(cycle[p])
       THEN Goto(p, IF wantRunning(cycle[p]) THEN "startEmbedded" ELSE "wait")
       ELSE Goto(p, "wait")
    /\ UNCHANGED <<published, publishes, lock, shared, cycle, app, faults>>

\* Up to the call of startEmbedded: the old app is stopped first.
reconcileEmbedded(p) ==
    /\ pc[p] = "reconcile"
    /\ IF mustReconcile(cycle[p])
       THEN Stop(p) /\ Goto(p, IF wantRunning(cycle[p]) THEN "startEmbedded"
                               ELSE "wait")
       ELSE UNCHANGED app /\ Goto(p, "wait")
    /\ UNCHANGED <<published, publishes, lock, shared, cycle, faults>>

\* The app reads the config file and the interfaces when it is made.
startEmbedded(p) ==
    /\ pc[p] = "startEmbedded"
    /\ app' = [app EXCEPT ![p] =
                   Append(@, [text |-> file, wg |-> net, up |-> TRUE])]
    /\ Goto(p, IF p \in Daemon THEN "wait" ELSE "RunOneshot")
    /\ UNCHANGED <<published, publishes, lock, shared, cycle, faults>>

\* app.New fails: the daemon logs it and runs without an app.
startEmbeddedFails(p) ==
    /\ pc[p] = "startEmbedded" /\ Fault
    /\ CycleOver(p)
    /\ UNCHANGED <<published, publishes, lock, shared, cycle, app>>

\* Run returns by itself; the daemon still holds the dead runner.
AppExits(p) ==
    /\ pc[p] = "wait" /\ app[p] # <<>> /\ Fault
    /\ app' = [app EXCEPT ![p][Len(app[p])].up = FALSE]
    /\ UNCHANGED <<published, publishes, lock, shared, pc, cycle>>

\* The one-shot app is done, or gave up after its two minutes.
RunOneshot(p) ==
    /\ pc[p] = "RunOneshot"
    /\ Goto(p, "stop")
    /\ UNCHANGED <<published, publishes, lock, shared, cycle, app, faults>>

-----------------------------------------------------------------------------
(* The end of a process.                                                   *)

\* SIGINT or SIGTERM, noticed between two cycles.
ShutDown(p) ==
    /\ p \in Daemon /\ pc[p] = "wait"
    /\ Goto(p, "stop")
    /\ UNCHANGED <<published, publishes, lock, shared, cycle, app, faults>>

\* The deferred calls, in their order: stop the app, ...
StopEmbedded(p) ==
    /\ pc[p] = "stop"
    /\ Stop(p)
    /\ Goto(p, "Release")
    /\ UNCHANGED <<published, publishes, lock, shared, cycle, faults>>

Release_Slip(p) ==
    /\ pc[p] = "stop"
    /\ lock' = None
    /\ Goto(p, "off")
    /\ UNCHANGED <<published, publishes, shared, cycle, app, faults>>

\* ... then give the lock back.
Release(p) ==
    /\ pc[p] = "Release"
    /\ lock' = None
    /\ Goto(p, "off")
    /\ UNCHANGED <<published, publishes, shared, cycle, app, faults>>

\* The process dies: the kernel drops its lock, and the app dies with it.  An
\* apply that fails once on what the kill left staged is one more fault.
Kill(p) ==
    /\ pc[p] # "off" /\ Fault
    /\ GivenUp(p)
    /\ lock' = IF lock = p THEN None ELSE lock
    /\ app' = [app EXCEPT ![p] = <<>>]
    /\ Goto(p, "off")
    /\ UNCHANGED <<published, publishes, file, last, owned, newFirewall, cycle>>

-----------------------------------------------------------------------------
\* The steps of a process that has work to do.
Step(p) ==
    \/ FetchFails(p) \/ NothingToDo(p) \/ checkAndApply(p)
    \/ applyUCI(p) \/ applyStunmeshConfig(p) \/ writeLast(p) \/ ApplyFails(p)
    \/ reconcileEmbedded(p) \/ startEmbedded(p) \/ startEmbeddedFails(p)
    \/ RunOneshot(p) \/ StopEmbedded(p) \/ Release(p)

Next ==
    \/ \E b \in Bundles \cup {None} : Publish(b)
    \/ \E p \in Proc : \/ acquireLock(p) \/ Step(p) \/ AppExits(p)
                       \/ ShutDown(p) \/ Kill(p)
                       \/ \E force \in BOOLEAN : Tick(p, force)

Spec == Init /\ [][Next]_vars

\* Processes run, procd starts a daemon again, and its tickers keep firing.
Fairness ==
    /\ \A p \in Proc : WF_vars(Step(p))
    /\ \A d \in Daemon : /\ SF_vars(acquireLock(d))
                         /\ SF_vars(Tick(d, FALSE))
                         /\ SF_vars(Tick(d, TRUE))

FairSpec == Spec /\ Fairness
-----------------------------------------------------------------------------
(* Properties.                                                             *)

\* Type invariant of every variable of the agent's processes: a cycle starts
\* without the diff of an earlier one, and applies only a diff of its own.
TypeOK ==
    /\ published \in Bundles \cup {None}
    /\ publishes \in 0..MaxPublish
    /\ lock \in Proc \cup {None}
    /\ net \in Wg /\ file \in Text /\ last \in Bundle
    /\ zone \in BOOLEAN /\ owned \in BOOLEAN
    /\ newFirewall \in [Proc -> BOOLEAN]
    /\ intact \in BOOLEAN
    /\ pc \in [Proc -> PC]
    /\ cycle \in [Proc -> Cycle]
    /\ \A p \in Proc :
        /\ pc[p] = "fetch" => cycle[p].diff = None
        /\ pc[p] \in {"applyUCI", "applyStunmeshConfig", "writeLast"} =>
            cycle[p].diff # None
    /\ app \in [Proc -> Seq(App)]
    /\ faults \in 0..MaxFaults

\* reconcileEmbedded and the deferred calls promise that two app instances
\* never run at once against the same config file: not inside one daemon
\* across a rebuild, and not in a daemon that shuts down and the process that
\* takes the lock after it.
AtMostOneApp ==
    \A p, q \in Proc :
        /\ Len(app[p]) <= 1
        /\ app[p] # <<>> /\ app[q] # <<>> => p = q

\* A waiting daemon runs an app only while last.json records a stunmesh text,
\* whatever failed or was killed before: an applied empty text stops it.
AppOnlyWhenRecorded ==
    \A d \in Daemon :
        pc[d] = "wait" /\ app[d] # <<>> => last.stunmesh # NoText

\* The app that runs the recorded content.
RecordedApp ==
    IF last.stunmesh = NoText THEN <<>>
    ELSE <<[text |-> last.stunmesh, wg |-> last.wg, up |-> TRUE]>>

\* What a daemon may have in its place once something has failed: no app,
\* because it could not be started, or that same app, after its Run returned.
FailedApps ==
    IF faults = 0 THEN {}
    ELSE {<<>>} \cup
         IF last.stunmesh = NoText THEN {}
         ELSE {<<[text |-> last.stunmesh, wg |-> last.wg, up |-> FALSE]>>}

AppAsRecorded(d) == app[d] \in {RecordedApp} \cup FailedApps

\* As long as no apply was given up after it had changed something, a waiting
\* daemon never has an app of another text or other interfaces than last.json
\* records -- through bundle changes, lost answers, kills, restarts and
\* one-shot runs in between; and without any fault it has exactly the one
\* that last.json asks for.  (Where an apply was given up, the file and the
\* interfaces may be those of its bundle, and so may an app made from them.)
AppMatchesRecord ==
    intact => \A d \in Daemon : pc[d] = "wait" => AppAsRecorded(d)

\* last.json claims the zone, whose deletion is committed, and the published
\* bundle names no interface: every cycle fails (TeardownIsRetried).
TeardownStuck ==
    /\ published # None /\ published.wg = NoWg
    /\ owned /\ ~zone

\* last.json is the published bundle, and the app is made from its text and
\* from the interfaces that run.  These are the bundle's if it names any; an
\* empty bundle does not remove those that a given up apply has left and that
\* last.json does not name (EmptyRemovesAll).
Follows(d) ==
    /\ last = published
    /\ app[d] = IF last.stunmesh = NoText THEN <<>>
                ELSE <<[text |-> last.stunmesh, wg |-> net, up |-> TRUE]>>
    /\ last.wg # NoWg => net = last.wg

\* Once the controller settles on a bundle and the faults stop, a daemon with
\* a full-apply ticker runs the app of that bundle between any two cycles,
\* whatever was lost, half applied or killed before -- unless the teardown of
\* the zone was committed and not recorded, which no retry gets past.
EmbeddedFollows ==
    /\ []<>(\E d \in Daemon : pc[d] = "wait")
    /\ <>[](~TeardownStuck =>
                \A d \in Daemon :
                    pc[d] = "wait" /\ published # None => Follows(d))

\* daemon.go says "a restarted daemon (a config.yaml edit, a crash, an upgrade)
\* must resume running stunmesh-go against whatever last.json already recorded,
\* not wait for the next real bundle change": a daemon in its first cycle gets
\* to start the app, as long as it lives and last.json records a text.
EmbeddedResumes ==
    \A d \in Daemon :
        pc[d] = "fetch" /\ cycle[d].first /\ last.stunmesh # NoText
            ~> pc[d] \in {"startEmbedded", "off"} \/ last.stunmesh = NoText

-----------------------------------------------------------------------------
(* The abstract specification.                                             *)

\* The processes in the middle of applyDiff.
Applying == {p \in Proc : pc[p] \in ApplySteps}

Applied == INSTANCE AppliedBundle WITH
    Nothing <- NothingApplied,
    pending <- IF Applying = {} THEN None
               ELSE cycle[CHOOSE p \in Applying : TRUE].diff.bundle,
    recorded <- last

\* Daemons and one-shot runs together, restarted and killed as they are, look
\* like one agent that applies one whole bundle at a time: the lock keeps two
\* of them from writing the config file and last.json in turns.
ImplementsAppliedBundle == Applied!Spec

-----------------------------------------------------------------------------
(* Inductive invariants of the proofs in AgentDaemonProofs.                *)

\* Only the holder of the lock is alive, it has no app while it is about to
\* start one or to release the lock, and never more than one.
HolderInv ==
    \A p \in Proc :
        /\ pc[p] # "off" => lock = p
        /\ pc[p] \in {"off", "startEmbedded", "Release"} => app[p] = <<>>
        /\ p \in Oneshot /\ pc[p] \notin {"RunOneshot", "stop"} => app[p] = <<>>
        /\ Len(app[p]) <= 1

\* What a daemon knows of last.json while it runs an app: a diff it carries
\* past writeLast is the record, "empty" says that its text is empty, and an
\* app is kept or started only for a recorded text.
RecordAt(d) ==
    LET diff == cycle[d].diff
    IN  /\ pc[d] \in {"fetch", "wait"} \cup ApplySteps /\ app[d] # <<>> =>
             last.stunmesh # NoText
        /\ pc[d] \in ApplySteps \cup {"reconcile", "startEmbedded"} /\ diff # None =>
             (diff.stunmesh = "empty" <=> diff.bundle.stunmesh = NoText)
        /\ pc[d] \in {"reconcile", "startEmbedded"} /\ diff # None =>
             last = diff.bundle
        /\ pc[d] = "reconcile" /\ diff = None /\ app[d] # <<>> =>
             last.stunmesh # NoText
        /\ pc[d] = "startEmbedded" => wantRunning(cycle[d])

RecordInv == \A d \in Daemon : RecordAt(d)

\* The node is as last.json says.
NodeRecorded == file = last.stunmesh /\ net = last.wg /\ (owned => zone)

\* How far an apply of p has come: the kernel runs the new interfaces after
\* applyUCI, the config file has the new text after applyStunmeshConfig, what
\* its diff calls unchanged is as last.json has it, and the zone that last.json
\* claims, or soon will, is there.
AppliedSoFar(p) ==
    LET diff == cycle[p].diff
    IN  /\ net = IF pc[p] = "applyUCI" THEN last.wg ELSE diff.bundle.wg
        /\ file = IF pc[p] = "writeLast" THEN diff.bundle.stunmesh
                  ELSE last.stunmesh
        /\ diff.stunmesh = "unchanged" => diff.bundle.stunmesh = last.stunmesh
        /\ ~diff.interfaces => diff.bundle.wg = last.wg
        /\ (IF pc[p] = "applyUCI" THEN owned ELSE newFirewall[p]) => zone

\* As long as no apply was given up half done, the node is as recorded between
\* two applies.
FileInv ==
    intact =>
        /\ Applying = {} => NodeRecorded
        /\ \A p \in Applying : AppliedSoFar(p)

\* Then, too, a daemon has the app it should from its first reconcile on, and
\* reconcile leaves it alone only where it still is that one.
MatchAt(d) ==
    /\ pc[d] = "wait" => AppAsRecorded(d)
    /\ pc[d] \in {"fetch"} \cup ApplySteps =>
         IF cycle[d].first THEN app[d] = <<>> ELSE AppAsRecorded(d)
    /\ pc[d] = "reconcile" /\ ~mustReconcile(cycle[d]) => AppAsRecorded(d)

MatchInv == intact => \A d \in Daemon : MatchAt(d)
=============================================================================
