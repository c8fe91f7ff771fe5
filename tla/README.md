# TLA+ verification of stunmesh-provisioner

`stunmesh-provd`, run by an operator, turns a tree of files into one sealed
bundle per node and puts it into OpenDHT through HTTP proxies.
`stunmesh-agent`, run on an OpenWrt router, fetches the newest bundle it can
open and makes the router look like it: WireGuard interfaces through UCI, a
firewall zone, a stunmesh-go config file, and the stunmesh-go app embedded in
the agent. This directory models the parts of that in which order, failure and
concurrency matter, checks them with TLC on small instances, and proves every
safety property that the passing runs check, for every instance, with TLAPS.

Paths below are those of the repository; line numbers are in `PROJECT.json`,
which maps every definition of the modules to the code it stands for.

## 1. Inventory

| Part (code) | State | Operations | Talks to |
|---|---|---|---|
| Apply procedure (`cmd/stunmesh-agent/fetch_apply.go`, `fetch_diff.go`, `fetch_compare.go`) | none of its own: `/etc/config/network` and `firewall`, each staged, committed and loaded; the config file; `last.json` | `checkAndApply`, `applyDiff` (8 steps), `manageFirewall`, reverts | `uci`, `ubus`, `ifup`, `/etc/init.d/firewall` as child processes |
| UCI batches (`internal/uci`) | pure | which commands create, clear and delete sections and list entries | used by the apply procedure |
| `last.json` (`internal/last`) | what was applied, section names, zone ownership | `Read`, `Write` (rename) | apply, daemon |
| Daemon, one-shot run, embedded app (`daemon.go`, `embedded.go`, `lock.go`) | lock file, the running app | cycle, two tickers, `reconcileEmbedded`, start and stop of the app, shutdown | procd, apply, `last.json` |
| Fetch cycle (`fetch.go`, `fetch_select.go`) | none | get, decrypt, select the newest | DHT proxy client |
| Publish and republish (`cmd/stunmesh-provd/publish_cmd.go`, `republish_loop.go`) | cache of sealed values, due times (memory only) | rounds of the loop, `publish --once` | tree, DHT proxy client |
| DHT proxy client (`internal/dhtproxy`, `internal/backend`) | none | `Put` to all proxies, `Get` from the first that has a value | proxies |
| `init`, `keygen` (`init_cmd.go`, `internal/store/write.go`, `keygen_cmd.go`) | `controller.key`, `controller.pub`, `identity.key` | make a key pair once | file system |
| `node add` (`node_cmd.go`) | a node's `identity.pub`, `wg.yaml`, `stunmesh.yaml` | create each once, leave an existing one alone | operator, tree reader |
| Tree reader (`internal/store/store.go`) | none | lists and reads namespaces and nodes, file by file | republish loop, `--once`, `node add` |
| Bundle build (`build_bundle.go`, `normalize_wg.go`, `internal/yamlx`) and format (`internal/bundle`) | pure | YAML to bundle, parse, validate, canonical form, equality | publish, fetch |
| Crypto, DHT key | pure | | |
| Configuration, command line, command runner, service scripts | read once | | |

What is hard in it:

- **Apply.** Eight steps that run dozens of commands; each may fail, the
  process may be killed and the node may reboot between any two. UCI keeps a
  staged delta that outlives the process but not the node. Only the last step
  records what was done, so every retry computes its difference from a record
  that may be older than the router's configuration. Three things follow the
  committed configuration at their own time: netifd, the firewall, the record.
- **Daemon.** Two tickers, signals and restarts share one loop; a one-shot run
  may come between two lives of the daemon; the app reads its files once, when
  it is made, so it goes stale; a cycle's failure must not leave the wrong app.
- **Publish.** Nothing a put stores can be taken back. A put may reach some
  proxies only, values spread between proxies and expire, two controller
  processes seal at once, the clock is in seconds and may step back, anybody
  may store a value under the key, and only the timestamp orders the values.
- **Schedule.** Namespaces of different intervals share one loop whose puts
  take time, while the operator edits, breaks, removes and makes them again and
  the process is restarted; nothing may starve, flood or stay stale.
- **Files to bundle.** Three files of a node are read one after another while
  an editor and `node add` write them, some of them empty for a moment. What is
  read then passes five conversions, two programs with integers of different
  width, and a comparison that must ignore the timestamp and nothing else.
- **Key files.** A key that is printed must be the one in place, however many
  processes run at once and wherever they are killed.

What makes each part correct is stated with the runs in section 4, and
`PROJECT.json` lists each hazard at its line with the properties that watch it.

## 2. Modules

| Module | Models | MC module | Proofs |
|---|---|---|---|
| `AppliedBundle` | abstract: what an agent promises | implemented by the next two | in theirs |
| `AgentApply` | the apply procedure, UCI batches, `last.json` | `MCAgentApply` | `AgentApplyProofs` |
| `AgentDaemon` | daemons, one-shot runs, lock, embedded app | `MCAgentDaemon` | `AgentDaemonProofs` |
| `Publish` | loop and `--once`, cache, proxies, DHT, selection | `MCPublish` | `PublishProofs` |
| `Republish` | the schedule of the loop: namespaces, due times, the wait, `pruneCache` | `MCRepublish` | `RepublishProofs` |
| `BundleFormat` | operators: YAML to JSON, normalizing, parsing, validation, canonical form, size | with `NodeFiles` | `BundleFormatProofs` |
| `NodeFiles` | `node add`, the operator's editor, a round that reads, the agent that decodes | `MCNodeFiles` | `NodeFilesProofs` |
| `KeyFiles` | `init` and `keygen` | `MCKeyFiles` | `KeyFilesProofs` |

`AgentDaemon` is the layer above `AgentApply`: it has an apply in three steps
(UCI, stunmesh file, `last.json`), because these are what the app depends on,
and of the firewall only the zone and who owns it, because a retry of its
teardown can fail for good.
`Publish` ends at the selection of a bundle, where both of the others take
over: their `published` is the bundle that a fetch selects. `Republish` is the
loop above `Publish`: when a namespace is published, not how. `NodeFiles` is
the way of the contents that `Publish` takes as given: from files to a bundle,
and from a bundle to what the agent hands `BuildInterface` and records.

An operator `X_Slip` (or `X_..._Slip`) is `X` with a plausible bug. No action uses
it. `PROJECT.json` pairs each property with a slip that violates it, so no
property holds whatever the code does.

### AppliedBundle

Seen from outside, an agent takes the published bundle, installs its stunmesh
text, and records the bundle, or gives up at any point. The record is always
one whole bundle, the one the apply began with. `AgentApply` implements it with
`pending` the bundle of the `job`, `AgentDaemon` with the bundle of the process
that is in an apply, or none. What the refinement says beyond the invariants:
`buildState` puts the record together from old record and bundle, interface by
interface, and must end at exactly the bundle that was taken, even when another
one was published meanwhile; and of several processes only one at a time may be
in an apply.

### AgentApply

`pc` is the step of `applyDiff` that runs next, `job` the local state of the
apply in flight. Each of the two UCI configurations is three variables: staged
(what `uci get` sees), committed (the file) and loaded (what netifd or the
firewall runs). A section is its options and how often each value of its list
option is listed; `Own` is the interface's own section, a child is a peer or a
route. `writeUCI`, `manageFirewall` (five actions, for its outcomes),
`commitNetwork`, ... are the steps; `...Fails` is the failure of a step,
with the reverts the code runs, each of which may fail too (`RevertBoth`).
`WriteStops` and `FirewallStops` are the staged configurations a step may leave
when it stops after some of its commands, by failure or by `Kill`. `Reboot`
drops the staged delta and loads the committed configuration. Two history
variables say what a retry may still find: `clean`, that nothing staged was ever
left behind, and `intact`, that no cycle was given up after its first commit.

Two points of the environment decide properties and are taken from how the
code uses them: `ubus call network reload` picks up a change of an interface's
own section and ignores one that is only in a peer section (the reason the code
gives for `ifup` after it), and `uci delete`, `add_list` and `del_list` below a
missing section fail, which is why `deleteSections` probes first and
`DeleteFirewallForwardings`, which does not, may fail for good.

Abstracted: the code walks names in sorted order, the model stops after any set
of them that some order allows; names are model values, so two sections never
get one name by concatenation; option values are left out (an option is there
or not); a failing command has no effect of its own; `uci get` fails only for
what is absent; the operator only deletes a zone of his own, in one committed
step, and never makes one while the agent runs.

### AgentDaemon

`pc` and `cycle` are per process, `app` is the sequence of apps that run inside
a process, each with the text and the interfaces it started from. `lock` is the
holder of the `flock`: a process that finds it held exits at once, which is no
step here. The order of the deferred calls (stop the app, release the lock) is
the order of `StopEmbedded` and `Release`. Faults are a failed fetch, a lost
answer, a failed apply step, an app that cannot be made or returns by itself,
and a kill. `zone` is whether `firewall.stunmesh` is committed, `owned` whether
`last.json` claims it, `newFirewall` what an apply is going to record;
`manageFirewall` is `ZoneAfter` and `OwnedAfter`, and `FirewallMustFail` is the
retry of a teardown that was committed and not recorded, which fails without any
new fault. `GivenUp` is what an apply leaves behind that fails or is killed in
the middle of its UCI step; `intact` is the history that none has left anything.

Abstracted: the `wg` sections that are not empty name the same interfaces, so
that the zone is made with the first and goes with the last of them; members,
orphans and staged deltas are `AgentApply`'s (an apply that fails on a staged
remainder is one more fault here). `--stunmesh-only` takes no lock and is not
modelled.

### Publish

One node; every node has a key and a cache entry of its own. `tree` is the
node's files, with `Broken` for contents that do not build. A process reads
`identity.pub` first (`readIdentity`) and the other two files when it seals
(`SealAndPut`); if the operator has edited in between (`torn`), what it gets is
any mixture: any content, or an error (`ReadFails`). A put is a record of the
proxies that have not answered: `PutTaken` and `PutFailed` answer in any order,
`PutFailed` with or without the value stored, and `PutDone` caches a fresh value
that all proxies took. `dht` is what each proxy returns. `Spread`, `Expire` and
`Disturb` are the DHT: a value that is cached, or in a put under way, is kept
alive by the puts; any other may expire. `runFetchApply` asks the proxies in
order and stops at the first that has any value, as `Client.Get` does, then
takes one of the usable values with the largest timestamp.

Abstracted: a value is usable if it is sealed to the node's key (decryption,
parsing and validation are one predicate, spelled out in `BundleFormat`); the
files one by one are `NodeFiles`; the 64-value cap is left out, the schedule is
`Republish`; time is the largest timestamp so far, and a seal may carry the same
or an earlier one where `ClockSteps` says so (`stepped` is the history of that).

### Republish

`tree` is what the operator wrote: an interval, `Malformed` or `Absent`, for
each namespace. The variables of one round of `runRepublishLoop` are those of
the code (`now`, `due`, `nextDue`, `wait`); `Visit` takes the namespaces in
order. `publishNamespaceCached` takes any time up to `MaxPut`, during which the
clock runs; the sleep that follows starts after the puts. `Fresh` is what a
restart forgets. `cache` holds, for each namespace, which controller key its
sealed values were made with, as that is what goes stale when a namespace is
removed and made again (`Edit`) or gets a new key in place (`Rekey`).
`since`, `published` and `unnoticed` are history; `unnoticed` are the namespaces
that the loop has listed and whose key was made anew since.

Abstracted: what is published (`Publish`); a namespace has one cache entry; a
duration is a small number. With `--namespace` (`only`) a namespace that cannot
be read ends the process, which the service manager starts again.

### BundleFormat and NodeFiles

A `wg.yaml` is a text that names a document: a function from the keys it has to
values, for one interface with one peer and one route. `BundleFormat` has the
conversions in the order they run. `ToJSON` tells an empty file from an empty
map, `normalizeFwmark` and `normalizeRoutingTable` change spelling and type,
`Parses` and `Parse` decode for a program with a given largest `int`,
`Validate` has the presence, emptiness and range rule of every key,
`MarshalJSON` writes what is not nil, `Canonical` drops the timestamp.
`Intended` is the reference: what `docs/format.md` says a document means,
written without any of these.

`NodeFiles` runs them. `add` is a `node add` that creates and writes three
files one by one, `editor` has truncated a file and is about to write it,
`reader` is what the round under way has read so far (identity, then `wg.yaml`;
`stunmesh.yaml` is read in the step that publishes). `runFetchApply` decodes on
the node, compares with what `last.json` holds, and records.

Abstracted: an editor truncates and writes once; the operator does not edit a
file that `node add` is just writing; a bundle is put and found at once. The
size of a bundle is a function of its stunmesh text.

### KeyFiles

A file is its text and how much of it survives a power loss. `init` goes
through `readControllerKey`, `store.WriteFile` of `controller.key` (create with
`O_EXCL`, write, chmod, remove on failure) and of `controller.pub`; `keygen`
through a temporary file, a sync and a link. A public key stands for its pair.
`Partial` is any file that does not parse. File modes are left out. `removed`
and `lost` are the history of a complete `controller.key` or `identity.key` that
was taken away again: by a chmod that fails, or by a power loss before the
kernel had written the file or its directory entry back.

## 3. Fairness

Liveness is claimed only under what the scheduling of the code gives, after a
bounded number of faults:

- `AgentApply`: a started cycle goes on (weak fairness of `ApplyStep`: the loop
  is sequential, and commands end), and both tickers fire again and again
  (strong fairness of `checkAndApply`, which is enabled only while no cycle
  runs).
- `AgentDaemon`: each process takes its next step; procd starts a daemon again
  while the lock is free (strong fairness of `acquireLock`; procd itself gives
  up after five quick exits, which is outside the model), and its tickers keep
  firing.
- `Publish`: the loop starts its next round, puts are answered, the DHT spreads
  what it holds and forgets what nobody refreshes, the agent keeps fetching.
  The run of `--once` and every fault have no fairness.

- `NodeFiles`: a `node add` and an editor that have begun go on, rounds of the
  loop and cycles of the agent come again (weak fairness of each step; a step
  that finds an error ends its round, and the next one begins).

`KeyFiles` has no liveness: nobody must run the commands. `Republish` needs
none: `NeverStarved` is a deadline on the clock of the model, so it is an
invariant.

Deadlock is checked for the two agent modules. It is off for the others, where
the bounds on time, edits, runs and keys are used up and commands end.

## 4. Runs

| Run | Question | Bounds |
|---|---|---|
| `apply` | does any failure, kill or reboot break the router's configuration or the record, and does the node reach the published bundle? | 2 interfaces, one with two contents; 1 peer, 1 option, 1 text; 4 bundles (one empty); 2 faults, 2 changes of the bundle |
| `apply_teardown`, `apply_zone`, `apply_record` | three promises of comments that an apply after a half done one does not keep | 2 or 3 bundles each, 1 fault, 1 to 2 changes |
| `daemon` | is the app ever doubled, stale or forgotten? | 1 daemon that restarts, 1 one-shot run, 4 bundles, 2 faults, 2 changes |
| `daemon_resumes` | does a restarted daemon resume the app? (no) | 1 bundle, 1 fault, no full apply |
| `publish` | is the right value selected with `--once` beside the loop, does an edit reach the node and stay available? | 2 proxies, 2 contents, 2 identity keys; 3 edits, faults or `--once` runs; clock may step back |
| `publish_cached` | is a value that is put again what nodes select? (no) | same, steady clock |
| `republish` | is every readable namespace published in time, and is no key put that the loop could tell to be stale? | 2 namespaces, an interval that the puts of a round may outlast, one above the fallback poll and one to be rejected, puts of up to 1, clock up to 14, 2 edits, failed puts or kills |
| `node_files` | does the node get what the files say, and never what a broken moment of them says? | a new node (4 edits, runs or faults), a node in use (3), and one with each of 109 texts of `wg.yaml` (1); 2 identity keys, 4 stunmesh texts |
| `key_files` | do races, kills and power losses leave whole and matching keys? | 2 + 2 processes, 3 keys, 2 faults, 1 power loss |
| `init_rerun` | is a pair repaired by a re-run? (no) | 1 fault |

Why these bounds reach the interesting cases. *Apply*: with two faults a cycle
can be cut and its repair cut again; with two changes of the bundle a half
applied content can be replaced and come back; one interface beside another
shows what is done for the wrong one; a bundle with a richer and a poorer
content of the same interface leaves options behind if anything does. *Daemon*:
one daemon is started again without limit, so any number of its lives is seen,
with a one-shot run between any two. *Publish*: two proxies are enough for one
to be behind the other, two edits for a change and its revert. *Republish*: a
namespace is before and after the other in a round; the intervals are shorter
and longer than the fallback poll; the clock is long enough for several rounds
of either. *Node files*: three events are enough for two files to change around
a reader, four for `node add`, a kill, a second run and an edit. The texts
differ from a document with every key in one key: its value is absent, null,
empty, of another type, another spelling, or at each side of each bound. The
widths are scaled (32 bits: 6, unsigned 9, 64 bits: 12), in the order of the
real ones, with a 64-bit controller and a 32-bit node. The size limit is 136
with an overhead of 4, where 98 bytes fit and 99 do not. *Key files*: two
processes race; the third key is for a run after them.

What holds:

- `NoDuplicateEntries`: no address, allowed IP or zone member is listed twice,
  after any number of retries over a committed or a staged half of an apply.
- `OperatorZoneUntouched`: a zone of the operator is never claimed, edited or
  deleted, when it was there first, or goes while the agent runs.
- `NothingLeftStaged`: each way out of `applyDiff` leaves nothing staged, as
  long as its reverts worked and it was not killed.
- `ForwardingsShareZoneLifecycle`: zone and forwardings are committed and
  removed as one.
- `RecordedOnlyWhenRealised`: when `last.json` is about to be written, what this
  apply has created, changed, removed or written is committed, running, enforced
  and in its file. What it took for unchanged may differ after a half done apply
  (3 and 8 below). If no cycle was given up after a commit or left anything
  staged (`intact`, `clean`), the node is exactly what is to be recorded:
  unchanged interfaces, zone, members and file included, and nothing beside them.
- `ImplementsAppliedBundle` (both agent modules): one whole bundle at a time.
- `Converges`: when bundle and faults rest, each interface that the bundle names
  and the stunmesh file are brought to the bundle and stay there, unless
  `last.json` claims a zone that is gone (1 below); the whole node, with the zone
  and nothing else beside it, if every cycle was `intact` and `clean`.
- `AtMostOneApp`: never two apps, across restarts and one-shot runs.
- `AppOnlyWhenRecorded`: a daemon that waits has no app that the record does not
  ask for.
- `AppMatchesRecord`: as long as no apply was given up half done, nor one made
  from another text or other interfaces than the record; without faults it is
  exactly the recorded one.
- `EmbeddedFollows`: in the end the app is that of the published bundle, unless
  a teardown of the zone was committed and not recorded (1 below). After an empty
  bundle it may still run on interfaces that nothing removes (7 below).
- `LatestPutIsSelected`: a value that all proxies took last is the one selected,
  as long as every seal carried a later second than those before it. It does not
  hold for two seals in one second, nor for a round that read its clock before
  another process sealed.
- `Delivered`, `Available`: when the operator and the faults rest, the node has
  what the files say, and every proxy keeps answering with it.
- `NeverStarved`: a readable namespace is published again an interval after the
  last time, or a fallback poll after it became readable, plus the puts of one
  round and of the namespaces before it, whatever the other namespaces do.
- `NoFlood`: a round always sleeps, and never past the fallback poll.
- `CachedWithCurrentKey`: no value sealed with an old controller key is put
  again, unless the key was made anew with no round in between that missed the
  namespace (10 below).
- `OperatorFilesKept`: no run of `node add`, killed, failed or repeated,
  replaces or removes what the operator saved.
- `OnlySavedInterfaces`: interfaces are those of a `wg.yaml` that was saved,
  and none only where `{}` was saved: not of a template or a truncated file.
- `AgentAccepts`, `AgentConfiguresWhatWasWritten`, `ValueFits`: what is
  published is accepted by a node with a smaller `int`, arrives in the struct
  that `BuildInterface` is given as `docs/format.md` says of the file (its
  conversions to UCI options are not modelled), and fits the value limit once
  sealed.
- `SameContentIsSame`: a bundle is taken for what the record has exactly if it
  has its content: a new timestamp or another spelling restarts no tunnel, and
  no edit is overlooked.
- `Delivered` of `NodeFiles`: whatever mixture of files was published before,
  in the end the node has what the files say and is left alone.
- `ControllerPairMatches`, `PrintedKeyIsInPlace`: two complete controller files
  are a pair, and a printed key is the one in place, then and later -- both
  unless a complete private key file was taken away again, by a chmod that
  fails or by a power loss (neither command waits for the directory entry).
- `IdentityNeverPartial`: `identity.key` is never cut short, not even by a power
  loss.

### What the code does not keep

Six runs show that the code does something else than a comment beside it says.
Each is quoted in `PROJECT.json` under `findings`.

1. `TeardownIsRetried`: `applyDiff` calls itself idempotent. After the teardown
   of the zone is committed and a later step fails, every retry fails at
   `uci delete` of a forwarding that is gone.
2. `ZoneOwnedRecorded`: a zone that was committed by a cycle that failed later
   is taken for an operator's zone by the retry and is never managed again.
3. `UnchangedStillRecorded`: after a content was committed but not recorded and
   then withdrawn, the interface counts as unchanged and keeps sections of the
   withdrawn content. The next full apply rewrites the sections it knows, and
   only those.
4. `EmbeddedResumes`: a daemon whose first fetch fails does not resume the app
   before a change or a full apply (never, if full applies are off).
5. `RePutIsSelected`: after a put that only some proxies took and a revert of
   the edit, the cached older value is put again and stays hidden behind the
   newer one until that expires.
6. `RerunMatches`: an `init` killed while it writes `controller.pub` leaves an
   empty file that re-runs accept.

Five more have a property and a configuration beside the runs, in which TLC
refutes it:

7. `EmptyRemovesAll` (`MCAgentApplyOrphan.cfg`), against docs/format.md:171, that
   `wg` "can be empty (remove all interfaces)": an interface committed by a cycle
   that failed later is in no record, so no bundle without it removes it
   (fetch_diff.go:199), not even an empty one.
8. `RecordedTextIsWritten` (`MCAgentApplyFile.cfg`), against last.go:97, that
   `Stunmesh` is the text "the agent last wrote": a file that a cycle wrote or
   removed before it failed is left as it is when the next bundle has the
   recorded text again (fetch_apply.go:539). Without full applies it stays so.
9. `InterfacesAreMembers` (`MCAgentApplyMember.cfg`), against
   fetch_apply.go:171-172, that every interface "ends up a member": a zone member
   dropped by a cycle that failed later is still in the record, so it is not
   added when its interface comes back (fetch_apply.go:249), in a full apply
   neither.
10. `RePutIsExpected` (`MCRepublishRekey.cfg`), against republish_loop.go:247-251,
    that the cached value is "exactly what a node ... would expect": a controller
    key that is removed and made anew in place (or with its whole namespace
    between two rounds) is not compared (republish_loop.go:265), and values that
    only the old public key opens are put again.
11. `RerunKeepsIdentity` (`MCKeyFilesKeygen.cfg`), against keygen_cmd.go:48-49,
    that running `keygen` twice "never changes the node's identity": `keygen`
    prints before the directory entry of `identity.key` is on disk
    (keygen_cmd.go:170); after a power loss a second run makes another identity.

The properties that hold name what they leave out because of these: `Converges`
excludes a record that claims a zone that is gone (1, `RecordedZoneExists`) and
asks for the exact node only where no cycle was given up half done (3, 7, 9);
`EmbeddedFollows` excludes the first (`TeardownStuck`) and says of an empty
bundle what 7 leaves; `CachedWithCurrentKey` excludes 10, and
`PrintedKeyIsInPlace` 11. Smaller differences have no run: README.md:101-104
says that an apply undoes hand edits of the agent's forwardings, while
`manageFirewall` compares membership with `last.json` only; and
README.md:110-115 says that a full apply runs both commits and both reloads,
while an unchanged membership skips those of the firewall;
republish_loop.go:80-81 says that the loop wakes up "exactly when the next
namespace is due", while the wait is computed from the time before the puts and
begins after them (`NeverStarved` has the slack); and republish_loop.go:83-86
says that an unreadable `provd.yaml` does not stop the loop, while with
`--namespace` it does (`ResolveFails`).

## 5. Proofs

All theorems are about `Spec`, for all values of the constants that satisfy
`ConstantsAssumption` of the module: any number of interfaces, processes,
proxies, namespaces, keys and documents, and any bound on faults, edits and
time. The assumptions say only that special values (`None`, `Own`, `Absent`,
...) are not ordinary ones, and that the bounds are numbers. `BundleFormat` has
two more: `WidthsAssumption` puts the widths in the order of the real ones and
makes each program's `int` 32 or 64 bits wide, and `DocumentsAssumption` says
what a document is: no document at all, or keys with values that YAML can
write; the four that are no interface differ from every function; and `{}` is
the text of the document without interfaces. TLC evaluates all of them.

| Theorem | Argument |
|---|---|
| `TypeCorrect` | inductive; lemmas type each helper, also what a step leaves when it stops early |
| `OperatorZoneSafe` | inductive with `TypeOK`. The condition on `job.firewall.owned` makes it so: ownership passes through the job before it reaches `last.json` |
| `ApplyImplements` | every step is one of `AppliedBundle` or changes nothing there. The hard case is `writeLast`: what `buildState` carries forward from the old record is what the bundle says too (`RecordsJob`) |
| `NothingListedTwice` | inductive with `TypeOK`: `createInterface` clears before it appends, in each of its prefixes too |
| `NextCycleStartsClean`, `ZoneIsAUnit` | from `StagingInv`, which says at which steps the staged and the committed configuration may differ, and that zone and forwardings are a unit in both |
| `RecordIsHonest` | its first half from `ProgressInv`, which says what has been reached at each step: staged after step 1, committed after step 2, removed interfaces down after the reload, created ones running after `ifup`, and so on; its second, that the node is exactly what is to be recorded, from `IntactInv`: while no cycle was given up half done, node and record differ by what the apply in flight has done so far. The property alone speaks of the last step only and is not inductive |
| `DaemonTypeCorrect` | inductive |
| `OneApp` | from `HolderInv`: only the holder of the lock is alive, and it has no app where it is about to start one or to release the lock |
| `DaemonImplements` | from `HolderInv`: while a process applies all others are off, so the pending bundle is its own (`PendingMoves`) |
| `AppRecorded` | from `RecordInv`: a daemon keeps an app through a cycle only while the record has a text, and a difference it carries past `writeLast` is the record, so the reconciliation that follows an empty text stops the app. The property speaks of the rest between two cycles only |
| `AppIsRecorded` | from `FileInv` and `MatchInv`, both as long as no apply was given up half done, as the property is. `FileInv`: stunmesh file, interfaces and zone are those of the record, but for what an apply has done so far (`AppliedSoFar`). `MatchInv`: from its first reconciliation on a daemon has the app of the record, and a cycle that does not reconcile has not changed the record |
| `PublishTypeCorrect` | inductive |
| `LatestPutWins` | from `SealedInv`: no value is newer than the last seal, there is one value of that seal while each was later than the others, and a proxy that took a value has it as long as the put goes on |
| `RepublishTypeCorrect` | inductive; an error of one namespace leaves the due times of the others alone |
| `RoundsSleep` | from `WaitInv`: a round that visits or sleeps has a wait of at least one and at most the fallback poll |
| `CacheHasCurrentKey` | from `CacheInv`: what is cached for a listed namespace has its key of now unless that was made anew unnoticed, and outside a round nothing is cached for the others (`pruneCache`) |
| `NobodyStarves` | from `DueInv` (how far ahead a due time may be, seen from the last publish) and `LateInv` (how late a visit may be: the puts of a round when it begins, those of the namespaces before it when it is up). The deadline itself says nothing about the wait and the times in the middle of a round, so it is not inductive |
| `BuiltBundle` | one fact carries it: where `Parse` and `Validate` succeed, the struct has exactly the values of the document, since the one value `Parse` makes up, the empty string of a required key, is one `Validate` rejects (`ParsedValues`). So `MarshalJSON` writes the document again, and `Validate` bounds every number that the other program must fit in an `int` |
| `NodeFilesTypeCorrect` | inductive |
| `NodeAddKeepsFiles` | from `KeepInv`: a file that `node add` is writing was absent before, so it is none of the operator's, and he does not edit it |
| `PublishesOnlySaved`, `AgentAcceptsAll`, `AgentConfiguresIt`, `PublishedValueFits` | from `SavedInv`: what a round has read in `wg.yaml` was saved or is empty or the template, and these build no bundle; the rest is `BuiltBundle`, and `SizeFits` for the limit |
| `ComparesContent` | from `SavedInv` and `LastInv`: what is published builds, and what is recorded was accepted, so each side of the comparison is the JSON that was sent, through `last.json` or not (`RecordedIsSent`) |
| `KeyFilesTypeCorrect` | inductive |
| `IdentityIsWhole` | from `IdentityInv`: only a synced, complete temporary file is linked, and a file in place is never replaced |
| `PairIsAPair`, `PrintedKeyStays` | from `PairInv`: one process at a time writes `controller.key`, and from then on all processes that go on to `controller.pub` have its key; under the conditions of the properties (`removed`, `lost`) a complete key stays |

The inductive invariants are defined in the component's own module, where TLC
has checked them on the instance of its run.

Only model-checked: liveness (`Converges`, `EmbeddedFollows`, `Available`, both
`Delivered`), which is beyond the proof system. The properties that the code
does not keep (section 4) are refuted by TLC.

## 6. Not modelled

- Pure conversions without a rule that another part relies on: endpoints,
  section names (names are model values, so none collide), DHT key, crypto,
  string escapes and surrogates, the header fields of a bundle.
- Two leniencies of `encoding/json`: it matches keys without regard to case, and
  `dec.More()` is false before a stray `}` or `]`, although `docs/format.md`
  rejects unknown keys and trailing data.
- `--stunmesh-only`, `key check`, `list`, configuration, command line, service
  scripts: no state that another part reads.
- A corrupt `last.json`; commands that hang; a failing command that took
  effect; a `uci get` that fails for a section that is there (the code reads
  every failure as "absent"); an operator who edits the agent's zone or has
  uncommitted changes of his own.
- The 64-value cap and the line limits of a response; several nodes of one
  namespace, which share nothing but the round.
- Editors that save in other ways than truncating and writing once, and an
  operator who replaces a file in the middle of `node add`.

## 7. Plan

Done: the apply procedure, where most of the risk is; the daemon around it; the
way of a bundle from the tree to the node; the schedule of the loop; the node's
files and the bundle format; the key files; the abstract specification of the
agent and two refinements of it; and a proof of every safety property of the
passing runs. What is left:

1. The middle between `AgentApply` and `AgentDaemon`: that a cycle of the first
   is an apply of the second, so that what is proved of the app holds above the
   apply as it is, step by step.
2. `Publish` and `NodeFiles` as implementations of one abstract specification of
   delivery (what is applied is what some round read in the files).
3. Safety below the liveness properties, such as how many rounds a value that
   the files no longer ask for can still be put.

## 8. Running

In this directory, with the TLA+ tools and the community modules:

    tlc -workers 2 -config MCAgentApply.cfg MCAgentApply
    tlapm AgentApplyProofs.tla

The runs and their configurations are listed in `PROJECT.json`. Each takes one
to two minutes at most, each proof module about as long.
