----------------------------- MODULE NodeFiles -----------------------------
(***************************************************************************)
(* The files of one node in the controller's tree, from `stunmesh-provd    *)
(* node add` and the operator's editor through the rounds of the republish *)
(* loop, which read them one after another while they change, to the       *)
(* bundle the agent decodes, applies and records.  Puts, caches and        *)
(* proxies are module Publish, the steps of an apply are AgentApply.       *)
(*                                                                         *)
(* An operator named X_Slip is X with a plausible slip in it.  No action   *)
(* uses one: putting it in X's place must break one of the properties.     *)
(***************************************************************************)
EXTENDS BundleFormat, Naturals

CONSTANTS
    Absent,     \* there is no such file
    None,       \* nothing
    Identity,   \* identity keys
    NodeKey,    \* the identity key the node really has
    WGText,     \* what a wg.yaml of the operator may hold
    Drafts,     \* what he may write into it while the loop runs
    Stunmesh,   \* what the operator may write into stunmesh.yaml
    Trees       \* the files to start with, none or those of a node in use, and
                \* a bound: edits, runs of `node add`, kills and failed writes

VARIABLES
    file,       \* the node's three files
    editor,     \* the file an editor has truncated and is about to write
    add,        \* the `node add` under way, or None
    reader,     \* what the round under way has read so far, or None
    published,  \* the newest bundle in the DHT, or None
    last,       \* the node's last.json: the content it applied last
    mine,       \* history: the text the operator saved last in each file
    saved,      \* history: every wg.yaml the operator saved
    left        \* edits, runs of `node add` and faults left (bounded)

vars == <<file, editor, add, reader, published, last, mine, saved, left>>

-----------------------------------------------------------------------------
(* Data.                                                                   *)

File == {"identity.pub", "wg.yaml", "stunmesh.yaml"}

Text(f) == CASE f = "identity.pub" -> Identity
             [] f = "wg.yaml" -> WGText
             [] f = "stunmesh.yaml" -> Stunmesh

Draft(f) == IF f = "wg.yaml" THEN Drafts ELSE Text(f)

\* In the order runNodeAdd writes them, and what it writes.
Files == <<"identity.pub", "wg.yaml", "stunmesh.yaml">>
Initial(f, k) == CASE f = "identity.pub" -> k
                   [] f = "wg.yaml" -> Template
                   [] f = "stunmesh.yaml" -> Empty

\* What each text that a wg.yaml may hold becomes: the wg section of a bundle
\* (or Rejected), and what the agent decodes and records of it.
WG == WGText \cup {Empty, Template}
Sent == [t \in WG |-> buildBundle(ToJSON(t))]
AgentParses == [t \in WG |-> Sent[t] # Rejected /\ Parses(AgentInt, Sent[t])
                                /\ Validate(Parse(Sent[t]))]
Received == [t \in WG |-> IF AgentParses[t] THEN Parse(Sent[t]) ELSE Rejected]
Recorded == [t \in WG |-> IF AgentParses[t] THEN MarshalJSON(Received[t])
                          ELSE Rejected]

\* What any file may hold, and what an editor, a `node add`, a round of the
\* loop and the DHT hold.
Texts == Identity \cup WG \cup Stunmesh \cup {Absent}
Editing == [file : File, text : Texts]
Adding == [key : Identity, at : {"create", "write"}, n : 1..3]
Round == [to : Identity, wg : WG \cup {None}]
Bundle == [to : Identity, wg : WG, stunmesh : Stunmesh, timestamp : {1, 2}]

ASSUME ConstantsAssumption ==
    /\ NodeKey \in Identity
    /\ {Empty, Template} \cap (Identity \cup {Absent}) = {}
    /\ Absent \notin Identity \cup WGText \cup Stunmesh
    /\ None \notin File /\ None \notin Texts
    /\ None \notin Editing /\ None \notin Adding
    /\ None \notin Round /\ None \notin Bundle
    /\ Empty \in Stunmesh
    /\ NoInterfaces \in WGText \ {Empty, Template}
    /\ DOMAIN Document = WGText /\ Drafts \subseteq WGText
    /\ \A t \in Trees : /\ t.file \in [File -> Texts]
                        /\ \A f \in File : t.file[f] \in Text(f) \cup {Absent}
                        /\ t.events \in Nat
    /\ Size \in [Stunmesh -> Nat]

-----------------------------------------------------------------------------
Init ==
    /\ \E tree \in Trees : file = tree.file /\ left = tree.events
    /\ editor = None
    /\ add = None
    /\ reader = None
    /\ published = None
    /\ last = [wg |-> NoInterfaces, stunmesh |-> Empty]
    /\ mine = [f \in File |-> IF file[f] = Absent THEN None ELSE file[f]]
    /\ saved = {file["wg.yaml"]} \ {Absent}

Event == left > 0 /\ left' = left - 1

-----------------------------------------------------------------------------
(* stunmesh-provd node add.                                                *)

\* The file that is created but not written yet.
BeingWritten == IF add # None /\ add.at = "write" THEN Files[add.n] ELSE None

runNodeAdd(k) ==
    /\ add = None
    /\ Event
    /\ add' = [key |-> k, at |-> "create", n |-> 1]
    /\ UNCHANGED <<file, editor, reader, published, last, mine, saved>>

\* On to the next file, or the end.
NextFile == IF add.n < 3 THEN [key |-> add.key, at |-> "create", n |-> add.n + 1]
            ELSE None

createFile_Slip ==
    /\ add # None /\ add.at = "create"
    /\ file' = [file EXCEPT ![Files[add.n]] = Empty]
    /\ add' = [add EXCEPT !.at = "write"]
    /\ UNCHANGED <<editor, reader, published, last, mine, saved, left>>

\* store.WriteFile opens with O_EXCL: a file that is there is left alone.
createFile ==
    /\ add # None /\ add.at = "create"
    /\ IF file[Files[add.n]] = Absent
       THEN /\ file' = [file EXCEPT ![Files[add.n]] = Empty]
            /\ add' = [add EXCEPT !.at = "write"]
       ELSE add' = NextFile /\ UNCHANGED file
    /\ UNCHANGED <<editor, reader, published, last, mine, saved, left>>

writeFile ==
    /\ BeingWritten # None
    /\ file' = [file EXCEPT ![BeingWritten] = Initial(BeingWritten, add.key)]
    /\ add' = NextFile
    /\ UNCHANGED <<editor, reader, published, last, mine, saved, left>>

\* A failed write removes the file and ends the run.
WriteFails ==
    /\ BeingWritten # None
    /\ Event
    /\ file' = [file EXCEPT ![BeingWritten] = Absent]
    /\ add' = None
    /\ UNCHANGED <<editor, reader, published, last, mine, saved>>

\* `node add` is killed, or an open fails.
Kill ==
    /\ add # None
    /\ Event
    /\ add' = None
    /\ UNCHANGED <<file, editor, reader, published, last, mine, saved>>

-----------------------------------------------------------------------------
(* The operator, with an editor that truncates a file and writes it.  He   *)
(* leaves a file alone that `node add` is just writing.                    *)

Truncate(f, t) ==
    /\ editor = None /\ f # BeingWritten
    /\ Event
    /\ t # file[f]
    /\ file' = [file EXCEPT ![f] = Empty]
    /\ editor' = [file |-> f, text |-> t]
    /\ UNCHANGED <<add, reader, published, last, mine, saved>>

Save ==
    /\ editor # None
    /\ file' = [file EXCEPT ![editor.file] = editor.text]
    /\ mine' = [mine EXCEPT ![editor.file] = editor.text]
    /\ saved' = IF editor.file = "wg.yaml" THEN saved \cup {editor.text} ELSE saved
    /\ editor' = None
    /\ UNCHANGED <<add, reader, published, last, left>>

-----------------------------------------------------------------------------
(* prepareNode and sealAndPutNode: a round of the loop, or `publish        *)
(* --once`, for this node.  A step that finds an error ends the round.     *)

\* store.ReadNode: identity.pub first, which must hold a key,
readIdentity ==
    /\ reader = None
    /\ file["identity.pub"] \in Identity
    /\ reader' = [to |-> file["identity.pub"], wg |-> None]
    /\ UNCHANGED <<file, editor, add, published, last, mine, saved, left>>

readWG_Slip ==
    /\ reader # None /\ reader.wg = None
    /\ reader' = [reader EXCEPT !.wg = file["wg.yaml"]]
    /\ UNCHANGED <<file, editor, add, published, last, mine, saved, left>>

\* then wg.yaml, which must convert to JSON,
readWG ==
    /\ reader # None /\ reader.wg = None
    /\ reader' = IF file["wg.yaml"] = Absent \/ ToJSON(file["wg.yaml"]) = Rejected
                 THEN None
                 ELSE [reader EXCEPT !.wg = file["wg.yaml"]]
    /\ UNCHANGED <<file, editor, add, published, last, mine, saved, left>>

\* Another second than that of the bundle before.
Now == IF published = None THEN 1 ELSE 3 - published.timestamp

\* then stunmesh.yaml, in which anything goes; buildBundle, seal and put.
publishNode ==
    /\ reader # None /\ reader.wg # None
    /\ LET stunmesh == file["stunmesh.yaml"]
       IN  IF stunmesh # Absent /\ Sent[reader.wg] # Rejected /\ Fits(stunmesh)
           THEN published' = [to |-> reader.to, wg |-> reader.wg,
                              stunmesh |-> stunmesh, timestamp |-> Now]
           ELSE UNCHANGED published
    /\ reader' = None
    /\ UNCHANGED <<file, editor, add, last, mine, saved, left>>

-----------------------------------------------------------------------------
(* The node.                                                               *)

sameContent_Slip ==
    MarshalJSON(Parse(Recorded[last.wg])) = MarshalJSON(Received[published.wg])

\* The bundle of last.json has the content of the published bundle.
sameContent ==
    Equal([wg |-> Parse(Recorded[last.wg]), stunmesh |-> last.stunmesh,
           timestamp |-> 0],
          [wg |-> Received[published.wg], stunmesh |-> published.stunmesh,
           timestamp |-> published.timestamp])

\* A cycle of the agent finds the bundle, which opens with its key, parses and
\* validates and is not what last.json has: applied and recorded.
runFetchApply ==
    /\ published # None /\ published.to = NodeKey
    /\ AgentParses[published.wg]
    /\ ~sameContent
    /\ last' = [wg |-> published.wg, stunmesh |-> published.stunmesh]
    /\ UNCHANGED <<file, editor, add, reader, published, mine, saved, left>>

-----------------------------------------------------------------------------
Next ==
    \/ \E k \in Identity : runNodeAdd(k)
    \/ createFile \/ writeFile \/ WriteFails \/ Kill
    \/ \E f \in File : \E t \in Draft(f) : Truncate(f, t)
    \/ Save
    \/ readIdentity \/ readWG \/ publishNode
    \/ runFetchApply

Spec == Init /\ [][Next]_vars

\* A `node add` and an editor that write a file go on, rounds and cycles too.
Fairness ==
    /\ WF_vars(createFile \/ writeFile)
    /\ WF_vars(Save)
    /\ WF_vars(readIdentity) /\ WF_vars(readWG) /\ WF_vars(publishNode)
    /\ WF_vars(runFetchApply)

FairSpec == Spec /\ Fairness

-----------------------------------------------------------------------------
(* Properties.                                                             *)

\* Type invariant of the files and of those who read and write them; a round
\* only goes on with a wg.yaml that is YAML, and publishes what builds.
TypeOK ==
    /\ file \in [File -> Texts]
    /\ \A f \in File :
        file[f] \in Text(f) \cup {Absent, Empty}
                        \cup (IF f = "wg.yaml" THEN {Template} ELSE {})
    /\ editor \in Editing \cup {None}
    /\ editor # None => editor.text \in Text(editor.file)
    /\ add \in Adding \cup {None}
    /\ reader \in Round \cup {None}
    /\ reader # None /\ reader.wg # None => ToJSON(reader.wg) # Rejected
    /\ published \in Bundle \cup {None}
    /\ last \in [wg : WG, stunmesh : Stunmesh]
    /\ mine \in [File -> Texts \cup {None}]
    /\ \A f \in File : mine[f] \in Text(f) \cup {None}
    /\ saved \subseteq WGText
    /\ left \in Nat

\* What the operator saved stays until he writes again: no run of `node add`,
\* also one after a kill or a failed write, or at the same time, replaces or
\* removes a file of his.
OperatorFilesKept ==
    \A f \in File :
        mine[f] # None => \/ file[f] = mine[f]
                          \/ editor # None /\ editor.file = f

\* A node's interfaces are only those of a wg.yaml its operator saved: not of
\* the template, of the empty file of a killed `node add` or of one in the
\* middle of a save -- above all, only an explicit {} removes every interface.
OnlySavedInterfaces ==
    published # None =>
        /\ published.wg \in saved
        /\ Received[published.wg] = NoInterfaces => NoInterfaces \in saved

\* "it can never publish a bundle the agent would reject", also where the int
\* of the node has 32 bits and that of the controller 64.
AgentAccepts == published # None => AgentParses[published.wg]

\* What the agent configures from -- the struct that BuildInterface is given,
\* before it turns into UCI options -- is what docs/format.md says of the
\* wg.yaml the published bundle was built from: an absent key, an empty list or
\* map and an explicit false come through as such, and so do fwmark and
\* routing_table, whichever way they are written.
AgentConfiguresWhatWasWritten ==
    published # None /\ AgentParses[published.wg] =>
        Effect(Received[published.wg]) = Intended(Document[published.wg])

\* The agent takes a published bundle for what it has recorded exactly if that
\* has the same content, which is everything but the timestamp: also when the
\* record went through last.json, and however wg.yaml was spelled then and now.
SameContentIsSame ==
    published # None =>
        (sameContent <=> /\ Sent[published.wg] = Sent[last.wg]
                         /\ published.stunmesh = last.stunmesh)

\* The value that is put fits the DHT value limit, which buildBundle cannot
\* measure yet.
ValueFits == published # None => ValueSize(published.stunmesh) <= maxDHTValueSize

\* The files name the node's key and build.
Settled ==
    /\ editor = None /\ file["identity.pub"] = NodeKey
    /\ file["wg.yaml"] # Absent /\ Sent[file["wg.yaml"]] # Rejected
    /\ file["stunmesh.yaml"] # Absent /\ Fits(file["stunmesh.yaml"])

\* Once the operator rests, the node has what the files say, whatever mixture
\* of old and new files, or truncated file, a round read before; and then it
\* is left alone, although every `publish --once` has a new timestamp.
Delivered ==
    <>[](Settled =>
            /\ last.stunmesh = file["stunmesh.yaml"]
            /\ Effect(Parse(Recorded[last.wg])) = Intended(Document[file["wg.yaml"]])
            /\ published # None /\ published.to = NodeKey /\ sameContent)

-----------------------------------------------------------------------------
(* Inductive invariants of the proofs in NodeFilesProofs.                  *)

\* A file in the middle of a save is there, and empty; one that `node add` is
\* writing is not the operator's.
KeepInv ==
    /\ OperatorFilesKept
    /\ editor # None => file[editor.file] = Empty
    /\ BeingWritten # None =>
        /\ mine[BeingWritten] = None
        /\ editor # None => editor.file # BeingWritten

\* What a round reads in wg.yaml was saved, or builds no bundle; what it
\* publishes was saved, builds one and fits.
SavedInv ==
    /\ file["wg.yaml"] \in saved \cup {Absent, Empty, Template}
    /\ reader # None /\ reader.wg # None =>
        reader.wg \in saved \cup {Empty, Template}
    /\ published # None =>
        /\ published.wg \in saved
        /\ Sent[published.wg] # Rejected
        /\ Fits(published.stunmesh)

\* What last.json records was accepted.
LastInv == AgentParses[last.wg]
=============================================================================
