------------------------------ MODULE KeyFiles ------------------------------
(***************************************************************************)
(* The two places where a key pair is made on first use: `stunmesh-provd   *)
(* init` makes controller.key and controller.pub of a namespace, file by   *)
(* file with store.WriteFile; `stunmesh-agent keygen` makes identity.key   *)
(* of a node, with a synced temporary file and a hard link.  Both may run  *)
(* several times, also at once, be killed, and lose the power.             *)
(*                                                                         *)
(* An operator named X_Slip is X with a plausible slip in it.  No action   *)
(* uses one: putting it in X's place must break one of the properties.     *)
(***************************************************************************)
EXTENDS Naturals

CONSTANTS
    Initer,     \* processes of `stunmesh-provd init`, on one namespace
    Keygen,     \* processes of `stunmesh-agent keygen`, on one node
    Key,        \* key pairs; a public key stands for its pair
    Absent,     \* there is no such file
    Partial,    \* a file that does not parse as a key: empty or cut short
    MaxFaults,  \* bound: failed calls and kills
    MaxLosses   \* bound: power losses

VARIABLES
    controllerKey,  \* <namespace>/controller.key
    controllerPub,  \* <namespace>/controller.pub
    identityKey,    \* the node's identity.key
    tmp,            \* the temporary file of each keygen process
    pc,             \* what each process is about to do
    own,            \* the key each process has read or generated
    printed,        \* the key each process last printed as the one in place
    made,           \* the keys generated so far
    removed,        \* history: a complete controller.key was taken away again,
                    \* by a failing chmod or a power loss
    lost,           \* history: a power loss took a linked identity.key
    faults,         \* faults so far (bounded)
    losses          \* power losses so far (bounded)

files == <<controllerKey, controllerPub, identityKey, tmp>>
vars == <<files, pc, own, printed, made, removed, lost, faults, losses>>

-----------------------------------------------------------------------------
(* Data.                                                                   *)

Proc == Initer \cup Keygen

\* A file: its text, and how much of it survives a power loss: nothing, its
\* data but not its directory entry, or all of it.
File == [text : Key \cup {Absent, Partial}, safe : {"nothing", "data", "all"}]

NoFile == [text |-> Absent, safe |-> "all"]
Created == [text |-> Partial, safe |-> "nothing"]
Written(k) == [text |-> k, safe |-> "nothing"]

PC == {"off", "readControllerKey", "createKey", "writeKey", "chmodKey",
       "createPub", "writePub", "chmodPub", "load", "writeTemp", "sync", "link"}

\* Where a process has a key to write, or has written it.
Writing == {"createKey", "writeKey", "chmodKey", "createPub", "writePub",
            "chmodPub", "writeTemp", "sync", "link"}

ASSUME ConstantsAssumption ==
    /\ Initer \cap Keygen = {}
    /\ Absent \notin Key /\ Partial \notin Key /\ Absent # Partial
    /\ MaxFaults \in Nat /\ MaxLosses \in Nat

-----------------------------------------------------------------------------
Init ==
    /\ controllerKey = NoFile /\ controllerPub = NoFile /\ identityKey = NoFile
    /\ tmp = [p \in Keygen |-> NoFile]
    /\ pc = [p \in Proc |-> "off"]
    /\ own = [p \in Proc |-> Absent]
    /\ printed = [p \in Proc |-> Absent]
    /\ made = {}
    /\ removed = FALSE
    /\ lost = FALSE
    /\ faults = 0
    /\ losses = 0

Fault == faults < MaxFaults /\ faults' = faults + 1

Goto(p, l) == pc' = [pc EXCEPT ![p] = l]

\* The process prints its key and ends well.
Report(p, k) ==
    /\ printed' = [printed EXCEPT ![p] = k]
    /\ Goto(p, "off")

\* The command is run (again).
Run(p) ==
    /\ pc[p] = "off"
    /\ Goto(p, IF p \in Initer THEN "readControllerKey" ELSE "load")
    /\ own' = [own EXCEPT ![p] = Absent]
    /\ UNCHANGED <<files, printed, made, removed, lost, faults, losses>>

\* crypto.Keygen, then on to l.
Generate(p, l) ==
    /\ \E k \in Key \ made : /\ own' = [own EXCEPT ![p] = k]
                             /\ made' = made \cup {k}
    /\ Goto(p, l)

-----------------------------------------------------------------------------
(* ensureControllerKeyPair.                                                *)

\* A file cannot be read, or not be opened for a reason of its own.
OpenFails(p) ==
    /\ pc[p] \in {"readControllerKey", "createKey", "createPub", "load"}
    /\ Fault
    /\ Goto(p, "off")
    /\ UNCHANGED <<files, own, printed, made, removed, lost, losses>>

readControllerKey_Slip(p) ==
    /\ pc[p] = "readControllerKey"
    /\ \/ /\ controllerKey.text = Absent
          /\ Generate(p, "createKey")
       \/ /\ controllerKey.text # Absent
          /\ Goto(p, "createPub")
          /\ UNCHANGED <<own, made>>
    /\ UNCHANGED <<files, printed, removed, lost, faults, losses>>

\* A key in place is used, a missing one is generated, and a file that does
\* not parse ends the run.
readControllerKey(p) ==
    /\ pc[p] = "readControllerKey"
    /\ \/ /\ controllerKey.text = Absent
          /\ Generate(p, "createKey")
       \/ /\ controllerKey.text \in Key
          /\ own' = [own EXCEPT ![p] = controllerKey.text]
          /\ Goto(p, "createPub")
          /\ UNCHANGED made
       \/ /\ controllerKey.text = Partial
          /\ Goto(p, "off")
          /\ UNCHANGED <<own, made>>
    /\ UNCHANGED <<files, printed, removed, lost, faults, losses>>

createKey_Slip(p) ==
    /\ pc[p] = "createKey"
    /\ IF controllerKey.text = Absent
       THEN controllerKey' = Created /\ Goto(p, "writeKey")
       ELSE Goto(p, "createPub") /\ UNCHANGED controllerKey
    /\ UNCHANGED <<controllerPub, identityKey, tmp, own, printed, made,
                   removed, lost, faults, losses>>

\* store.WriteFile(controller.key), open with O_EXCL: the loser of a race
\* fails and drops the key it generated.
createKey(p) ==
    /\ pc[p] = "createKey"
    /\ IF controllerKey.text = Absent
       THEN controllerKey' = Created /\ Goto(p, "writeKey")
       ELSE Goto(p, "off") /\ UNCHANGED controllerKey
    /\ UNCHANGED <<controllerPub, identityKey, tmp, own, printed, made,
                   removed, lost, faults, losses>>

writeKey(p) ==
    /\ pc[p] = "writeKey"
    /\ controllerKey' = Written(own[p])
    /\ Goto(p, "chmodKey")
    /\ UNCHANGED <<controllerPub, identityKey, tmp, own, printed, made,
                   removed, lost, faults, losses>>

chmodKey(p) ==
    /\ pc[p] = "chmodKey"
    /\ Goto(p, "createPub")
    /\ UNCHANGED <<files, own, printed, made, removed, lost, faults, losses>>

\* write, close or chmod fails: WriteFile removes what it created.
WriteKeyFails(p) ==
    /\ pc[p] \in {"writeKey", "chmodKey"}
    /\ Fault
    /\ controllerKey' = NoFile
    /\ removed' = (removed \/ pc[p] = "chmodKey")
    /\ Goto(p, "off")
    /\ UNCHANGED <<controllerPub, identityKey, tmp, own, printed, made, lost,
                   losses>>

\* store.WriteFile(controller.pub), open: ErrExists is calm here.
createPub(p) ==
    /\ pc[p] = "createPub"
    /\ IF controllerPub.text = Absent
       THEN controllerPub' = Created /\ Goto(p, "writePub") /\ UNCHANGED printed
       ELSE Report(p, own[p]) /\ UNCHANGED controllerPub
    /\ UNCHANGED <<controllerKey, identityKey, tmp, own, made, removed, lost,
                   faults, losses>>

writePub(p) ==
    /\ pc[p] = "writePub"
    /\ controllerPub' = Written(own[p])
    /\ Goto(p, "chmodPub")
    /\ UNCHANGED <<controllerKey, identityKey, tmp, own, printed, made,
                   removed, lost, faults, losses>>

chmodPub(p) ==
    /\ pc[p] = "chmodPub"
    /\ Report(p, own[p])
    /\ UNCHANGED <<files, own, made, removed, lost, faults, losses>>

WritePubFails(p) ==
    /\ pc[p] \in {"writePub", "chmodPub"}
    /\ Fault
    /\ controllerPub' = NoFile
    /\ Goto(p, "off")
    /\ UNCHANGED <<controllerKey, identityKey, tmp, own, printed, made,
                   removed, lost, losses>>

-----------------------------------------------------------------------------
(* loadOrCreateIdentityKey.                                                *)

\* A key in place is used, a missing one is generated into a new temporary
\* file, and a file that does not parse ends the run.
loadOrCreateIdentityKey(p) ==
    /\ pc[p] = "load"
    /\ \/ /\ identityKey.text = Absent
          /\ Generate(p, "writeTemp")
          /\ tmp' = [tmp EXCEPT ![p] = Created]
          /\ UNCHANGED printed
       \/ /\ identityKey.text \in Key
          /\ Report(p, identityKey.text)
          /\ UNCHANGED <<tmp, own, made>>
       \/ /\ identityKey.text = Partial
          /\ Goto(p, "off")
          /\ UNCHANGED <<tmp, own, printed, made>>
    /\ UNCHANGED <<controllerKey, controllerPub, identityKey, removed, lost,
                   faults, losses>>

writeTemp_Slip(p) ==
    /\ pc[p] = "writeTemp"
    /\ tmp' = [tmp EXCEPT ![p] = Written(own[p])]
    /\ Goto(p, "link")
    /\ UNCHANGED <<controllerKey, controllerPub, identityKey, own, printed,
                   made, removed, lost, faults, losses>>

writeTemp(p) ==
    /\ pc[p] = "writeTemp"
    /\ tmp' = [tmp EXCEPT ![p] = Written(own[p])]
    /\ Goto(p, "sync")
    /\ UNCHANGED <<controllerKey, controllerPub, identityKey, own, printed,
                   made, removed, lost, faults, losses>>

syncTemp(p) ==
    /\ pc[p] = "sync"
    /\ tmp' = [tmp EXCEPT ![p].safe = "data"]
    /\ Goto(p, "link")
    /\ UNCHANGED <<controllerKey, controllerPub, identityKey, own, printed,
                   made, removed, lost, faults, losses>>

linkIdentityKey_Slip(p) ==
    /\ pc[p] = "link"
    /\ identityKey' = tmp[p]
    /\ Report(p, own[p])
    /\ tmp' = [tmp EXCEPT ![p] = NoFile]
    /\ UNCHANGED <<controllerKey, controllerPub, own, made, removed, lost,
                   faults, losses>>

\* os.Link fails when identity.key is there; the temporary file goes.
linkIdentityKey(p) ==
    /\ pc[p] = "link"
    /\ IF identityKey.text = Absent
       THEN identityKey' = tmp[p] /\ Report(p, own[p])
       ELSE Goto(p, "off") /\ UNCHANGED <<identityKey, printed>>
    /\ tmp' = [tmp EXCEPT ![p] = NoFile]
    /\ UNCHANGED <<controllerKey, controllerPub, own, made, removed, lost,
                   faults, losses>>

\* A call of writeIdentityKeyAtomic before the link, or the link, fails.
KeygenFails(p) ==
    /\ pc[p] \in {"writeTemp", "sync", "link"}
    /\ Fault
    /\ tmp' = [tmp EXCEPT ![p] = NoFile]
    /\ Goto(p, "off")
    /\ UNCHANGED <<controllerKey, controllerPub, identityKey, own, printed,
                   made, removed, lost, losses>>

-----------------------------------------------------------------------------
(* The end of a process, and of all of them.                               *)

\* The process is killed: its files stay as they are (a temporary one too,
\* under a name that no later run uses).
Kill(p) ==
    /\ pc[p] # "off"
    /\ Fault
    /\ Goto(p, "off")
    /\ tmp' = [q \in Keygen |-> IF q = p THEN NoFile ELSE tmp[q]]
    /\ UNCHANGED <<controllerKey, controllerPub, identityKey, own, printed,
                   made, removed, lost, losses>>

\* The kernel writes everything back in its own time.
Stored(f) == [f EXCEPT !.safe = "all"]
Writeback ==
    /\ {controllerKey.safe, controllerPub.safe, identityKey.safe} # {"all"}
    /\ controllerKey' = Stored(controllerKey)
    /\ controllerPub' = Stored(controllerPub)
    /\ identityKey' = Stored(identityKey)
    /\ UNCHANGED <<tmp, pc, own, printed, made, removed, lost, faults, losses>>

\* What a power loss may leave of file f.
Remains(f) ==
    {Stored([f EXCEPT !.text = t]) :
        t \in {f.text} \cup (IF f.safe = "all" THEN {} ELSE {Absent})
                       \cup (IF f.safe = "nothing" THEN {Partial} ELSE {})}

\* A power loss turns f into g, and a complete key is gone.
Loses(f, g) == f.text \in Key /\ g.text # f.text

PowerLossController ==
    /\ losses < MaxLosses /\ losses' = losses + 1
    /\ controllerKey' \in Remains(controllerKey)
    /\ controllerPub' \in Remains(controllerPub)
    /\ removed' = (removed \/ Loses(controllerKey, controllerKey'))
    /\ pc' = [p \in Proc |-> IF p \in Initer THEN "off" ELSE pc[p]]
    /\ UNCHANGED <<identityKey, tmp, own, printed, made, lost, faults>>

PowerLossNode ==
    /\ losses < MaxLosses /\ losses' = losses + 1
    /\ identityKey' \in Remains(identityKey)
    /\ lost' = (lost \/ Loses(identityKey, identityKey'))
    /\ tmp' = [p \in Keygen |-> NoFile]
    /\ pc' = [p \in Proc |-> IF p \in Keygen THEN "off" ELSE pc[p]]
    /\ UNCHANGED <<controllerKey, controllerPub, own, printed, made, removed,
                   faults>>

-----------------------------------------------------------------------------
InitStep(p) ==
    \/ readControllerKey(p)
    \/ createKey(p) \/ writeKey(p) \/ chmodKey(p) \/ WriteKeyFails(p)
    \/ createPub(p) \/ writePub(p) \/ chmodPub(p) \/ WritePubFails(p)

KeygenStep(p) ==
    \/ loadOrCreateIdentityKey(p) \/ writeTemp(p) \/ syncTemp(p)
    \/ linkIdentityKey(p) \/ KeygenFails(p)

Next ==
    \/ \E p \in Initer : InitStep(p)
    \/ \E p \in Keygen : KeygenStep(p)
    \/ \E p \in Proc : Run(p) \/ OpenFails(p) \/ Kill(p)
    \/ Writeback
    \/ PowerLossController
    \/ PowerLossNode

Spec == Init /\ [][Next]_vars

-----------------------------------------------------------------------------
(* Properties.                                                             *)

\* Type invariant of every variable of the two commands; a process that is to
\* write a key has one.
TypeOK ==
    /\ controllerKey \in File /\ controllerPub \in File /\ identityKey \in File
    /\ tmp \in [Keygen -> File]
    /\ pc \in [Proc -> PC]
    /\ \A p \in Proc : pc[p] \in Writing => own[p] \in Key
    /\ own \in [Proc -> Key \cup {Absent}]
    /\ printed \in [Proc -> Key \cup {Absent}]
    /\ made \subseteq Key
    /\ removed \in BOOLEAN /\ lost \in BOOLEAN
    /\ faults \in 0..MaxFaults
    /\ losses \in 0..MaxLosses

\* Two complete controller files are a pair, whatever init processes raced,
\* were killed while they wrote them or lost the power, as long as no complete
\* controller.key was taken away again, by a failing chmod or by a power loss
\* before the kernel had written it back: the loser of a race for
\* controller.key never gets to write controller.pub.
ControllerPairMatches ==
    ~removed =>
        (controllerPub.text \in Key => controllerKey.text = controllerPub.text)

\* The public key a run of init or keygen printed -- the one the operator
\* hands out, or pipes into `node add` -- is that of the private key in place,
\* then and after every later run, with two exceptions: neither command waits
\* until the file and its directory entry are on disk, so a power loss may take
\* a key that was printed; and an init may print a key that another init still
\* writes, and removes when its chmod fails.
PrintedKeyIsInPlace ==
    /\ ~removed => \A p \in Initer :
        printed[p] # Absent => controllerKey.text = printed[p]
    /\ ~lost => \A p \in Keygen :
        printed[p] # Absent => identityKey.text = printed[p]

\* identity.key is absent or complete at any moment, whatever process was
\* killed and whenever the power went.
IdentityNeverPartial == identityKey.text # Partial

\* init_cmd.go says of the pair "a re-run after a partial failure cannot
\* produce a mismatched pair": an init that ran alone and ended well leaves
\* controller.pub with the public key of controller.key.
RerunMatches ==
    losses = 0 /\ (\A q \in Proc : pc[q] = "off") =>
        \A p \in Initer :
            printed[p] # Absent /\ printed[p] = controllerKey.text =>
                controllerPub.text = printed[p]

\* keygen_cmd.go: "running keygen twice never changes the node's identity".
RerunKeepsIdentity ==
    \A p, q \in Keygen :
        printed[p] # Absent /\ printed[q] # Absent => printed[p] = printed[q]

-----------------------------------------------------------------------------
(* Inductive invariants of the proofs in KeyFilesProofs.                   *)

\* Only a synced and complete temporary file is ever linked to identity.key,
\* which is never replaced.
IdentityInv ==
    /\ identityKey.text # Partial /\ identityKey.safe # "nothing"
    /\ \A p \in Keygen :
        /\ pc[p] \in {"sync", "link"} => tmp[p].text = own[p]
        /\ pc[p] = "link" => tmp[p].safe = "data"
        /\ ~lost /\ printed[p] # Absent => identityKey.text = printed[p]

\* One process at a time writes controller.key; from then on it is the key of
\* every process that goes on to controller.pub.
PairInv ==
    ~removed =>
        /\ controllerPub.text \in Key => controllerKey.text = controllerPub.text
        /\ \A p \in Initer :
            /\ pc[p] = "writeKey" =>
                /\ controllerKey.text = Partial
                /\ \A q \in Initer : pc[q] = "writeKey" => q = p
            /\ pc[p] \in {"chmodKey", "createPub", "writePub", "chmodPub"} =>
                controllerKey.text = own[p]
            /\ printed[p] # Absent => controllerKey.text = printed[p]
=============================================================================
