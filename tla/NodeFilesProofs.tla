-------------------------- MODULE NodeFilesProofs --------------------------
(***************************************************************************)
(* Type correctness and the safety invariants of NodeFiles, for any keys,  *)
(* texts and documents, and any number of edits, runs and faults.          *)
(*                                                                         *)
(* Two inductive invariants.  KeepInv: `node add` only has a file in its   *)
(* hands that was not there, so none of the operator's.  SavedInv: what a  *)
(* round reads in wg.yaml was saved or builds no bundle.  What the agent   *)
(* makes of a bundle that was built is theorem BuiltBundle; LastInv, that  *)
(* the record was such a bundle, makes the comparison with it exact.       *)
(***************************************************************************)
EXTENDS NodeFiles, BundleFormatProofs

-----------------------------------------------------------------------------
(* Data.                                                                   *)

\* The files `node add` writes and what it writes into them.
LEMMA FilesType ==
    /\ \A n \in 1..3 : Files[n] \in File
    /\ \A f \in File : Text(f) \subseteq Texts /\ Draft(f) \subseteq Text(f)
    /\ \A f \in File : Absent \notin Text(f) /\ f # None
    /\ Text("wg.yaml") = WGText /\ Text("stunmesh.yaml") = Stunmesh
    /\ Text("identity.pub") = Identity
    /\ Empty \in Texts /\ Template \in Texts /\ Absent \in Texts
<1>1. Text("wg.yaml") = WGText /\ Text("stunmesh.yaml") = Stunmesh
      /\ Text("identity.pub") = Identity
  BY DEF Text
<1>2. Draft("wg.yaml") = Drafts /\ Draft("stunmesh.yaml") = Stunmesh
      /\ Draft("identity.pub") = Identity
  BY <1>1 DEF Draft
<1>3. Drafts \subseteq WGText
  BY ConstantsAssumption
<1>4. Absent \notin Identity \cup WGText \cup Stunmesh /\ None \notin File
  BY ConstantsAssumption
<1>5. \A n \in 1..3 : Files[n] \in File
  BY DEF Files, File
<1>6. Identity \subseteq Texts /\ WGText \subseteq Texts /\ Stunmesh \subseteq Texts
      /\ Empty \in Texts /\ Template \in Texts /\ Absent \in Texts
  BY DEF Texts, WG
<1>7. ASSUME NEW f \in File
      PROVE  f = "wg.yaml" \/ f = "stunmesh.yaml" \/ f = "identity.pub"
  BY DEF File
<1>8. \A f \in File : Text(f) \subseteq Texts /\ Draft(f) \subseteq Text(f)
  BY <1>1, <1>2, <1>3, <1>6, <1>7
<1>9. \A f \in File : Absent \notin Text(f) /\ f # None
  BY <1>1, <1>4, <1>7
<1> QED
  BY <1>1, <1>5, <1>6, <1>8, <1>9

\* What file f may hold.
MayHold(f) == Text(f) \cup {Absent, Empty}
                  \cup (IF f = "wg.yaml" THEN {Template} ELSE {})

LEMMA MayHoldType ==
    /\ \A f \in File : /\ Text(f) \subseteq MayHold(f) /\ MayHold(f) \subseteq Texts
                       /\ Empty \in MayHold(f) /\ Absent \in MayHold(f)
                       /\ \A k \in Identity : Initial(f, k) \in MayHold(f)
    /\ MayHold("wg.yaml") = WG \cup {Absent}
    /\ MayHold("stunmesh.yaml") = Stunmesh \cup {Absent}
<1>1. \A f \in File : /\ Text(f) \subseteq MayHold(f)
                      /\ Empty \in MayHold(f) /\ Absent \in MayHold(f)
  BY DEF MayHold
<1>2. \A f \in File : MayHold(f) \subseteq Texts
  BY FilesType DEF MayHold
<1>3. MayHold("wg.yaml") = WG \cup {Absent}
  BY FilesType DEF MayHold, WG
<1>4. MayHold("stunmesh.yaml") = Stunmesh \cup {Absent}
  <2>1. Empty \in Stunmesh
    BY ConstantsAssumption
  <2> QED
    BY <2>1, FilesType DEF MayHold
<1>5. ASSUME NEW f \in File, NEW k \in Identity
      PROVE  Initial(f, k) \in MayHold(f)
  BY FilesType DEF Initial, MayHold, File
<1> QED
  BY <1>1, <1>2, <1>3, <1>4, <1>5

\* `node add` before it writes file n, and the file it is writing.
LEMMA AddingFacts ==
    ASSUME TypeOK, add # None
    PROVE  /\ add \in Adding /\ add.n \in 1..3 /\ add.key \in Identity
           /\ Files[add.n] \in File
           /\ NextFile \in Adding \cup {None}
           /\ NextFile # None => NextFile.at = "create"
           /\ BeingWritten # None => BeingWritten = Files[add.n]
<1>1. add \in Adding
  BY DEF TypeOK
<1>2. add.n \in 1..3 /\ add.key \in Identity
  BY <1>1 DEF Adding
<1>3. add.n < 3 => add.n + 1 \in 1..3
  BY <1>2
<1>4. NextFile \in Adding \cup {None}
  BY <1>2, <1>3 DEF NextFile, Adding
<1>5. NextFile # None => NextFile.at = "create"
  BY DEF NextFile
<1>6. BeingWritten # None => BeingWritten = Files[add.n]
  BY DEF BeingWritten
<1> QED
  BY <1>1, <1>2, <1>3, <1>4, <1>5, <1>6, FilesType

-----------------------------------------------------------------------------
(* TypeOK.                                                                 *)

\* A step that gives one file a text it may hold, and leaves the rest.
LEMMA FileType ==
    ASSUME TypeOK, NEW f \in File, NEW t \in MayHold(f),
           file' = [file EXCEPT ![f] = t]
    PROVE  /\ file' \in [File -> Texts]
           /\ \A g \in File : file'[g] \in MayHold(g)
<1>1. file \in [File -> Texts] /\ \A g \in File : file[g] \in MayHold(g)
  BY DEF TypeOK, MayHold
<1>2. t \in Texts
  BY MayHoldType
<1> QED
  BY <1>1, <1>2

\* The parts of TypeOK, by who writes them.
FilesOK == /\ file \in [File -> Texts]
           /\ \A f \in File : file[f] \in MayHold(f)
EditorOK == /\ editor \in Editing \cup {None}
            /\ editor # None => editor.text \in Text(editor.file)
AddOK == add \in Adding \cup {None}
ReaderOK == /\ reader \in Round \cup {None}
            /\ reader # None /\ reader.wg # None => ToJSON(reader.wg) # Rejected
PublishedOK == published \in Bundle \cup {None}
LastOK == last \in [wg : WG, stunmesh : Stunmesh]
HistoryOK == /\ mine \in [File -> Texts \cup {None}]
             /\ \A f \in File : mine[f] \in Text(f) \cup {None}
             /\ saved \subseteq WGText

Parts == /\ FilesOK /\ EditorOK /\ AddOK /\ ReaderOK
         /\ PublishedOK /\ LastOK /\ HistoryOK /\ left \in Nat

LEMMA TypeParts == TypeOK <=> Parts
<1>1. TypeOK => FilesOK
  BY DEF TypeOK, FilesOK, MayHold
<1>2. FilesOK => /\ file \in [File -> Texts]
                 /\ \A f \in File :
                     file[f] \in Text(f) \cup {Absent, Empty}
                                     \cup (IF f = "wg.yaml" THEN {Template} ELSE {})
  BY DEF FilesOK, MayHold
<1>3. TypeOK => HistoryOK
  BY DEF TypeOK, HistoryOK
<1>4. TypeOK => /\ EditorOK /\ AddOK /\ ReaderOK
                /\ PublishedOK /\ LastOK /\ left \in Nat
  BY DEF TypeOK, EditorOK, AddOK, ReaderOK, PublishedOK, LastOK
<1>5. HistoryOK => /\ mine \in [File -> Texts \cup {None}]
                   /\ \A f \in File : mine[f] \in Text(f) \cup {None}
                   /\ saved \subseteq WGText
  BY DEF HistoryOK
<1>6. EditorOK => /\ editor \in Editing \cup {None}
                  /\ editor # None => editor.text \in Text(editor.file)
  BY DEF EditorOK
<1>7. ReaderOK => /\ reader \in Round \cup {None}
                  /\ reader # None /\ reader.wg # None => ToJSON(reader.wg) # Rejected
  BY DEF ReaderOK
<1>8. /\ AddOK => add \in Adding \cup {None}
      /\ PublishedOK => published \in Bundle \cup {None}
      /\ LastOK => last \in [wg : WG, stunmesh : Stunmesh]
  BY DEF AddOK, PublishedOK, LastOK
<1>9. Parts => TypeOK
  BY ONLY <1>2, <1>5, <1>6, <1>7, <1>8, Zenon DEF TypeOK, Parts
<1> QED
  BY <1>1, <1>3, <1>4, <1>9 DEF Parts

\* TypeOK holds in every initial state.
LEMMA TypeInit == Init => TypeOK
<1> SUFFICES ASSUME Init PROVE TypeOK
  OBVIOUS
<1>1. PICK tree \in Trees : file = tree.file /\ left = tree.events
  BY DEF Init
<1>2. /\ file \in [File -> Texts] /\ left \in Nat
      /\ \A f \in File : file[f] \in Text(f) \cup {Absent}
  BY <1>1, ConstantsAssumption
<1>3. FilesOK
  BY <1>2 DEF FilesOK, MayHold
<1>4. EditorOK /\ AddOK /\ ReaderOK /\ PublishedOK
  BY DEF Init, EditorOK, AddOK, ReaderOK, PublishedOK
<1>5. LastOK
  <2>1. NoInterfaces \in WG /\ Empty \in Stunmesh
    BY ConstantsAssumption DEF WG
  <2> QED
    BY <2>1 DEF Init, LastOK
<1>6. mine = [f \in File |-> IF file[f] = Absent THEN None ELSE file[f]]
  BY DEF Init
<1>7. \A f \in File : mine[f] \in Text(f) \cup {None}
  BY <1>2, <1>6
<1>8. mine \in [File -> Texts \cup {None}]
  BY <1>2, <1>6
<1>9. saved \subseteq WGText
  <2>1. "wg.yaml" \in File
    BY DEF File
  <2> QED
    BY <1>2, <2>1, FilesType DEF Init
<1> QED
  BY <1>2, <1>3, <1>4, <1>5, <1>7, <1>8, <1>9, TypeParts DEF HistoryOK, Parts

\* Every step preserves TypeOK.
LEMMA TypeNext == TypeOK /\ [Next]_vars => TypeOK'
<1> SUFFICES ASSUME TypeOK, [Next]_vars PROVE TypeOK'
  OBVIOUS
<1>0. /\ FilesOK /\ EditorOK /\ AddOK /\ ReaderOK
      /\ PublishedOK /\ LastOK /\ HistoryOK /\ left \in Nat
  BY TypeParts DEF Parts
<1> SUFFICES Parts'
  BY TypeParts, PTL
<1> USE DEF Parts
<1>a. ASSUME UNCHANGED file PROVE FilesOK'
  BY <1>0, <1>a DEF FilesOK
<1>b. ASSUME NEW f \in File, NEW t \in MayHold(f), file' = [file EXCEPT ![f] = t]
      PROVE  FilesOK'
  BY <1>b, FileType DEF FilesOK
<1>c. ASSUME UNCHANGED editor PROVE EditorOK'
  BY <1>0, <1>c DEF EditorOK
<1>d. ASSUME UNCHANGED reader PROVE ReaderOK'
  BY <1>0, <1>d DEF ReaderOK
<1>e. UNCHANGED add => AddOK'
  BY <1>0 DEF AddOK
<1>f. UNCHANGED published => PublishedOK'
  BY <1>0 DEF PublishedOK
<1>g. UNCHANGED last => LastOK'
  BY <1>0 DEF LastOK
<1>h. UNCHANGED <<mine, saved>> => HistoryOK'
  BY <1>0 DEF HistoryOK
<1>i. Event => left' \in Nat
  BY <1>0 DEF Event
<1>1. ASSUME NEW k \in Identity, runNodeAdd(k) PROVE Parts'
  <2>1. AddOK'
    <3>1. [key |-> k, at |-> "create", n |-> 1] \in Adding
      BY DEF Adding
    <3> QED
      BY <1>1, <3>1 DEF runNodeAdd, AddOK
  <2> QED
    BY <1>1, <1>a, <1>c, <1>d, <1>f, <1>g, <1>h, <1>i, <2>1 DEF runNodeAdd
<1>2. ASSUME createFile PROVE Parts'
  <2>1. add # None
    BY <1>2 DEF createFile
  <2>2. CASE file[Files[add.n]] = Absent
    <3>1. file' = [file EXCEPT ![Files[add.n]] = Empty]
          /\ add' = [add EXCEPT !.at = "write"]
      BY <1>2, <2>2 DEF createFile
    <3>2. Files[add.n] \in File /\ Empty \in MayHold(Files[add.n])
      BY <2>1, AddingFacts, MayHoldType
    <3>3. FilesOK'
      BY <1>b, <3>1, <3>2
    <3>4. AddOK'
      BY <2>1, <3>1, AddingFacts DEF AddOK, Adding
    <3> QED
      BY <1>2, <1>0, <1>c, <1>d, <1>f, <1>g, <1>h, <3>3, <3>4 DEF createFile
  <2>3. CASE file[Files[add.n]] # Absent
    <3>1. add' = NextFile /\ UNCHANGED file
      BY <1>2, <2>3 DEF createFile
    <3>2. AddOK'
      BY <2>1, <3>1, AddingFacts DEF AddOK
    <3> QED
      BY <1>2, <1>0, <1>a, <1>c, <1>d, <1>f, <1>g, <1>h, <3>1, <3>2 DEF createFile
  <2> QED
    BY <2>2, <2>3
<1>3. ASSUME writeFile PROVE Parts'
  <2>1. BeingWritten # None /\ add # None
    BY <1>3 DEF writeFile, BeingWritten
  <2>2. BeingWritten \in File /\ add.key \in Identity
    BY <2>1, AddingFacts
  <2>3. Initial(BeingWritten, add.key) \in MayHold(BeingWritten)
    BY <2>2, MayHoldType
  <2>4. FilesOK'
    BY <1>b, <1>3, <2>2, <2>3 DEF writeFile
  <2>5. AddOK'
    BY <1>3, <2>1, AddingFacts DEF writeFile, AddOK
  <2> QED
    BY <1>3, <1>0, <1>c, <1>d, <1>f, <1>g, <1>h, <2>4, <2>5 DEF writeFile
<1>4. ASSUME WriteFails PROVE Parts'
  <2>1. BeingWritten # None /\ add # None
    BY <1>4 DEF WriteFails, BeingWritten
  <2>2. BeingWritten \in File /\ Absent \in MayHold(BeingWritten)
    BY <2>1, AddingFacts, MayHoldType
  <2>3. FilesOK'
    BY <1>b, <1>4, <2>2 DEF WriteFails
  <2>4. AddOK'
    BY <1>4 DEF WriteFails, AddOK
  <2> QED
    BY <1>4, <1>c, <1>d, <1>f, <1>g, <1>h, <1>i, <2>3, <2>4 DEF WriteFails
<1>5. ASSUME Kill PROVE Parts'
  <2>1. AddOK'
    BY <1>5 DEF Kill, AddOK
  <2> QED
    BY <1>5, <1>a, <1>c, <1>d, <1>f, <1>g, <1>h, <1>i, <2>1 DEF Kill
<1>6. ASSUME NEW f \in File, NEW t \in Draft(f), Truncate(f, t) PROVE Parts'
  <2>1. Empty \in MayHold(f)
    BY MayHoldType
  <2>2. FilesOK'
    BY <1>6, <1>b, <2>1 DEF Truncate
  <2>3. t \in Text(f) /\ t \in Texts
    BY FilesType
  <2>4. EditorOK'
    <3>1. editor' = [file |-> f, text |-> t]
      BY <1>6 DEF Truncate
    <3> QED
      BY <2>3, <3>1 DEF EditorOK, Editing
  <2> QED
    BY <1>6, <1>d, <1>e, <1>f, <1>g, <1>h, <1>i, <2>2, <2>4 DEF Truncate
<1>7. ASSUME Save PROVE Parts'
  <2>1. /\ editor # None /\ editor.file \in File
        /\ editor.text \in Text(editor.file) /\ editor.text \in Texts
    BY <1>0, <1>7 DEF Save, EditorOK, Editing
  <2>2. FilesOK'
    BY <1>7, <1>b, <2>1, MayHoldType DEF Save
  <2>3. EditorOK'
    BY <1>7 DEF Save, EditorOK
  <2>4. HistoryOK'
    <3>1. mine' = [mine EXCEPT ![editor.file] = editor.text]
      BY <1>7 DEF Save
    <3>2. mine \in [File -> Texts \cup {None}]
          /\ \A f \in File : mine[f] \in Text(f) \cup {None}
      BY <1>0 DEF HistoryOK
    <3>3. mine' \in [File -> Texts \cup {None}]
          /\ \A f \in File : mine'[f] \in Text(f) \cup {None}
      BY <2>1, <3>1, <3>2
    <3>4. saved' \subseteq WGText
      BY <1>0, <1>7, <2>1, FilesType DEF Save, HistoryOK
    <3> QED
      BY <3>3, <3>4 DEF HistoryOK
  <2> QED
    BY <1>7, <1>0, <1>d, <1>e, <1>f, <1>g, <2>2, <2>3, <2>4 DEF Save
<1>8. ASSUME readIdentity PROVE Parts'
  <2>1. reader' = [to |-> file["identity.pub"], wg |-> None]
        /\ file["identity.pub"] \in Identity
    BY <1>8 DEF readIdentity
  <2>2. ReaderOK'
    BY <2>1 DEF ReaderOK, Round
  <2> QED
    BY <1>8, <1>0, <1>a, <1>c, <1>e, <1>f, <1>g, <1>h, <2>2 DEF readIdentity
<1>9. ASSUME readWG PROVE Parts'
  <2>1. ReaderOK'
    <3>1. CASE file["wg.yaml"] = Absent \/ ToJSON(file["wg.yaml"]) = Rejected
      BY <1>9, <3>1 DEF readWG, ReaderOK
    <3>2. CASE ~(file["wg.yaml"] = Absent \/ ToJSON(file["wg.yaml"]) = Rejected)
      <4>1. reader' = [reader EXCEPT !.wg = file["wg.yaml"]] /\ reader # None
        BY <1>9, <3>2 DEF readWG
      <4>2. "wg.yaml" \in File
        BY DEF File
      <4>3. file["wg.yaml"] \in WG
        BY <1>0, <3>2, <4>2, MayHoldType DEF FilesOK
      <4>4. reader \in Round
        BY <1>0, <4>1 DEF ReaderOK
      <4>5. reader' \in Round /\ reader'.wg = file["wg.yaml"]
        BY <4>1, <4>3, <4>4 DEF Round
      <4> QED
        BY <3>2, <4>5 DEF ReaderOK
    <3> QED
      BY <3>1, <3>2
  <2> QED
    BY <1>9, <1>0, <1>a, <1>c, <1>e, <1>f, <1>g, <1>h, <2>1 DEF readWG
<1>10. ASSUME publishNode PROVE Parts'
  <2>1. reader # None /\ reader.wg # None /\ reader' = None
    BY <1>10 DEF publishNode
  <2>2. reader.to \in Identity /\ reader.wg \in WG
    BY <1>0, <2>1 DEF ReaderOK, Round
  <2>3. Now \in {1, 2}
    BY <1>0 DEF PublishedOK, Now, Bundle
  <2>4. "stunmesh.yaml" \in File
    BY DEF File
  <2>5. PublishedOK'
    <3>1. CASE UNCHANGED published
      BY <1>f, <3>1
    <3>2. CASE /\ file["stunmesh.yaml"] # Absent
               /\ published' = [to |-> reader.to, wg |-> reader.wg,
                        stunmesh |-> file["stunmesh.yaml"], timestamp |-> Now]
      <4>1. file["stunmesh.yaml"] \in Stunmesh
        BY <1>0, <2>4, <3>2, MayHoldType DEF FilesOK
      <4> QED
        BY <2>2, <2>3, <3>2, <4>1 DEF PublishedOK, Bundle
    <3> QED
      BY <1>10, <3>1, <3>2 DEF publishNode
  <2>6. ReaderOK'
    BY <2>1 DEF ReaderOK
  <2> QED
    BY <1>10, <1>0, <1>a, <1>c, <1>e, <1>g, <1>h, <2>5, <2>6 DEF publishNode
<1>11. ASSUME runFetchApply PROVE Parts'
  <2>1. published \in Bundle
        /\ last' = [wg |-> published.wg, stunmesh |-> published.stunmesh]
    BY <1>0, <1>11 DEF runFetchApply, PublishedOK
  <2>2. LastOK'
    BY <2>1 DEF LastOK, Bundle
  <2> QED
    BY <1>11, <1>0, <1>a, <1>c, <1>d, <1>e, <1>f, <1>h, <2>2 DEF runFetchApply
<1>12. ASSUME UNCHANGED vars PROVE Parts'
  BY <1>12, <1>0, <1>a, <1>c, <1>d, <1>e, <1>f, <1>g, <1>h DEF vars
<1> QED
  BY <1>1, <1>2, <1>3, <1>4, <1>5, <1>6, <1>7, <1>8, <1>9, <1>10, <1>11, <1>12
  DEF Next

\* The files and those who read and write them are what TypeOK says.
THEOREM NodeFilesTypeCorrect == Spec => []TypeOK
<1> QED
  BY TypeInit, TypeNext, PTL DEF Spec

-----------------------------------------------------------------------------
(* OperatorFilesKept, with KeepInv.                                        *)

LEMMA KeepInit == Init => KeepInv
<1> SUFFICES ASSUME Init PROVE KeepInv
  OBVIOUS
<1>1. mine = [f \in File |-> IF file[f] = Absent THEN None ELSE file[f]]
      /\ editor = None /\ add = None
  BY DEF Init
<1>2. BeingWritten = None
  BY <1>1 DEF BeingWritten
<1> QED
  BY <1>1, <1>2 DEF KeepInv, OperatorFilesKept

\* A step of `node add` that only touches the file it is writing, or one that
\* is not there, and goes on to no file of the operator.
LEMMA AddKeeps ==
    ASSUME TypeOK, KeepInv, UNCHANGED <<editor, mine>>,
           NEW n \in File, NEW t, UNCHANGED file \/ file' = [file EXCEPT ![n] = t],
           mine[n] = None, editor # None => editor.file # n,
           BeingWritten' \in {None, n}
    PROVE  KeepInv'
<1>1. /\ file \in [File -> Texts]
      /\ editor # None => editor.file \in File
  BY DEF TypeOK, Editing
<1>2. \A f \in File : f # n => file'[f] = file[f]
  BY <1>1
<1>3. OperatorFilesKept'
  BY <1>2 DEF KeepInv, OperatorFilesKept
<1>4. (editor # None => file[editor.file] = Empty)'
  BY <1>1, <1>2 DEF KeepInv
<1>5. (BeingWritten # None =>
        /\ mine[BeingWritten] = None
        /\ editor # None => editor.file # BeingWritten)'
  OBVIOUS
<1> QED
  BY <1>3, <1>4, <1>5 DEF KeepInv

LEMMA KeepNext == TypeOK /\ KeepInv /\ [Next]_vars => KeepInv'
<1> SUFFICES ASSUME TypeOK, KeepInv, [Next]_vars PROVE KeepInv'
  OBVIOUS
<1>0. /\ file \in [File -> Texts] /\ mine \in [File -> Texts \cup {None}]
      /\ \A f \in File : mine[f] \in Text(f) \cup {None}
      /\ editor # None => editor.file \in File
  BY DEF TypeOK, Editing
<1>a. ASSUME UNCHANGED <<file, editor, mine>>, BeingWritten' \in {None, BeingWritten}
      PROVE  KeepInv'
  BY <1>a DEF KeepInv, OperatorFilesKept
<1>b. UNCHANGED add => BeingWritten' = BeingWritten
  BY DEF BeingWritten
<1>c. (add' = None \/ add'.at = "create") => BeingWritten' = None
  BY DEF BeingWritten
<1>1. ASSUME NEW k \in Identity, runNodeAdd(k) PROVE KeepInv'
  BY <1>1, <1>a, <1>c DEF runNodeAdd
<1>2. ASSUME createFile PROVE KeepInv'
  <2>1. add # None
    BY <1>2 DEF createFile
  <2>2. CASE file[Files[add.n]] = Absent
    <3> DEFINE n == Files[add.n]
    <3>1. /\ file' = [file EXCEPT ![n] = Empty] /\ add' = [add EXCEPT !.at = "write"]
          /\ UNCHANGED <<editor, mine>>
      BY <1>2, <2>2 DEF createFile
    <3>2. n \in File
      BY <2>1, AddingFacts
    <3>3. editor # None => editor.file # n
      <4>1. Empty # Absent
        BY ConstantsAssumption
      <4> QED
        BY <2>2, <4>1 DEF KeepInv
    <3>4. mine[n] = None
      BY <1>0, <2>2, <3>2, <3>3, FilesType DEF KeepInv, OperatorFilesKept
    <3>5. BeingWritten' \in {None, n}
      BY <2>1, <3>1, AddingFacts DEF BeingWritten, Adding
    <3> HIDE DEF n
    <3> QED
      BY <3>1, <3>2, <3>3, <3>4, <3>5, AddKeeps
  <2>3. CASE file[Files[add.n]] # Absent
    <3>1. add' = NextFile /\ UNCHANGED <<file, editor, mine>>
      BY <1>2, <2>3 DEF createFile
    <3>2. BeingWritten' = None
      BY <1>c, <2>1, <3>1, AddingFacts
    <3> QED
      BY <1>a, <3>1, <3>2
  <2> QED
    BY <2>2, <2>3
<1>3. ASSUME writeFile PROVE KeepInv'
  <2>1. /\ BeingWritten # None /\ add # None /\ add' = NextFile
        /\ file' = [file EXCEPT ![BeingWritten] = Initial(BeingWritten, add.key)]
        /\ UNCHANGED <<editor, mine>>
    BY <1>3 DEF writeFile, BeingWritten
  <2>2. BeingWritten \in File /\ (NextFile # None => NextFile.at = "create")
    BY <2>1, AddingFacts
  <2>3. BeingWritten' = None
    BY <1>c, <2>1, <2>2
  <2>4. mine[BeingWritten] = None /\ (editor # None => editor.file # BeingWritten)
    BY <2>1 DEF KeepInv
  <2> QED
    BY <2>1, <2>2, <2>3, <2>4, AddKeeps
<1>4. ASSUME WriteFails PROVE KeepInv'
  <2>1. /\ BeingWritten # None /\ add # None /\ add' = None
        /\ file' = [file EXCEPT ![BeingWritten] = Absent]
        /\ UNCHANGED <<editor, mine>>
    BY <1>4 DEF WriteFails, BeingWritten
  <2>2. BeingWritten \in File
    BY <2>1, AddingFacts
  <2>3. BeingWritten' = None
    BY <1>c, <2>1
  <2>4. mine[BeingWritten] = None /\ (editor # None => editor.file # BeingWritten)
    BY <2>1 DEF KeepInv
  <2> QED
    BY <2>1, <2>2, <2>3, <2>4, AddKeeps
<1>5. ASSUME Kill PROVE KeepInv'
  BY <1>5, <1>a, <1>c DEF Kill
<1>6. ASSUME NEW f \in File, NEW t \in Draft(f), Truncate(f, t) PROVE KeepInv'
  <2>1. /\ editor = None /\ f # BeingWritten /\ UNCHANGED <<add, mine>>
        /\ file' = [file EXCEPT ![f] = Empty] /\ editor' = [file |-> f, text |-> t]
    BY <1>6 DEF Truncate
  <2>2. file'[f] = Empty /\ \A g \in File : g # f => file'[g] = file[g]
    BY <1>0, <2>1
  <2>3. editor'.file = f
    BY <2>1
  <2>4. OperatorFilesKept'
    <3>1. \A g \in File : g # f /\ mine[g] # None => file[g] = mine[g]
      BY <2>1 DEF KeepInv, OperatorFilesKept
    <3>2. editor' # None
      BY <2>1, <2>3, FilesType, ConstantsAssumption DEF Editing
    <3> QED
      BY <2>1, <2>2, <2>3, <3>1, <3>2 DEF OperatorFilesKept
  <2>5. BeingWritten' = BeingWritten
    BY <1>b, <2>1
  <2>6. (BeingWritten # None =>
            /\ mine[BeingWritten] = None
            /\ editor # None => editor.file # BeingWritten)'
    BY <2>1, <2>3, <2>5 DEF KeepInv
  <2> QED
    BY <2>2, <2>3, <2>4, <2>6 DEF KeepInv
<1>7. ASSUME Save PROVE KeepInv'
  <2> DEFINE f == editor.file
             t == editor.text
  <2>1. /\ editor # None /\ editor' = None /\ UNCHANGED add
        /\ file' = [file EXCEPT ![f] = t] /\ mine' = [mine EXCEPT ![f] = t]
    BY <1>7 DEF Save
  <2>2. f \in File
    BY <1>0, <2>1
  <2> HIDE DEF f, t
  <2>3. /\ file'[f] = t /\ mine'[f] = t
        /\ \A g \in File : g # f => file'[g] = file[g] /\ mine'[g] = mine[g]
    BY <1>0, <2>1, <2>2
  <2>4. \A g \in File : g # f /\ mine[g] # None => file[g] = mine[g]
    BY <2>1 DEF KeepInv, OperatorFilesKept, f
  <2>5. OperatorFilesKept'
    BY <2>3, <2>4 DEF OperatorFilesKept
  <2>6. BeingWritten' = BeingWritten
    BY <1>b, <2>1
  <2>7. BeingWritten # None => mine[BeingWritten] = None /\ f # BeingWritten
    BY <2>1 DEF KeepInv, f
  <2>8. BeingWritten # None => BeingWritten \in File
    <3>1. BeingWritten # None => add # None
      BY DEF BeingWritten
    <3> QED
      BY <3>1, AddingFacts
  <2>9. (BeingWritten # None => mine[BeingWritten] = None)'
    BY <2>3, <2>6, <2>7, <2>8
  <2> QED
    BY <2>1, <2>5, <2>9 DEF KeepInv
<1>8. ASSUME readIdentity \/ readWG \/ publishNode \/ runFetchApply \/ UNCHANGED vars
      PROVE  KeepInv'
  BY <1>8, <1>a, <1>b DEF readIdentity, readWG, publishNode, runFetchApply, vars
<1> QED
  BY <1>1, <1>2, <1>3, <1>4, <1>5, <1>6, <1>7, <1>8 DEF Next

\* What the operator saved stays until he writes again, whatever `node add`
\* does meanwhile and wherever it ends.
THEOREM NodeAddKeepsFiles == Spec => []OperatorFilesKept
<1>1. KeepInv => OperatorFilesKept
  BY DEF KeepInv
<1> QED
  BY <1>1, KeepInit, KeepNext, NodeFilesTypeCorrect, PTL DEF Spec

-----------------------------------------------------------------------------
(* The properties of what is published, with SavedInv.                     *)

\* The empty file and the template build no bundle; what does is a text of
\* the operator.
LEMMA SentIsDocument ==
    ASSUME NEW t \in WG, Sent[t] # Rejected
    PROVE  t \notin {Empty, Template} /\ t \in WGText
<1>1. Sent[t] = buildBundle(ToJSON(t))
  BY DEF Sent
<1>2. DOMAIN Document = WGText
  BY ConstantsAssumption
<1>3. t \in DOMAIN Document \/ t \in {Empty, Template}
  BY <1>2 DEF WG
<1> QED
  BY <1>1, <1>2, <1>3, BuiltBundle

\* What builds is accepted by the agent and means what its document says.
LEMMA SentIsReceived ==
    ASSUME NEW t \in WG, Sent[t] # Rejected
    PROVE  /\ AgentParses[t]
           /\ Effect(Received[t]) = Intended(Document[t])
           /\ Received[t] = NoInterfaces => t = NoInterfaces
<1>1. Sent[t] = buildBundle(ToJSON(t)) /\ buildBundle(ToJSON(t)) # Rejected
  BY DEF Sent
<1>2. DOMAIN Document = WGText
  BY ConstantsAssumption
<1>3. t \in DOMAIN Document \/ t \in {Empty, Template}
  BY <1>2 DEF WG
<1>4. /\ Parses(AgentInt, Sent[t]) /\ Validate(Parse(Sent[t]))
      /\ Effect(Parse(Sent[t])) = Intended(Document[t])
      /\ Parse(Sent[t]) = NoInterfaces => t = NoInterfaces
  BY <1>1, <1>3, BuiltBundle
<1>5. AgentParses[t] = (/\ Sent[t] # Rejected /\ Parses(AgentInt, Sent[t])
                        /\ Validate(Parse(Sent[t])))
  BY DEF AgentParses
<1>6. AgentParses[t]
  BY <1>4, <1>5
<1>7. Received[t] = Parse(Sent[t])
  BY <1>6 DEF Received
<1> QED
  BY <1>4, <1>6, <1>7

LEMMA SavedInit == Init => SavedInv
<1> SUFFICES ASSUME Init PROVE SavedInv
  OBVIOUS
<1>1. saved = {file["wg.yaml"]} \ {Absent} /\ reader = None /\ published = None
  BY DEF Init
<1> QED
  BY <1>1 DEF SavedInv

LEMMA SavedNext == TypeOK /\ SavedInv /\ [Next]_vars => SavedInv'
<1> SUFFICES ASSUME TypeOK, SavedInv, [Next]_vars PROVE SavedInv'
  OBVIOUS
<1> DEFINE wg == file["wg.yaml"]
           WgOK == wg \in saved \cup {Absent, Empty, Template}
           ReadOK == reader # None /\ reader.wg # None =>
                        reader.wg \in saved \cup {Empty, Template}
           PutOK == published # None => /\ published.wg \in saved
                                        /\ Sent[published.wg] # Rejected
                                        /\ Fits(published.stunmesh)
<1>0. WgOK /\ ReadOK /\ PutOK
  BY DEF SavedInv
<1>t. /\ file \in [File -> Texts] /\ "wg.yaml" \in File
      /\ reader # None => reader \in Round
  BY DEF TypeOK, File
<1>a. ASSUME saved \subseteq saved', UNCHANGED file PROVE WgOK'
  BY <1>0, <1>a
<1>b. ASSUME saved \subseteq saved', UNCHANGED reader PROVE ReadOK'
  BY <1>0, <1>b
<1>c. ASSUME saved \subseteq saved', UNCHANGED published PROVE PutOK'
  BY <1>0, <1>c
<1>d. ASSUME NEW f \in File, NEW t, file' = [file EXCEPT ![f] = t], saved \subseteq saved',
             f = "wg.yaml" => t \in saved' \cup {Absent, Empty, Template}
      PROVE  WgOK'
  BY <1>0, <1>t, <1>d
<1>e. WgOK' /\ ReadOK' /\ PutOK' => SavedInv'
  BY DEF SavedInv
<1> HIDE DEF WgOK, ReadOK, PutOK
<1>1. ASSUME NEW k \in Identity, runNodeAdd(k) PROVE SavedInv'
  BY <1>1, <1>a, <1>b, <1>c, <1>e DEF runNodeAdd
<1>2. ASSUME createFile PROVE SavedInv'
  <2>1. Files[add.n] \in File
    BY <1>2, AddingFacts DEF createFile
  <2>2. WgOK'
    BY <1>2, <1>a, <1>d, <2>1 DEF createFile
  <2> QED
    BY <1>2, <1>b, <1>c, <1>e, <2>2 DEF createFile
<1>3. ASSUME writeFile PROVE SavedInv'
  <2>1. BeingWritten # None /\ add # None
    BY <1>3 DEF writeFile, BeingWritten
  <2>2. BeingWritten \in File
    BY <2>1, AddingFacts
  <2>3. BeingWritten = "wg.yaml" => Initial(BeingWritten, add.key) = Template
    BY DEF Initial
  <2>4. file' = [file EXCEPT ![BeingWritten] = Initial(BeingWritten, add.key)]
        /\ UNCHANGED saved
    BY <1>3 DEF writeFile
  <2>5. WgOK'
    BY <1>d, <2>2, <2>3, <2>4
  <2> QED
    BY <1>3, <1>b, <1>c, <1>e, <2>5 DEF writeFile
<1>4. ASSUME WriteFails PROVE SavedInv'
  <2>1. BeingWritten # None /\ add # None
    BY <1>4 DEF WriteFails, BeingWritten
  <2>2. BeingWritten \in File
    BY <2>1, AddingFacts
  <2>3. WgOK'
    BY <1>4, <1>d, <2>2 DEF WriteFails
  <2> QED
    BY <1>4, <1>b, <1>c, <1>e, <2>3 DEF WriteFails
<1>5. ASSUME Kill PROVE SavedInv'
  BY <1>5, <1>a, <1>b, <1>c, <1>e DEF Kill
<1>6. ASSUME NEW f \in File, NEW t \in Draft(f), Truncate(f, t) PROVE SavedInv'
  BY <1>6, <1>b, <1>c, <1>d, <1>e DEF Truncate
<1>7. ASSUME Save PROVE SavedInv'
  <2>1. editor # None /\ editor.file \in File
    BY <1>7 DEF Save, TypeOK, Editing
  <2>2. saved' = IF editor.file = "wg.yaml" THEN saved \cup {editor.text} ELSE saved
    BY <1>7 DEF Save
  <2>3. saved \subseteq saved' /\ (editor.file = "wg.yaml" => editor.text \in saved')
    BY <2>2
  <2>4. WgOK'
    BY <1>7, <1>d, <2>1, <2>3 DEF Save
  <2> QED
    BY <1>7, <1>b, <1>c, <1>e, <2>3, <2>4 DEF Save
<1>8. ASSUME readIdentity PROVE SavedInv'
  <2>1. reader'.wg = None
    BY <1>8 DEF readIdentity
  <2>2. ReadOK'
    BY <2>1 DEF ReadOK
  <2> QED
    BY <1>8, <1>a, <1>c, <1>e, <2>2 DEF readIdentity
<1>9. ASSUME readWG PROVE SavedInv'
  <2>1. ReadOK'
    <3>1. CASE reader' = None
      BY <3>1 DEF ReadOK
    <3>2. CASE wg # Absent /\ reader # None /\ reader' = [reader EXCEPT !.wg = wg]
      <4>1. reader'.wg = wg
        BY <1>t, <3>2 DEF Round
      <4>2. wg \in saved' \cup {Empty, Template}
        BY <1>0, <1>9, <3>2 DEF WgOK, readWG
      <4> QED
        BY <4>1, <4>2 DEF ReadOK
    <3> QED
      BY <1>9, <3>1, <3>2 DEF readWG
  <2> QED
    BY <1>9, <1>a, <1>c, <1>e, <2>1 DEF readWG
<1>10. ASSUME publishNode PROVE SavedInv'
  <2>1. reader # None /\ reader.wg # None /\ reader' = None /\ UNCHANGED <<file, saved>>
    BY <1>10 DEF publishNode
  <2>2. ReadOK'
    BY <2>1 DEF ReadOK
  <2>3. PutOK'
    <3>1. CASE UNCHANGED published
      BY <1>c, <2>1, <3>1
    <3>2. CASE /\ published' = [to |-> reader.to, wg |-> reader.wg,
                        stunmesh |-> file["stunmesh.yaml"], timestamp |-> Now]
               /\ Sent[reader.wg] # Rejected /\ Fits(file["stunmesh.yaml"])
      <4>1. reader.wg \in WG
        BY <1>t, <2>1 DEF Round
      <4>2. reader.wg \notin {Empty, Template}
        BY <3>2, <4>1, SentIsDocument
      <4>3. reader.wg \in saved
        BY <1>0, <2>1, <4>2 DEF ReadOK
      <4>4. /\ published'.wg = reader.wg
            /\ published'.stunmesh = file["stunmesh.yaml"]
        BY <3>2
      <4>5. (/\ published.wg \in saved
             /\ Sent[published.wg] # Rejected
             /\ Fits(published.stunmesh))'
        BY <2>1, <3>2, <4>3, <4>4 DEF Sent, Fits
      <4> QED
        BY <4>5 DEF PutOK
    <3> QED
      BY <1>10, <3>1, <3>2 DEF publishNode
  <2>4. WgOK'
    BY <1>a, <2>1
  <2> QED
    BY <1>e, <2>2, <2>3, <2>4
<1>11. ASSUME runFetchApply \/ UNCHANGED vars PROVE SavedInv'
  BY <1>11, <1>a, <1>b, <1>c, <1>e DEF runFetchApply, vars
<1> QED
  BY <1>1, <1>2, <1>3, <1>4, <1>5, <1>6, <1>7, <1>8, <1>9, <1>10, <1>11 DEF Next

\* The empty map builds, and is accepted.
LEMMA NothingIsAccepted == NoInterfaces \in WG /\ AgentParses[NoInterfaces]
<1>1. NoInterfaces \in WG /\ NoInterfaces \in DOMAIN Document
      /\ NoInterfaces \notin {Empty, Template}
  BY ConstantsAssumption DEF WG
<1>2. Document[NoInterfaces] = NoInterfaces
  BY <1>1, DocumentsAssumption
<1>3. /\ NoInterfaces \notin {NullDoc, Rejected, Malformed}
  BY DocumentsAssumption
<1>4. ToJSON(NoInterfaces) = NoInterfaces
  BY <1>1, <1>2, <1>3 DEF ToJSON
<1>5. normalizeWG(NoInterfaces) = NoInterfaces
  BY DEF normalizeWG, IsInterface, Special
<1>6. /\ Parse(NoInterfaces) = NoInterfaces /\ MarshalJSON(NoInterfaces) = NoInterfaces
      /\ Parses(ControllerInt, NoInterfaces) /\ Parses(AgentInt, NoInterfaces)
      /\ Validate(NoInterfaces)
  BY DEF Parse, MarshalJSON, Parses, Validate
<1>7. buildBundle(NoInterfaces) = NoInterfaces
  BY <1>3, <1>5, <1>6 DEF buildBundle
<1>8. Sent[NoInterfaces] = NoInterfaces
  BY <1>1, <1>4, <1>7 DEF Sent
<1> QED
  BY <1>1, <1>3, <1>6, <1>8 DEF AgentParses

\* What the agent accepted is in last.json as it was sent, and is that again
\* when it is read, parsed and written once more.
LEMMA RecordedIsSent ==
    ASSUME NEW t \in WG, AgentParses[t]
    PROVE  /\ Received[t] = Parse(Sent[t])
           /\ Recorded[t] = Sent[t]
           /\ MarshalJSON(Parse(Sent[t])) = Sent[t]
<1>1. Sent[t] # Rejected
  BY DEF AgentParses
<1>2. Sent[t] = buildBundle(ToJSON(t)) /\ buildBundle(ToJSON(t)) # Rejected
  BY <1>1 DEF Sent
<1>3. DOMAIN Document = WGText
  BY ConstantsAssumption
<1>4. t \in DOMAIN Document \/ t \in {Empty, Template}
  BY <1>3 DEF WG
<1>5. MarshalJSON(Parse(Sent[t])) = Sent[t]
  BY <1>2, <1>4, BuiltBundle
<1>6. Received[t] = Parse(Sent[t])
  BY DEF Received
<1>7. Recorded[t] = MarshalJSON(Received[t])
  BY DEF Recorded
<1> QED
  BY <1>5, <1>6, <1>7

LEMMA LastInit == Init => LastInv
BY NothingIsAccepted DEF Init, LastInv

LEMMA LastNext == LastInv /\ [Next]_vars => LastInv'
<1> SUFFICES ASSUME LastInv, [Next]_vars PROVE LastInv'
  OBVIOUS
<1>1. CASE UNCHANGED last
  BY <1>1 DEF LastInv, AgentParses, Sent
<1>2. CASE runFetchApply
  <2>1. last'.wg = published.wg /\ AgentParses[published.wg]
    BY <1>2 DEF runFetchApply
  <2> QED
    BY <2>1 DEF LastInv, AgentParses, Sent
<1>3. UNCHANGED last \/ runFetchApply
  BY DEF Next, vars, runNodeAdd, createFile, writeFile, WriteFails, Kill, Truncate,
         Save, readIdentity, readWG, publishNode
<1> QED
  BY <1>1, <1>2, <1>3

\* What is published is a wg.yaml that builds, with a stunmesh.yaml that fits.
LEMMA PublishedFacts ==
    ASSUME TypeOK, SavedInv, published # None
    PROVE  /\ published.wg \in saved /\ published.wg \in WG
           /\ Sent[published.wg] # Rejected
           /\ published.stunmesh \in Stunmesh /\ Fits(published.stunmesh)
BY DEF TypeOK, SavedInv, Bundle

\* A node's interfaces are those of a wg.yaml its operator saved.
THEOREM PublishesOnlySaved == Spec => []OnlySavedInterfaces
<1>1. ASSUME TypeOK, SavedInv PROVE OnlySavedInterfaces
  <2> SUFFICES ASSUME published # None
               PROVE  /\ published.wg \in saved
                      /\ Received[published.wg] = NoInterfaces => NoInterfaces \in saved
    BY DEF OnlySavedInterfaces
  <2> QED
    BY <1>1, PublishedFacts, SentIsReceived
<1> QED
  BY <1>1, SavedInit, SavedNext, NodeFilesTypeCorrect, PTL DEF Spec

\* "it can never publish a bundle the agent would reject", whatever the width
\* of an int in the two programs.
THEOREM AgentAcceptsAll == Spec => []AgentAccepts
<1>1. ASSUME TypeOK, SavedInv PROVE AgentAccepts
  BY <1>1, PublishedFacts, SentIsReceived DEF AgentAccepts
<1> QED
  BY <1>1, SavedInit, SavedNext, NodeFilesTypeCorrect, PTL DEF Spec

\* The struct the agent builds its configuration from has what docs/format.md
\* says of the wg.yaml.
THEOREM AgentConfiguresIt == Spec => []AgentConfiguresWhatWasWritten
<1>1. ASSUME TypeOK, SavedInv PROVE AgentConfiguresWhatWasWritten
  BY <1>1, PublishedFacts, SentIsReceived DEF AgentConfiguresWhatWasWritten
<1> QED
  BY <1>1, SavedInit, SavedNext, NodeFilesTypeCorrect, PTL DEF Spec

\* The comparison with last.json ignores the timestamp and nothing else.
THEOREM ComparesContent == Spec => []SameContentIsSame
<1>1. ASSUME TypeOK, SavedInv, LastInv PROVE SameContentIsSame
  <2> SUFFICES ASSUME published # None
               PROVE  sameContent <=> /\ Sent[published.wg] = Sent[last.wg]
                                      /\ published.stunmesh = last.stunmesh
    BY DEF SameContentIsSame
  <2> DEFINE new == published.wg
             old == last.wg
  <2>1. new \in WG /\ AgentParses[new]
    BY <1>1, PublishedFacts, SentIsReceived
  <2>2. old \in WG /\ AgentParses[old]
    BY <1>1 DEF TypeOK, LastInv
  <2>3. MarshalJSON(Parse(Recorded[old])) = Sent[old]
    BY <2>2, RecordedIsSent
  <2>4. MarshalJSON(Received[new]) = Sent[new]
    BY <2>1, RecordedIsSent
  <2>5. sameContent <=>
            [wg |-> MarshalJSON(Parse(Recorded[old])), stunmesh |-> last.stunmesh]
              = [wg |-> MarshalJSON(Received[new]), stunmesh |-> published.stunmesh]
    BY DEF sameContent, Equal, Canonical
  <2>6. \A a, b, c, d : [wg |-> a, stunmesh |-> b] = [wg |-> c, stunmesh |-> d]
                            <=> a = c /\ b = d
    <3> SUFFICES ASSUME NEW a, NEW b, NEW c, NEW d,
                        [wg |-> a, stunmesh |-> b] = [wg |-> c, stunmesh |-> d]
                 PROVE  a = c /\ b = d
      BY Zenon
    <3>1. [wg |-> a, stunmesh |-> b].wg = a /\ [wg |-> a, stunmesh |-> b].stunmesh = b
      OBVIOUS
    <3>2. [wg |-> c, stunmesh |-> d].wg = c /\ [wg |-> c, stunmesh |-> d].stunmesh = d
      OBVIOUS
    <3> QED
      BY <3>1, <3>2
  <2> HIDE DEF new, old
  <2>7. sameContent <=> Sent[old] = Sent[new] /\ last.stunmesh = published.stunmesh
    BY <2>3, <2>4, <2>5, <2>6
  <2> QED
    BY <2>7 DEF new, old
<1> QED
  BY <1>1, SavedInit, SavedNext, LastInit, LastNext, NodeFilesTypeCorrect, PTL DEF Spec

\* The value fits the DHT, although buildBundle never sees it.
THEOREM PublishedValueFits == Spec => []ValueFits
<1>1. ASSUME TypeOK, SavedInv PROVE ValueFits
  <2> SUFFICES ASSUME published # None
               PROVE  ValueSize(published.stunmesh) <= maxDHTValueSize
    BY DEF ValueFits
  <2> DEFINE n == Size[published.stunmesh]
  <2>1. n \in Nat
    BY <1>1, PublishedFacts, ConstantsAssumption
  <2>2. n <= 3 * (maxDHTValueSize \div 4) - naclBoxOverhead
    BY <1>1, PublishedFacts DEF Fits, maxInnerBundleSize
  <2>3. naclBoxOverhead \in Nat /\ maxDHTValueSize \in Nat
    BY WidthsAssumption
  <2> HIDE DEF n
  <2>4. 4 * ((n + naclBoxOverhead + 2) \div 3) <= maxDHTValueSize
    BY <2>1, <2>2, <2>3, SizeFits
  <2> QED
    BY <2>4 DEF n, ValueSize
<1> QED
  BY <1>1, SavedInit, SavedNext, NodeFilesTypeCorrect, PTL DEF Spec
=============================================================================
