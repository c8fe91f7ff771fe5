--------------------------- MODULE KeyFilesProofs ---------------------------
(***************************************************************************)
(* Theorems about KeyFiles for every number of processes and keys, and any *)
(* bound on faults and power losses.                                       *)
(***************************************************************************)
EXTENDS KeyFiles, TLAPS

USE ConstantsAssumption

-----------------------------------------------------------------------------
(* Types.                                                                  *)

\* The files that the actions make are files.
LEMMA FileTypes ==
    /\ NoFile \in File /\ Created \in File
    /\ \A k \in Key : Written(k) \in File
    /\ \A f \in File : Stored(f) \in File /\ Remains(f) \subseteq File
<1>1. /\ NoFile \in File /\ Created \in File
      /\ \A k \in Key : Written(k) \in File
  BY DEF File, NoFile, Created, Written
<1>2. \A f \in File : Stored(f) \in File
  BY DEF File, Stored
<1>3. ASSUME NEW f \in File, NEW g \in Remains(f) PROVE g \in File
  <2>1. PICK t \in Key \cup {Absent, Partial} : g = Stored([f EXCEPT !.text = t])
    BY <1>3 DEF Remains, File
  <2>2. [f EXCEPT !.text = t] \in File
    BY <2>1 DEF File
  <2> QED
    BY <1>2, <2>1, <2>2
<1> QED
  BY <1>1, <1>2, <1>3

\* The commands start with the right types.
LEMMA InitType == Init => TypeOK
<1> SUFFICES ASSUME Init PROVE TypeOK
  OBVIOUS
<1>1. /\ controllerKey \in File /\ controllerPub \in File /\ identityKey \in File
      /\ tmp \in [Keygen -> File]
  BY FileTypes DEF Init
<1>2. pc \in [Proc -> PC] /\ \A p \in Proc : pc[p] \notin Writing
  BY DEF Init, PC, Writing
<1>3. faults \in 0..MaxFaults /\ losses \in 0..MaxLosses
  BY DEF Init
<1> QED
  BY <1>1, <1>2, <1>3 DEF Init, TypeOK

\* A fault stays within the budget.
LEMMA FaultType ==
    ASSUME TypeOK, Fault
    PROVE  faults' \in 0..MaxFaults
BY DEF TypeOK, Fault

\* Every step of the two commands, and every fault, keeps the types.
LEMMA StepType == TypeOK /\ [Next]_vars => TypeOK'
<1> SUFFICES ASSUME TypeOK, [Next]_vars PROVE TypeOK'
  OBVIOUS
<1> USE DEF TypeOK, files, Goto, Report, PC, Writing
<1>a. \A p \in Proc : pc[p] \in Writing => own[p] \in Key
  OBVIOUS
<1>1. ASSUME NEW p \in Proc, Run(p) PROVE TypeOK'
  BY <1>1 DEF Run, Proc
<1>2. ASSUME NEW p \in Proc, OpenFails(p) PROVE TypeOK'
  BY <1>2, FaultType DEF OpenFails
<1>3. ASSUME NEW p \in Proc, Kill(p) PROVE TypeOK'
  BY <1>3, FaultType, FileTypes DEF Kill
<1>4. ASSUME NEW p \in Initer, readControllerKey(p) PROVE TypeOK'
  <2>1. CASE controllerKey.text = Absent
    <3>1. PICK k \in Key \ made : /\ own' = [own EXCEPT ![p] = k]
                                  /\ made' = made \cup {k}
      BY <1>4, <2>1 DEF readControllerKey, Generate
    <3> QED
      BY <1>4, <2>1, <3>1 DEF readControllerKey, Generate, Proc
  <2>2. CASE controllerKey.text # Absent
    BY <1>4, <2>2 DEF readControllerKey, Proc, File
  <2> QED
    BY <2>1, <2>2
<1>5. ASSUME NEW p \in Initer, createKey(p) PROVE TypeOK'
  BY <1>5, FileTypes DEF createKey, Proc
<1>6. ASSUME NEW p \in Initer, writeKey(p) PROVE TypeOK'
  BY <1>6, <1>a, FileTypes DEF writeKey, Proc
<1>7. ASSUME NEW p \in Initer, chmodKey(p) PROVE TypeOK'
  BY <1>7 DEF chmodKey, Proc
<1>8. ASSUME NEW p \in Initer, WriteKeyFails(p) PROVE TypeOK'
  BY <1>8, FaultType, FileTypes DEF WriteKeyFails, Proc
<1>9. ASSUME NEW p \in Initer, createPub(p) PROVE TypeOK'
  BY <1>9, <1>a, FileTypes DEF createPub, Proc
<1>10. ASSUME NEW p \in Initer, writePub(p) PROVE TypeOK'
  BY <1>10, <1>a, FileTypes DEF writePub, Proc
<1>11. ASSUME NEW p \in Initer, chmodPub(p) \/ WritePubFails(p) PROVE TypeOK'
  BY <1>11, <1>a, FaultType, FileTypes DEF chmodPub, WritePubFails, Proc
<1>12. ASSUME NEW p \in Keygen, loadOrCreateIdentityKey(p) PROVE TypeOK'
  <2>1. CASE identityKey.text = Absent
    <3>1. PICK k \in Key \ made : /\ own' = [own EXCEPT ![p] = k]
                                  /\ made' = made \cup {k}
      BY <1>12, <2>1 DEF loadOrCreateIdentityKey, Generate
    <3> QED
      BY <1>12, <2>1, <3>1, FileTypes DEF loadOrCreateIdentityKey, Generate, Proc
  <2>2. CASE identityKey.text # Absent
    BY <1>12, <2>2 DEF loadOrCreateIdentityKey, Proc
  <2> QED
    BY <2>1, <2>2
<1>13. ASSUME NEW p \in Keygen, writeTemp(p) PROVE TypeOK'
  BY <1>13, <1>a, FileTypes DEF writeTemp, Proc
<1>14. ASSUME NEW p \in Keygen, syncTemp(p) PROVE TypeOK'
  BY <1>14 DEF syncTemp, Proc, File
<1>15. ASSUME NEW p \in Keygen, linkIdentityKey(p) PROVE TypeOK'
  BY <1>15, <1>a, FileTypes DEF linkIdentityKey, Proc
<1>16. ASSUME NEW p \in Keygen, KeygenFails(p) PROVE TypeOK'
  BY <1>16, FaultType, FileTypes DEF KeygenFails, Proc
<1>17. CASE Writeback
  BY <1>17, FileTypes DEF Writeback
<1>18. CASE PowerLossController
  BY <1>18, FileTypes DEF PowerLossController
<1>19. CASE PowerLossNode
  BY <1>19, FileTypes DEF PowerLossNode
<1>20. CASE UNCHANGED vars
  BY <1>20 DEF vars
<1> QED
  BY <1>1, <1>2, <1>3, <1>4, <1>5, <1>6, <1>7, <1>8, <1>9, <1>10, <1>11,
     <1>12, <1>13, <1>14, <1>15, <1>16, <1>17, <1>18, <1>19, <1>20
     DEF Next, InitStep, KeygenStep

\* The type invariant of the key files and of the processes that make them.
THEOREM KeyFilesTypeCorrect == Spec => []TypeOK
BY InitType, StepType, PTL DEF Spec

-----------------------------------------------------------------------------
(* identity.key.                                                           *)

\* Every step keeps identity.key whole and, unless a power loss takes it, in
\* place.
LEMMA StepIdentity == TypeOK /\ IdentityInv /\ [Next]_vars => IdentityInv'
<1> SUFFICES ASSUME TypeOK, IdentityInv, [Next]_vars PROVE IdentityInv'
  OBVIOUS
<1> USE DEF IdentityInv, files, Goto, Report
<1>a. /\ identityKey \in File /\ tmp \in [Keygen -> File] /\ losses \in Nat
      /\ pc \in [Proc -> PC] /\ own \in [Proc -> Key \cup {Absent}]
      /\ printed \in [Proc -> Key \cup {Absent}]
      /\ \A p \in Proc : pc[p] \in Writing => own[p] \in Key
  BY DEF TypeOK
<1>b. Keygen \subseteq Proc /\ Initer \subseteq Proc
  BY DEF Proc
<1>1. ASSUME NEW p \in Proc, Run(p) PROVE IdentityInv'
  BY <1>1, <1>a, <1>b DEF Run
<1>2. ASSUME NEW p \in Proc, OpenFails(p) \/ Kill(p) PROVE IdentityInv'
  BY <1>2, <1>a, <1>b DEF OpenFails, Kill
<1>3. ASSUME NEW p \in Initer, readControllerKey(p) PROVE IdentityInv'
  BY <1>3, <1>a, <1>b DEF readControllerKey, Generate
<1>4. ASSUME NEW p \in Initer, createKey(p) \/ writeKey(p) \/ chmodKey(p)
      PROVE  IdentityInv'
  BY <1>4, <1>a, <1>b DEF createKey, writeKey, chmodKey
<1>5. ASSUME NEW p \in Initer, WriteKeyFails(p) \/ WritePubFails(p)
      PROVE  IdentityInv'
  BY <1>5, <1>a, <1>b DEF WriteKeyFails, WritePubFails
<1>6. ASSUME NEW p \in Initer, createPub(p) \/ writePub(p) \/ chmodPub(p)
      PROVE  IdentityInv'
  BY <1>6, <1>a, <1>b DEF createPub, writePub, chmodPub
<1>7. ASSUME NEW p \in Keygen, loadOrCreateIdentityKey(p) PROVE IdentityInv'
  BY <1>7, <1>a, <1>b DEF loadOrCreateIdentityKey, Generate
<1>8. ASSUME NEW p \in Keygen, writeTemp(p) PROVE IdentityInv'
  BY <1>8, <1>a, <1>b DEF writeTemp, Written
<1>9. ASSUME NEW p \in Keygen, syncTemp(p) PROVE IdentityInv'
  BY <1>9, <1>a, <1>b DEF syncTemp, File
<1>10. ASSUME NEW p \in Keygen, linkIdentityKey(p) PROVE IdentityInv'
  <2>1. own[p] \in Key
    BY <1>10, <1>a, <1>b DEF linkIdentityKey, Writing
  <2>2. ~lost => (identityKey.text = Absent =>
                     \A q \in Keygen : printed[q] = Absent)
    BY <1>a, <1>b
  <2> QED
    BY <1>10, <1>a, <1>b, <2>1, <2>2 DEF linkIdentityKey
<1>11. ASSUME NEW p \in Keygen, KeygenFails(p) PROVE IdentityInv'
  BY <1>11, <1>a, <1>b DEF KeygenFails
<1>12. CASE Writeback
  BY <1>12, <1>a DEF Writeback, Stored, File
<1>13. CASE PowerLossController
  BY <1>13, <1>a, <1>b DEF PowerLossController
<1>14. CASE PowerLossNode
  <2>1. identityKey'.text # Partial /\ identityKey'.safe = "all"
    BY <1>14, <1>a DEF PowerLossNode, Remains, Stored, File
  <2>2. ~lost' /\ identityKey.text \in Key => identityKey'.text = identityKey.text
    BY <1>14 DEF PowerLossNode, Loses
  <2> QED
    BY <1>14, <1>a, <1>b, <2>1, <2>2 DEF PowerLossNode
<1>15. CASE UNCHANGED vars
  BY <1>15 DEF vars
<1> QED
  BY <1>1, <1>2, <1>3, <1>4, <1>5, <1>6, <1>7, <1>8, <1>9, <1>10, <1>11,
     <1>12, <1>13, <1>14, <1>15 DEF Next, InitStep, KeygenStep

\* IdentityInv holds in every reachable state.
LEMMA IdentityCorrect == Spec => []IdentityInv
<1>1. Init => IdentityInv
  BY DEF Init, IdentityInv, NoFile, Proc
<1> QED
  BY <1>1, KeyFilesTypeCorrect, StepIdentity, PTL DEF Spec

\* A crash or a power loss at any point leaves identity.key absent or whole.
THEOREM IdentityIsWhole == Spec => []IdentityNeverPartial
<1>1. IdentityInv => IdentityNeverPartial
  BY DEF IdentityInv, IdentityNeverPartial
<1> QED
  BY <1>1, IdentityCorrect, PTL

-----------------------------------------------------------------------------
(* controller.key and controller.pub.                                      *)

\* Every step keeps the controller's files a pair, unless it takes a complete
\* controller.key away again.
LEMMA StepPair == TypeOK /\ PairInv /\ [Next]_vars => PairInv'
<1> SUFFICES ASSUME TypeOK, PairInv, [Next]_vars, ~removed'
             PROVE  PairInv'
  BY DEF PairInv
<1> USE DEF PairInv, files, Goto, Report
<1>a. /\ controllerKey \in File /\ controllerPub \in File /\ losses \in Nat
      /\ pc \in [Proc -> PC] /\ own \in [Proc -> Key \cup {Absent}]
      /\ printed \in [Proc -> Key \cup {Absent}] /\ removed \in BOOLEAN
      /\ \A p \in Proc : pc[p] \in Writing => own[p] \in Key
  BY DEF TypeOK
<1>b. Keygen \subseteq Proc /\ Initer \subseteq Proc
  BY DEF Proc
<1>1. ASSUME NEW p \in Proc, Run(p) PROVE PairInv'
  BY <1>1, <1>a, <1>b DEF Run
<1>2. ASSUME NEW p \in Proc, OpenFails(p) \/ Kill(p) PROVE PairInv'
  BY <1>2, <1>a, <1>b DEF OpenFails, Kill
<1>3. ASSUME NEW p \in Initer, readControllerKey(p) PROVE PairInv'
  BY <1>3, <1>a, <1>b DEF readControllerKey, Generate
<1>4. ASSUME NEW p \in Initer, createKey(p) PROVE PairInv'
  <2>1. own[p] \in Key
    BY <1>4, <1>a, <1>b DEF createKey, Writing
  <2>2. \A q \in Initer : /\ pc[q] \in {"chmodKey", "createPub", "writePub", "chmodPub"} =>
                             controllerKey.text \in Key
                          /\ printed[q] # Absent => controllerKey.text \in Key
    BY <1>4, <1>a, <1>b DEF createKey, Writing
  <2> QED
    BY <1>4, <1>a, <1>b, <2>1, <2>2 DEF createKey, Created
<1>5. ASSUME NEW p \in Initer, writeKey(p) PROVE PairInv'
  <2>1. \A q \in Initer : /\ pc[q] \in {"chmodKey", "createPub", "writePub", "chmodPub"} =>
                             controllerKey.text \in Key
                          /\ printed[q] # Absent => controllerKey.text \in Key
    BY <1>5, <1>a, <1>b DEF writeKey, Writing
  <2>2. controllerKey.text = Partial
    BY <1>5 DEF writeKey
  <2> QED
    BY <1>5, <1>a, <1>b, <2>1, <2>2 DEF writeKey, Written
<1>6. ASSUME NEW p \in Initer, chmodKey(p) PROVE PairInv'
  BY <1>6, <1>a, <1>b DEF chmodKey
<1>7. ASSUME NEW p \in Initer, WriteKeyFails(p) PROVE PairInv'
  <2>1. pc[p] = "writeKey" /\ controllerKey.text = Partial
    BY <1>7, <1>a DEF WriteKeyFails
  <2>2. \A q \in Initer : /\ pc[q] \in {"chmodKey", "createPub", "writePub", "chmodPub"} =>
                             controllerKey.text \in Key
                          /\ printed[q] # Absent => controllerKey.text \in Key
    BY <1>7, <1>a, <1>b DEF WriteKeyFails, Writing
  <2> QED
    BY <1>7, <1>a, <1>b, <2>1, <2>2 DEF WriteKeyFails, NoFile
<1>8. ASSUME NEW p \in Initer, createPub(p) PROVE PairInv'
  BY <1>8, <1>a, <1>b DEF createPub, Created
<1>9. ASSUME NEW p \in Initer, writePub(p) \/ chmodPub(p) PROVE PairInv'
  BY <1>9, <1>a, <1>b DEF writePub, chmodPub, Written
<1>10. ASSUME NEW p \in Initer, WritePubFails(p) PROVE PairInv'
  BY <1>10, <1>a, <1>b DEF WritePubFails, NoFile
<1>11. ASSUME NEW p \in Keygen, KeygenStep(p) PROVE PairInv'
  <2>1. UNCHANGED <<controllerKey, controllerPub, removed>>
    BY <1>11 DEF KeygenStep, loadOrCreateIdentityKey, writeTemp, syncTemp,
                 linkIdentityKey, KeygenFails
  <2>2. \A q \in Initer : pc'[q] = pc[q] /\ own'[q] = own[q]
                          /\ printed'[q] = printed[q]
    BY <1>11, <1>a, <1>b DEF KeygenStep, loadOrCreateIdentityKey, Generate,
                 writeTemp, syncTemp, linkIdentityKey, KeygenFails
  <2> QED
    BY <2>1, <2>2
<1>12. CASE Writeback
  BY <1>12, <1>a DEF Writeback, Stored, File
<1>13. CASE PowerLossController
  <2>1. /\ ~removed
        /\ controllerKey.text \in Key => controllerKey'.text = controllerKey.text
        /\ controllerPub'.text \in {controllerPub.text, Absent, Partial}
        /\ \A p \in Initer : pc'[p] = "off" /\ printed'[p] = printed[p]
    BY <1>13, <1>a, <1>b DEF PowerLossController, Loses, Remains, Stored, File
  <2>2. \A p \in Initer : printed[p] # Absent => controllerKey.text = printed[p]
    BY <2>1
  <2> QED
    BY <1>a, <1>b, <2>1, <2>2
<1>15. CASE PowerLossNode
  <2>1. /\ UNCHANGED <<controllerKey, controllerPub, own, printed, removed>>
        /\ \A p \in Initer : pc'[p] = pc[p]
    BY <1>15, <1>a, <1>b DEF PowerLossNode
  <2> QED
    BY <2>1
<1>14. CASE UNCHANGED vars
  BY <1>14 DEF vars
<1> QED
  BY <1>1, <1>2, <1>3, <1>4, <1>5, <1>6, <1>7, <1>8, <1>9, <1>10, <1>11,
     <1>12, <1>13, <1>14, <1>15 DEF Next, InitStep

\* PairInv holds in every reachable state.
LEMMA PairCorrect == Spec => []PairInv
<1>1. Init => PairInv
  BY DEF Init, PairInv, NoFile, Proc
<1> QED
  BY <1>1, KeyFilesTypeCorrect, StepPair, PTL DEF Spec

\* However many runs of init race, controller.pub belongs to controller.key,
\* as long as no complete controller.key was taken away again.
THEOREM PairIsAPair == Spec => []ControllerPairMatches
<1>1. PairInv => ControllerPairMatches
  BY DEF PairInv, ControllerPairMatches
<1> QED
  BY <1>1, PairCorrect, PTL

\* The key that init or keygen printed stays the one in place as long as no
\* failing chmod of init and no power loss takes the complete file away.
THEOREM PrintedKeyStays == Spec => []PrintedKeyIsInPlace
<1>1. PairInv /\ IdentityInv => PrintedKeyIsInPlace
  BY DEF PairInv, IdentityInv, PrintedKeyIsInPlace
<1> QED
  BY <1>1, PairCorrect, IdentityCorrect, PTL
=============================================================================
