-------------------------- MODULE SelfUpdateProofs --------------------------
(***************************************************************************)
(* Proofs about SelfUpdate, for any number of updaters and releases.       *)
(***************************************************************************)
EXTENDS SelfUpdate, TLAPS

(* What is installed, kept aside or staged is a whole binary, or nothing.  *)
Sound(b) == b.whole \/ b = Missing

FilesInv ==
  /\ TypeOK
  /\ tag \in [Updater -> 0 .. MaxVersion]
  /\ Sound(exe) /\ Sound(old)
  /\ exe = Missing => host.windows
  /\ \A p \in Updater : pc[p] \in {"aside", "install"} => staged[p].whole
  /\ \A p \in Updater : pc[p] \in {"aside", "rollback"} => host.windows

(* A fetch is only ever of a release newer than the binary that asked.     *)
OrderInv == \A p \in Updater :
  pc[p] \in {"fetch", "aside", "install"} => image[p].version < tag[p]

LEMMA MissingIsABinary == Missing \in Binary /\ ~Missing.whole
  BY SelfUpdateAssumption DEF Missing, Binary

LEMMA InitFiles == Init => FilesInv
<1> SUFFICES ASSUME Init PROVE FilesInv
  OBVIOUS
<1>1. TypeOK
  BY MissingIsABinary, SelfUpdateAssumption DEF Init, TypeOK, Stage, Ended
<1> QED
  BY <1>1, MissingIsABinary, SelfUpdateAssumption DEF Init, FilesInv, Sound, Binary, Missing

LEMMA StepFiles == FilesInv /\ [Next]_vars => FilesInv'
<1> SUFFICES ASSUME FilesInv, [Next]_vars PROVE FilesInv'
  OBVIOUS
<1> USE SelfUpdateAssumption, MissingIsABinary
<1>1. CASE Release
  BY <1>1 DEF Release, FilesInv, TypeOK, files, Stage, Sound
<1>2. ASSUME NEW p \in Updater, Launch(p) PROVE FilesInv'
  BY <1>2 DEF Launch, Step, FilesInv, TypeOK, Stage, Sound
<1>3. ASSUME NEW p \in Updater, AskLatest(p) PROVE FilesInv'
  BY <1>3 DEF AskLatest, Step, FilesInv, TypeOK, files, Stage, Ended, Sound
<1>4. ASSUME NEW p \in Updater, Download(p) PROVE FilesInv'
  <2>1. PICK got \in Binary : /\ got.version = tag[p] /\ got.whole
                              /\ staged' = [staged EXCEPT ![p] = got]
    BY <1>4 DEF Download, Verified, Binary, FilesInv, TypeOK
  <2> QED
    BY <1>4, <2>1 DEF Download, Step, FilesInv, TypeOK, files, Stage, Sound
<1>5. ASSUME NEW p \in Updater,
             Fails(p) \/ MoveAsideFails(p) \/ InstallFails(p) \/ InstallDenied(p)
               \/ RollbackFails(p) \/ Crash(p)
      PROVE FilesInv'
  <2> USE DEF Step, FilesInv, TypeOK, files, Stage, Ended, Sound
  <2>1. CASE Fails(p)          BY <2>1 DEF Fails
  <2>2. CASE MoveAsideFails(p) BY <2>2 DEF MoveAsideFails
  <2>3. CASE InstallFails(p)   BY <2>3 DEF InstallFails
  <2>4. CASE InstallDenied(p)  BY <2>4 DEF InstallDenied
  <2>5. CASE RollbackFails(p)  BY <2>5 DEF RollbackFails
  <2>6. CASE Crash(p)          BY <2>6 DEF Crash
  <2> QED BY <1>5, <2>1, <2>2, <2>3, <2>4, <2>5, <2>6
<1>6. ASSUME NEW p \in Updater, MoveAside(p) PROVE FilesInv'
  BY <1>6 DEF MoveAside, Step, FilesInv, TypeOK, Stage, Sound
<1>7. ASSUME NEW p \in Updater, Install(p) PROVE FilesInv'
  BY <1>7 DEF Install, Step, FilesInv, TypeOK, Stage, Ended, Sound
<1>8. ASSUME NEW p \in Updater, Rollback(p) PROVE FilesInv'
  BY <1>8 DEF Rollback, Step, FilesInv, TypeOK, Stage, Ended, Sound
<1>9. CASE UNCHANGED vars
  BY <1>9 DEF vars, files, FilesInv, TypeOK, Sound
<1> QED
  BY <1>1, <1>2, <1>3, <1>4, <1>5, <1>6, <1>7, <1>8, <1>9 DEF Next

LEMMA HostIsFixed == [Next]_vars => host' = host
  BY DEF Next, vars, files, Release, Launch, AskLatest, Download, Fails, MoveAside,
     MoveAsideFails, Install, InstallFails, InstallDenied, Rollback, RollbackFails, Crash

(* TypeOK of SelfUpdate holds in every reachable state.                    *)
THEOREM UpdateTypeCorrect == Spec => []TypeOK
<1>1. FilesInv => TypeOK
  BY DEF FilesInv
<1> QED
  BY <1>1, InitFiles, StepFiles, PTL DEF Spec

-----------------------------------------------------------------------------
(* On either system a whole binary is left at the path of the executable   *)
(* or beside it, so that no update can lose the program altogether.        *)
THEOREM NothingIsLost == Spec => []Recoverable
<1>1. Init => Recoverable
  BY DEF Init, Recoverable
<1>2. FilesInv /\ Recoverable /\ [Next]_vars => Recoverable'
  <2> SUFFICES ASSUME FilesInv, Recoverable, [Next]_vars PROVE Recoverable'
    OBVIOUS
  <2>1. ASSUME NEW p \in Updater, Launch(p) PROVE Recoverable'
    BY <2>1 DEF Launch, Recoverable, FilesInv, Sound
  <2>2. ASSUME NEW p \in Updater, MoveAside(p) PROVE Recoverable'
    BY <2>2 DEF MoveAside, Recoverable, FilesInv, Sound
  <2>3. ASSUME NEW p \in Updater, Install(p) PROVE Recoverable'
    BY <2>3 DEF Install, Step, Recoverable, FilesInv
  <2>4. ASSUME NEW p \in Updater, Rollback(p) PROVE Recoverable'
    BY <2>4 DEF Rollback, Recoverable, FilesInv, Sound
  <2> QED
    BY <2>1, <2>2, <2>3, <2>4 DEF Next, vars, files, Recoverable, Release, AskLatest,
       Download, Fails, MoveAsideFails, InstallFails, InstallDenied, RollbackFails, Crash
<1> QED
  BY <1>1, <1>2, InitFiles, StepFiles, PTL DEF Spec

(* The executable is missing only while some updater owes a rename.        *)
GoneOnlyMidway ==
  exe = Missing => \E p \in Updater : pc[p] \in {"install", "rollback", "stuck", "cutShort"}

(* For any number of updaters that race and are killed, a whole executable *)
(* is installed, but on Windows between the two renames of an updater.     *)
THEOREM InstalledOrMidway == Spec => []AlwaysInstalled
<1>1. Init => GoneOnlyMidway
  BY MissingIsABinary DEF Init, GoneOnlyMidway
<1>2. FilesInv /\ GoneOnlyMidway /\ [Next]_vars => GoneOnlyMidway'
  <2> SUFFICES ASSUME FilesInv, GoneOnlyMidway, [Next]_vars, (exe = Missing)'
               PROVE  \E p \in Updater : pc'[p] \in {"install", "rollback", "stuck", "cutShort"}
    BY DEF GoneOnlyMidway
  <2> USE DEF FilesInv, TypeOK, Step
  <2>1. ASSUME NEW p \in Updater, MoveAside(p) PROVE pc'[p] = "install"
    BY <2>1 DEF MoveAside
  <2>2. ASSUME NEW p \in Updater, Install(p) \/ Rollback(p) PROVE FALSE
    BY <2>2, MissingIsABinary DEF Install, Rollback, Missing
  <2>3. CASE exe # Missing
    <3>1. \A p \in Updater : ~Launch(p) /\ ~AskLatest(p) /\ ~Download(p) /\ ~Fails(p)
            /\ ~MoveAsideFails(p) /\ ~InstallFails(p) /\ ~InstallDenied(p)
            /\ ~RollbackFails(p) /\ ~Crash(p)
      BY <2>3 DEF Launch, AskLatest, Download, Fails, MoveAsideFails, InstallFails,
         InstallDenied, RollbackFails, Crash, files, Missing
    <3>2. ~Release /\ ~UNCHANGED vars
      BY <2>3 DEF Release, vars, files, Missing
    <3> QED BY <2>1, <2>2, <3>1, <3>2 DEF Next
  <2>4. CASE exe = Missing
    <3>1. PICK q \in Updater : pc[q] \in {"install", "rollback", "stuck", "cutShort"}
      BY <2>4 DEF GoneOnlyMidway
    <3>2. ASSUME NEW p \in Updater,
                 Launch(p) \/ AskLatest(p) \/ Download(p) \/ Fails(p) \/ MoveAsideFails(p)
                   \/ InstallFails(p) \/ InstallDenied(p) \/ RollbackFails(p) \/ Crash(p)
          PROVE pc'[q] \in {"install", "rollback", "stuck", "cutShort"}
      BY <2>4, <3>1, <3>2 DEF Launch, AskLatest, Download, Fails, MoveAsideFails, InstallFails,
         InstallDenied, RollbackFails, Crash, Running, Ended, Stage
    <3> QED BY <2>1, <2>2, <3>1, <3>2 DEF Next, Release, vars
  <2> QED BY <2>3, <2>4
<1>3. FilesInv /\ GoneOnlyMidway => AlwaysInstalled
  BY DEF FilesInv, Sound, GoneOnlyMidway, AlwaysInstalled
<1> QED
  BY <1>1, <1>2, <1>3, InitFiles, StepFiles, PTL DEF Spec

-----------------------------------------------------------------------------
LEMMA InitOrder == Init => OrderInv
  BY DEF Init, OrderInv

LEMMA StepOrder == FilesInv /\ OrderInv /\ [Next]_vars => OrderInv'
<1> SUFFICES ASSUME FilesInv, OrderInv, [Next]_vars PROVE OrderInv'
  OBVIOUS
<1> USE DEF FilesInv, TypeOK, Binary, OrderInv, Step
<1>1. ASSUME NEW p \in Updater, Launch(p) PROVE OrderInv'
  BY <1>1 DEF Launch
<1>2. ASSUME NEW p \in Updater, AskLatest(p) PROVE OrderInv'
  BY <1>2, SelfUpdateAssumption DEF AskLatest
<1>3. ASSUME NEW p \in Updater, Download(p) PROVE OrderInv'
  BY <1>3 DEF Download
<1>4. ASSUME NEW p \in Updater,
             Fails(p) \/ MoveAsideFails(p) \/ InstallFails(p) \/ InstallDenied(p)
               \/ RollbackFails(p) \/ Crash(p)
      PROVE OrderInv'
  BY <1>4 DEF Fails, MoveAsideFails, InstallFails, InstallDenied, RollbackFails, Crash
<1>5. ASSUME NEW p \in Updater, MoveAside(p) \/ Install(p) \/ Rollback(p) PROVE OrderInv'
  BY <1>5 DEF MoveAside, Install, Rollback
<1>6. CASE Release \/ UNCHANGED vars
  BY <1>6 DEF Release, vars
<1> QED
  BY <1>1, <1>2, <1>3, <1>4, <1>5, <1>6 DEF Next

(* An update never goes backwards on its own account: when one does, the   *)
(* executable is no longer the binary the updater was started from.        *)
THEOREM NoDowngradeAlone == Spec => DowngradesOnlyUnderRace
<1>1. FilesInv /\ OrderInv =>
        \A p \in Updater : Install(p) /\ exe'.version < exe.version => exe # image[p]
  <2> SUFFICES ASSUME FilesInv, OrderInv, NEW p \in Updater, Install(p),
                      exe'.version < exe.version, exe = image[p]
               PROVE  FALSE
    OBVIOUS
  <2>1. exe'.version = tag[p] /\ image[p].version < tag[p]
    BY DEF Install, Step, FilesInv, TypeOK, OrderInv
  <2>2. tag[p] \in Nat /\ image[p].version \in Nat
    BY SelfUpdateAssumption DEF FilesInv, TypeOK, Binary
  <2> QED BY <2>1, <2>2
<1> QED
  BY <1>1, InitFiles, StepFiles, InitOrder, StepOrder, PTL DEF Spec, DowngradesOnlyUnderRace
=============================================================================
