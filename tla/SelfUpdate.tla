----------------------------- MODULE SelfUpdate -----------------------------
(***************************************************************************)
(* `ana update`: several processes may run it at once, and each may be     *)
(* killed at any step.  A binary is a record of the version it carries,    *)
(* whether it is whole, and who made it, so that two downloads of one      *)
(* release are two files.                                                  *)
(*                                                                         *)
(* On Unix rename replaces the executable even while it runs.  On Windows  *)
(* a running image can be renamed but neither deleted nor replaced.        *)
(***************************************************************************)
EXTENDS Naturals

CONSTANTS
  Updater,     \* processes
  MaxVersion,  \* bound on the releases published
  Nobody       \* who made the binary that was installed first

ASSUME SelfUpdateAssumption == MaxVersion \in Nat \ {0} /\ Nobody \notin Updater

\* windows is deps.GOOS = "windows", writable says the directory of the
\* executable may be written, oneDevice that the temporary directory is on
\* the same file system.
Host == [windows : BOOLEAN, writable : BOOLEAN, oneDevice : BOOLEAN]

Missing == [version |-> 0, whole |-> FALSE, by |-> Nobody]

Binary == [version : 0 .. MaxVersion, whole : BOOLEAN, by : Updater \union {Nobody}]

VARIABLES
  host,       \* the machine, which does not change
  exe, old,   \* what is at the path of the executable, and at its .old
  latest,     \* the release GitHub calls latest
  pc,         \* per process, see Stage
  image,      \* the binary it runs
  tag,        \* the release it was told is latest
  staged      \* the binary it last had in its temporary directory

files == <<exe, old>>
vars  == <<host, exe, old, latest, pc, image, tag, staged>>

\* "rolledBack" failed and put the old binary back, "stuck" could not;
\* "cutShort" was killed with the executable at stake, "killed" before.
Ended == {"current", "updated", "failed", "rolledBack", "stuck", "killed", "cutShort"}
Stage == {"idle", "ask", "fetch", "aside", "install", "rollback"} \union Ended

Running(p) == pc[p] \notin Ended \union {"idle"}
InUse(b)   == \E p \in Updater : Running(p) /\ image[p] = b

Init ==
  /\ host \in Host
  /\ exe \in {b \in Binary : b.version > 0 /\ b.whole /\ b.by = Nobody}
  /\ old = Missing
  /\ latest = 1
  /\ pc = [p \in Updater |-> "idle"]
  /\ image = [p \in Updater |-> Missing]
  /\ tag = [p \in Updater |-> 0]
  /\ staged = [p \in Updater |-> Missing]

Step(p, from, to) == pc[p] = from /\ pc' = [pc EXCEPT ![p] = to]

-----------------------------------------------------------------------------
Release ==
  /\ latest < MaxVersion
  /\ latest' = latest + 1
  /\ UNCHANGED <<host, files, pc, image, tag, staged>>

\* The process starts; on Windows a .old that nothing runs is removed, if
\* that succeeds.
Launch(p) ==
  /\ exe # Missing
  /\ Step(p, "idle", "ask")
  /\ image' = [image EXCEPT ![p] = exe]
  /\ \/ UNCHANGED old
     \/ host.windows /\ host.writable /\ ~InUse(old) /\ old' = Missing
  /\ UNCHANGED <<host, exe, latest, tag, staged>>

\* Defect: any other version passes for a newer one.
AskLatestUnlessSame(p) ==
  /\ \/ image[p].version # latest /\ Step(p, "ask", "fetch")
     \/ image[p].version = latest /\ Step(p, "ask", "current")
  /\ tag' = [tag EXCEPT ![p] = latest]
  /\ UNCHANGED <<host, files, latest, image, staged>>

\* LatestRelease, and the comparison with the version of the process.
AskLatest(p) ==
  /\ \/ image[p].version < latest  /\ Step(p, "ask", "fetch")
     \/ image[p].version >= latest /\ Step(p, "ask", "current")
  /\ tag' = [tag EXCEPT ![p] = latest]
  /\ UNCHANGED <<host, files, latest, image, staged>>

\* What arrives may be damaged; only an archive with the digest that
\* checksums.txt has for it is extracted.
Verified(b) == b.whole

Download(p) ==
  /\ \E intact \in BOOLEAN :
       LET got == [version |-> tag[p], whole |-> intact, by |-> p]
       IN  /\ Verified(got)
           /\ staged' = [staged EXCEPT ![p] = got]
  /\ Step(p, "fetch", IF host.windows THEN "aside" ELSE "install")
  /\ UNCHANGED <<host, files, latest, image, tag>>

\* GitHub does not answer, the digest does not match, the archive has no
\* binary, the disk is full: the temporary directory is removed.
Fails(p) ==
  /\ Step(p, "ask", "failed") \/ Step(p, "fetch", "failed")
  /\ UNCHANGED <<host, files, latest, image, tag, staged>>

\* os.Rename onto the path where b is.
CanReplace(b) == host.writable /\ (host.windows => ~InUse(b) \/ b = Missing)

\* Defect: the old binary is deleted, not renamed.
DeleteInsteadOfAside(p) ==
  /\ exe # Missing /\ CanReplace(old)
  /\ Step(p, "aside", "install")
  /\ exe' = Missing
  /\ UNCHANGED <<host, old, latest, image, tag, staged>>

MoveAside(p) ==
  /\ exe # Missing /\ CanReplace(old)
  /\ Step(p, "aside", "install")
  /\ old' = exe
  /\ exe' = Missing
  /\ UNCHANGED <<host, latest, image, tag, staged>>

MoveAsideFails(p) ==
  /\ Step(p, "aside", "failed")
  /\ UNCHANGED <<host, files, latest, image, tag, staged>>

Install(p) ==
  /\ CanReplace(exe) /\ host.oneDevice
  /\ Step(p, "install", "updated")
  /\ exe' = staged[p]
  /\ staged' = [staged EXCEPT ![p] = Missing]
  /\ UNCHANGED <<host, old, latest, image, tag>>

InstallFails(p) ==
  /\ ~(CanReplace(exe) /\ host.oneDevice)
  /\ Step(p, "install", IF host.windows THEN "rollback" ELSE "failed")
  /\ UNCHANGED <<host, files, latest, image, tag, staged>>

\* Defect: no rollback.
InstallDeniedForGood(p) ==
  /\ host.windows
  /\ Step(p, "install", "failed")
  /\ UNCHANGED <<host, files, latest, image, tag, staged>>

\* Other programs, a virus scanner for one, hold files open on Windows.
InstallDenied(p) ==
  /\ host.windows
  /\ Step(p, "install", "rollback")
  /\ UNCHANGED <<host, files, latest, image, tag, staged>>

Rollback(p) ==
  /\ old # Missing /\ CanReplace(exe)
  /\ Step(p, "rollback", "rolledBack")
  /\ exe' = old
  /\ old' = Missing
  /\ UNCHANGED <<host, latest, image, tag, staged>>

RollbackFails(p) ==
  /\ Step(p, "rollback", "stuck")
  /\ UNCHANGED <<host, files, latest, image, tag, staged>>

\* Killed.  That the machine stops is another matter: nothing is synced.
Crash(p) ==
  /\ Running(p)
  /\ pc' = [pc EXCEPT ![p] = IF @ \in {"install", "rollback"} THEN "cutShort" ELSE "killed"]
  /\ UNCHANGED <<host, files, latest, image, tag, staged>>

Next ==
  \/ Release
  \/ \E p \in Updater :
       \/ Launch(p) \/ AskLatest(p) \/ Download(p) \/ Fails(p)
       \/ MoveAside(p) \/ MoveAsideFails(p)
       \/ Install(p) \/ InstallFails(p) \/ InstallDenied(p)
       \/ Rollback(p) \/ RollbackFails(p)
       \/ Crash(p)

Spec == Init /\ [][Next]_vars

-----------------------------------------------------------------------------
(* Properties.                                                             *)

TypeOK ==
  /\ host \in Host
  /\ exe \in Binary /\ old \in Binary
  /\ latest \in 1 .. MaxVersion
  /\ pc \in [Updater -> Stage]
  /\ image \in [Updater -> Binary] /\ staged \in [Updater -> Binary]
  /\ \A p \in Updater : pc[p] \in {"aside", "install"} => staged[p].version = tag[p]

(* cmd/ana/update.go:14: `ana update` "atomically replaces the running     *)
(* binary".  On Unix it does: at every moment a whole executable is        *)
(* installed, whoever else updates and whoever is killed.  On Windows it   *)
(* may be gone, but only while a process is between its two renames, or    *)
(* was killed there, or told its user that the rollback failed.            *)
AlwaysInstalled ==
  ~exe.whole =>
    host.windows /\ \E p \in Updater : pc[p] \in {"install", "rollback", "stuck", "cutShort"}

(* ... and a binary that runs is never lost: it is then at .old, whole.    *)
Recoverable == exe.whole \/ old.whole

(* An update goes backwards only over an executable that somebody else     *)
(* replaced after the updater had started.                                 *)
DowngradesOnlyUnderRace ==
  [][ \A p \in Updater :
        Install(p) /\ exe'.version < exe.version => exe # image[p] ]_vars
=============================================================================
