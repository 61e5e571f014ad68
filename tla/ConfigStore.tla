----------------------------- MODULE ConfigStore -----------------------------
(***************************************************************************)
(* Invocations of ana that share one config.json.  Each invocation is an   *)
(* operating-system process.  The code takes no lock: what it shares is    *)
(* the file system, modelled as two directory entries (config.json and     *)
(* config.json.tmp) and the inodes they name.  A step is one system call   *)
(* of Load or Save; an invocation may die between any two of them.         *)
(***************************************************************************)
EXTENDS ConfigCommands

CONSTANTS
  Proc,          \* invocations, each runs one command
  Command,       \* the commands an invocation may run
  InitDocument,  \* documents config.json may hold at the start
  Inode, NoInode,
  Concurrent     \* FALSE: an invocation starts only when no other one runs

ASSUME CommandAssumption ==
  /\ Command \subseteq CommandType
  /\ \A cmd \in Command : WellFormed(cmd)

ASSUME InitDocumentAssumption ==
  InitDocument \subseteq {d \in Document : SoundDocument(d)}

ASSUME InodeAssumption == NoInode \notin Inode

ASSUME ConcurrentAssumption == Concurrent \in BOOLEAN

VARIABLES
  config,    \* inode that config.json names, NoInode when it is missing
  tmp,       \* inode that config.json.tmp names
  data,      \* contents of the inodes
  pc,        \* the next system call of an invocation, or how it ended
  cmd,       \* its command
  slot,      \* lazyState.profileName, once resolved
  endpoint,  \* the endpoint LoadCfg returned to login or logout
  edited,    \* the configuration it saves
  fd,        \* inode its WriteFile has open, NoInode otherwise
  overlapped \* history: another one was saving since its last Load

files  == <<config, tmp, data>>
memory == <<slot, endpoint, edited, fd, overlapped>>
vars   == <<config, tmp, data, pc, cmd, slot, endpoint, edited, fd, overlapped>>

-----------------------------------------------------------------------------
(* Contents.  A whole content is exactly one marshalled document; any      *)
(* other content (a file just truncated, a document followed by the rest   *)
(* of a longer one, a prefix) is no JSON.  size orders the lengths of      *)
(* documents.                                                              *)

Texts(p) == {f \in {"endpoint", "token", "org"} : p[f] # Unset}

\* A document grows with every profile and every text in it.
SizeOf(c) ==
  LET fields == {f \in Names(c) \X {"name", "endpoint", "token", "org"} :
                   f[2] = "name" \/ f[2] \in Texts(c.profiles[f[1]])}
  IN  1 + Cardinality(fields)

ZeroDocument == DocumentOf(ZeroConfig)

Whole(d) == [whole |-> TRUE,  size |-> SizeOf(d.content), doc |-> d]
Torn(n)  == [whole |-> FALSE, size |-> n, doc |-> ZeroDocument]
Empty    == Torn(0)

\* write(2) of a whole document at offset 0 over what the inode holds.
Overwritten(old, d) ==
  IF old.size > SizeOf(d.content) THEN Torn(old.size) ELSE Whole(d)

Readable == config # NoInode => data[config].whole

\* What Load returns when it returns no error.
Loaded == IF config = NoInode THEN ZeroConfig ELSE LoadOf(data[config].doc)

-----------------------------------------------------------------------------
Ended      == {"ok", "failed", "writeFailed", "removeFailed", "crashed"}
Loading    == {"initConfig", "loadCfg", "load"}
Saving     == {"open", "write", "rename", "cleanup"}
Running(p) == pc[p] \in Loading \cup Saving

FreeInodes == Inode \ ({config, tmp} \cup {fd[q] : q \in Proc})

Goto(p, label) == pc' = [pc EXCEPT ![p] = label]

\* The invocation ends: its memory is gone and the kernel closes its files.
Exit(p, how) ==
  /\ Goto(p, how)
  /\ slot' = [slot EXCEPT ![p] = NoName]
  /\ endpoint' = [endpoint EXCEPT ![p] = Unset]
  /\ edited' = [edited EXCEPT ![p] = ZeroConfig]
  /\ fd' = [fd EXCEPT ![p] = NoInode]
  /\ overlapped' = [overlapped EXCEPT ![p] = FALSE]

Init ==
  /\ \/ /\ config = NoInode
        /\ data = [i \in Inode |-> Empty]
     \/ \E i \in Inode, d \in InitDocument :
          /\ config = i
          /\ data = [[j \in Inode |-> Empty] EXCEPT ![i] = Whole(d)]
  /\ tmp = NoInode
  /\ pc = [p \in Proc |-> "idle"]
  /\ cmd \in [Proc -> Command]
  /\ slot = [p \in Proc |-> NoName]
  /\ endpoint = [p \in Proc |-> Unset]
  /\ edited = [p \in Proc |-> ZeroConfig]
  /\ fd = [p \in Proc |-> NoInode]
  /\ overlapped = [p \in Proc |-> FALSE]

\* The shell starts the program.
Start(p) ==
  /\ pc[p] = "idle"
  /\ Concurrent \/ \A q \in Proc : ~Running(q)
  /\ Goto(p, IF cmd[p].op \in AuthOps THEN "initConfig" ELSE "load")
  /\ UNCHANGED <<files, cmd, memory>>

\* lazyState.initConfig: the first Load of an auth command picks the slot.
InitConfig(p) ==
  /\ pc[p] = "initConfig"
  /\ Readable
  /\ ~UnknownProfile(cmd[p].name, cmd[p].override, Loaded)
  /\ slot' = [slot EXCEPT ![p] = SlotOf(cmd[p], Loaded)]
  /\ Goto(p, "loadCfg")
  /\ UNCHANGED <<files, cmd, endpoint, edited, fd, overlapped>>

\* AuthDeps.LoadCfg: the second Load reads the endpoint of the slot.
LoadCfg(p) ==
  /\ pc[p] = "loadCfg"
  /\ Readable
  /\ endpoint' = [endpoint EXCEPT ![p] = ProfileAt(Loaded, slot[p]).endpoint]
  /\ Goto(p, "load")
  /\ UNCHANGED <<files, cmd, slot, edited, fd, overlapped>>

\* The Load whose result is edited and saved: the only one of a profile
\* command, the one inside AuthDeps.SaveCfg of an auth command.
LoadAndEdit(p) ==
  /\ pc[p] = "load"
  /\ Readable
  /\ cmd[p].op \notin ReadOnly
  /\ Accepts(cmd[p], Loaded)
  /\ edited' = [edited EXCEPT ![p] = Edited(cmd[p], slot[p], endpoint[p], Loaded)]
  /\ overlapped' = [q \in Proc |-> IF q = p THEN \E r \in Proc \ {p} : pc[r] \in Saving
                                            ELSE overlapped[q] \/ pc[q] \in Saving]
  /\ Goto(p, "open")
  /\ UNCHANGED <<files, cmd, slot, endpoint, fd>>

\* A command that only reads prints what it loaded.
LoadAndPrint(p) ==
  /\ pc[p] = "load"
  /\ Readable
  /\ cmd[p].op \in ReadOnly
  /\ Exit(p, "ok")
  /\ UNCHANGED <<files, cmd>>

\* The named profile is unknown, the content is no JSON, or the read itself
\* fails (which it may always do).
LoadFails(p) ==
  /\ pc[p] \in Loading
  /\ Exit(p, "failed")
  /\ UNCHANGED <<files, cmd>>

\* Defect: the open does not truncate.
OpenTmpKeepingContent(p) ==
  /\ pc[p] = "open"
  /\ \E i \in IF tmp = NoInode THEN FreeInodes ELSE {tmp} :
       /\ tmp' = i
       /\ data' = IF tmp = NoInode THEN [data EXCEPT ![i] = Empty] ELSE data
       /\ fd' = [fd EXCEPT ![p] = i]
  /\ Goto(p, "write")
  /\ UNCHANGED <<config, cmd, slot, endpoint, edited, overlapped>>

\* WriteFile opens config.json.tmp with O_CREATE|O_TRUNC: it makes an inode
\* or empties the one another invocation may still be writing.
OpenTmp(p) ==
  /\ pc[p] = "open"
  /\ \E i \in IF tmp = NoInode THEN FreeInodes ELSE {tmp} :
       /\ tmp' = i
       /\ data' = [data EXCEPT ![i] = Empty]
       /\ fd' = [fd EXCEPT ![p] = i]
  /\ Goto(p, "write")
  /\ UNCHANGED <<config, cmd, slot, endpoint, edited, overlapped>>

\* WriteFile writes the document and closes the inode it opened, whatever
\* name that inode has by now.
WriteTmp(p) ==
  /\ pc[p] = "write"
  /\ data' = [data EXCEPT ![fd[p]] = Overwritten(@, DocumentOf(edited[p]))]
  /\ fd' = [fd EXCEPT ![p] = NoInode]
  /\ Goto(p, "rename")
  /\ UNCHANGED <<config, tmp, cmd, slot, endpoint, edited, overlapped>>

\* MkdirAll or the open fails.
OpenTmpFails(p) ==
  /\ pc[p] = "open"
  /\ Exit(p, "failed")
  /\ UNCHANGED <<files, cmd>>

\* The write fails and leaves the file as it is, or a prefix of the document
\* in a file that was empty.  Nothing removes it.
WriteTmpFails(p) ==
  /\ pc[p] = "write"
  /\ \/ UNCHANGED data
     \/ data[fd[p]] = Empty /\ data' = [data EXCEPT ![fd[p]] = Torn(1)]
  /\ Exit(p, "writeFailed")
  /\ UNCHANGED <<config, tmp, cmd>>

\* Rename moves whatever inode config.json.tmp names at this moment.
Rename(p) ==
  /\ pc[p] = "rename"
  /\ tmp # NoInode
  /\ config' = tmp
  /\ tmp' = NoInode
  /\ Exit(p, "ok")
  /\ UNCHANGED <<data, cmd>>

\* Defect: the error of the rename is dropped.
RenameErrorDropped(p) ==
  /\ pc[p] = "rename"
  /\ Exit(p, "ok")
  /\ UNCHANGED <<files, cmd>>

\* config.json.tmp is gone, or the file system refuses.
RenameFails(p) ==
  /\ pc[p] = "rename"
  /\ Goto(p, "cleanup")
  /\ UNCHANGED <<files, cmd, memory>>

\* Defect: the error is returned without the clean-up.
ReturnWithoutRemove(p) ==
  /\ pc[p] = "cleanup"
  /\ Exit(p, "failed")
  /\ UNCHANGED <<files, cmd>>

\* os.Remove(tmp) before the error of the rename is returned.
RemoveTmp(p) ==
  /\ pc[p] = "cleanup"
  /\ tmp' = NoInode
  /\ Exit(p, "failed")
  /\ UNCHANGED <<config, data, cmd>>

\* The file system refuses the removal as well, and its error is discarded:
\* config.json.tmp stays where it is.
RemoveTmpFails(p) ==
  /\ pc[p] = "cleanup"
  /\ tmp # NoInode
  /\ Exit(p, "removeFailed")
  /\ UNCHANGED <<files, cmd>>

\* The process is killed.
Crash(p) ==
  /\ Running(p)
  /\ Exit(p, "crashed")
  /\ UNCHANGED <<files, cmd>>

Step(p) ==
  \/ InitConfig(p) \/ LoadCfg(p) \/ LoadAndEdit(p) \/ LoadAndPrint(p) \/ LoadFails(p)
  \/ OpenTmp(p) \/ OpenTmpFails(p) \/ WriteTmp(p) \/ WriteTmpFails(p)
  \/ Rename(p) \/ RenameFails(p) \/ RemoveTmp(p) \/ RemoveTmpFails(p)

Next == \E p \in Proc : Start(p) \/ Step(p) \/ Crash(p)

Spec == Init /\ [][Next]_vars
=============================================================================
