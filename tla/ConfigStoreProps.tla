-------------------------- MODULE ConfigStoreProps --------------------------
(***************************************************************************)
(* Properties of ConfigStore.                                              *)
(***************************************************************************)
EXTENDS ConfigStore

ContentType == [whole : BOOLEAN, size : Nat, doc : Document]

(* Every variable holds a value of its type; an invocation has a file open *)
(* exactly while its WriteFile is between open and close.                  *)
TypeOK ==
  /\ config \in Inode \cup {NoInode}
  /\ tmp \in Inode \cup {NoInode}
  /\ data \in [Inode -> ContentType]
  /\ pc \in [Proc -> {"idle"} \cup Loading \cup Saving \cup Ended]
  /\ cmd \in [Proc -> Command]
  /\ slot \in [Proc -> Name \cup {NoName}]
  /\ endpoint \in [Proc -> Endpoint \cup {Unset}]
  /\ edited \in [Proc -> Config]
  /\ fd \in [Proc -> Inode \cup {NoInode}]
  /\ overlapped \in [Proc -> BOOLEAN]
  /\ \A p \in Proc : pc[p] = "write" <=> fd[p] # NoInode

-----------------------------------------------------------------------------
(* However invocations interleave and wherever they die, a config.json     *)
(* that parses has an active pointer that names one of its profiles (or    *)
(* nothing): Upsert, Remove and use keep the pointer and the map together, *)
(* and no save mixes the pointer of one with the map of another.           *)
ActiveIsNeverDangling ==
  config # NoInode /\ data[config].whole => SoundDocument(data[config].doc)

(* A config.json.tmp, which holds bearer tokens, is left behind only by an *)
(* invocation that died, whose write failed (nothing removes it then), or  *)
(* whose removal was refused after its rename was (the error of the        *)
(* removal is discarded): otherwise, when nobody is saving, every rename   *)
(* has consumed it or its removal has taken it away.                       *)
TmpOutlivesOnlyAbnormalEnds ==
  tmp # NoInode /\ (\A p \in Proc : pc[p] \notin Saving)
    => \E p \in Proc : pc[p] \in {"crashed", "writeFailed", "removeFailed"}

(* The update interval of a file in the present shape survives every       *)
(* command, overlapping or not: a save that replaces one readable          *)
(* configuration by another carries it over.                               *)
IntervalSurvives ==
  [][ config # NoInode /\ data[config].whole /\ data[config].doc.shape = "profiles"
      /\ config' # NoInode /\ data'[config'].whole
        => data'[config'].doc.content.interval = data[config].doc.content.interval
    ]_vars

(* main.go:433 says of AuthDeps.SaveCfg that it "preserves every other     *)
(* profile": the profiles a command is not about are the same after its    *)
(* rename as before, though it writes the whole map it loaded.  This holds *)
(* of every command that saves, among other invocations that load, fail    *)
(* and die, provided none of them was saving between its last Load and its *)
(* rename; without the proviso updates are lost.                           *)
TargetsOf(p) ==
  IF cmd[p].op \in AuthOps THEN {slot[p]}
  ELSE IF cmd[p].op = "use" THEN {} ELSE {cmd[p].name}

OthersKept(p) ==
  \A n \in Names(Loaded) \ TargetsOf(p) :
    n \in Names(Loaded') /\ ProfileAt(Loaded', n) = Loaded.profiles[n]

SavePreservesOthers ==
  [][ \A p \in Proc :
        pc[p] = "rename" /\ pc'[p] = "ok" /\ ~overlapped[p]
          => Readable' /\ OthersKept(p)
    ]_vars

-----------------------------------------------------------------------------
(* With one invocation at a time, and a crash or an I/O error at any step, *)
(* config.json always parses.  Save's tmp-and-rename is what gives this.   *)
AlwaysReadable == Readable

Atomic == INSTANCE AtomicConfig WITH
  Initial <- {ZeroConfig} \cup {LoadOf(d) : d \in InitDocument},
  store   <- Loaded,
  request <- cmd,
  outcome <- [p \in Proc |-> IF pc[p] \notin Ended THEN "pending"
                             ELSE IF pc[p] \in {"writeFailed", "removeFailed"} THEN "failed"
                             ELSE pc[p]]

(* With one invocation at a time the file behaves as an atomic register:   *)
(* each command that reports success has edited the stored configuration   *)
(* in one step, and a command that failed or died has changed nothing.     *)
ImplementsAtomicConfig == Atomic!Spec

-----------------------------------------------------------------------------
(* config.go:141 says "Save writes cfg to path atomically": a reader finds *)
(* one whole document or another.                                          *)
SaveIsAtomic == Readable

(* README.md:75 says the interval is set in config.json: a command that    *)
(* has nothing to do with it does not erase it.                            *)
SettingSurvivesLogin ==
  [][ config # NoInode /\ data[config].whole /\ config' # NoInode /\ data'[config'].whole
        => data'[config'].doc.content.interval = data[config].doc.content.interval
    ]_vars
=============================================================================
