-------------------------- MODULE ConfigStoreProofs --------------------------
(***************************************************************************)
(* Theorems about ConfigStore, for any number of invocations, names,       *)
(* endpoints, tokens, commands and initial documents.                      *)
(***************************************************************************)
EXTENDS ConfigStoreProps, FiniteSetTheorems, WellFoundedInduction, TLAPS

-----------------------------------------------------------------------------
(* The operations on a configuration: each yields a configuration, and     *)
(* none leaves the active pointer dangling.                                *)

(* slices.Sort(names)[0] is one of the names.                              *)
LEMMA LexFirstIsMember ==
  ASSUME NEW S \in SUBSET Name, S # {}
  PROVE  LexFirst(S) \in S
<1> DEFINE UpTo(n) == {m \in S : m <= n}
           T       == {UpTo(n) : n \in S}
<1>1. S \subseteq Nat /\ IsFiniteSet(S)
  BY NameAssumption, FS_Subset
<1>2. T \subseteq FiniteSubsetsOf(S) /\ T # {}
  <2>1. \A n \in S : UpTo(n) \in SUBSET S
    OBVIOUS
  <2>2. \A n \in S : IsFiniteSet(UpTo(n))
    BY <1>1, <2>1, FS_Subset
  <2> QED
    BY <2>1, <2>2 DEF FiniteSubsetsOf
<1>3. PICK x \in T : \A y \in T : <<y, x>> \notin StrictSubsetOrdering(S)
  BY <1>2, FS_StrictSubsetOrderingWellFounded, WFMin
<1>4. PICK n \in S : x = UpTo(n)
  OBVIOUS
<1>5. ASSUME NEW m \in S, ~ (n <= m)
      PROVE  FALSE
  <2>1. UpTo(m) \subseteq UpTo(n) /\ n \in UpTo(n) /\ n \notin UpTo(m)
    <3>1. m \in Nat /\ n \in Nat /\ m < n
      BY <1>1, <1>5
    <3>2. \A k \in S : k \in Nat
      BY <1>1
    <3>3. \A k \in S : k <= m => k <= n
      BY <3>1, <3>2
    <3>4. ~ (n <= m) /\ n <= n
      BY <3>1
    <3> QED
      BY <3>3, <3>4
  <2>2. <<UpTo(m), UpTo(n)>> \in StrictSubsetOrdering(S)
    BY <2>1 DEF StrictSubsetOrdering
  <2> QED
    BY <1>3, <1>4, <2>2
<1> QED
  BY <1>5 DEF LexFirst

(* The profiles of a configuration are a function from some of the names.  *)
LEMMA ProfilesOf ==
  ASSUME NEW c \in Config
  PROVE  /\ Names(c) \in SUBSET Name
         /\ c.profiles \in [Names(c) -> Profile]
         /\ c.active \in Name \cup {NoName}
         /\ c.interval \in Interval \cup {Unset}
BY DEF Config, Profiles, Names

LEMMA NoProfileType == NoProfile \in Profile
BY DEF NoProfile, Profile

LEMMA ProfileAtType ==
  ASSUME NEW c \in Config, NEW n
  PROVE  ProfileAt(c, n) \in Profile
BY ProfilesOf, NoProfileType DEF ProfileAt

LEMMA ZeroConfigType == ZeroConfig \in Config /\ ActiveSelectsAProfile(ZeroConfig)
<1>1. [n \in {} |-> NoProfile] \in [{} -> Profile]
  OBVIOUS
<1> QED
  BY <1>1 DEF ZeroConfig, Config, Profiles, ActiveSelectsAProfile

(* Upsert: the named profile is replaced, the others kept, and an active   *)
(* pointer that selected a profile still does.                             *)
LEMMA UpsertCorrect ==
  ASSUME NEW c \in Config, NEW name \in Name, NEW prof \in Profile
  PROVE  /\ Upsert(c, name, prof) \in Config
         /\ Names(Upsert(c, name, prof)) = Names(c) \cup {name}
         /\ \A n \in Names(c) \ {name} : ProfileAt(Upsert(c, name, prof), n) = c.profiles[n]
         /\ Upsert(c, name, prof).interval = c.interval
         /\ ActiveSelectsAProfile(c) => ActiveSelectsAProfile(Upsert(c, name, prof))
<1> DEFINE ps == [n \in Names(c) \cup {name} |-> IF n = name THEN prof ELSE c.profiles[n]]
           a  == IF c.active = NoName THEN name ELSE c.active
<1>1. Upsert(c, name, prof) = [profiles |-> ps, active |-> a, interval |-> c.interval]
  <2>1. c = [profiles |-> c.profiles, active |-> c.active, interval |-> c.interval]
    BY DEF Config
  <2>2. Upsert(c, name, prof) = [c EXCEPT !.profiles = ps, !.active = a]
    BY DEF Upsert
  <2> HIDE DEF ps, a
  <2> QED
    BY <2>1, <2>2
<1>2. ps \in [Names(c) \cup {name} -> Profile]
  BY ProfilesOf
<1>3. ps \in Profiles
  BY <1>2, ProfilesOf DEF Profiles
<1>4. a \in Name \cup {NoName}
  BY ProfilesOf
<1>5. Upsert(c, name, prof) \in Config
  BY <1>1, <1>3, <1>4, ProfilesOf DEF Config
<1>6. Names(Upsert(c, name, prof)) = Names(c) \cup {name}
  BY <1>1 DEF Names
<1>7. \A n \in Names(c) \ {name} : ProfileAt(Upsert(c, name, prof), n) = c.profiles[n]
  BY <1>1, <1>6 DEF ProfileAt
<1>8. ActiveSelectsAProfile(c) => ActiveSelectsAProfile(Upsert(c, name, prof))
  BY <1>1, <1>6, NameAssumption DEF ActiveSelectsAProfile
<1> QED
  BY <1>1, <1>5, <1>6, <1>7, <1>8

(* Remove: the other profiles are kept and the active pointer moves off    *)
(* the profile that went.                                                  *)
LEMMA RemoveCorrect ==
  ASSUME NEW c \in Config, NEW name \in Name
  PROVE  /\ Remove(c, name) \in Config
         /\ Names(Remove(c, name)) = Names(c) \ {name}
         /\ \A n \in Names(c) \ {name} : ProfileAt(Remove(c, name), n) = c.profiles[n]
         /\ Remove(c, name).interval = c.interval
         /\ ActiveSelectsAProfile(c) => ActiveSelectsAProfile(Remove(c, name))
<1> DEFINE rest == Names(c) \ {name}
           ps   == [n \in rest |-> c.profiles[n]]
           a    == IF c.active # name THEN c.active
                   ELSE IF rest = {} THEN NoName ELSE LexFirst(rest)
<1>1. Remove(c, name) = [profiles |-> ps, active |-> a, interval |-> c.interval]
  <2>1. c = [profiles |-> c.profiles, active |-> c.active, interval |-> c.interval]
    BY DEF Config
  <2>2. Remove(c, name) = [c EXCEPT !.profiles = ps, !.active = a]
    BY DEF Remove
  <2> HIDE DEF ps, a
  <2> QED
    BY <2>1, <2>2
<1>2. rest \in SUBSET Name /\ ps \in [rest -> Profile]
  BY ProfilesOf
<1>3. ps \in Profiles
  BY <1>2 DEF Profiles
<1>4. rest # {} => LexFirst(rest) \in rest
  BY <1>2, LexFirstIsMember
<1>5. a \in Name \cup {NoName}
  BY <1>2, <1>4, ProfilesOf
<1>6. Remove(c, name) \in Config
  BY <1>1, <1>3, <1>5, ProfilesOf DEF Config
<1>7. Names(Remove(c, name)) = rest
  BY <1>1 DEF Names
<1>8. \A n \in rest : ProfileAt(Remove(c, name), n) = c.profiles[n]
  BY <1>1, <1>7 DEF ProfileAt
<1>9. ActiveSelectsAProfile(c) => ActiveSelectsAProfile(Remove(c, name))
  BY <1>1, <1>4, <1>7, ProfilesOf DEF ActiveSelectsAProfile
<1> QED
  BY <1>1, <1>6, <1>7, <1>8, <1>9

(* Load yields a configuration, sound when the document is.                *)
LEMMA LoadOfCorrect ==
  ASSUME NEW d \in Document
  PROVE  /\ LoadOf(d) \in Config
         /\ SoundDocument(d) => ActiveSelectsAProfile(LoadOf(d))
         /\ d.shape = "profiles" => LoadOf(d).interval = d.content.interval
<1> DEFINE c == d.content
<1>0. c \in Config /\ d.shape \in {"profiles", "legacy", "bare"}
  BY DEF Document
<1>1. CASE d.shape = "bare"
  BY <1>1, ZeroConfigType DEF LoadOf
<1>2. CASE d.shape = "legacy"
  <2> DEFINE ps == [n \in {Default} |-> [ProfileAt(c, Default) EXCEPT !.org = Unset]]
  <2>1. LoadOf(d) = [profiles |-> ps, active |-> Default, interval |-> Unset]
    BY <1>2 DEF LoadOf
  <2>2. [ProfileAt(c, Default) EXCEPT !.org = Unset] \in Profile
    BY <1>0, ProfileAtType DEF Profile
  <2>3. ps \in [{Default} -> Profile] /\ {Default} \in SUBSET Name
    BY <2>2, NameAssumption
  <2>4. ps \in Profiles
    BY <2>3 DEF Profiles
  <2> QED
    BY <1>2, <2>1, <2>4, NameAssumption DEF Config, ActiveSelectsAProfile, Names
<1>3. CASE d.shape = "profiles"
  <2> DEFINE n1 == LexFirst(Names(c))
  <2>1. CASE c.active = NoName /\ \E n \in Name : Names(c) = {n}
    <3>1. LoadOf(d) = [c EXCEPT !.active = n1]
      BY <1>3, <2>1 DEF LoadOf
    <3>2. n1 \in Names(c)
      BY <1>0, <2>1, ProfilesOf, LexFirstIsMember
    <3>3. /\ LoadOf(d) \in Config
          /\ LoadOf(d).profiles = c.profiles
          /\ LoadOf(d).active = n1
          /\ LoadOf(d).interval = c.interval
      BY <1>0, <3>1, <3>2, ProfilesOf DEF Config
    <3> QED
      BY <3>2, <3>3 DEF ActiveSelectsAProfile, Names
  <2>2. CASE ~(c.active = NoName /\ \E n \in Name : Names(c) = {n})
    <3>1. LoadOf(d) = c
      BY <1>3, <2>2 DEF LoadOf
    <3> QED
      BY <1>0, <1>3, <3>1 DEF SoundDocument
  <2> QED
    BY <2>1, <2>2
<1> QED
  BY <1>0, <1>1, <1>2, <1>3

(* The slot an auth command resolves is a name.                            *)
LEMMA SlotOfType ==
  ASSUME NEW c \in Config, NEW ask \in CommandType
  PROVE  SlotOf(ask, c) \in Name
<1>1. Names(c) # {} => LexFirst(Names(c)) \in Name
  BY ProfilesOf, LexFirstIsMember
<1>2. ask.name \in Name \cup {NoName} /\ ask.envProfile \in Name \cup {NoName}
  BY DEF CommandType
<1> QED
  BY <1>1, <1>2, ProfilesOf, NameAssumption DEF SlotOf, PickProfileName

(* What a login or logout makes of its slot is a profile.                  *)
LEMMA AuthProfileType ==
  ASSUME NEW c \in Config, NEW ask \in CommandType, NEW s \in Name, NEW e \in Endpoint \cup {Unset}
  PROVE  AuthProfile(ask, s, e, c) \in Profile
<1>1. ask.endpoint \in Endpoint \cup {Unset} /\ ask.token \in Token \cup {Unset}
  BY DEF CommandType
<1>2. PickEndpoint(ask.endpoint, e) \in Endpoint \cup {Unset}
  BY <1>1, DefaultEndpointAssumption DEF PickEndpoint
<1> QED
  BY <1>1, <1>2, ProfileAtType DEF AuthProfile, Profile

(* What profile add stores is a profile.                                   *)
LEMMA AddedProfileType ==
  ASSUME NEW ask \in CommandType
  PROVE  AddedProfile(ask) \in Profile
BY DefaultEndpointAssumption DEF AddedProfile, PickEndpoint, CommandType, Profile

(* What a command saves is a configuration that keeps the update interval, *)
(* and whose active pointer is sound when the one it loaded was.           *)
LEMMA EditedCorrect ==
  ASSUME NEW c \in Config, NEW ask \in CommandType, WellFormed(ask), Accepts(ask, c),
         ask.op \notin ReadOnly,
         NEW s \in Name \cup {NoName}, ask.op \in AuthOps => s \in Name,
         NEW e \in Endpoint \cup {Unset}
  PROVE  /\ Edited(ask, s, e, c) \in Config
         /\ Edited(ask, s, e, c).interval = c.interval
         /\ ActiveSelectsAProfile(c) => ActiveSelectsAProfile(Edited(ask, s, e, c))
<1>0. /\ ask.op \in AuthOps \cup ProfileOps
      /\ ask.name \in Name \cup {NoName}
      /\ ask.endpoint \in Endpoint \cup {Unset}
      /\ ask.token \in Token \cup {Unset}
      /\ ask.org \in Org \cup {Unset}
  BY DEF CommandType
<1>p. \A a, b \in Endpoint \cup {Unset} : PickEndpoint(a, b) \in Endpoint \cup {Unset}
  BY DefaultEndpointAssumption DEF PickEndpoint
<1>1. CASE ask.op \in AuthOps
  <2>1. AuthProfile(ask, s, e, c) \in Profile
    BY <1>0, <1>p, ProfileAtType DEF AuthProfile, Profile
  <2>2. Edited(ask, s, e, c) = Upsert(c, s, AuthProfile(ask, s, e, c))
    BY <1>1 DEF Edited, AuthOps
  <2> QED
    BY <1>1, <2>1, <2>2, UpsertCorrect
<1>2. CASE ask.op = "add"
  <2>1. AddedProfile(ask) \in Profile
    BY <1>0, <1>p DEF AddedProfile, Profile
  <2>2. Edited(ask, s, e, c) = Upsert(c, ask.name, AddedProfile(ask))
    BY <1>2 DEF Edited, AuthOps
  <2>3. ask.name \in Name
    BY <1>0, <1>2 DEF WellFormed
  <2> QED
    BY <2>1, <2>2, <2>3, UpsertCorrect
<1>3. CASE ask.op = "use"
  <2>1. Edited(ask, s, e, c) = [c EXCEPT !.active = ask.name]
    BY <1>3 DEF Edited, AuthOps
  <2>2. ask.name \in Names(c)
    BY <1>3 DEF Accepts
  <2> QED
    BY <2>1, <2>2, ProfilesOf DEF Config, ActiveSelectsAProfile, Names
<1>4. CASE ask.op = "remove"
  <2>1. Edited(ask, s, e, c) = Remove(c, ask.name)
    BY <1>4 DEF Edited, AuthOps
  <2>2. ask.name \in Name
    BY <1>0, <1>4 DEF WellFormed
  <2> QED
    BY <2>1, <2>2, RemoveCorrect
<1> QED
  BY <1>0, <1>1, <1>2, <1>3, <1>4 DEF AuthOps, ProfileOps, ReadOnly

-----------------------------------------------------------------------------
(* Contents.                                                               *)

LEMMA SizeOfType ==
  ASSUME NEW c \in Config
  PROVE  SizeOf(c) \in Nat
<1> DEFINE Kinds  == {"name", "endpoint", "token", "org"}
           fields == {f \in Names(c) \X Kinds :
                        f[2] = "name" \/ f[2] \in Texts(c.profiles[f[1]])}
<1>1. IsFiniteSet(Names(c))
  BY ProfilesOf, NameAssumption, FS_Subset
<1>2. IsFiniteSet(Kinds)
  <2>1. IsFiniteSet(({} \cup {"name"}) \cup {"endpoint"})
    BY FS_EmptySet, FS_AddElement
  <2>2. IsFiniteSet(((({} \cup {"name"}) \cup {"endpoint"}) \cup {"token"}) \cup {"org"})
    BY <2>1, FS_AddElement
  <2>3. Kinds = ((({} \cup {"name"}) \cup {"endpoint"}) \cup {"token"}) \cup {"org"}
    OBVIOUS
  <2> QED
    BY <2>2, <2>3
<1>3. IsFiniteSet(Names(c) \X Kinds)
  BY <1>1, <1>2, FS_Product
<1>4. fields \in SUBSET (Names(c) \X Kinds)
  OBVIOUS
<1>5. Cardinality(fields) \in Nat
  BY <1>3, <1>4, FS_Subset, FS_CardinalityType
<1> QED
  BY <1>5 DEF SizeOf

LEMMA DocumentOfType ==
  ASSUME NEW c \in Config
  PROVE  /\ DocumentOf(c) \in Document
         /\ DocumentOf(c).shape = "profiles"
         /\ DocumentOf(c).content = c
         /\ ActiveSelectsAProfile(c) => SoundDocument(DocumentOf(c))
         /\ LoadOf(DocumentOf(c)).interval = c.interval
BY DEF DocumentOf, Document, SoundDocument, LoadOf, Config

LEMMA TornType ==
  ASSUME NEW n \in Nat
  PROVE  Torn(n) \in ContentType /\ ~Torn(n).whole
BY ZeroConfigType, DocumentOfType DEF Torn, ContentType, ZeroDocument

LEMMA WholeType ==
  ASSUME NEW d \in Document
  PROVE  Whole(d) \in ContentType /\ Whole(d).whole /\ Whole(d).doc = d
BY SizeOfType DEF Whole, ContentType, Document

(* A write leaves the document it writes, or no document at all.           *)
LEMMA OverwrittenCorrect ==
  ASSUME NEW old \in ContentType, NEW d \in Document
  PROVE  /\ Overwritten(old, d) \in ContentType
         /\ Overwritten(old, d).whole => Overwritten(old, d).doc = d
         /\ old = Empty => Overwritten(old, d) = Whole(d)
<1>1. old.size \in Nat /\ SizeOf(d.content) \in Nat
  BY SizeOfType DEF ContentType, Document
<1>2. old = Empty => ~ (old.size > SizeOf(d.content))
  BY <1>1 DEF Empty, Torn
<1> QED
  BY <1>1, <1>2, TornType, WholeType DEF Overwritten

-----------------------------------------------------------------------------
(* Type correctness.  An auth command has a slot once initConfig is done;  *)
(* what it edits depends on it.                                            *)

SlotResolved ==
  \A p \in Proc : pc[p] \in {"loadCfg", "load"} /\ cmd[p].op \in AuthOps => slot[p] \in Name

TypeInv == TypeOK /\ SlotResolved

LEMMA LoadedType ==
  ASSUME TypeOK
  PROVE  Loaded \in Config
BY LoadOfCorrect, ZeroConfigType DEF Loaded, TypeOK, ContentType

LEMMA ExitType ==
  ASSUME TypeInv, NEW p \in Proc, NEW how \in Ended, Exit(p, how),
         config' \in Inode \cup {NoInode}, tmp' \in Inode \cup {NoInode},
         data' \in [Inode -> ContentType], UNCHANGED cmd
  PROVE  TypeInv'
<1>1. pc' \in [Proc -> {"idle"} \cup Loading \cup Saving \cup Ended]
  BY DEF TypeInv, TypeOK, Exit, Goto
<1>2. slot' \in [Proc -> Name \cup {NoName}] /\ endpoint' \in [Proc -> Endpoint \cup {Unset}]
  BY DEF TypeInv, TypeOK, Exit
<1>3. edited' \in [Proc -> Config] /\ fd' \in [Proc -> Inode \cup {NoInode}]
      /\ overlapped' \in [Proc -> BOOLEAN]
  BY ZeroConfigType DEF TypeInv, TypeOK, Exit
<1>4. \A q \in Proc : pc'[q] = "write" <=> fd'[q] # NoInode
  BY DEF TypeInv, TypeOK, Exit, Goto, Ended
<1>5. SlotResolved'
  BY DEF TypeInv, TypeOK, SlotResolved, Exit, Goto, Ended
<1> QED
  BY <1>1, <1>2, <1>3, <1>4, <1>5 DEF TypeInv, TypeOK

LEMMA TypeInit == Init => TypeInv
<1> SUFFICES ASSUME Init PROVE TypeInv
  OBVIOUS
<1>1. Empty \in ContentType
  BY TornType DEF Empty
<1>2. data \in [Inode -> ContentType] /\ config \in Inode \cup {NoInode}
  <2>1. CASE config = NoInode /\ data = [i \in Inode |-> Empty]
    BY <1>1, <2>1
  <2>2. ASSUME NEW i \in Inode, NEW d \in InitDocument, config = i,
               data = [[j \in Inode |-> Empty] EXCEPT ![i] = Whole(d)]
        PROVE  data \in [Inode -> ContentType] /\ config \in Inode \cup {NoInode}
    BY <1>1, <2>2, WholeType, InitDocumentAssumption
  <2> QED
    BY <2>1, <2>2 DEF Init
<1> QED
  BY <1>2, ZeroConfigType, InodeAssumption DEF Init, TypeInv, TypeOK, SlotResolved

LEMMA TypeStep == TypeInv /\ [Next]_vars => TypeInv'
<1> SUFFICES ASSUME TypeInv, [Next]_vars PROVE TypeInv'
  OBVIOUS
<1> USE DEF TypeInv
<1>c. \A p \in Proc : cmd[p] \in CommandType /\ WellFormed(cmd[p])
  BY CommandAssumption DEF TypeOK
<1>l. Loaded \in Config
  BY LoadedType
<1>e. Empty \in ContentType /\ Torn(1) \in ContentType
  BY TornType DEF Empty
<1>1. ASSUME NEW p \in Proc, Start(p) PROVE TypeInv'
  BY <1>1 DEF Start, Goto, files, memory, TypeOK, SlotResolved, Loading
<1>2. ASSUME NEW p \in Proc, InitConfig(p) PROVE TypeInv'
  <2>1. SlotOf(cmd[p], Loaded) \in Name
    BY <1>c, <1>l, SlotOfType
  <2> QED
    BY <1>2, <2>1 DEF InitConfig, Goto, files, TypeOK, SlotResolved, Loading
<1>3. ASSUME NEW p \in Proc, LoadCfg(p) PROVE TypeInv'
  <2>1. ProfileAt(Loaded, slot[p]).endpoint \in Endpoint \cup {Unset}
    BY <1>l, ProfileAtType DEF Profile
  <2> QED
    BY <1>3, <2>1 DEF LoadCfg, Goto, files, TypeOK, SlotResolved, Loading
<1>4. ASSUME NEW p \in Proc, LoadAndEdit(p) PROVE TypeInv'
  <2>1. Edited(cmd[p], slot[p], endpoint[p], Loaded) \in Config
    BY <1>4, <1>c, <1>l, EditedCorrect DEF LoadAndEdit, TypeOK, SlotResolved
  <2> QED
    BY <1>4, <2>1 DEF LoadAndEdit, Goto, files, TypeOK, SlotResolved, Saving
<1>5. ASSUME NEW p \in Proc, LoadAndPrint(p) \/ LoadFails(p) \/ OpenTmpFails(p) \/ Crash(p)
      PROVE  TypeInv'
  <2>1. PICK how \in Ended : Exit(p, how)
    BY <1>5 DEF LoadAndPrint, LoadFails, OpenTmpFails, Crash, Ended
  <2> QED
    BY <1>5, <2>1, ExitType DEF LoadAndPrint, LoadFails, OpenTmpFails, Crash, files, TypeOK
<1>6. ASSUME NEW p \in Proc, OpenTmp(p) PROVE TypeInv'
  <2>1. PICK i \in Inode : /\ tmp' = i
                           /\ data' = [data EXCEPT ![i] = Empty]
                           /\ fd' = [fd EXCEPT ![p] = i]
    BY <1>6 DEF OpenTmp, FreeInodes, TypeOK
  <2> QED
    BY <1>6, <1>e, <2>1, InodeAssumption
    DEF OpenTmp, Goto, TypeOK, SlotResolved, Saving
<1>7. ASSUME NEW p \in Proc, WriteTmp(p) PROVE TypeInv'
  <2>1. fd[p] \in Inode
    BY <1>7 DEF WriteTmp, TypeOK
  <2>2. Overwritten(data[fd[p]], DocumentOf(edited[p])) \in ContentType
    BY <2>1, DocumentOfType, OverwrittenCorrect DEF TypeOK
  <2>3. data' \in [Inode -> ContentType]
    BY <1>7, <2>1, <2>2 DEF WriteTmp, TypeOK
  <2> QED
    BY <1>7, <2>3 DEF WriteTmp, Goto, TypeOK, SlotResolved, Saving
<1>8. ASSUME NEW p \in Proc, WriteTmpFails(p) PROVE TypeInv'
  <2>1. data' \in [Inode -> ContentType]
    BY <1>8, <1>e DEF WriteTmpFails, TypeOK
  <2> QED
    BY <1>8, <2>1, ExitType DEF WriteTmpFails, TypeOK, Ended
<1>9. ASSUME NEW p \in Proc, Rename(p) PROVE TypeInv'
  BY <1>9, ExitType DEF Rename, TypeOK, Ended
<1>10. ASSUME NEW p \in Proc, RenameFails(p) PROVE TypeInv'
  BY <1>10 DEF RenameFails, Goto, files, memory, TypeOK, SlotResolved, Saving
<1>11. ASSUME NEW p \in Proc, RemoveTmp(p) PROVE TypeInv'
  BY <1>11, ExitType DEF RemoveTmp, TypeOK, Ended
<1>12. ASSUME NEW p \in Proc, RemoveTmpFails(p) PROVE TypeInv'
  BY <1>12, ExitType DEF RemoveTmpFails, files, TypeOK, Ended
<1>13. CASE UNCHANGED vars
  BY <1>13 DEF vars, TypeOK, SlotResolved
<1> QED
  BY <1>1, <1>2, <1>3, <1>4, <1>5, <1>6, <1>7, <1>8, <1>9, <1>10, <1>11, <1>12, <1>13
  DEF Next, Step

(* The variables of ConfigStore stay within their types, and a file is     *)
(* open exactly during WriteFile.                                          *)
THEOREM TypeCorrect == Spec => []TypeOK
<1>1. Spec => []TypeInv
  BY TypeInit, TypeStep, PTL DEF Spec
<1> QED
  BY <1>1, PTL DEF TypeInv

-----------------------------------------------------------------------------
(* The active pointer.  ActiveIsNeverDangling speaks of config.json only;  *)
(* an inode reaches that name from an invocation's memory through          *)
(* config.json.tmp, so the inductive invariant follows it all the way.     *)

SoundData == \A i \in Inode : data[i].whole => SoundDocument(data[i].doc)

SoundEdits == \A p \in Proc : pc[p] \in {"open", "write"} => ActiveSelectsAProfile(edited[p])

ActiveInv == SoundData /\ SoundEdits

LEMMA LoadedSound ==
  ASSUME TypeInv, SoundData, Readable
  PROVE  ActiveSelectsAProfile(Loaded)
BY LoadOfCorrect, ZeroConfigType
DEF Loaded, Readable, TypeInv, TypeOK, ContentType, SoundData

LEMMA ActiveInit == Init => ActiveInv
<1> SUFFICES ASSUME Init PROVE ActiveInv
  OBVIOUS
<1>1. ~Empty.whole
  BY TornType DEF Empty
<1>2. SoundData
  <2>1. CASE data = [i \in Inode |-> Empty]
    BY <1>1, <2>1 DEF SoundData
  <2>2. ASSUME NEW i \in Inode, NEW d \in InitDocument,
               data = [[j \in Inode |-> Empty] EXCEPT ![i] = Whole(d)]
        PROVE  SoundData
    BY <1>1, <2>2, WholeType, InitDocumentAssumption DEF SoundData
  <2> QED
    BY <2>1, <2>2 DEF Init
<1> QED
  BY <1>2 DEF Init, ActiveInv, SoundEdits

(* An inode that is emptied, torn or left as it was holds no new document. *)
LEMMA NoNewDocument ==
  ASSUME TypeInv, SoundData, NEW i \in Inode, NEW n \in Nat,
         \/ data' = data
         \/ data' = [data EXCEPT ![i] = Torn(n)]
  PROVE  SoundData'
BY TornType DEF TypeInv, TypeOK, SoundData

LEMMA ActiveStep == TypeInv /\ ActiveInv /\ [Next]_vars => ActiveInv'
<1> SUFFICES ASSUME TypeInv, ActiveInv, [Next]_vars PROVE ActiveInv'
  OBVIOUS
<1> USE DEF ActiveInv
<1>c. \A p \in Proc : cmd[p] \in CommandType /\ WellFormed(cmd[p])
  BY CommandAssumption DEF TypeInv, TypeOK
<1>l. Loaded \in Config
  BY LoadedType DEF TypeInv
<1>1. ASSUME NEW p \in Proc, LoadAndEdit(p) PROVE ActiveInv'
  <2>1. ActiveSelectsAProfile(Edited(cmd[p], slot[p], endpoint[p], Loaded))
    BY <1>1, <1>c, <1>l, LoadedSound, EditedCorrect
    DEF LoadAndEdit, TypeInv, TypeOK, SlotResolved
  <2> QED
    BY <1>1, <2>1 DEF LoadAndEdit, Goto, files, SoundData, SoundEdits, TypeInv, TypeOK
<1>2. ASSUME NEW p \in Proc, OpenTmp(p) PROVE ActiveInv'
  <2>1. PICK i \in Inode : data' = [data EXCEPT ![i] = Torn(0)]
    BY <1>2 DEF OpenTmp, FreeInodes, TypeInv, TypeOK, Empty
  <2>2. SoundData'
    BY <2>1, NoNewDocument
  <2> QED
    BY <1>2, <2>2 DEF OpenTmp, Goto, SoundEdits, TypeInv, TypeOK
<1>3. ASSUME NEW p \in Proc, WriteTmp(p) PROVE ActiveInv'
  <2>1. fd[p] \in Inode
    BY <1>3 DEF WriteTmp, TypeInv, TypeOK
  <2> DEFINE d == DocumentOf(edited[p])
  <2>2. d \in Document /\ SoundDocument(d)
    BY <1>3, DocumentOfType DEF WriteTmp, SoundEdits, TypeInv, TypeOK
  <2> HIDE DEF d
  <2>3. data' = [data EXCEPT ![fd[p]] = Overwritten(data[fd[p]], d)]
    BY <1>3 DEF WriteTmp, d
  <2>4. SoundData'
    BY <2>1, <2>2, <2>3, OverwrittenCorrect DEF SoundData, TypeInv, TypeOK
  <2> QED
    BY <1>3, <2>4 DEF WriteTmp, Goto, SoundEdits, TypeInv, TypeOK
<1>4. ASSUME NEW p \in Proc, WriteTmpFails(p) PROVE ActiveInv'
  <2>1. fd[p] \in Inode
    BY <1>4 DEF WriteTmpFails, TypeInv, TypeOK
  <2>2. SoundData'
    BY <1>4, <2>1, NoNewDocument DEF WriteTmpFails
  <2> QED
    BY <1>4, <2>2 DEF WriteTmpFails, Exit, Goto, SoundEdits, TypeInv, TypeOK
<1>5. ASSUME UNCHANGED data,
             NEW p \in Proc,
             \/ Start(p) \/ InitConfig(p) \/ LoadCfg(p) \/ LoadAndPrint(p) \/ LoadFails(p)
             \/ OpenTmpFails(p) \/ Rename(p) \/ RenameFails(p) \/ RemoveTmp(p)
             \/ RemoveTmpFails(p) \/ Crash(p)
      PROVE  ActiveInv'
  <2>1. SoundData'
    BY <1>5 DEF SoundData
  <2>2. \A q \in Proc : pc'[q] \in {"open", "write"}
                          => pc[q] \in {"open", "write"} /\ edited'[q] = edited[q]
    BY <1>5 DEF Start, InitConfig, LoadCfg, LoadAndPrint, LoadFails, OpenTmpFails, Rename,
                RenameFails, RemoveTmp, RemoveTmpFails, Crash, Exit, Goto, memory, TypeInv, TypeOK
  <2> QED
    BY <2>1, <2>2 DEF SoundEdits
<1>6. CASE UNCHANGED vars
  BY <1>6 DEF vars, SoundData, SoundEdits
<1>7. \A p \in Proc :
        \/ Start(p) \/ InitConfig(p) \/ LoadCfg(p) \/ LoadAndPrint(p) \/ LoadFails(p)
        \/ OpenTmpFails(p) \/ Rename(p) \/ RenameFails(p) \/ RemoveTmp(p)
        \/ RemoveTmpFails(p) \/ Crash(p)
        => UNCHANGED data
  BY DEF Start, InitConfig, LoadCfg, LoadAndPrint, LoadFails, OpenTmpFails, Rename,
         RenameFails, RemoveTmp, RemoveTmpFails, Crash, files
<1> QED
  BY <1>1, <1>2, <1>3, <1>4, <1>5, <1>6, <1>7 DEF Next, Step

(* However invocations interleave, die or fail, a config.json that parses  *)
(* has an active pointer that names one of its profiles, or nothing.       *)
THEOREM ActivePointerSafe == Spec => []ActiveIsNeverDangling
<1>1. Spec => [](TypeInv /\ ActiveInv)
  BY TypeInit, TypeStep, ActiveInit, ActiveStep, PTL DEF Spec
<1>2. TypeInv /\ ActiveInv => ActiveIsNeverDangling
  BY DEF TypeInv, TypeOK, ActiveInv, SoundData, ActiveIsNeverDangling
<1> QED
  BY <1>1, <1>2, PTL

-----------------------------------------------------------------------------
(* config.json.tmp.  It exists only while somebody is between open and the *)
(* end of rename, or after somebody died or failed there.                  *)

TmpHasAnOwner ==
  tmp # NoInode => \E p \in Proc : pc[p] \in {"write", "rename", "cleanup",
                                              "crashed", "writeFailed", "removeFailed"}

LEMMA TmpStep == TypeInv /\ TmpHasAnOwner /\ [Next]_vars => TmpHasAnOwner'
<1> SUFFICES ASSUME TypeInv, TmpHasAnOwner, [Next]_vars PROVE TmpHasAnOwner'
  OBVIOUS
<1> DEFINE Owning == {"write", "rename", "cleanup", "crashed", "writeFailed", "removeFailed"}
<1>1. ASSUME NEW p \in Proc, Start(p) \/ Step(p) \/ Crash(p) PROVE TmpHasAnOwner'
  <2>1. CASE Rename(p) \/ RemoveTmp(p)
    BY <2>1 DEF Rename, RemoveTmp, TmpHasAnOwner
  <2>2. CASE OpenTmp(p)
    <3>1. pc'[p] = "write"
      BY <2>2 DEF OpenTmp, Goto, TypeInv, TypeOK
    <3> QED
      BY <3>1 DEF TmpHasAnOwner
  <2>3. CASE \/ Start(p) \/ InitConfig(p) \/ LoadCfg(p) \/ LoadAndEdit(p) \/ LoadAndPrint(p)
             \/ LoadFails(p) \/ OpenTmpFails(p) \/ WriteTmp(p) \/ WriteTmpFails(p)
             \/ RenameFails(p) \/ RemoveTmpFails(p) \/ Crash(p)
    <3>1. tmp' = tmp
      BY <2>3 DEF Start, InitConfig, LoadCfg, LoadAndEdit, LoadAndPrint, LoadFails,
                  OpenTmpFails, WriteTmp, WriteTmpFails, RenameFails, RemoveTmpFails, Crash, files
    <3>2. \A q \in Proc : pc[q] \in Owning => pc'[q] \in Owning
      BY <2>3 DEF Start, InitConfig, LoadCfg, LoadAndEdit, LoadAndPrint, LoadFails,
                  OpenTmpFails, WriteTmp, WriteTmpFails, RenameFails, RemoveTmpFails, Crash,
                  Exit, Goto,
                  Loading, TypeInv, TypeOK
    <3> QED
      BY <3>1, <3>2 DEF TmpHasAnOwner
  <2> QED
    BY <1>1, <2>1, <2>2, <2>3 DEF Step
<1>2. CASE UNCHANGED vars
  BY <1>2 DEF vars, TmpHasAnOwner
<1> QED
  BY <1>1, <1>2 DEF Next

(* Tokens are left in config.json.tmp only by an invocation that died,     *)
(* whose write failed, or whose rename and removal were both refused.      *)
THEOREM TmpIsCleanedUp == Spec => []TmpOutlivesOnlyAbnormalEnds
<1>1. Init => TmpHasAnOwner
  BY DEF Init, TmpHasAnOwner
<1>2. TmpHasAnOwner => TmpOutlivesOnlyAbnormalEnds
  BY DEF TmpHasAnOwner, TmpOutlivesOnlyAbnormalEnds, Saving
<1> QED
  BY <1>1, <1>2, TypeInit, TypeStep, TmpStep, PTL DEF Spec

-----------------------------------------------------------------------------
(* The update interval.  Everything that is, or may become, the content of *)
(* config.json loads with the same interval v.                             *)

IntervalIs(v) ==
  /\ \A i \in Inode : data[i].whole => LoadOf(data[i].doc).interval = v
  /\ \A p \in Proc : pc[p] \in {"open", "write"} => edited[p].interval = v
  /\ config = NoInode => v = Unset

TmpHasProfiles ==
  tmp # NoInode /\ data[tmp].whole => data[tmp].doc.shape = "profiles"

IntervalInv == TmpHasProfiles /\ \E v : IntervalIs(v)

LEMMA IntervalInit == Init => IntervalInv
<1> SUFFICES ASSUME Init PROVE IntervalInv
  OBVIOUS
<1>1. ~Empty.whole
  BY TornType DEF Empty
<1>2. \A p \in Proc : pc[p] = "idle"
  BY DEF Init
<1>3. CASE config = NoInode /\ data = [i \in Inode |-> Empty]
  <2>1. IntervalIs(Unset)
    BY <1>1, <1>2, <1>3 DEF IntervalIs
  <2> QED
    BY <2>1 DEF Init, IntervalInv, TmpHasProfiles
<1>4. ASSUME NEW i \in Inode, NEW d \in InitDocument, config = i,
             data = [[j \in Inode |-> Empty] EXCEPT ![i] = Whole(d)]
      PROVE  IntervalInv
  <2>1. IntervalIs(LoadOf(d).interval)
    BY <1>1, <1>2, <1>4, WholeType, InitDocumentAssumption, InodeAssumption DEF IntervalIs
  <2> QED
    BY <2>1 DEF Init, IntervalInv, TmpHasProfiles
<1> QED
  BY <1>3, <1>4 DEF Init

(* The interval stays what it is, and a config.json with profiles is       *)
(* followed only by one with profiles.                                     *)
LEMMA IntervalStep ==
  ASSUME TypeInv, TmpHasProfiles, NEW v, IntervalIs(v), [Next]_vars
  PROVE  /\ TmpHasProfiles'
         /\ IntervalIs(v)'
         /\ config # NoInode /\ data[config].doc.shape = "profiles"
            /\ config' # NoInode /\ data'[config'].whole
              => data'[config'].doc.shape = "profiles"
<1> DEFINE Goal == /\ TmpHasProfiles'
                   /\ IntervalIs(v)'
                   /\ config # NoInode /\ data[config].doc.shape = "profiles"
                      /\ config' # NoInode /\ data'[config'].whole
                        => data'[config'].doc.shape = "profiles"
<1>c. \A p \in Proc : cmd[p] \in CommandType /\ WellFormed(cmd[p])
  BY CommandAssumption DEF TypeInv, TypeOK
<1>1. ASSUME NEW p \in Proc, LoadAndEdit(p) PROVE Goal
  <2>1. Loaded.interval = v
    BY <1>1 DEF LoadAndEdit, Readable, Loaded, IntervalIs, ZeroConfig, TypeInv, TypeOK
  <2>2. Edited(cmd[p], slot[p], endpoint[p], Loaded).interval = v
    BY <1>1, <1>c, <2>1, LoadedType, EditedCorrect
    DEF LoadAndEdit, TypeInv, TypeOK, SlotResolved
  <2>3. edited'[p].interval = v /\ \A q \in Proc \ {p} : edited'[q] = edited[q]
    BY <1>1, <2>2 DEF LoadAndEdit, TypeInv, TypeOK
  <2>4. IntervalIs(v)'
    BY <1>1, <2>3 DEF LoadAndEdit, Goto, files, IntervalIs, TypeInv, TypeOK
  <2> QED
    BY <1>1, <2>4 DEF LoadAndEdit, files, TmpHasProfiles
<1>2. ASSUME NEW p \in Proc, OpenTmp(p) PROVE Goal
  <2>1. PICK i \in Inode : tmp' = i /\ data' = [data EXCEPT ![i] = Empty]
    BY <1>2 DEF OpenTmp, FreeInodes, TypeInv, TypeOK
  <2>2. \A j \in Inode : data'[j].whole => data'[j] = data[j]
    BY <2>1, TornType DEF Empty, TypeInv, TypeOK
  <2>3. ~data'[tmp'].whole
    BY <2>1, TornType DEF Empty, TypeInv, TypeOK
  <2> QED
    BY <1>2, <2>2, <2>3 DEF OpenTmp, Goto, IntervalIs, TmpHasProfiles, TypeInv, TypeOK
<1>3. ASSUME NEW p \in Proc, WriteTmp(p) PROVE Goal
  <2>1. fd[p] \in Inode
    BY <1>3 DEF WriteTmp, TypeInv, TypeOK
  <2> DEFINE d == DocumentOf(edited[p])
  <2>2. d \in Document /\ d.shape = "profiles" /\ LoadOf(d).interval = v
    BY <1>3, DocumentOfType DEF WriteTmp, IntervalIs, TypeInv, TypeOK
  <2> HIDE DEF d
  <2>3. data' = [data EXCEPT ![fd[p]] = Overwritten(data[fd[p]], d)]
    BY <1>3 DEF WriteTmp, d
  <2>4. \A i \in Inode : data'[i].whole =>
          IF i = fd[p] THEN data'[i].doc = d ELSE data'[i] = data[i]
    BY <2>1, <2>2, <2>3, OverwrittenCorrect DEF TypeInv, TypeOK
  <2> QED
    BY <1>3, <2>2, <2>4 DEF WriteTmp, Goto, IntervalIs, TmpHasProfiles, TypeInv, TypeOK
<1>4. ASSUME NEW p \in Proc, WriteTmpFails(p) PROVE Goal
  <2>1. fd[p] \in Inode
    BY <1>4 DEF WriteTmpFails, TypeInv, TypeOK
  <2>2. \A i \in Inode : data'[i].whole => data'[i] = data[i]
    BY <1>4, <2>1, TornType DEF WriteTmpFails, TypeInv, TypeOK
  <2> QED
    BY <1>4, <2>2 DEF WriteTmpFails, Exit, Goto, IntervalIs, TmpHasProfiles, TypeInv, TypeOK
<1>5. ASSUME NEW p \in Proc, Rename(p) PROVE Goal
  BY <1>5 DEF Rename, Exit, Goto, IntervalIs, TmpHasProfiles, TypeInv, TypeOK
<1>6. ASSUME NEW p \in Proc,
             \/ Start(p) \/ InitConfig(p) \/ LoadCfg(p) \/ LoadAndPrint(p) \/ LoadFails(p)
             \/ OpenTmpFails(p) \/ RenameFails(p) \/ RemoveTmp(p) \/ RemoveTmpFails(p) \/ Crash(p)
      PROVE  Goal
  <2>1. config' = config /\ data' = data /\ tmp' \in {tmp, NoInode}
    BY <1>6 DEF Start, InitConfig, LoadCfg, LoadAndPrint, LoadFails, OpenTmpFails,
                RenameFails, RemoveTmp, RemoveTmpFails, Crash, files
  <2>2. \A q \in Proc : pc'[q] \in {"open", "write"}
                          => pc[q] \in {"open", "write"} /\ edited'[q] = edited[q]
    BY <1>6 DEF Start, InitConfig, LoadCfg, LoadAndPrint, LoadFails, OpenTmpFails,
                RenameFails, RemoveTmp, RemoveTmpFails, Crash, Exit, Goto, memory, TypeInv, TypeOK
  <2> QED
    BY <2>1, <2>2 DEF IntervalIs, TmpHasProfiles
<1>7. CASE UNCHANGED vars
  BY <1>7 DEF vars, IntervalIs, TmpHasProfiles
<1> QED
  BY <1>1, <1>2, <1>3, <1>4, <1>5, <1>6, <1>7 DEF Next, Step

(* No command loses the interval of a file in the present shape, whatever  *)
(* runs at the same time.                                                  *)
THEOREM IntervalSafe == Spec => IntervalSurvives
<1>1. TypeInv /\ IntervalInv /\ [Next]_vars => IntervalInv'
  BY IntervalStep DEF IntervalInv
<1>2. ASSUME TypeInv, TypeInv', IntervalInv, [Next]_vars,
             config # NoInode, data[config].whole, data[config].doc.shape = "profiles",
             config' # NoInode, data'[config'].whole
      PROVE  data'[config'].doc.content.interval = data[config].doc.content.interval
  <2>1. PICK v : IntervalIs(v)
    BY <1>2 DEF IntervalInv
  <2>2. IntervalIs(v)' /\ data'[config'].doc.shape = "profiles"
    BY <1>2, <2>1, IntervalStep DEF IntervalInv
  <2>3. LoadOf(data[config].doc).interval = data[config].doc.content.interval
    BY <1>2, LoadOfCorrect DEF TypeInv, TypeOK, ContentType
  <2>4. LoadOf(data'[config'].doc).interval = data'[config'].doc.content.interval
    BY <1>2, <2>2, LoadOfCorrect DEF TypeInv, TypeOK, ContentType
  <2>5. config \in Inode /\ config' \in Inode
    BY <1>2 DEF TypeInv, TypeOK
  <2> QED
    BY <1>2, <2>1, <2>2, <2>3, <2>4, <2>5 DEF IntervalIs
<1>3. TypeInv /\ TypeInv' /\ IntervalInv /\ [Next]_vars
        => [ config # NoInode /\ data[config].whole /\ data[config].doc.shape = "profiles"
             /\ config' # NoInode /\ data'[config'].whole
               => data'[config'].doc.content.interval = data[config].doc.content.interval
           ]_vars
  BY <1>2
<1> QED
  BY <1>1, <1>3, TypeInit, TypeStep, IntervalInit, PTL DEF Spec, IntervalSurvives

-----------------------------------------------------------------------------
(* One invocation at a time.  SerialInv says that the one that runs sees   *)
(* its own view of the file come true: nobody else moves config.json,      *)
(* config.json.tmp or the inode under it, so what it edits is still the    *)
(* effect of its command on what the file says.                            *)

Alone == \A p, q \in Proc : Running(p) /\ Running(q) => p = q

Apart == tmp # NoInode => tmp # config

ViewIsCurrent(p) ==
  /\ pc[p] \in {"loadCfg", "load", "open", "write", "rename"} /\ cmd[p].op \in AuthOps
       => /\ slot[p] = SlotOf(cmd[p], Loaded)
          /\ ~UnknownProfile(cmd[p].name, cmd[p].override, Loaded)
  /\ pc[p] = "load" /\ cmd[p].op \in AuthOps
       => endpoint[p] = ProfileAt(Loaded, slot[p]).endpoint
  /\ pc[p] \in {"open", "write", "rename"}
       => /\ cmd[p].op \notin ReadOnly
          /\ ~Refused(cmd[p], Loaded)
          /\ LoadOf(DocumentOf(edited[p])) = Effect(cmd[p], Loaded)

TmpIsMine(p) ==
  /\ pc[p] = "write"  => fd[p] = tmp /\ data[tmp] = Empty
  /\ pc[p] = "rename" => tmp # NoInode /\ data[tmp] = Whole(DocumentOf(edited[p]))

SerialInv ==
  /\ Alone
  /\ Readable
  /\ Apart
  /\ \A p \in Proc : ViewIsCurrent(p) /\ TmpIsMine(p)

LEMMA SerialInit == Init => SerialInv
<1> SUFFICES ASSUME Init PROVE SerialInv
  OBVIOUS
<1>1. Readable
  <2>1. ASSUME NEW i \in Inode, NEW d \in InitDocument, config = i,
               data = [[j \in Inode |-> Empty] EXCEPT ![i] = Whole(d)]
        PROVE  Readable
    BY <2>1, WholeType, InitDocumentAssumption DEF Readable
  <2> QED
    BY <2>1 DEF Init, Readable
<1>2. \A p \in Proc : pc[p] = "idle"
  BY DEF Init
<1> QED
  BY <1>1, <1>2 DEF Init, SerialInv, Alone, Apart, ViewIsCurrent, TmpIsMine,
                    Running, Loading, Saving

(* An invocation that is not running has nothing to be current about.      *)
LEMMA OthersRest ==
  ASSUME Alone, NEW p \in Proc, Running(p), NEW q \in Proc, q # p
  PROVE  pc[q] \notin Loading \cup Saving
BY DEF Alone, Running

(* Ending, or moving on, keeps an invocation alone.                        *)
LEMMA AloneStep ==
  ASSUME TypeInv, Alone, NEW p \in Proc, NEW label, pc' = [pc EXCEPT ![p] = label],
         Running(p) \/ \A q \in Proc : ~Running(q)
  PROVE  Alone'
BY DEF Alone, Running, TypeInv, TypeOK

(* What Load would return depends on config.json and its content only.     *)
LEMMA SameFile ==
  ASSUME UNCHANGED config, config # NoInode => data'[config] = data[config]
  PROVE  /\ Readable' = Readable
         /\ Loaded' = Loaded
BY DEF Readable, Loaded

(* A step of p that leaves what the file says as it is and makes p's own   *)
(* view current keeps the invariant: the others are not running.           *)
LEMMA SerialByOne ==
  ASSUME TypeInv, SerialInv, NEW p \in Proc, NEW label, pc' = [pc EXCEPT ![p] = label],
         Running(p) \/ \A q \in Proc : ~Running(q),
         Readable', Apart', ViewIsCurrent(p)', TmpIsMine(p)'
  PROVE  SerialInv'
<1>1. Alone'
  BY AloneStep DEF SerialInv
<1>2. ASSUME NEW q \in Proc, q # p PROVE ViewIsCurrent(q)' /\ TmpIsMine(q)'
  <2>1. pc'[q] = pc[q] /\ pc[q] \notin Loading \cup Saving
    BY <1>2, OthersRest DEF SerialInv, Running, TypeInv, TypeOK
  <2> QED
    BY <2>1 DEF ViewIsCurrent, TmpIsMine, Loading, Saving
<1> QED
  BY <1>1, <1>2 DEF SerialInv

(* Ending leaves nothing to be current about.                              *)
LEMMA ExitSerial ==
  ASSUME TypeInv, NEW p \in Proc, NEW how \in Ended, Exit(p, how)
  PROVE  /\ pc' = [pc EXCEPT ![p] = how]
         /\ ViewIsCurrent(p)' /\ TmpIsMine(p)'
BY DEF Exit, Goto, Ended, ViewIsCurrent, TmpIsMine, TypeInv, TypeOK

(* Only an auth command looks at the slot and the endpoint.                *)
LEMMA EditedIgnoresSlot ==
  ASSUME NEW c, NEW r \in CommandType, r.op \notin AuthOps \cup ReadOnly,
         NEW s, NEW e, NEW s2, NEW e2
  PROVE  Edited(r, s, e, c) = Edited(r, s2, e2, c)
BY DEF Edited, CommandType, ProfileOps, ReadOnly

LEMMA SerialStep == ~Concurrent /\ TypeInv /\ SerialInv /\ [Next]_vars => SerialInv'
<1> SUFFICES ASSUME ~Concurrent, TypeInv, SerialInv, [Next]_vars PROVE SerialInv'
  OBVIOUS
<1>c. \A p \in Proc : cmd[p] \in CommandType
  BY CommandAssumption DEF TypeInv, TypeOK
<1>1. ASSUME NEW p \in Proc, Start(p) PROVE SerialInv'
  <2>1. Readable' /\ Apart' /\ Loaded' = Loaded
    BY <1>1, SameFile DEF Start, files, Apart, SerialInv
  <2> DEFINE label == IF cmd[p].op \in AuthOps THEN "initConfig" ELSE "load"
  <2>2. pc' = [pc EXCEPT ![p] = label]
    BY <1>1 DEF Start, Goto
  <2>3. ViewIsCurrent(p)' /\ TmpIsMine(p)'
    BY <1>1, <2>2 DEF Start, ViewIsCurrent, TmpIsMine, TypeInv, TypeOK
  <2>4. Running(p) \/ \A q \in Proc : ~Running(q)
    BY <1>1 DEF Start
  <2> HIDE DEF label
  <2> QED
    BY <2>1, <2>2, <2>3, <2>4, SerialByOne
<1>2. ASSUME NEW p \in Proc, InitConfig(p) PROVE SerialInv'
  <2>1. Readable' /\ Apart' /\ Loaded' = Loaded
    BY <1>2, SameFile DEF InitConfig, files, Apart, SerialInv
  <2>2. ViewIsCurrent(p)' /\ TmpIsMine(p)'
    BY <1>2, <2>1 DEF InitConfig, Goto, ViewIsCurrent, TmpIsMine, TypeInv, TypeOK
  <2> QED
    BY <1>2, <2>1, <2>2, SerialByOne DEF InitConfig, Goto, Running, Loading
<1>3. ASSUME NEW p \in Proc, LoadCfg(p) PROVE SerialInv'
  <2>1. Readable' /\ Apart' /\ Loaded' = Loaded
    BY <1>3, SameFile DEF LoadCfg, files, Apart, SerialInv
  <2>2. ViewIsCurrent(p)' /\ TmpIsMine(p)'
    BY <1>3, <2>1 DEF LoadCfg, Goto, SerialInv, ViewIsCurrent, TmpIsMine, TypeInv, TypeOK
  <2> QED
    BY <1>3, <2>1, <2>2, SerialByOne DEF LoadCfg, Goto, Running, Loading
<1>4. ASSUME NEW p \in Proc, LoadAndEdit(p) PROVE SerialInv'
  <2>1. Readable' /\ Apart' /\ Loaded' = Loaded
    BY <1>4, SameFile DEF LoadAndEdit, files, Apart, SerialInv
  <2>2. ~Refused(cmd[p], Loaded)
    BY <1>4 DEF LoadAndEdit, SerialInv, ViewIsCurrent, Refused
  <2>3. LoadOf(DocumentOf(Edited(cmd[p], slot[p], endpoint[p], Loaded)))
          = Effect(cmd[p], Loaded)
    <3>1. CASE cmd[p].op \in AuthOps
      BY <1>4, <3>1 DEF LoadAndEdit, SerialInv, ViewIsCurrent, Effect
    <3>2. CASE cmd[p].op \notin AuthOps
      BY <1>4, <1>c, <3>2, EditedIgnoresSlot DEF LoadAndEdit, Effect
    <3> QED
      BY <3>1, <3>2
  <2>4. edited'[p] = Edited(cmd[p], slot[p], endpoint[p], Loaded) /\ pc'[p] = "open"
    BY <1>4 DEF LoadAndEdit, Goto, TypeInv, TypeOK
  <2>5. ViewIsCurrent(p)' /\ TmpIsMine(p)'
    <3>1. cmd[p].op \in AuthOps => /\ slot[p] = SlotOf(cmd[p], Loaded)
                                   /\ ~UnknownProfile(cmd[p].name, cmd[p].override, Loaded)
      BY <1>4 DEF LoadAndEdit, SerialInv, ViewIsCurrent
    <3>2. UNCHANGED <<cmd, slot>> /\ cmd[p].op \notin ReadOnly
      BY <1>4 DEF LoadAndEdit
    <3> QED
      BY <2>1, <2>2, <2>3, <2>4, <3>1, <3>2 DEF ViewIsCurrent, TmpIsMine
  <2> QED
    BY <1>4, <2>1, <2>5, SerialByOne DEF LoadAndEdit, Goto, Running, Loading
<1>5. ASSUME NEW p \in Proc, LoadAndPrint(p) \/ LoadFails(p) \/ OpenTmpFails(p) \/ Crash(p)
      PROVE  SerialInv'
  <2>1. Readable' /\ Apart'
    BY <1>5, SameFile
    DEF LoadAndPrint, LoadFails, OpenTmpFails, Crash, files, Apart, SerialInv
  <2>2. PICK how \in Ended : Exit(p, how)
    BY <1>5 DEF LoadAndPrint, LoadFails, OpenTmpFails, Crash, Ended
  <2>3. Running(p)
    BY <1>5 DEF LoadAndPrint, LoadFails, OpenTmpFails, Crash, Running, Loading, Saving
  <2> QED
    BY <2>1, <2>2, <2>3, ExitSerial, SerialByOne
<1>6. ASSUME NEW p \in Proc, OpenTmp(p) PROVE SerialInv'
  <2>1. PICK i \in Inode \ {config} : /\ tmp' = i
                                      /\ data' = [data EXCEPT ![i] = Empty]
                                      /\ fd' = [fd EXCEPT ![p] = i]
    BY <1>6 DEF OpenTmp, FreeInodes, SerialInv, Apart, TypeInv, TypeOK
  <2>2. Readable' /\ Loaded' = Loaded
    BY <1>6, <2>1, SameFile DEF OpenTmp, SerialInv, TypeInv, TypeOK
  <2>3. Apart'
    BY <1>6, <2>1 DEF OpenTmp, Apart
  <2>4. data'[tmp'] = Empty /\ fd'[p] = tmp' /\ pc'[p] = "write"
    BY <1>6, <2>1 DEF OpenTmp, Goto, TypeInv, TypeOK
  <2>5. ViewIsCurrent(p)' /\ TmpIsMine(p)'
    BY <1>6, <2>2, <2>4 DEF OpenTmp, SerialInv, ViewIsCurrent, TmpIsMine
  <2> QED
    BY <1>6, <2>2, <2>3, <2>5, SerialByOne DEF OpenTmp, Goto, Running, Saving
<1>7. ASSUME NEW p \in Proc, WriteTmp(p) PROVE SerialInv'
  <2>1. fd[p] = tmp /\ data[tmp] = Empty /\ tmp \in Inode /\ tmp # config
    BY <1>7 DEF WriteTmp, SerialInv, TmpIsMine, Apart, TypeInv, TypeOK
  <2>2. data' = [data EXCEPT ![tmp] = Whole(DocumentOf(edited[p]))]
    <3>1. DocumentOf(edited[p]) \in Document /\ data[tmp] \in ContentType
      BY <2>1, DocumentOfType DEF TypeInv, TypeOK
    <3>2. Overwritten(data[tmp], DocumentOf(edited[p])) = Whole(DocumentOf(edited[p]))
      BY <2>1, <3>1, OverwrittenCorrect
    <3> QED
      BY <1>7, <2>1, <3>2 DEF WriteTmp
  <2>3. Readable' /\ Loaded' = Loaded
    BY <1>7, <2>1, <2>2, SameFile DEF WriteTmp, SerialInv, TypeInv, TypeOK
  <2>4. Apart'
    BY <1>7 DEF WriteTmp, SerialInv, Apart
  <2>5. data'[tmp'] = Whole(DocumentOf(edited'[p])) /\ tmp' # NoInode /\ pc'[p] = "rename"
    BY <1>7, <2>1, <2>2, InodeAssumption DEF WriteTmp, Goto, TypeInv, TypeOK
  <2>6. ViewIsCurrent(p)' /\ TmpIsMine(p)'
    BY <1>7, <2>3, <2>5 DEF WriteTmp, SerialInv, ViewIsCurrent, TmpIsMine
  <2> QED
    BY <1>7, <2>3, <2>4, <2>6, SerialByOne DEF WriteTmp, Goto, Running, Saving
<1>8. ASSUME NEW p \in Proc, WriteTmpFails(p) PROVE SerialInv'
  <2>1. fd[p] = tmp /\ tmp \in Inode /\ tmp # config
    BY <1>8 DEF WriteTmpFails, SerialInv, TmpIsMine, Apart, TypeInv, TypeOK
  <2>2. Readable' /\ Apart'
    BY <1>8, <2>1, SameFile DEF WriteTmpFails, SerialInv, Apart, TypeInv, TypeOK
  <2> QED
    BY <1>8, <2>2, ExitSerial, SerialByOne DEF WriteTmpFails, Running, Saving, Ended
<1>9. ASSUME NEW p \in Proc, Rename(p) PROVE SerialInv'
  <2>1. data[tmp] = Whole(DocumentOf(edited[p])) /\ edited[p] \in Config
    BY <1>9 DEF Rename, SerialInv, TmpIsMine, TypeInv, TypeOK
  <2>2. Readable' /\ Apart'
    BY <1>9, <2>1, WholeType, DocumentOfType DEF Rename, Readable, Apart
  <2> QED
    BY <1>9, <2>2, ExitSerial, SerialByOne DEF Rename, Running, Saving, Ended
<1>10. ASSUME NEW p \in Proc, RenameFails(p) PROVE SerialInv'
  <2>1. Readable' /\ Apart'
    BY <1>10, SameFile DEF RenameFails, files, SerialInv, Apart
  <2>2. ViewIsCurrent(p)' /\ TmpIsMine(p)'
    BY <1>10 DEF RenameFails, Goto, ViewIsCurrent, TmpIsMine, TypeInv, TypeOK
  <2> QED
    BY <1>10, <2>1, <2>2, SerialByOne DEF RenameFails, Goto, Running, Saving
<1>11. ASSUME NEW p \in Proc, RemoveTmp(p) PROVE SerialInv'
  <2>1. Readable' /\ Apart'
    BY <1>11, SameFile DEF RemoveTmp, SerialInv, Apart
  <2> QED
    BY <1>11, <2>1, ExitSerial, SerialByOne DEF RemoveTmp, Running, Saving, Ended
<1>12. ASSUME NEW p \in Proc, RemoveTmpFails(p) PROVE SerialInv'
  <2>1. Readable' /\ Apart'
    BY <1>12, SameFile DEF RemoveTmpFails, files, SerialInv, Apart
  <2> QED
    BY <1>12, <2>1, ExitSerial, SerialByOne DEF RemoveTmpFails, Running, Saving, Ended
<1>13. CASE UNCHANGED vars
  BY <1>13, SameFile
  DEF vars, SerialInv, Alone, Running, Apart, ViewIsCurrent, TmpIsMine
<1> QED
  BY <1>1, <1>2, <1>3, <1>4, <1>5, <1>6, <1>7, <1>8, <1>9, <1>10, <1>11, <1>12, <1>13
  DEF Next, Step

(* With one invocation at a time, a crash or an I/O error at any step      *)
(* leaves a config.json that parses.                                       *)
THEOREM SerialReadable ==
  ASSUME ~Concurrent
  PROVE  Spec => []AlwaysReadable
<1>1. Init => TypeInv /\ SerialInv
  BY TypeInit, SerialInit
<1>2. TypeInv /\ SerialInv /\ [Next]_vars => (TypeInv /\ SerialInv)'
  BY TypeStep, SerialStep
<1>3. TypeInv /\ SerialInv => AlwaysReadable
  BY DEF SerialInv, AlwaysReadable
<1> QED
  BY <1>1, <1>2, <1>3, PTL DEF Spec

(* With one invocation at a time ConfigStore implements AtomicConfig: the  *)
(* Rename of a command is its one change of the stored configuration, and  *)
(* it is the effect the command has on what the file said.                 *)
THEOREM SerialImplementsAtomic ==
  ASSUME ~Concurrent
  PROVE  Spec => ImplementsAtomicConfig
<1> DEFINE out == [p \in Proc |-> IF pc[p] \notin Ended THEN "pending"
                                  ELSE IF pc[p] \in {"writeFailed", "removeFailed"} THEN "failed"
                                  ELSE pc[p]]
<1>1. Init => Atomic!Init
  <2> SUFFICES ASSUME Init PROVE Atomic!Init
    OBVIOUS
  <2>1. Loaded \in {ZeroConfig} \cup {LoadOf(d) : d \in InitDocument}
    <3>1. ASSUME NEW i \in Inode, NEW d \in InitDocument, config = i,
                 data = [[j \in Inode |-> Empty] EXCEPT ![i] = Whole(d)]
          PROVE  Loaded \in {LoadOf(e) : e \in InitDocument}
      BY <3>1, InodeAssumption DEF Loaded, Whole
    <3> QED
      BY <3>1 DEF Init, Loaded
  <2>2. cmd \in [Proc -> Command] /\ out = [p \in Proc |-> "pending"]
    BY DEF Init, Ended
  <2> QED
    BY <2>1, <2>2 DEF Atomic!Init
<1>2. TypeInv /\ SerialInv /\ SerialInv' /\ [Next]_vars => [Atomic!Next]_(Atomic!vars)
  <2> SUFFICES ASSUME TypeInv, SerialInv, SerialInv', [Next]_vars
               PROVE  [Atomic!Next]_(Atomic!vars)
    OBVIOUS
  <2>m. ASSUME NEW p \in Proc, NEW label, pc[p] \notin Ended, label \notin Ended,
               pc' = [pc EXCEPT ![p] = label]
        PROVE  out' = out
    BY <2>m DEF TypeInv, TypeOK
  <2>e. ASSUME NEW p \in Proc, NEW how \in Ended, Exit(p, how), pc[p] \notin Ended
        PROVE  /\ out[p] = "pending"
               /\ out' = [out EXCEPT ![p] = IF how \in {"writeFailed", "removeFailed"} THEN "failed"
                                             ELSE how]
    BY <2>e DEF Exit, Goto, TypeInv, TypeOK
  <2> HIDE DEF out
  <2>1. ASSUME NEW p \in Proc,
               Start(p) \/ InitConfig(p) \/ LoadCfg(p) \/ LoadAndEdit(p) \/ RenameFails(p)
        PROVE  UNCHANGED <<Loaded, cmd, out>>
    <3>1. PICK label \in Loading \cup Saving :
            pc' = [pc EXCEPT ![p] = label] /\ pc[p] \notin Ended
      BY <2>1 DEF Start, InitConfig, LoadCfg, LoadAndEdit, RenameFails, Goto,
                  Loading, Saving, Ended
    <3>2. out' = out
      BY <2>m, <3>1 DEF Loading, Saving, Ended
    <3> QED
      BY <2>1, <3>2, SameFile
      DEF Start, InitConfig, LoadCfg, LoadAndEdit, RenameFails, files
  <2>2. ASSUME NEW p \in Proc, OpenTmp(p)
        PROVE  UNCHANGED <<Loaded, cmd, out>>
    <3>1. PICK i \in Inode \ {config} : data' = [data EXCEPT ![i] = Empty]
      BY <2>2 DEF OpenTmp, FreeInodes, SerialInv, Apart, TypeInv, TypeOK
    <3>2. Loaded' = Loaded
      BY <2>2, <3>1, SameFile DEF OpenTmp, TypeInv, TypeOK
    <3>3. out' = out
      BY <2>2, <2>m DEF OpenTmp, Goto, Ended
    <3> QED
      BY <2>2, <3>2, <3>3 DEF OpenTmp
  <2>3. ASSUME NEW p \in Proc, WriteTmp(p)
        PROVE  UNCHANGED <<Loaded, cmd, out>>
    <3>1. fd[p] # config
      BY <2>3 DEF WriteTmp, SerialInv, TmpIsMine, Apart, TypeInv, TypeOK
    <3>2. Loaded' = Loaded
      BY <2>3, <3>1, SameFile DEF WriteTmp, TypeInv, TypeOK
    <3>3. out' = out
      BY <2>3, <2>m DEF WriteTmp, Goto, Ended
    <3> QED
      BY <2>3, <3>2, <3>3 DEF WriteTmp
  <2>4. ASSUME NEW p \in Proc, LoadAndPrint(p)
        PROVE  Atomic!Commit(p)
    <3>1. Loaded' = Loaded /\ cmd' = cmd
      BY <2>4, SameFile DEF LoadAndPrint, files
    <3>2. ~Refused(cmd[p], Loaded) /\ Effect(cmd[p], Loaded) = Loaded
      BY <2>4 DEF LoadAndPrint, Refused, Accepts, Effect, ReadOnly, AuthOps
    <3>3. out[p] = "pending" /\ out' = [out EXCEPT ![p] = "ok"]
      BY <2>4, <2>e DEF LoadAndPrint, Ended
    <3> QED
      BY <3>1, <3>2, <3>3 DEF Atomic!Commit, out
  <2>5. ASSUME NEW p \in Proc, Rename(p)
        PROVE  Atomic!Commit(p)
    <3>1. data[tmp] = Whole(DocumentOf(edited[p])) /\ edited[p] \in Config
      BY <2>5 DEF Rename, SerialInv, TmpIsMine, TypeInv, TypeOK
    <3>2. Loaded' = LoadOf(DocumentOf(edited[p]))
      BY <2>5, <3>1, WholeType, DocumentOfType DEF Rename, Loaded
    <3>3. ~Refused(cmd[p], Loaded) /\ Loaded' = Effect(cmd[p], Loaded)
      BY <2>5, <3>2 DEF Rename, SerialInv, ViewIsCurrent
    <3>4. out[p] = "pending" /\ out' = [out EXCEPT ![p] = "ok"]
      BY <2>5, <2>e DEF Rename, Ended
    <3>5. cmd' = cmd
      BY <2>5 DEF Rename
    <3> QED
      BY <3>3, <3>4, <3>5 DEF Atomic!Commit, out
  <2>6. ASSUME NEW p \in Proc,
               \/ LoadFails(p) \/ OpenTmpFails(p) \/ WriteTmpFails(p)
               \/ RemoveTmp(p) \/ RemoveTmpFails(p) \/ Crash(p)
        PROVE  Atomic!Abort(p)
    <3>1. Loaded' = Loaded
      <4>1. CASE WriteTmpFails(p)
        <5>1. fd[p] # config
          BY <4>1 DEF WriteTmpFails, SerialInv, TmpIsMine, Apart, TypeInv, TypeOK
        <5> QED
          BY <4>1, <5>1, SameFile DEF WriteTmpFails, TypeInv, TypeOK
      <4>2. CASE LoadFails(p) \/ OpenTmpFails(p) \/ RemoveTmp(p) \/ RemoveTmpFails(p) \/ Crash(p)
        BY <4>2, SameFile DEF LoadFails, OpenTmpFails, RemoveTmp, RemoveTmpFails, Crash, files
      <4> QED
        BY <2>6, <4>1, <4>2
    <3>2. PICK how \in {"failed", "writeFailed", "removeFailed", "crashed"} : Exit(p, how)
      BY <2>6 DEF LoadFails, OpenTmpFails, WriteTmpFails, RemoveTmp, RemoveTmpFails, Crash
    <3>3. pc[p] \notin Ended
      BY <2>6 DEF LoadFails, OpenTmpFails, WriteTmpFails, RemoveTmp, RemoveTmpFails, Crash,
                  Running, Loading, Saving, Ended
    <3>4. out[p] = "pending"
          /\ \E h \in {"failed", "crashed"} : out' = [out EXCEPT ![p] = h]
      BY <2>e, <3>2, <3>3 DEF Ended
    <3>5. cmd' = cmd
      BY <2>6 DEF LoadFails, OpenTmpFails, WriteTmpFails, RemoveTmp, RemoveTmpFails, Crash
    <3> QED
      BY <3>1, <3>4, <3>5 DEF Atomic!Abort, out
  <2>7. CASE UNCHANGED vars
    BY <2>7 DEF vars, Loaded, Atomic!vars
  <2> QED
    BY <2>1, <2>2, <2>3, <2>4, <2>5, <2>6, <2>7
    DEF Next, Step, Atomic!Next, Atomic!vars, out
<1>3. Init => TypeInv /\ SerialInv
  BY TypeInit, SerialInit
<1>4. TypeInv /\ SerialInv /\ [Next]_vars => (TypeInv /\ SerialInv)'
  BY TypeStep, SerialStep
<1> QED
  BY <1>1, <1>2, <1>3, <1>4, PTL DEF Spec, ImplementsAtomicConfig, Atomic!Spec

-----------------------------------------------------------------------------
(* The other profiles.  An invocation that nobody has overlapped since its *)
(* last Load is the only one that saves: config.json still says what it    *)
(* loaded, and the inode under config.json.tmp is its own.                 *)

(* A load from what Save writes has the profiles that were saved.          *)
LEMMA ProfilesSurvive ==
  ASSUME NEW c \in Config
  PROVE  LoadOf(DocumentOf(c)).profiles = c.profiles
<1>1. c.active \in Name \cup {NoName} /\ c.profiles \in Profiles
  BY DEF Config
<1>2. \A a : [c EXCEPT !.active = a].profiles = c.profiles
  BY DEF Config
<1>3. DocumentOf(c).shape = "profiles" /\ DocumentOf(c).content = c
  BY DEF DocumentOf
<1> QED
  BY <1>2, <1>3 DEF LoadOf

(* What a command saves has the profiles it is not about as it loaded them. *)
LEMMA EditedKeepsOthers ==
  ASSUME NEW c \in Config, NEW ask \in CommandType, WellFormed(ask), ask.op \notin ReadOnly,
         NEW s \in Name \cup {NoName}, ask.op \in AuthOps => s \in Name,
         NEW e \in Endpoint \cup {Unset},
         NEW n \in Names(c),
         ask.op \in AuthOps => n # s,
         ask.op \in {"add", "remove"} => n # ask.name
  PROVE  /\ n \in Names(Edited(ask, s, e, c))
         /\ Edited(ask, s, e, c).profiles[n] = c.profiles[n]
<1>0. ask.op \in AuthOps \cup ProfileOps /\ ask.name \in Name \cup {NoName}
  BY DEF CommandType
<1>u. \A name \in Name, prof \in Profile : n # name =>
        /\ n \in Names(Upsert(c, name, prof))
        /\ Upsert(c, name, prof).profiles[n] = c.profiles[n]
  BY UpsertCorrect DEF ProfileAt
<1>1. CASE ask.op \in AuthOps
  <2>1. AuthProfile(ask, s, e, c) \in Profile
    BY <1>1, AuthProfileType
  <2>2. Edited(ask, s, e, c) = Upsert(c, s, AuthProfile(ask, s, e, c))
    BY <1>1 DEF Edited, AuthOps
  <2> QED
    BY <1>1, <1>u, <2>1, <2>2
<1>2. CASE ask.op = "add"
  <2>1. AddedProfile(ask) \in Profile
    BY AddedProfileType
  <2>2. Edited(ask, s, e, c) = Upsert(c, ask.name, AddedProfile(ask))
    BY <1>2 DEF Edited, AuthOps
  <2>3. ask.name \in Name /\ n # ask.name
    BY <1>0, <1>2 DEF WellFormed
  <2> QED
    BY <1>u, <2>1, <2>2, <2>3
<1>3. CASE ask.op = "use"
  <2>1. Edited(ask, s, e, c) = [c EXCEPT !.active = ask.name]
    BY <1>3 DEF Edited, AuthOps
  <2>2. Edited(ask, s, e, c).profiles = c.profiles
    BY <2>1 DEF Config
  <2> QED
    BY <2>2 DEF Names
<1>4. CASE ask.op = "remove"
  <2>1. Edited(ask, s, e, c) = Remove(c, ask.name)
    BY <1>4 DEF Edited, AuthOps
  <2>2. ask.name \in Name /\ n # ask.name
    BY <1>0, <1>4 DEF WellFormed
  <2>3. n \in Names(Remove(c, ask.name)) /\ Remove(c, ask.name).profiles[n] = c.profiles[n]
    BY <2>2, RemoveCorrect DEF ProfileAt
  <2> QED
    BY <2>1, <2>2, <2>3
<1> QED
  BY <1>0, <1>1, <1>2, <1>3, <1>4 DEF AuthOps, ProfileOps, ReadOnly

SoleSaver(p) == \A q \in Proc \ {p} : pc[q] \notin Saving

SavesWhatItLoaded(p) ==
  /\ cmd[p].op \notin ReadOnly
  /\ cmd[p].op \in AuthOps => slot[p] \in Name
  /\ Accepts(cmd[p], Loaded)
  /\ edited[p] = Edited(cmd[p], slot[p], endpoint[p], Loaded)

Undisturbed(p) == SoleSaver(p) /\ Readable /\ SavesWhatItLoaded(p) /\ TmpIsMine(p)

FreshInv ==
  /\ Apart
  /\ \A p \in Proc : pc[p] \in {"open", "write", "rename"} /\ ~overlapped[p] => Undisturbed(p)

LEMMA FreshInit == Init => FreshInv
BY DEF Init, FreshInv, Apart

(* config.json.tmp and config.json never name the same inode.              *)
LEMMA ApartStep == TypeInv /\ Apart /\ [Next]_vars => Apart'
<1> SUFFICES ASSUME TypeInv, Apart, [Next]_vars PROVE Apart'
  OBVIOUS
<1>1. ASSUME NEW p \in Proc, OpenTmp(p) PROVE Apart'
  <2>1. tmp' \in Inode \ {config} /\ config' = config
    BY <1>1 DEF OpenTmp, FreeInodes, Apart, TypeInv, TypeOK
  <2> QED
    BY <2>1 DEF Apart
<1>2. ASSUME NEW p \in Proc, Rename(p) \/ RemoveTmp(p) PROVE Apart'
  BY <1>2 DEF Rename, RemoveTmp, Apart
<1>3. ASSUME NEW p \in Proc,
             \/ Start(p) \/ InitConfig(p) \/ LoadCfg(p) \/ LoadAndEdit(p) \/ LoadAndPrint(p)
             \/ LoadFails(p) \/ OpenTmpFails(p) \/ WriteTmp(p) \/ WriteTmpFails(p)
             \/ RenameFails(p) \/ RemoveTmpFails(p) \/ Crash(p)
      PROVE  Apart'
  BY <1>3 DEF Start, InitConfig, LoadCfg, LoadAndEdit, LoadAndPrint, LoadFails, OpenTmpFails,
              WriteTmp, WriteTmpFails, RenameFails, RemoveTmpFails, Crash, files, Apart
<1>4. CASE UNCHANGED vars
  BY <1>4 DEF vars, Apart
<1> QED
  BY <1>1, <1>2, <1>3, <1>4 DEF Next, Step

(* A step of another invocation: it was not saving, nor is it about to,    *)
(* since LoadAndEdit would have marked p as overlapped.                    *)
LEMMA FreshByOther ==
  ASSUME TypeInv, FreshInv, NEW p \in Proc, NEW q \in Proc \ {p},
         Start(q) \/ Step(q) \/ Crash(q),
         pc'[p] \in {"open", "write", "rename"}, ~overlapped'[p]
  PROVE  Undisturbed(p)'
<1>1. pc'[p] = pc[p]
  BY DEF Step, Start, InitConfig, LoadCfg, LoadAndEdit, LoadAndPrint, LoadFails, OpenTmp,
         OpenTmpFails, WriteTmp, WriteTmpFails, Rename, RenameFails, RemoveTmp,
         RemoveTmpFails, Crash, Exit, Goto, TypeInv, TypeOK
<1>2. ~LoadAndEdit(q) /\ ~overlapped[p]
  <2>1. ~LoadAndEdit(q)
    BY <1>1 DEF LoadAndEdit, Saving
  <2>2. overlapped'[p] = overlapped[p]
    BY <2>1 DEF Step, Start, InitConfig, LoadCfg, LoadAndPrint, LoadFails, OpenTmp,
         OpenTmpFails, WriteTmp, WriteTmpFails, Rename, RenameFails, RemoveTmp,
         RemoveTmpFails, Crash, Exit, memory, TypeInv, TypeOK
  <2> QED
    BY <2>1, <2>2
<1>3. Undisturbed(p)
  BY <1>1, <1>2 DEF FreshInv
<1>4. pc[q] \notin Saving
  BY <1>3 DEF Undisturbed, SoleSaver
<1>5. \/ Start(q) \/ InitConfig(q) \/ LoadCfg(q) \/ LoadAndPrint(q) \/ LoadFails(q) \/ Crash(q)
  BY <1>2, <1>4 DEF Step, OpenTmp, OpenTmpFails, WriteTmp, WriteTmpFails, Rename, RenameFails,
                    RemoveTmp, RemoveTmpFails, Saving
<1>6. UNCHANGED <<files, cmd>>
  BY <1>5 DEF Start, InitConfig, LoadCfg, LoadAndPrint, LoadFails, Crash
<1>7. /\ pc' \in {[pc EXCEPT ![q] = label] : label \in {"initConfig", "loadCfg", "load"} \cup Ended}
  BY <1>5 DEF Start, InitConfig, LoadCfg, LoadAndPrint, LoadFails, Crash, Exit, Goto, Ended
<1>8. /\ slot'[p] = slot[p] /\ endpoint'[p] = endpoint[p]
      /\ edited'[p] = edited[p] /\ fd'[p] = fd[p]
  BY <1>5 DEF Start, InitConfig, LoadCfg, LoadAndPrint, LoadFails, Crash, Exit, memory,
              TypeInv, TypeOK
<1>9. SoleSaver(p)'
  BY <1>3, <1>7 DEF Undisturbed, SoleSaver, Saving, Ended, TypeInv, TypeOK
<1>10. Readable' = Readable /\ Loaded' = Loaded
  BY <1>6, SameFile DEF files
<1> QED
  BY <1>1, <1>3, <1>6, <1>8, <1>9, <1>10
  DEF Undisturbed, SavesWhatItLoaded, TmpIsMine, files

LEMMA FreshStep == TypeInv /\ FreshInv /\ [Next]_vars => FreshInv'
<1> SUFFICES ASSUME TypeInv, FreshInv, [Next]_vars PROVE FreshInv'
  OBVIOUS
<1>a. Apart /\ Apart'
  BY ApartStep DEF FreshInv
<1> SUFFICES ASSUME NEW p \in Proc, pc'[p] \in {"open", "write", "rename"}, ~overlapped'[p]
             PROVE  Undisturbed(p)'
  BY <1>a DEF FreshInv
<1>o. ASSUME NEW label, pc' = [pc EXCEPT ![p] = label], SoleSaver(p)
      PROVE  SoleSaver(p)'
  BY <1>o DEF SoleSaver, TypeInv, TypeOK
<1>1. CASE LoadAndEdit(p)
  <2>1. Readable' /\ Loaded' = Loaded
    BY <1>1, SameFile DEF LoadAndEdit, files
  <2>2. SoleSaver(p)
    BY <1>1 DEF LoadAndEdit, SoleSaver, TypeInv, TypeOK
  <2>3. SoleSaver(p)'
    BY <1>1, <1>o, <2>2 DEF LoadAndEdit, Goto
  <2>4. pc'[p] = "open" /\ edited'[p] = Edited(cmd[p], slot[p], endpoint[p], Loaded)
    BY <1>1 DEF LoadAndEdit, Goto, TypeInv, TypeOK
  <2>5. SavesWhatItLoaded(p)'
    BY <1>1, <2>1, <2>4 DEF LoadAndEdit, SavesWhatItLoaded, TypeInv, SlotResolved
  <2> QED
    BY <2>1, <2>3, <2>4, <2>5 DEF Undisturbed, TmpIsMine
<1>2. CASE OpenTmp(p)
  <2>0. Undisturbed(p)
    BY <1>2 DEF OpenTmp, FreshInv
  <2>1. PICK i \in Inode \ {config} : /\ tmp' = i
                                      /\ data' = [data EXCEPT ![i] = Empty]
                                      /\ fd' = [fd EXCEPT ![p] = i]
    BY <1>2, <1>a DEF OpenTmp, FreeInodes, Apart, TypeInv, TypeOK
  <2>2. Readable' /\ Loaded' = Loaded
    BY <1>2, <2>0, <2>1, SameFile DEF OpenTmp, Undisturbed, TypeInv, TypeOK
  <2>3. pc'[p] = "write" /\ fd'[p] = tmp' /\ data'[tmp'] = Empty
    BY <1>2, <2>1 DEF OpenTmp, Goto, TypeInv, TypeOK
  <2>4. SoleSaver(p)'
    BY <1>2, <1>o, <2>0 DEF OpenTmp, Goto, Undisturbed
  <2>5. SavesWhatItLoaded(p)'
    BY <1>2, <2>0, <2>2 DEF OpenTmp, Undisturbed, SavesWhatItLoaded
  <2> QED
    BY <2>2, <2>3, <2>4, <2>5 DEF Undisturbed, TmpIsMine
<1>3. CASE WriteTmp(p)
  <2>0. Undisturbed(p)
    BY <1>3 DEF WriteTmp, FreshInv
  <2>1. fd[p] = tmp /\ data[tmp] = Empty /\ tmp \in Inode /\ tmp # config
    BY <1>3, <1>a, <2>0 DEF WriteTmp, Undisturbed, TmpIsMine, Apart, TypeInv, TypeOK
  <2>2. data' = [data EXCEPT ![tmp] = Whole(DocumentOf(edited[p]))]
    <3>1. DocumentOf(edited[p]) \in Document /\ data[tmp] \in ContentType
      BY <2>1, DocumentOfType DEF TypeInv, TypeOK
    <3>2. Overwritten(data[tmp], DocumentOf(edited[p])) = Whole(DocumentOf(edited[p]))
      BY <2>1, <3>1, OverwrittenCorrect
    <3> QED
      BY <1>3, <2>1, <3>2 DEF WriteTmp
  <2>3. Readable' /\ Loaded' = Loaded
    BY <1>3, <2>0, <2>1, <2>2, SameFile DEF WriteTmp, Undisturbed, TypeInv, TypeOK
  <2>4. data'[tmp'] = Whole(DocumentOf(edited'[p])) /\ tmp' # NoInode /\ pc'[p] = "rename"
    BY <1>3, <2>1, <2>2, InodeAssumption DEF WriteTmp, Goto, TypeInv, TypeOK
  <2>5. SoleSaver(p)'
    BY <1>3, <1>o, <2>0 DEF WriteTmp, Goto, Undisturbed
  <2>6. SavesWhatItLoaded(p)'
    BY <1>3, <2>0, <2>3 DEF WriteTmp, Undisturbed, SavesWhatItLoaded
  <2> QED
    BY <2>3, <2>4, <2>5, <2>6 DEF Undisturbed, TmpIsMine
<1>4. ASSUME \/ Start(p) \/ InitConfig(p) \/ LoadCfg(p) \/ LoadAndPrint(p) \/ LoadFails(p)
             \/ OpenTmpFails(p) \/ WriteTmpFails(p) \/ Rename(p) \/ RenameFails(p)
             \/ RemoveTmp(p) \/ RemoveTmpFails(p) \/ Crash(p)
      PROVE  FALSE
  BY <1>4 DEF Start, InitConfig, LoadCfg, LoadAndPrint, LoadFails, OpenTmpFails,
              WriteTmpFails, Rename, RenameFails, RemoveTmp, RemoveTmpFails, Crash, Exit, Goto,
              TypeInv, TypeOK
<1>5. CASE UNCHANGED vars
  <2>1. Undisturbed(p)
    BY <1>5 DEF vars, FreshInv
  <2> QED
    BY <1>5, <2>1, SameFile DEF vars, Undisturbed, SoleSaver, SavesWhatItLoaded, TmpIsMine
<1>6. ASSUME NEW q \in Proc \ {p}, Start(q) \/ Step(q) \/ Crash(q)
      PROVE  Undisturbed(p)'
  BY <1>6, FreshByOther
<1> QED
  BY <1>1, <1>2, <1>3, <1>4, <1>5, <1>6 DEF Next, Step

(* However many invocations there are, a command changes the profile it is *)
(* about and no other, unless another one was saving between its last Load *)
(* and its rename.                                                         *)
THEOREM SavesPreserveOthers == Spec => SavePreservesOthers
<1> DEFINE Preserved == \A p \in Proc :
                          pc[p] = "rename" /\ pc'[p] = "ok" /\ ~overlapped[p]
                            => Readable' /\ OthersKept(p)
<1>1. ASSUME TypeInv, FreshInv, NEW p \in Proc, ~overlapped[p], Rename(p)
      PROVE  Readable' /\ OthersKept(p)
  <2>1. Undisturbed(p) /\ pc[p] = "rename"
    BY <1>1 DEF Rename, FreshInv
  <2>2. data[tmp] = Whole(DocumentOf(edited[p])) /\ edited[p] \in Config
    BY <1>1, <2>1 DEF Undisturbed, TmpIsMine, TypeInv, TypeOK
  <2>3. Readable' /\ Loaded' = LoadOf(DocumentOf(edited[p]))
    BY <1>1, <2>2, WholeType, DocumentOfType DEF Rename, Readable, Loaded
  <2>4. Loaded'.profiles = edited[p].profiles
    BY <2>2, <2>3, ProfilesSurvive
  <2>5. /\ Loaded \in Config /\ cmd[p] \in CommandType /\ WellFormed(cmd[p])
        /\ endpoint[p] \in Endpoint \cup {Unset} /\ slot[p] \in Name \cup {NoName}
    BY <1>1, LoadedType, CommandAssumption DEF TypeInv, TypeOK
  <2>6. \A n \in Names(Loaded) \ TargetsOf(p) : /\ n \in Names(edited[p])
                                                /\ edited[p].profiles[n] = Loaded.profiles[n]
    <3>1. /\ cmd[p].op \notin ReadOnly
          /\ cmd[p].op \in AuthOps => slot[p] \in Name
          /\ edited[p] = Edited(cmd[p], slot[p], endpoint[p], Loaded)
      BY <2>1 DEF Undisturbed, SavesWhatItLoaded
    <3>2. ASSUME NEW n \in Names(Loaded) \ TargetsOf(p)
          PROVE  /\ cmd[p].op \in AuthOps => n # slot[p]
                 /\ cmd[p].op \in {"add", "remove"} => n # cmd[p].name
      BY DEF TargetsOf, AuthOps
    <3> DEFINE made == Edited(cmd[p], slot[p], endpoint[p], Loaded)
    <3>3. ASSUME NEW n \in Names(Loaded) \ TargetsOf(p)
          PROVE  n \in Names(made) /\ made.profiles[n] = Loaded.profiles[n]
      <4>1. n \in Names(Loaded)
        OBVIOUS
      <4>2. /\ cmd[p].op \in AuthOps => n # slot[p]
            /\ cmd[p].op \in {"add", "remove"} => n # cmd[p].name
        BY <3>2
      <4> QED
        BY <2>5, <3>1, <4>1, <4>2, EditedKeepsOthers
    <3> QED
      BY <3>1, <3>3
  <2>7. Names(Loaded') = Names(edited[p])
    BY <2>4 DEF Names
  <2> QED
    BY <2>3, <2>4, <2>6, <2>7 DEF OthersKept, ProfileAt
<1>2. TypeInv /\ FreshInv /\ [Next]_vars => [Preserved]_vars
  <2> SUFFICES ASSUME TypeInv, FreshInv, Next, NEW p \in Proc,
                      pc[p] = "rename", pc'[p] = "ok", ~overlapped[p]
               PROVE  Readable' /\ OthersKept(p)
    OBVIOUS
  <2>1. Rename(p)
    <3>1. PICK q \in Proc : Start(q) \/ Step(q) \/ Crash(q)
      BY DEF Next
    <3>2. \A label : pc' = [pc EXCEPT ![q] = label] => q = p /\ label = "ok"
      BY DEF TypeInv, TypeOK
    <3>3. ~Start(q) /\ ~InitConfig(q) /\ ~LoadCfg(q) /\ ~LoadAndEdit(q) /\ ~RenameFails(q)
      BY <3>2 DEF Start, InitConfig, LoadCfg, LoadAndEdit, RenameFails, Goto
    <3>4. ~OpenTmp(q) /\ ~WriteTmp(q)
      BY <3>2 DEF OpenTmp, WriteTmp, Goto
    <3>5. ~LoadAndPrint(q) /\ ~LoadFails(q) /\ ~OpenTmpFails(q) /\ ~WriteTmpFails(q)
      BY <3>2 DEF LoadAndPrint, LoadFails, OpenTmpFails, WriteTmpFails, Exit, Goto, Loading
    <3>6. ~RemoveTmp(q) /\ ~RemoveTmpFails(q) /\ ~Crash(q)
      BY <3>2 DEF RemoveTmp, RemoveTmpFails, Crash, Exit, Goto
    <3>7. Rename(q) => q = p
      BY <3>2 DEF Rename, Exit, Goto
    <3> QED
      BY <3>1, <3>3, <3>4, <3>5, <3>6, <3>7 DEF Step
  <2> QED
    BY <1>1, <2>1
<1> HIDE DEF Preserved
<1>3. Spec => [][Preserved]_vars
  BY <1>2, TypeInit, TypeStep, FreshInit, FreshStep, PTL DEF Spec
<1> QED
  BY <1>3 DEF SavePreservesOthers, Preserved
=============================================================================
