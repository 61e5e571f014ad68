------------------------- MODULE UpdateCheckProofs -------------------------
(***************************************************************************)
(* Proofs about UpdateCheck and the order of versions, for any number of   *)
(* invocations, releases and versions, any interval and any time.          *)
(***************************************************************************)
EXTENDS UpdateCheck, TLAPS

-----------------------------------------------------------------------------
(* The order of versions.                                                  *)

LEMMA WellFormed ==
  ASSUME NEW a \in Text
  PROVE  /\ ParseSemver(a).ok <=> IsVersion(a)
         /\ IsVersion(a) => \A i \in 1 .. 3 : a.parts[i] \in Nat
<1>1. /\ Len(a.parts) \in Nat
      /\ Len(a.parts) = 3 => \A i \in 1 .. 3 : a.parts[i] \in Nat \union {BadPart}
  BY DEF Text
<1>2. BadPart \notin Nat
  BY DEF BadPart
<1> QED
  BY <1>1, <1>2 DEF ParseSemver, IsVersion

LEMMA FirstDifferenceIsFirst ==
  ASSUME NEW x, NEW y, ~(\A j \in 1 .. 3 : x[j] = y[j])
  PROVE  /\ FirstDifference(x, y) \in 1 .. 3
         /\ x[FirstDifference(x, y)] # y[FirstDifference(x, y)]
         /\ \A j \in 1 .. FirstDifference(x, y) - 1 : x[j] = y[j]
<1>1. \E i \in 1 .. 3 : x[i] # y[i] /\ \A j \in 1 .. i - 1 : x[j] = y[j]
  <2>1. CASE x[1] # y[1]
    BY <2>1
  <2>2. CASE x[1] = y[1] /\ x[2] # y[2]
    <3>1. \A j \in 1 .. 2 - 1 : x[j] = y[j]
      BY <2>2
    <3> QED BY <2>2, <3>1
  <2>3. CASE x[1] = y[1] /\ x[2] = y[2]
    <3>1. x[3] # y[3]
      <4>1. 1 .. 3 = {1, 2, 3}
        OBVIOUS
      <4> QED BY <2>3, <4>1
    <3>2. \A j \in 1 .. 3 - 1 : x[j] = y[j]
      BY <2>3
    <3> QED BY <3>1, <3>2
  <2> QED BY <2>1, <2>2, <2>3
<1> QED
  BY <1>1 DEF FirstDifference

(* The comparison of the code is negative exactly when both texts are      *)
(* versions and the first is the older one (CmpSemver): a malformed tag    *)
(* never brings a message about, and a pre-release is before its release.  *)
THEOREM CmpSemverIsOlder ==
  ASSUME NEW a \in Text, NEW b \in Text
  PROVE  CmpSemver(a, b) < 0 <=> Older(a, b)
<1> DEFINE x == a.parts
           y == b.parts
           i == FirstDifference(x, y)
<1>1. CASE ~IsVersion(a) \/ ~IsVersion(b)
  BY <1>1, WellFormed DEF CmpSemver, Older
<1>2. CASE IsVersion(a) /\ IsVersion(b)
  <2>1. /\ \A j \in 1 .. 3 : x[j] \in Nat /\ y[j] \in Nat
        /\ ParseSemver(a).ok /\ ParseSemver(b).ok
        /\ ParseSemver(a).core = x /\ ParseSemver(b).core = y
        /\ ParseSemver(a).pre = a.pre /\ ParseSemver(b).pre = b.pre
        /\ a.pre \in Nat /\ b.pre \in Nat
    BY <1>2, WellFormed DEF ParseSemver, Text
  <2>2. CASE \A j \in 1 .. 3 : x[j] = y[j]
    <3>1. CmpSemver(a, b) = CmpPre(a.pre, b.pre)
      BY <2>1, <2>2 DEF CmpSemver
    <3>2. CmpPre(a.pre, b.pre) < 0 <=> a.pre # NoPre /\ (b.pre = NoPre \/ a.pre < b.pre)
      BY <2>1 DEF CmpPre, NoPre
    <3>3. ~ \E j \in 1 .. 3 : x[j] < y[j]
      BY <2>1, <2>2
    <3> QED
      BY <1>2, <2>2, <3>1, <3>2, <3>3 DEF Older
  <2>3. CASE ~(\A j \in 1 .. 3 : x[j] = y[j])
    <3>1. /\ i \in 1 .. 3 /\ x[i] # y[i]
          /\ \A j \in 1 .. i - 1 : x[j] = y[j]
      BY <2>3, FirstDifferenceIsFirst
    <3>2. CmpSemver(a, b) = IF x[i] < y[i] THEN -1 ELSE 1
      BY <2>1, <2>3 DEF CmpSemver
    <3>3. ASSUME NEW k \in 1 .. 3, x[k] < y[k], \A j \in 1 .. k - 1 : x[j] = y[j]
          PROVE  x[i] < y[i]
      <4>1. k = i
        <5>1. ~(k < i)
          BY <2>1, <3>1, <3>3
        <5>2. ~(i < k)
          BY <2>1, <3>1, <3>3
        <5> QED
          BY <3>1, <5>1, <5>2
      <4> QED
        BY <3>3, <4>1
    <3> QED
      BY <1>2, <2>3, <3>1, <3>2, <3>3 DEF Older
  <2> QED
    BY <2>2, <2>3
<1> QED
  BY <1>1, <1>2

(* Being older is a strict order: no two texts are each older than the     *)
(* other, and what is older than an older one is older (CmpSemver).        *)
THEOREM OlderIsAStrictOrder ==
  ASSUME NEW a \in Text, NEW b \in Text, NEW c \in Text
  PROVE  /\ ~(Older(a, b) /\ Older(b, a))
         /\ Older(a, b) /\ Older(b, c) => Older(a, c)
<1> SUFFICES ASSUME IsVersion(a), IsVersion(b)
             PROVE  /\ ~(Older(a, b) /\ Older(b, a))
                    /\ Older(a, b) /\ Older(b, c) => Older(a, c)
  BY DEF Older
<1> DEFINE Less(x, y) == \/ x.parts[1] < y.parts[1]
                         \/ x.parts[1] = y.parts[1] /\ x.parts[2] < y.parts[2]
                         \/ /\ x.parts[1] = y.parts[1] /\ x.parts[2] = y.parts[2]
                            /\ x.parts[3] < y.parts[3]
           Same(x, y) == /\ x.parts[1] = y.parts[1] /\ x.parts[2] = y.parts[2]
                         /\ x.parts[3] = y.parts[3]
<1>1. ASSUME NEW x, NEW y, IsVersion(x), IsVersion(y)
      PROVE  Older(x, y) <=>
               Less(x, y) \/ (Same(x, y) /\ x.pre # NoPre /\ (y.pre = NoPre \/ x.pre < y.pre))
  <2>1. 1 .. 3 = {1, 2, 3} /\ 1 .. 1 - 1 = {} /\ 1 .. 2 - 1 = {1} /\ 1 .. 3 - 1 = {1, 2}
    OBVIOUS
  <2>2. (\A j \in 1 .. 3 : x.parts[j] = y.parts[j]) <=> Same(x, y)
    BY <2>1
  <2>3. (\E i \in 1 .. 3 : /\ x.parts[i] < y.parts[i]
                           /\ \A j \in 1 .. i - 1 : x.parts[j] = y.parts[j]) <=> Less(x, y)
    BY <2>1
  <2> QED
    BY <1>1, <2>2, <2>3 DEF Older
<1>2. ASSUME NEW x \in Text, IsVersion(x)
      PROVE  /\ x.parts[1] \in Nat /\ x.parts[2] \in Nat /\ x.parts[3] \in Nat
             /\ x.pre \in Nat
  BY <1>2 DEF IsVersion, Text
<1>3. ~(Older(a, b) /\ Older(b, a))
  BY <1>1, <1>2
<1>4. ASSUME Older(a, b), Older(b, c) PROVE Older(a, c)
  <2>1. IsVersion(c)
    BY <1>4 DEF Older
  <2> QED
    BY <1>1, <1>2, <1>4, <2>1
<1> QED
  BY <1>3, <1>4
-----------------------------------------------------------------------------
(* The inductive invariant.                                                *)

Types ==
  /\ TypeOK
  /\ now \in [Proc -> 0 .. MaxClock]
  /\ verb \in [Proc -> {"running", "usage", "updated", "other"}]
  /\ ch \in [Proc -> Releases \union {Empty, Nothing}]

(* Releases are published one after the other, and never ahead of time.    *)
World ==
  /\ \E last \in Releases : \A n \in Releases : published[n] # Never <=> n <= last
  /\ \A n \in Releases : published[n] # Never => published[n] <= clock

(* Whatever is newer than a release was published at a time or later.      *)
NewestAt(t, time) == \A n \in Releases : n > t => published[n] >= time

Entries ==
  \A i \in Inode : data[i] # Torn =>
    /\ published[data[i].tag] <= clock
    /\ data[i].checkedAt <= clock
    /\ NewestAt(data[i].tag, data[i].checkedAt)

Checks ==
  \A p \in Proc :
    /\ now[p] <= clock
    /\ main[p] = "idle" => check[p] = "off"
    /\ main[p] # "idle" => shown[p] = Nothing
    /\ check[p] \in {"off", "read", "fetch"} => tag[p] = Nothing
    /\ check[p] \in {"open", "write", "rename"} => tag[p] # Nothing /\ NewestAt(tag[p], now[p])
    /\ tag[p] # Nothing => published[tag[p]] <= clock
    /\ ch[p] \in Releases =>
         Older(Version, TagOf[ch[p]]) /\ published[ch[p]] <= clock

CheckInv == Types /\ World /\ Entries /\ Checks /\ NewReleaseIsNoticed /\ NudgeIsTrue

LEMMA Constants ==
  /\ Releases \subseteq Nat /\ 1 \in Releases /\ Nothing \notin Releases /\ Empty \notin Releases
  /\ MaxClock \in Nat /\ Never = MaxClock + 1 /\ TTL \in Nat /\ TTL > 0
  /\ Torn \notin Entry /\ Empty # Nothing /\ NoInode \notin Inode
  /\ Version \in Text /\ TagOf \in [Releases -> Text]
BY UpdateCheckAssumption DEF Releases, Nothing, Empty, Never, Torn, Entry

LEMMA LatestIsLast ==
  ASSUME World
  PROVE  /\ Latest \in Releases /\ published[Latest] # Never
         /\ \A n \in Releases : published[n] # Never <=> n <= Latest
<1>1. PICK last \in Releases : \A n \in Releases : published[n] # Never <=> n <= last
  BY DEF World
<1>2. last \in Nat /\ \A n \in Releases : n \in Nat
  BY Constants
<1>3. published[last] # Never /\ \A m \in Releases : published[m] # Never => m <= last
  BY <1>1, <1>2
<1>4. /\ Latest \in Releases /\ published[Latest] # Never
      /\ \A m \in Releases : published[m] # Never => m <= Latest
  BY <1>3 DEF Latest
<1>5. Latest = last
  BY <1>1, <1>2, <1>3, <1>4
<1> QED
  BY <1>1, <1>4, <1>5

LEMMA ShouldNotifyIsOlder ==
  ASSUME NEW t \in Releases \union {Nothing}
  PROVE  ShouldNotify(t) <=> t # Nothing /\ Older(Version, TagOf[t])
<1>1. t # Nothing => TagOf[t] \in Text
  BY Constants
<1> QED
  BY <1>1, Constants, CmpSemverIsOlder DEF ShouldNotify

LEMMA InitCheck == Init => CheckInv
<1> SUFFICES ASSUME Init PROVE CheckInv
  OBVIOUS
<1> USE Constants
<1>1. Types
  BY DEF Init, Types, TypeOK, Nothing, Empty
<1>2. World
  <2>1. \A n \in Releases : published[n] # Never <=> n <= 1
    BY DEF Init, Releases
  <2>2. \A n \in Releases : published[n] # Never => published[n] <= clock
    BY DEF Init
  <2> QED
    BY <2>1, <2>2 DEF World
<1>3. Entries
  BY DEF Init, Entries
<1>4. Checks /\ NewReleaseIsNoticed /\ NudgeIsTrue
  BY DEF Init, Checks, NewReleaseIsNoticed, NudgeIsTrue, Nothing, Empty
<1> QED
  BY <1>1, <1>2, <1>3, <1>4 DEF CheckInv

(* Time passes, and releases come.                                         *)
LEMMA WorldMoves == CheckInv /\ (Tick \/ Publish) => CheckInv'
<1> SUFFICES ASSUME CheckInv, Tick \/ Publish PROVE CheckInv'
  OBVIOUS
<1> USE Constants
<1>1. /\ Types /\ World /\ Entries /\ Checks /\ NewReleaseIsNoticed /\ NudgeIsTrue
      /\ clock \in 0 .. MaxClock /\ published \in [Releases -> 0 .. Never]
  BY DEF CheckInv, Types, TypeOK
<1>2. UNCHANGED <<files, main, verb, goroutine, ch, shown>> /\ clock' \in 0 .. MaxClock
      /\ clock <= clock'
  BY <1>1 DEF Tick, Publish
<1>3. /\ published' \in [Releases -> 0 .. Never]
      /\ \A n \in Releases :
           /\ published[n] <= clock => published'[n] = published[n]
           /\ published'[n] = published[n] \/ (published[n] = Never /\ published'[n] = clock)
  <2>1. CASE Tick
    BY <1>1, <2>1 DEF Tick
  <2>2. CASE Publish
    <3>1. Latest \in Releases /\ Latest < MaxRelease
          /\ \A n \in Releases : published[n] # Never <=> n <= Latest
      BY <1>1, <2>2, LatestIsLast DEF Publish
    <3>2. Latest + 1 \in Releases /\ published[Latest + 1] = Never
      BY <3>1, UpdateCheckAssumption DEF Releases
    <3> QED
      BY <1>1, <2>2, <3>2 DEF Publish
  <2> QED
    BY <2>1, <2>2
<1>4. Types'
  BY <1>1, <1>2, <1>3 DEF Types, TypeOK, files, goroutine
<1>5. World'
  <2>1. CASE Tick
    BY <1>1, <1>2, <2>1 DEF Tick, World
  <2>2. CASE Publish
    <3>1. /\ Latest \in Releases /\ Latest < MaxRelease
          /\ \A n \in Releases : published[n] # Never <=> n <= Latest
      BY <1>1, <2>2, LatestIsLast DEF Publish
    <3>2. Latest + 1 \in Releases
      BY <3>1, UpdateCheckAssumption DEF Releases
    <3>3. \A n \in Releases : published'[n] # Never <=> n <= Latest + 1
      BY <1>1, <2>2, <3>1, <3>2 DEF Publish
    <3>4. \A n \in Releases : published'[n] # Never => published'[n] <= clock'
      BY <1>1, <1>2, <1>3 DEF World
    <3> QED
      BY <3>2, <3>3, <3>4 DEF World
  <2> QED
    BY <2>1, <2>2
<1>6. \A t \in Releases : published[t] <= clock => published'[t] <= clock'
  BY <1>1, <1>2, <1>3
<1>7. ASSUME NEW t \in Nat, NEW time \in Nat, time <= clock, NewestAt(t, time)
      PROVE  NewestAt(t, time)'
  BY <1>1, <1>3, <1>7 DEF NewestAt
<1>8. Entries'
  <2> SUFFICES ASSUME NEW i \in Inode, data[i] # Torn
               PROVE  /\ published'[data[i].tag] <= clock'
                      /\ data[i].checkedAt <= clock'
                      /\ NewestAt(data[i].tag, data[i].checkedAt)'
    BY <1>2 DEF Entries, files
  <2>1. data[i].tag \in Releases /\ data[i].tag \in Nat /\ data[i].checkedAt \in Nat
    <3>1. data[i] \in Entry
      BY <1>1 DEF Types, TypeOK
    <3>2. 0 .. MaxClock \subseteq Nat
      OBVIOUS
    <3> QED
      BY <3>1, <3>2 DEF Entry
  <2>2. published[data[i].tag] <= clock /\ data[i].checkedAt <= clock
        /\ NewestAt(data[i].tag, data[i].checkedAt)
    BY <1>1 DEF Entries
  <2>3. data[i].checkedAt <= clock'
    BY <1>1, <1>2, <2>1, <2>2
  <2>4. data' = data
    BY <1>2 DEF files
  <2> QED
    BY <1>6, <1>7, <2>1, <2>2, <2>3, <2>4 DEF NewestAt
<1>9. ASSUME NEW p \in Proc
      PROVE  /\ now[p] \in Nat /\ now[p] <= clock
             /\ tag[p] \in Nat /\ tag[p] \in Releases \union {Nothing}
             /\ shown[p] \in Releases \union {Nothing}
  <2>1. now[p] \in Nat /\ now[p] <= clock
    BY <1>1 DEF Types, Checks
  <2>2. tag[p] \in Releases \union {Nothing} /\ shown[p] \in Releases \union {Nothing}
    BY <1>1 DEF Types, TypeOK
  <2>3. Nothing \in Nat
    BY DEF Nothing
  <2> QED
    BY <2>1, <2>2, <2>3
<1>10. Checks'
  <2>1. \A p \in Proc : now[p] <= clock'
    BY <1>1, <1>2, <1>9
  <2>2. \A p \in Proc : tag[p] # Nothing => published'[tag[p]] <= clock'
    BY <1>1, <1>6, <1>9 DEF Checks
  <2>3. \A p \in Proc : ch[p] \in Releases => published'[ch[p]] <= clock'
    BY <1>1, <1>6 DEF Checks
  <2>4. \A p \in Proc : NewestAt(tag[p], now[p]) => NewestAt(tag[p], now[p])'
    <3> SUFFICES ASSUME NEW p \in Proc, NewestAt(tag[p], now[p]) PROVE NewestAt(tag[p], now[p])'
      OBVIOUS
    <3>1. now' = now /\ tag' = tag
      BY <1>2 DEF goroutine
    <3> QED
      BY <1>7, <1>9, <3>1 DEF NewestAt
  <2> QED
    BY <1>1, <1>2, <2>1, <2>2, <2>3, <2>4 DEF Checks, goroutine
<1>11. NewReleaseIsNoticed'
  <2> SUFFICES ASSUME NEW p \in Proc, check[p] = "sent", tag[p] # Nothing,
                      NEW n \in Releases, n > tag[p]
               PROVE  published'[n] + TTL > now[p]
    BY <1>2 DEF NewReleaseIsNoticed, goroutine
  <2>1. published[n] + TTL > now[p]
    BY <1>1 DEF NewReleaseIsNoticed
  <2>2. published'[n] = published[n] \/ published'[n] = clock
    BY <1>3
  <2> QED
    BY <1>1, <1>9, <2>1, <2>2
<1>12. NudgeIsTrue'
  BY <1>1, <1>2, <1>6, <1>9 DEF NudgeIsTrue, goroutine
<1> QED
  BY <1>4, <1>5, <1>8, <1>10, <1>11, <1>12 DEF CheckInv

-----------------------------------------------------------------------------
(* The steps of one invocation.                                            *)

(* CachedCheck returns what it may return.                                 *)
LEMMA Returns ==
  ASSUME CheckInv, UNCHANGED <<world, main, verb, shown>>,
         NEW p \in Proc, NEW t \in Releases \union {Nothing}, NEW from, from # "off",
         Return(p, from, t),
         tag' = [tag EXCEPT ![p] = t],
         now' = [now EXCEPT ![p] = now'[p]], now'[p] <= clock,
         t # Nothing => published[t] <= clock,
         t # Nothing => \A n \in Releases : n > t => published[n] + TTL > now'[p]
  PROVE  Checks' /\ NewReleaseIsNoticed' /\ NudgeIsTrue'
<1> USE Constants
<1>1. /\ Checks /\ NewReleaseIsNoticed /\ NudgeIsTrue
      /\ clock' = clock /\ published' = published
      /\ check \in [Proc -> {"off", "read", "fetch", "open", "write", "rename", "sent"}]
      /\ tag \in [Proc -> Releases \union {Nothing}]
      /\ now \in [Proc -> 0 .. MaxClock] /\ ch \in [Proc -> Releases \union {Empty, Nothing}]
  BY DEF CheckInv, Types, TypeOK, world
<1>2. /\ check[p] = from /\ check' = [check EXCEPT ![p] = "sent"]
      /\ ch' = [ch EXCEPT ![p] = IF ShouldNotify(t) THEN t ELSE Nothing]
  BY DEF Return, Go
<1>3. main[p] # "idle"
  BY <1>1, <1>2 DEF Checks
<1>4. ch'[p] \in Releases => Older(Version, TagOf[ch'[p]]) /\ published[ch'[p]] <= clock
  BY <1>1, <1>2, ShouldNotifyIsOlder
<1>5. t # Nothing /\ Older(Version, TagOf[t]) => ch'[p] = t
  BY <1>1, <1>2, ShouldNotifyIsOlder
<1>6. ASSUME NEW q \in Proc, q # p
      PROVE  check'[q] = check[q] /\ tag'[q] = tag[q] /\ now'[q] = now[q] /\ ch'[q] = ch[q]
  BY <1>1, <1>2, <1>6
<1>7. check'[p] = "sent" /\ tag'[p] = t
  BY <1>1, <1>2
<1>8. Checks'
  <2> SUFFICES ASSUME NEW q \in Proc
               PROVE  /\ now'[q] <= clock
                      /\ main[q] = "idle" => check'[q] = "off"
                      /\ main[q] # "idle" => shown[q] = Nothing
                      /\ check'[q] \in {"off", "read", "fetch"} => tag'[q] = Nothing
                      /\ check'[q] \in {"open", "write", "rename"} =>
                           tag'[q] # Nothing /\ NewestAt(tag'[q], now'[q])
                      /\ tag'[q] # Nothing => published[tag'[q]] <= clock
                      /\ ch'[q] \in Releases =>
                           Older(Version, TagOf[ch'[q]]) /\ published[ch'[q]] <= clock
    BY <1>1 DEF Checks, NewestAt
  <2>1. CASE q = p
    BY <1>1, <1>3, <1>4, <1>7, <2>1 DEF Checks
  <2>2. CASE q # p
    BY <1>1, <1>6, <2>2 DEF Checks
  <2> QED BY <2>1, <2>2
<1>9. NewReleaseIsNoticed'
  BY <1>1, <1>6, <1>7 DEF NewReleaseIsNoticed
<1>10. NudgeIsTrue'
  BY <1>1, <1>5, <1>6, <1>7 DEF NudgeIsTrue
<1> QED
  BY <1>8, <1>9, <1>10

(* A step of the goroutine that does not return.                           *)
LEMMA GoesOn ==
  ASSUME CheckInv, UNCHANGED <<world, main, verb, shown, ch>>,
         NEW p \in Proc, NEW from, NEW to \in {"fetch", "open", "write", "rename"}, from # "off",
         Go(p, from, to),
         tag' = [tag EXCEPT ![p] = tag'[p]], now' = [now EXCEPT ![p] = now'[p]],
         now'[p] <= clock,
         to = "fetch" => tag'[p] = Nothing,
         to # "fetch" => tag'[p] # Nothing /\ NewestAt(tag'[p], now'[p]),
         tag'[p] # Nothing => published[tag'[p]] <= clock
  PROVE  Checks' /\ NewReleaseIsNoticed' /\ NudgeIsTrue'
<1> USE Constants
<1>1. /\ Checks /\ NewReleaseIsNoticed /\ NudgeIsTrue
      /\ clock' = clock /\ published' = published
      /\ check \in [Proc -> {"off", "read", "fetch", "open", "write", "rename", "sent"}]
      /\ tag \in [Proc -> Releases \union {Nothing}]
      /\ now \in [Proc -> 0 .. MaxClock]
  BY DEF CheckInv, Types, TypeOK, world
<1>2. check[p] = from /\ check' = [check EXCEPT ![p] = to]
  BY DEF Go
<1>3. main[p] # "idle"
  BY <1>1, <1>2 DEF Checks
<1>4. ASSUME NEW q \in Proc, q # p
      PROVE  check'[q] = check[q] /\ tag'[q] = tag[q] /\ now'[q] = now[q]
  BY <1>1, <1>2, <1>4
<1>5. check'[p] = to
  BY <1>1, <1>2
<1>6. Checks'
  <2> SUFFICES ASSUME NEW q \in Proc
               PROVE  /\ now'[q] <= clock
                      /\ main[q] = "idle" => check'[q] = "off"
                      /\ main[q] # "idle" => shown[q] = Nothing
                      /\ check'[q] \in {"off", "read", "fetch"} => tag'[q] = Nothing
                      /\ check'[q] \in {"open", "write", "rename"} =>
                           tag'[q] # Nothing /\ NewestAt(tag'[q], now'[q])
                      /\ tag'[q] # Nothing => published[tag'[q]] <= clock
                      /\ ch[q] \in Releases =>
                           Older(Version, TagOf[ch[q]]) /\ published[ch[q]] <= clock
    BY <1>1 DEF Checks, NewestAt
  <2>1. CASE q = p
    BY <1>1, <1>3, <1>5, <2>1 DEF Checks
  <2>2. CASE q # p
    BY <1>1, <1>4, <2>2 DEF Checks
  <2> QED BY <2>1, <2>2
<1>7. NewReleaseIsNoticed'
  BY <1>1, <1>4, <1>5 DEF NewReleaseIsNoticed
<1>8. NudgeIsTrue'
  BY <1>1, <1>4, <1>5 DEF NudgeIsTrue
<1> QED
  BY <1>6, <1>7, <1>8

LEMMA ReadCacheStep == ASSUME CheckInv, NEW p \in Proc, ReadCache(p) PROVE CheckInv'
<1> USE Constants
<1>1. /\ Types /\ World /\ Entries /\ Checks
      /\ UNCHANGED <<world, files, main, verb, fd, shown>>
      /\ clock \in 0 .. MaxClock /\ published \in [Releases -> 0 .. Never]
      /\ now' = [now EXCEPT ![p] = clock] /\ now' = [now EXCEPT ![p] = now'[p]] /\ now'[p] = clock
      /\ tag \in [Proc -> Releases \union {Nothing}]
  BY DEF CheckInv, ReadCache, Types, TypeOK
<1>2. CASE Readable /\ Fresh(p)
  <2> DEFINE entry == data[cache]
  <2>1. cache \in Inode /\ entry \in Entry
    BY <1>1, <1>2 DEF Readable, Types, TypeOK
  <2>2. entry.tag \in Releases /\ entry.checkedAt \in Nat
    BY <2>1 DEF Entry
  <2>3. /\ published[entry.tag] <= clock
        /\ \A n \in Releases : n > entry.tag => published[n] + TTL > clock
    BY <1>1, <1>2, <2>1, <2>2 DEF Readable, Fresh, Entries, NewestAt
  <2>4. /\ Return(p, "read", entry.tag)
        /\ tag' = [tag EXCEPT ![p] = entry.tag]
    BY <1>2 DEF ReadCache
  <2>5. Checks' /\ NewReleaseIsNoticed' /\ NudgeIsTrue'
    <3>1. now'[p] <= clock /\ "read" # "off" /\ entry.tag \in Releases \union {Nothing}
      BY <1>1, <2>2
    <3>2. \A n \in Releases : n > entry.tag => published[n] + TTL > now'[p]
      BY <1>1, <2>3
    <3>3. UNCHANGED <<world, main, verb, shown>>
      BY <1>1
    <3> HIDE DEF entry
    <3> QED
      BY <1>1, <2>3, <2>4, <3>1, <3>2, <3>3, Returns
  <2>6. Types'
    BY <1>1, <2>2, <2>4, ShouldNotifyIsOlder DEF Types, TypeOK, Return, Go, files, world
  <2> QED
    BY <1>1, <2>5, <2>6 DEF CheckInv, World, Entries, NewestAt, files, world
<1>3. CASE ~(Readable /\ Fresh(p))
  <2>1. Go(p, "read", "fetch") /\ UNCHANGED <<tag, ch>>
    BY <1>3 DEF ReadCache
  <2>2. tag[p] = Nothing
    BY <1>1, <2>1 DEF Go, Checks
  <2>3. Checks' /\ NewReleaseIsNoticed' /\ NudgeIsTrue'
    <3>1. tag' = tag /\ tag'[p] = Nothing /\ now'[p] <= clock
      BY <1>1, <2>1, <2>2
    <3>2. tag' = [tag EXCEPT ![p] = tag'[p]]
      BY <1>1, <3>1
    <3>3. UNCHANGED <<world, main, verb, shown, ch>>
      BY <1>1, <2>1
    <3> QED
      BY <1>1, <2>1, <3>1, <3>2, <3>3, GoesOn
  <2>4. Types'
    BY <1>1, <2>1 DEF Types, TypeOK, Go, files, world
  <2> QED
    BY <1>1, <2>3, <2>4 DEF CheckInv, World, Entries, NewestAt, files, world
<1> QED
  BY <1>2, <1>3

LEMMA FetchStep ==
  ASSUME CheckInv, NEW p \in Proc, LatestRelease(p) \/ LatestReleaseFails(p)
  PROVE  CheckInv'
<1> USE Constants
<1>1. /\ Types /\ World /\ Entries /\ Checks
      /\ UNCHANGED <<world, files, main, verb, now, fd, shown>>
      /\ clock \in 0 .. MaxClock /\ published \in [Releases -> 0 .. Never]
      /\ tag \in [Proc -> Releases \union {Nothing}] /\ now \in [Proc -> 0 .. MaxClock]
      /\ now[p] <= clock
  BY DEF CheckInv, LatestRelease, LatestReleaseFails, Types, TypeOK, Checks
<1>2. CASE LatestRelease(p)
  <2>1. /\ Go(p, "fetch", "open") /\ UNCHANGED ch
        /\ tag' = [tag EXCEPT ![p] = Latest]
    BY <1>2 DEF LatestRelease
  <2>2. /\ Latest \in Releases /\ published[Latest] # Never
        /\ \A n \in Releases : published[n] # Never <=> n <= Latest
    BY <1>1, LatestIsLast
  <2>3. \A n \in Releases : n > Latest => published[n] = Never
    BY <2>2
  <2>4. NewestAt(Latest, now[p]) /\ published[Latest] <= clock
    BY <1>1, <2>2, <2>3 DEF NewestAt, World
  <2>5. Checks' /\ NewReleaseIsNoticed' /\ NudgeIsTrue'
    BY <1>1, <2>1, <2>2, <2>4, GoesOn
  <2>6. Types'
    BY <1>1, <2>1, <2>2 DEF Types, TypeOK, Go, files, world
  <2> QED
    BY <1>1, <2>5, <2>6 DEF CheckInv, World, Entries, NewestAt, files, world
<1>3. CASE LatestReleaseFails(p)
  <2>1. Return(p, "fetch", Nothing) /\ UNCHANGED tag
    BY <1>3 DEF LatestReleaseFails
  <2>2. tag[p] = Nothing
    BY <1>1, <2>1 DEF Return, Go, Checks
  <2>3. Checks' /\ NewReleaseIsNoticed' /\ NudgeIsTrue'
    BY <1>1, <2>1, <2>2, Returns
  <2>4. Types'
    BY <1>1, <2>1, ShouldNotifyIsOlder DEF Types, TypeOK, Return, Go, files, world
  <2> QED
    BY <1>1, <2>3, <2>4 DEF CheckInv, World, Entries, NewestAt, files, world
<1> QED
  BY <1>2, <1>3

LEMMA OpenStep == ASSUME CheckInv, NEW p \in Proc, OpenTmp(p) PROVE CheckInv'
<1> USE Constants
<1>1. /\ Types /\ World /\ Entries /\ Checks
      /\ UNCHANGED <<world, cache, main, verb, now, tag, ch, shown>>
      /\ Go(p, "open", "write")
      /\ tag \in [Proc -> Releases \union {Nothing}] /\ now \in [Proc -> 0 .. MaxClock]
  BY DEF CheckInv, OpenTmp, Types, TypeOK
<1>2. PICK i \in Inode : /\ tmp' = i /\ fd' = [fd EXCEPT ![p] = i]
                         /\ data' = [data EXCEPT ![i] = Torn]
  BY DEF OpenTmp
<1>3. now[p] <= clock /\ tag[p] # Nothing /\ NewestAt(tag[p], now[p])
      /\ published[tag[p]] <= clock
  BY <1>1 DEF Checks, Go
<1>4. Checks' /\ NewReleaseIsNoticed' /\ NudgeIsTrue'
  <2>1. NewestAt(tag'[p], now'[p]) /\ tag'[p] # Nothing /\ published[tag'[p]] <= clock
        /\ now'[p] <= clock
    BY <1>1, <1>3
  <2> QED
    BY <1>1, <2>1, GoesOn
<1>5. Types'
  BY <1>1, <1>2 DEF Types, TypeOK, Go, world
<1>6. Entries'
  BY <1>1, <1>2 DEF Entries, NewestAt, world, Types, TypeOK
<1> QED
  BY <1>1, <1>4, <1>5, <1>6 DEF CheckInv, World, world

LEMMA WriteStep == ASSUME CheckInv, NEW p \in Proc, WriteTmp(p) PROVE CheckInv'
<1> USE Constants
<1>1. /\ Types /\ World /\ Entries /\ Checks
      /\ UNCHANGED <<world, cache, tmp, main, verb, now, tag, ch, shown>>
      /\ Go(p, "write", "rename")
      /\ fd' = [fd EXCEPT ![p] = NoInode] /\ fd[p] \in Inode
      /\ tag \in [Proc -> Releases \union {Nothing}] /\ now \in [Proc -> 0 .. MaxClock]
  BY DEF CheckInv, WriteTmp, Types, TypeOK, Go
<1>2. PICK content \in {[tag |-> tag[p], checkedAt |-> now[p]], Torn} :
        data' = [data EXCEPT ![fd[p]] = content]
  BY DEF WriteTmp, Stamp
<1>3. now[p] <= clock /\ tag[p] # Nothing /\ NewestAt(tag[p], now[p])
      /\ published[tag[p]] <= clock
  BY <1>1 DEF Checks, Go
<1>4. Checks' /\ NewReleaseIsNoticed' /\ NudgeIsTrue'
  <2>1. NewestAt(tag'[p], now'[p]) /\ tag'[p] # Nothing /\ published[tag'[p]] <= clock
        /\ now'[p] <= clock
    BY <1>1, <1>3
  <2> QED
    BY <1>1, <2>1, GoesOn
<1>5. content \in Entry \union {Torn}
  BY <1>1, <1>3 DEF Entry
<1>6. Types'
  BY <1>1, <1>2, <1>5 DEF Types, TypeOK, Go, world
<1>7. Entries'
  BY <1>1, <1>2, <1>3 DEF Entries, NewestAt, world, Types, TypeOK
<1> QED
  BY <1>1, <1>4, <1>6, <1>7 DEF CheckInv, World, world

LEMMA EndOfWriteStep ==
  ASSUME CheckInv, NEW p \in Proc, WriteCacheFails(p) \/ Rename(p) \/ RenameFails(p)
  PROVE  CheckInv'
<1> USE Constants
<1>1. /\ Types /\ World /\ Entries /\ Checks
      /\ UNCHANGED <<world, main, verb, now, tag, shown>>
      /\ tag \in [Proc -> Releases \union {Nothing}] /\ now \in [Proc -> 0 .. MaxClock]
      /\ clock \in 0 .. MaxClock /\ published \in [Releases -> 0 .. Never]
  BY DEF CheckInv, WriteCacheFails, Rename, RenameFails, Types, TypeOK
<1>2. PICK from \in {"open", "write", "rename"} : Return(p, from, tag[p])
  BY DEF WriteCacheFails, Rename, RenameFails
<1>3. /\ check[p] = from
      /\ now[p] <= clock /\ tag[p] # Nothing /\ NewestAt(tag[p], now[p])
      /\ published[tag[p]] <= clock
  BY <1>1, <1>2 DEF Checks, Return, Go
<1>4. \A n \in Releases : n > tag[p] => published[n] + TTL > now[p]
  BY <1>1, <1>3 DEF NewestAt
<1>5. Checks' /\ NewReleaseIsNoticed' /\ NudgeIsTrue'
  BY <1>1, <1>2, <1>3, <1>4, Returns
<1>6. check' = [check EXCEPT ![p] = "sent"] /\ ch' \in [Proc -> Releases \union {Empty, Nothing}]
  BY <1>1, <1>2 DEF Return, Go, Types
<1>7. fd' \in [Proc -> Inode \union {NoInode}] /\ \A q \in Proc : (fd'[q] # NoInode) <=> check'[q] = "write"
  <2>1. CASE WriteCacheFails(p)
    BY <1>1, <1>6, <2>1 DEF WriteCacheFails, Types, TypeOK
  <2>2. CASE Rename(p) \/ RenameFails(p)
    <3>1. check[p] = "rename" /\ UNCHANGED fd
      BY <2>2 DEF Rename, RenameFails, Return, Go
    <3> QED
      BY <1>1, <1>6, <3>1 DEF Types, TypeOK
  <2> QED
    BY <2>1, <2>2
<1>8. /\ {cache', tmp'} \subseteq Inode \union {NoInode}
      /\ data' \in [Inode -> Entry \union {Torn}]
      /\ \A i \in Inode : data'[i] # Torn => data'[i] = data[i]
  <2>1. CASE WriteCacheFails(p)
    BY <1>1, <2>1 DEF WriteCacheFails, Types, TypeOK, files
  <2>2. CASE Rename(p)
    BY <1>1, <2>2 DEF Rename, Unlink, Types, TypeOK
  <2>3. CASE RenameFails(p)
    BY <1>1, <2>3 DEF RenameFails, Unlink, Types, TypeOK
  <2> QED
    BY <2>1, <2>2, <2>3
<1>9. Types'
  BY <1>1, <1>6, <1>7, <1>8 DEF Types, TypeOK, world
<1>10. Entries'
  BY <1>1, <1>8 DEF Entries, NewestAt, world
<1> QED
  BY <1>1, <1>5, <1>9, <1>10 DEF CheckInv, World, world

LEMMA MainStep ==
  ASSUME CheckInv, NEW p \in Proc,
         StartNudge(p) \/ Execute(p) \/ DrainNudge(p) \/ ExitSilently(p)
  PROVE  CheckInv'
<1> USE Constants
<1>1. /\ Types /\ World /\ Entries /\ Checks /\ NewReleaseIsNoticed /\ NudgeIsTrue
      /\ UNCHANGED <<world, files>>
  BY DEF CheckInv, StartNudge, Execute, DrainNudge, ExitSilently, ExitProcess
<1>2. CASE StartNudge(p)
  <2>1. main[p] = "idle" /\ check[p] = "off" /\ tag[p] = Nothing
    BY <1>1, <1>2 DEF StartNudge, Main, Checks
  <2>2. Types'
    BY <1>1, <1>2, <2>1 DEF StartNudge, Main, Types, TypeOK, files, world
  <2>3. Checks' /\ NewReleaseIsNoticed' /\ NudgeIsTrue'
    BY <1>1, <1>2, <2>1 DEF StartNudge, Main, Types, TypeOK, Checks, NewReleaseIsNoticed,
       NudgeIsTrue, NewestAt, world
  <2> QED
    BY <1>1, <2>2, <2>3 DEF CheckInv, World, Entries, NewestAt, files, world
<1>3. CASE Execute(p)
  <2>1. main[p] = "verb" /\ shown[p] = Nothing
    BY <1>1, <1>3 DEF Execute, Main, Checks
  <2>2. Types'
    BY <1>1, <1>3, <2>1 DEF Execute, Main, Types, TypeOK, files, world, goroutine
  <2>3. Checks' /\ NewReleaseIsNoticed' /\ NudgeIsTrue'
    BY <1>1, <1>3, <2>1 DEF Execute, Main, Types, TypeOK, Checks, NewReleaseIsNoticed,
       NudgeIsTrue, NewestAt, world, goroutine
  <2> QED
    BY <1>1, <2>2, <2>3 DEF CheckInv, World, Entries, NewestAt, files, world
<1>4. CASE DrainNudge(p) \/ ExitSilently(p)
  <2>1. PICK message \in Releases \union {Nothing} :
          /\ ExitProcess(p, message)
          /\ message # Nothing => ~Suppressed(p) /\ ch[p] = message
    BY <1>1, <1>4 DEF DrainNudge, ExitSilently, Types
  <2>2. message # Nothing =>
          /\ Older(Version, TagOf[message]) /\ published[message] <= clock
          /\ verb[p] \notin {"usage", "updated"}
    BY <1>1, <2>1 DEF Checks, Suppressed
  <2>3. Types'
    BY <1>1, <2>1 DEF ExitProcess, Main, Types, TypeOK, files, world
  <2>4. Checks' /\ NewReleaseIsNoticed' /\ NudgeIsTrue'
    BY <1>1, <2>1, <2>2 DEF ExitProcess, Main, Types, TypeOK, Checks, NewReleaseIsNoticed,
       NudgeIsTrue, NewestAt, world
  <2> QED
    BY <1>1, <2>3, <2>4 DEF CheckInv, World, Entries, NewestAt, files, world
<1> QED
  BY <1>2, <1>3, <1>4

LEMMA StepCheck == CheckInv /\ [Next]_vars => CheckInv'
<1>1. CheckInv /\ UNCHANGED vars => CheckInv'
  BY DEF vars, world, files, goroutine, CheckInv, Types, TypeOK, World, Entries, NewestAt,
     Checks, NewReleaseIsNoticed, NudgeIsTrue
<1> QED
  BY <1>1, WorldMoves, ReadCacheStep, FetchStep, OpenStep, WriteStep, EndOfWriteStep, MainStep
     DEF Next

LEMMA CheckInvHolds == Spec => []CheckInv
  BY InitCheck, StepCheck, PTL DEF Spec

(* TypeOK of UpdateCheck holds in every reachable state; a file is open    *)
(* exactly while it is written.                                            *)
THEOREM UpdateCheckTypeCorrect == Spec => []TypeOK
<1>1. CheckInv => TypeOK
  BY DEF CheckInv, Types
<1> QED
  BY <1>1, CheckInvHolds, PTL

(* No entry of the cache, whoever wrote it over whomever, is stamped later *)
(* than the moment up to which it is right (CachedCheck, writeCache).      *)
THEOREM StampsAreConservative == Spec => []StampIsConservative
<1>1. CheckInv => StampIsConservative
  BY DEF CheckInv, Entries, NewestAt, StampIsConservative
<1> QED
  BY <1>1, CheckInvHolds, PTL

(* No check returns a release that had been overtaken for TTL or longer    *)
(* when the check began (CachedCheck).                                     *)
THEOREM NoReleaseHiddenForTTL == Spec => []NewReleaseIsNoticed
<1>1. CheckInv => NewReleaseIsNoticed
  BY DEF CheckInv
<1> QED
  BY <1>1, CheckInvHolds, PTL

(* What is announced is a published release that is newer than this ana,   *)
(* and not after a usage error or an update (drainNudge, shouldNotify).    *)
THEOREM NudgesAreTrue == Spec => []NudgeIsTrue
<1>1. CheckInv => NudgeIsTrue
  BY DEF CheckInv
<1> QED
  BY <1>1, CheckInvHolds, PTL
=============================================================================
