---------------------------- MODULE UpdateCheck ----------------------------
(***************************************************************************)
(* The passive update check: a goroutine of every invocation consults, and *)
(* perhaps refreshes, a cache file that all invocations share, while the   *)
(* main goroutine runs the verb, then waits briefly for a message and      *)
(* exits, which kills the goroutine wherever it is.                        *)
(*                                                                         *)
(* Release n is published at published[n], or not yet, as the latest       *)
(* release, which a pre-release never is; time is counted in               *)
(* steps of clock.  The cache path and its .tmp name inodes; an inode      *)
(* holds what readCache would make of it: an entry, or Torn.               *)
(***************************************************************************)
EXTENDS Semver

CONSTANTS
  Proc,         \* invocations
  Version,      \* the version of this ana
  TagOf,        \* of each release
  MaxRelease,   \* bound on the releases
  MaxClock,     \* bound on time
  TTL,          \* what ParseInterval gives
  Inode,        \* one more than there are processes is enough
  NoInode

ASSUME UpdateCheckAssumption ==
  /\ MaxRelease \in Nat /\ MaxClock \in Nat /\ TTL \in Nat \ {0}
  /\ Version \in Text /\ MaxRelease > 0 /\ TagOf \in [1 .. MaxRelease -> Text]
  /\ NoInode \notin Inode

Releases == 1 .. MaxRelease
Never   == MaxClock + 1
Torn    == [tag |-> 0, checkedAt |-> 0]
Entry   == [tag : Releases, checkedAt : 0 .. MaxClock]
Nothing == 0
Empty   == -1

VARIABLES
  clock, published,
  cache, tmp, data,   \* two directory entries, and the content of inodes
  main,     \* per process: "idle" between invocations, "verb" or "drain"
  verb,     \* how the verb ended: in a help or usage error, in a successful
            \* `ana update`, or otherwise
  check,    \* the goroutine: "off", "read", "fetch", "open", "write", "rename", "sent"
  now,      \* deps.Now() at the start of CachedCheck
  tag,      \* the tag it returns
  fd,       \* the inode it has open
  ch,       \* the channel: Empty, or the tag to announce, or Nothing
  shown     \* the tag announced on stderr, or Nothing

world == <<clock, published>>
files == <<cache, tmp, data>>
goroutine == <<check, now, tag, fd>>
vars == <<world, files, main, verb, goroutine, ch, shown>>

Latest == CHOOSE n \in Releases :
            /\ published[n] # Never
            /\ \A m \in Releases : published[m] # Never => m <= n

Init ==
  /\ clock = 0
  /\ published = [n \in Releases |-> IF n = 1 THEN 0 ELSE Never]
  /\ cache = NoInode /\ tmp = NoInode
  /\ data = [i \in Inode |-> Torn]
  /\ main = [p \in Proc |-> "idle"]
  /\ verb = [p \in Proc |-> "running"]
  /\ check = [p \in Proc |-> "off"]
  /\ now = [p \in Proc |-> 0] /\ tag = [p \in Proc |-> Nothing]
  /\ fd = [p \in Proc |-> NoInode]
  /\ ch = [p \in Proc |-> Empty]
  /\ shown = [p \in Proc |-> Nothing]

-----------------------------------------------------------------------------
(* The world.                                                              *)

Tick ==
  /\ clock < MaxClock
  /\ clock' = clock + 1
  /\ UNCHANGED <<published, files, main, verb, goroutine, ch, shown>>

Publish ==
  /\ Latest < MaxRelease
  /\ published' = [published EXCEPT ![Latest + 1] = clock]
  /\ UNCHANGED <<clock, files, main, verb, goroutine, ch, shown>>

-----------------------------------------------------------------------------
(* The goroutine.                                                          *)

Go(p, from, to) == check[p] = from /\ check' = [check EXCEPT ![p] = to]

ShouldNotify(t) == t # Nothing /\ CmpSemver(Version, TagOf[t]) < 0

\* CachedCheck returns; the goroutine sends on the buffered channel.
Return(p, from, t) ==
  /\ Go(p, from, "sent")
  /\ ch' = [ch EXCEPT ![p] = IF ShouldNotify(t) THEN t ELSE Nothing]

Readable == cache # NoInode /\ data[cache] # Torn

\* Defect: age <= ttl.
FreshUpToTTL(p) == clock - data[cache].checkedAt <= TTL

Fresh(p) == clock - data[cache].checkedAt < TTL

ReadCache(p) ==
  /\ now' = [now EXCEPT ![p] = clock]
  /\ IF Readable /\ Fresh(p)
     THEN /\ tag' = [tag EXCEPT ![p] = data[cache].tag]
          /\ Return(p, "read", data[cache].tag)
     ELSE Go(p, "read", "fetch") /\ UNCHANGED <<tag, ch>>
  /\ UNCHANGED <<world, files, main, verb, fd, shown>>

LatestRelease(p) ==
  /\ Go(p, "fetch", "open")
  /\ tag' = [tag EXCEPT ![p] = Latest]
  /\ UNCHANGED <<world, files, main, verb, now, fd, ch, shown>>

\* No network, no such page, or three seconds are over.
LatestReleaseFails(p) ==
  /\ Return(p, "fetch", Nothing)
  /\ UNCHANGED <<world, files, main, verb, now, tag, fd, shown>>

\* os.WriteFile creates or truncates the .tmp, then writes it.
Free(i) == i # cache /\ i # tmp /\ \A p \in Proc : fd[p] # i

OpenTmp(p) ==
  /\ Go(p, "open", "write")
  /\ \E i \in Inode :
       /\ IF tmp = NoInode THEN Free(i) ELSE i = tmp
       /\ tmp' = i
       /\ fd' = [fd EXCEPT ![p] = i]
       /\ data' = [data EXCEPT ![i] = Torn]
  /\ UNCHANGED <<world, cache, main, verb, now, tag, ch, shown>>

\* Defect: the time is taken after the answer.
StampAfterFetch(p) == clock

\* The time as checkedAt records it.
Stamp(p) == now[p]

\* Over what another process wrote since, a shorter text leaves a tail.
WriteTmp(p) ==
  /\ Go(p, "write", "rename")
  /\ \E content \in {[tag |-> tag[p], checkedAt |-> Stamp(p)], Torn} :
       /\ content = Torn => data[fd[p]] # Torn
       /\ data' = [data EXCEPT ![fd[p]] = content]
  /\ fd' = [fd EXCEPT ![p] = NoInode]
  /\ UNCHANGED <<world, cache, tmp, main, verb, now, tag, ch, shown>>

\* mkdir, create or write fails: the tag is announced all the same.
WriteCacheFails(p) ==
  /\ Return(p, "open", tag[p]) \/ Return(p, "write", tag[p])
  /\ fd' = [fd EXCEPT ![p] = NoInode]
  /\ UNCHANGED <<world, files, main, verb, now, tag, shown>>

\* What is in a file without a name does not matter any more.
Unlink(i) == data' = [j \in Inode |-> IF j = i THEN Torn ELSE data[j]]

Rename(p) ==
  /\ tmp # NoInode
  /\ Return(p, "rename", tag[p])
  /\ cache' = tmp /\ tmp' = NoInode
  /\ Unlink(cache)
  /\ UNCHANGED <<world, main, verb, now, tag, fd, shown>>

\* Another process renamed the .tmp away, or the rename is refused and the
\* .tmp, whoever wrote it, is removed.
RenameFails(p) ==
  /\ Return(p, "rename", tag[p])
  /\ tmp' = NoInode
  /\ Unlink(tmp)
  /\ UNCHANGED <<world, cache, main, verb, now, tag, fd, shown>>

-----------------------------------------------------------------------------
(* The main goroutine.                                                     *)

Main(p, from, to) == main[p] = from /\ main' = [main EXCEPT ![p] = to]

\* startNudge: no check for a development build, for --json, for an interval
\* of "0" or "disable", or without a cache directory.
StartNudge(p) ==
  /\ Main(p, "idle", "verb")
  /\ verb' = [verb EXCEPT ![p] = "running"]
  /\ check' = [check EXCEPT ![p] = "read"] \/ UNCHANGED check
  /\ shown' = [shown EXCEPT ![p] = Nothing]
  /\ UNCHANGED <<world, files, now, tag, fd, ch>>

Execute(p) ==
  /\ Main(p, "verb", "drain")
  /\ \E how \in {"usage", "updated", "other"} : verb' = [verb EXCEPT ![p] = how]
  /\ UNCHANGED <<world, files, goroutine, ch, shown>>

\* os.Exit: the goroutine dies with the process, its file closed as it is.
ExitProcess(p, message) ==
  /\ Main(p, "drain", "idle")
  /\ shown' = [shown EXCEPT ![p] = message]
  /\ check' = [check EXCEPT ![p] = "off"]
  /\ fd' = [fd EXCEPT ![p] = NoInode]
  /\ now' = [now EXCEPT ![p] = 0] /\ tag' = [tag EXCEPT ![p] = Nothing]
  /\ ch' = [ch EXCEPT ![p] = Empty]
  /\ UNCHANGED <<world, files, verb>>

\* No check, a help or usage error, or the binary was just replaced.
Suppressed(p) == check[p] = "off" \/ verb[p] \in {"usage", "updated"}

DrainNudge(p) ==
  /\ ~Suppressed(p)
  /\ ch[p] # Empty
  /\ ExitProcess(p, ch[p])

\* Suppressed, or half a second is over.
ExitSilently(p) == ExitProcess(p, Nothing)

Next ==
  \/ Tick \/ Publish
  \/ \E p \in Proc :
       \/ StartNudge(p) \/ Execute(p) \/ DrainNudge(p) \/ ExitSilently(p)
       \/ ReadCache(p) \/ LatestRelease(p) \/ LatestReleaseFails(p)
       \/ OpenTmp(p) \/ WriteTmp(p) \/ WriteCacheFails(p)
       \/ Rename(p) \/ RenameFails(p)

Spec == Init /\ [][Next]_vars

-----------------------------------------------------------------------------
(* Properties.                                                             *)

TypeOK ==
  /\ clock \in 0 .. MaxClock /\ published \in [Releases -> 0 .. Never]
  /\ {cache, tmp} \subseteq Inode \union {NoInode}
  /\ data \in [Inode -> Entry \union {Torn}]
  /\ main \in [Proc -> {"idle", "verb", "drain"}]
  /\ check \in [Proc -> {"off", "read", "fetch", "open", "write", "rename", "sent"}]
  /\ fd \in [Proc -> Inode \union {NoInode}]
  /\ \A p \in Proc : (fd[p] # NoInode) <=> check[p] = "write"
  /\ tag \in [Proc -> Releases \union {Nothing}]
  /\ shown \in [Proc -> Releases \union {Nothing}]

(* An entry never claims to be newer than it is: a release it does not     *)
(* know of was not published before the moment it is stamped with.         *)
StampIsConservative ==
  \A i \in Inode : data[i] # Torn =>
    \A n \in Releases : n > data[i].tag => published[n] >= data[i].checkedAt

(* So a release stays unannounced for less than TTL: what a check returns, *)
(* from the cache or not, was the latest release at most TTL before.       *)
NewReleaseIsNoticed ==
  \A p \in Proc : check[p] = "sent" /\ tag[p] # Nothing =>
    \A n \in Releases : n > tag[p] => published[n] + TTL > now[p]

(* A message names a release that exists and is newer than this ana, and   *)
(* is never printed after a usage error or a successful `ana update`; a    *)
(* check that returned a newer release has a message for main.             *)
NudgeIsTrue ==
  \A p \in Proc :
    /\ shown[p] # Nothing =>
         /\ Older(Version, TagOf[shown[p]]) /\ published[shown[p]] <= clock
         /\ verb[p] \notin {"usage", "updated"}
    /\ check[p] = "sent" /\ tag[p] # Nothing /\ Older(Version, TagOf[tag[p]]) => ch[p] = tag[p]
=============================================================================
