# A TLA+ model of ana

`ana` is a command-line client of TextQL's Connect-RPC API.  It is not a
server: each invocation is a short process.  What is hard about it is what
these processes share (a configuration file, a cache file, the executable
itself) and what they talk to (a stream that may break, calls that may hang,
goroutines that race).  This directory models that part, checks it with TLC
and proves with TLAPS, for instances of any size, all of it that is safety.

## 1. Inventory

| component | source | state | operations | hard part |
|---|---|---|---|---|
| configuration store | `internal/config/config.go`, `internal/profile/*`, `internal/auth/{login,logout}.go`, `cmd/ana/main.go` (`lazyState`) | `config.json`, `config.json.tmp`; per process the slot, the endpoint, the configuration to save | `Load`, `Save`, `Upsert`, `Remove`, `Resolve`; login, logout, profile add/use/remove/list | several processes without a lock, a shared temporary name, three Loads per login, crashes |
| stream reader | `internal/transport/stream.go` | `done`, `closed`, the unread body | `Next`, `Close` | truncation that looks like an end, cancellation within a read |
| chat send | `internal/chat/send.go` | `seen`, `executed` | SendMessage, StreamChat, the loop over frames | when to stop, never hanging, never claiming a reply it did not show |
| whoami | `internal/auth/whoami.go`, `internal/auth/errors.go` | two results, one cancellable context | two concurrent calls, joined errors | one failure cancels the other call and must not mask it |
| keys and service accounts | `internal/auth/{keys,service_accounts}.go` | none (the service keeps them) | list, create, rotate, revoke, delete | they change the keys that people log in with; a secret is told once, in one answer that may be lost |
| lazy wiring | `cmd/ana/main.go` (`lazyState`, `run`) | the resolved configuration, the client | `initConfig`, `tokenFn`, `Unary`, `DoRaw`, `Stream` | the configuration changes while a command makes its calls |
| exit codes | `internal/cli/errors.go` | none | `ExitCode` | which error of a tree decides |
| self-update | `internal/update/{selfupdate,download,extract}.go` | the executable, its `.old`, a temporary directory | `SelfUpdate`, `atomicReplace` | concurrent updaters, kills, two renames on Windows |
| passive update check | `internal/update/check.go`, `cmd/ana/main.go` (`startNudge`, `drainNudge`) | `update-check.json`, its `.tmp`; a channel | `CachedCheck`, drain, exit | a goroutine killed anywhere, a shared cache, staleness |
| unary transport | `internal/transport/{client,error}.go` | none | `Unary`, `Stream`, `DoRaw` | what a failure is taken for: two shapes of envelope, two spellings of one code |
| version order | `internal/update/semver.go` | none | `CmpSemver` | malformed versions, pre-releases |
| argument resolver | `internal/cli/{resolve,dispatch,flags,root,cli}.go` | the walk: current group, known flags | `Resolve`, `Dispatch`, `ParseFlags` | two passes over argv that must agree |
| connectors | `internal/connector/*` | none (the service keeps them) | create (nine leaves), update, delete, test | update is read-merge-write without a version, with a wait for a secret between; one wire request stands for nine ways to authenticate |
| catalogue verbs | `internal/{dashboard,playbook,ontology,org,feed,audit}/*`, other chat verbs, readers of connectors, `internal/api` | none | one RPC (two for the members of an organization) and its rendering each | what the exit code says of a change when the answer is lost, odd or cannot be printed |
| input and output | `internal/cli/{helpers,token}.go` | none | `Require*`, `RenderOutput` | which errors of writing are noticed |
| end-to-end harness | `e2e/harness/*` | clean-up stack, ledger, pointer to the latest key | Begin, End, create, delete, sweep | nothing may be left behind, concurrent runs |

How they interact: `run` resolves argv, starts the update check in a goroutine,
executes the verb, waits at most half a second for the check, and exits, which
kills the goroutine.  Verbs reach configuration and transport through the
closures of `lazyState`.  Processes interact through the file system only, and
no file is ever locked.

What makes each component correct:

* configuration: a reader finds a whole document; a successful command has
  edited the stored configuration, once; nothing it did not mean to change
  changes; a crash changes nothing;
* stream: frames whole, in order, once; a clean end only after a trailer;
* chat send: success means the reply was shown; it always ends;
* whoami: the cause of a failure is reported; it ends;
* every verb: the exit code is true of the service; at most one change is made,
  and not in silence; all calls of a command speak for one identity;
* self-update: there is always an executable, it is whole, and it is not an
  older one by the updater's own doing;
* update check: announcements are true and not late; the verb is never held up;
* connectors: what is created is whole and what was asked for; an update changes
  what it was asked to and nothing else; the exit code tells what happened;
* harness: a test that passes has left nothing behind, one that could not says
  so, and nothing that people made is touched.

## 2. Modules

| module | models | lines up with the code |
|---|---|---|
| `AnaConfig` | the document and the pure operations on it | `Upsert`, `Remove`, `PickProfileName`, `LoadOf` are the functions of `config.go` |
| `ConfigCommands` | the commands and their effect on a configuration | one operator per projection made in `main.go`, `login.go`, `profile/*.go` |
| `ConfigStore` | processes, file system, crashes | one action per system call of `Load` and `Save`; `config` and `tmp` are directory entries, `data` the inodes |
| `AtomicConfig` | what the store promises | abstract: one step per successful command |
| `ConfigStoreProps` | invariants, action properties, the refinement | |
| `FrameReader` | what a caller of `StreamReader` sees | one action per kind of return of `Next` |
| `StreamReader` | `Next` at the level of `io.ReadFull` | `call` is where `Next` is blocked; `body` the pieces (header, payload) still unread |
| `ChatSend` | `sendCmd.Run`, a `FrameReader`, and the chat service | `pc` follows the function; `seen`, `executed` are its maps; `request` is SendMessage on its way |
| `CliErrors` | error trees, `ExitCode`, `translateErr` | an error is the sequence of marks `errors.Is` and `errors.As` meet in it |
| `Transport` | `parseErrorBody`, `IsAuthError`, what `Unary` does with a status and a body | an error body is its code in either place and whether its message has the word |
| `Verbs` | 41 verbs: their arguments, their calls, how they treat an answer | one definition per `Run`; `Input` is what `Require*` look at, a `Program` what `Run` then does |
| `Invocation` | `run`, `initConfig`, `Run` of any verb, `RenderOutput`, Ctrl-C, and the service with its keys | `pc` follows the process, `call[p][s]` each of its calls, `reply[p][s]` the service's end of it |
| `SelfUpdate` | `SelfUpdate` and `atomicReplace` | `pc` follows the function; `exe`, `old` are the two paths |
| `Semver` | `parseSemver`, `CmpSemver`, and what it means for a version to be older | a version text is its parts and its pre-release |
| `UpdateCheck` | `startNudge`, `CachedCheck`, `writeCache`, `drainNudge`, `os.Exit` | `main` and `check` are the program counters of the two goroutines |
| `Resolver` | `run`, `Resolve`, `ParseFlags`, `Execute`, `main`, `firstVerb` | `pc` is the stage; each token walked or parsed is an action |
| `Harness` | `Begin`, the sweep, the helpers and clean-ups of `e2e/harness`, the ledger, and the service | `h[t]` is the `H` of a test, its slices and pointer as a record; the error path of a call is an outcome of its action |
| `Connectors` | `create` of the nine leaves, `update`, `delete`, `test`, `resolveSecret`, and the connector service | `pc` follows `Run`; `base` is `curr`, `CreateReq` and `UpdateReq` the requests |
| `ConfigStoreProofs`, `SelfUpdateProofs`, `ResolverProofs`, `UpdateCheckProofs`, `InvocationProofs`, `ChatSendProofs`, `ConnectorsProofs`, `HarnessProofs` | theorems | |
| `MCConfigStore`, `MCStreamReader`, `MCInvocation`, `MCUpdateCheck`, `MCResolver`, `MCHarness`, `MCConnectors` | values of the constants for TLC | |

Operators whose comment begins with "Defect" are not part of the model: each
is the definition that follows it with one plausible mistake.  With the mistake
in its place TLC finds the property violated that `PROJECT.json` names with it
under `mutants`, so each property is sensitive to the code it is about.

### Data that is abstracted

* Profile names are numbers in the order `slices.Sort` gives the strings.
  Endpoints, tokens, labels and intervals are opaque, `Unset` the empty string.
* File contents are a whole document or torn.  `size` keeps just enough to say
  when a write over a longer text leaves a tail.  No file is synced, here or in
  `SelfUpdate`: a crash is that of a process, and what is left when the machine
  stops is not modelled.
* A frame is its kind and whether it has a payload; in `ChatSend` also a cell
  and a lifecycle.  `LIFECYCLE_CREATING` and `LIFECYCLE_EXECUTING` are `running`.
  An error of `chat send` is the call its text names and why it failed.
* A binary is its version, whether it is whole, and who made it.
* In `SelfUpdate` releases are numbers, in the order that `CmpSemver` gives
  well-formed versions.  In `Semver` a version is a sequence of parts, numbers or
  `BadPart`, of any length; a pre-release is its place in the order of bytes,
  which is all that `CmpSemver` compares (`rc.10` is before `rc.9`).
* In `Invocation` a key, and the token that has its secret, is a number in order
  of creation; an account too.  An answer is whole, lacks what the verb looks
  for ("sparse"), has it in another type ("odd"), or is no JSON object ("junk").
  Arguments are how many there are and what the checks tell apart.  Two verbs
  that treat their arguments, calls and answers alike are one value of `Verbs`.
  Where a verb prints whatever there is, a sparse answer is as good as a whole
  one, so it is not distinguished there; of `keys create` and `keys rotate` it
  is, since what is not there is the secret (`"blank"` of `OnLack`).
* In `Resolver` a token is its kind, its name and whether it has "=value", and
  is referred to by its place in argv.  A name has one kind of value wherever it
  is declared: in the tree of `ana` no leaf redeclares an ancestor's flag with
  another kind.  Values are not looked at, but a value that is checked may be
  refused.  What a leaf does is one of the errors it may return, printed by it
  or not.
* In `Harness` a resource is the number the service gave it, and its name is who
  made it and a suffix; numbers are not used twice (they are serial numbers and
  UUIDs).  A call is done, refused, or done with its answer lost.  `hist` records
  what happened to a test, for the properties; no step reads it.
* In `Connectors` a value is who gave it, so that a merge shows whose value
  survived; `host` stands for all text flags that a leaf requires, which are
  treated alike.  A "zero" value is left out of a request (`omitempty`).  The
  service keeps a `dialect` in a connector's block besides (`Setting`), as the
  samples of `api-catalog` have it; the client's structs have no such field, so
  that it is neither read nor sent.  Of the strategy of authentication the same
  is true in an update; `ModeOf` has it in a create, where it tells two leaves
  apart.  A secret is where it came from: flag, standard input, a file.
  Parsing of numbers and surplus arguments is `Resolver`'s.  The request that
  `test` builds from what it read is not looked into: nothing is stored.
* In `UpdateCheck` the world is the clock and the dates of the releases.

### External parts

The service behind `Invocation` admits a request whose key is not revoked.  It
serves a request once or never, perhaps after the client has given up.  A
request that it answers with an error has changed nothing; where that is not so
(an error after a change) no client could tell, and `EffectIsTold` and
`MessageIsAccountedFor` would not hold of any.  A rotation makes a key with a new
number and revokes the old one (`keys.go:137`, `api-catalog`), a second
revocation is accepted, a deleted account loses its keys.  The secret comes
with the answer that says the key was made, or should: an answer that lacks it
is one of the faults.  Every error about a token says so
by its status, its code in either spelling, or a word in its message; which of
these it is, and in which of the two envelopes, is open (`RefusalsFor`).  `api`
may change one thing or nothing.

The chat service follows the exchange captured in
`api-catalog/POST_rpc__public__textql_rpc_public_chat_ChatService__StreamChat.json`
and `docs/features.md:68`: the reply's last cell ends in `LIFECYCLE_CREATED`.
The tests of `send.go` stream the message's own cell as well; the model leaves
that open (`echoes`).  Networks lose the end of a stream but do not reorder it
(TCP).  GitHub answers with the latest release or not at all.  `os.Rename`
replaces its target atomically on Unix; on Windows it can move a running image
but not replace one.  In `Harness` the service rejects an update that names a
connector's settings by another field than `types.go` does
(`internal/connector/types.go:3`), answers "not found" to a second delete but not
to a second revoke (`api-catalog`), and gives a rotated key a new number under
its old name.  In `Connectors` the service wants the settings under the name of
the type.  A setting that is sent replaces what was stored.  One that is not,
because it is zero or not known to the client, is kept or dropped (`keeps` of
`SendUpdate`), or the request is refused for it, which
`internal/connector/update_test.go:54` says of an incomplete block; the
properties hold whichever it is.  The service keeps a
credential that is not sent (`internal/connector/types.go:43`) and tells the modes
apart by the credentials that are there (`docs/features.md`).  That it refuses a
type and settings that disagree is assumed; it is no premise of a property, since
`UpdateDoesWhatWasAsked` is about Postgres connectors.  `testing.T` runs clean-ups last in, first out, also after `Fatalf`.

## 3. Runs

| run | question | instance |
|---|---|---|
| `config_concurrent` | what survives overlapping commands, and when an update is not lost | 2 processes, 11 commands, 4 initial documents, 4 inodes |
| `config_serial` | is a lone command atomic, crashes and I/O errors included | 3 processes in turn, 6 commands |
| `config_torn_save` * | is Save atomic | 2 processes, login and add |
| `config_interval_lost` * | does a login keep updateCheckInterval | the processes run in turn |
| `stream_reader` | is `StreamReader` a `FrameReader` | 3 frames of 7 sorts |
| `chat_send` | success, justified stops, what an error says of the message, termination | a reply of 2 cells |
| `invocation` | is the exit code true, is a change made once and not in silence, one identity, root cause, termination | every verb, beside a rotation and a login, one fault |
| `selfupdate` | always an executable on Unix; who leaves a gap on Windows and what survives; no downgrade alone | 3 updaters, 3 releases, every host |
| `resolver` | do the three readings of argv agree; is each failure reported once | argv of up to 4 tokens, 4 leaves, 2 groups, 7 flags |
| `update_check` | stamps, lateness, truth of the message | 2 processes of a pre-release, 2 releases, 2 ticks, TTL 1 |
| `harness` | does a test that passes leave nothing; is every failed clean-up on record, and no other; does the next sweep reap | 2 tests in any of 4 modes, two failing calls |
| `connectors` | is what is created whole, does an update do what was asked and no more, is the exit code true | 2 processes, every leaf, one failing call |

Runs marked * check a sentence of the repository against the code and find it
violated; section 6 has them.  Every run ends with all states explored.
Deadlock is checked where processes go on forever (`StreamReader`,
`UpdateCheck`); elsewhere commands end and nothing more may happen.

### Bounds

* Two processes interleave in every way two can; a third one adds nothing to
  the shared-name races, which are between one that opens and one that renames.
  `ConfigSerial` has three because the effect of a crash is seen by the next
  two.  Inodes: one per process plus the two that are named.
* Profile names: one before `default` in the order, `default`, one after.
* `MaxSent` = 3: a frame, one after it and a trailer; a hang-up falls between
  any two pieces.
* `LastCell` = 2: a cell that executes and the answer, which does not; the
  pause between them is where `--wait-all` is decided.
* `MaxVersion` = 3: newer than the process, and newer than that.  `host` ranges
  over Unix and Windows, a directory that may be written or not, and a
  temporary directory on the same file system or not.
* `MaxArgs` = 4: a group, its leaf, a flag and its value, or a value flag and its
  value before the verb and a flag behind it; the two passes differ as soon as
  one flag is out of place.  The tree has flags at the root, at a group and at
  two leaves, switches and values, and a flag that nobody declares.
* `harness`: two tests are one after the other or overlap, in one run of the suite
  or in two; `MCOrgBefore` has a connector of somebody's and one that a killed
  run left.  Keys are made by a helper (they have the pointer that a rotation
  redirects), connectors and chats through the CLI (with and without a
  clean-up by name).  `MaxId` = 5 is two creations or renames in all,
  `MaxCleanups` = 2 a creation with both clean-ups before or after another
  creation or a snapshot (a creation may exceed it by one), `MaxFaults` = 2 two
  failing calls anywhere.  Service accounts differ from
  connectors in nothing that is modelled, so `MCSweepOrder` has three kinds.
  The tests are alike, hence the symmetry.
* `connectors`: one process creates, with any leaf, any source of the secret and
  at most one flag left out or empty, or updates; the other one updates, deletes
  or tests the same connectors meanwhile.  A create touches a number of its own,
  so two creates have nothing to do with each other.  Two updates, or an update
  and a delete, overlap in every way, with the wait for standard input between
  the calls.  There is a Postgres connector, which update is for, and another one.
* `invocation`: one user calls any verb, with any target, under `ANA_TOKEN` or
  not, and may press Ctrl-C; another one rotates the key that the first may be
  using; a third logs in with another key, or out, once.  `MaxFaults` = 1: one
  answer lost, odd or junk, or one failure of the service, anywhere.  The keys
  are one of a person and one of a service account in one organization and one
  in another, so that a verb may name a key it may not touch.  No verb makes more
  than two calls.
* `MaxClock` = 2, `TTL` = 1: an entry may be fresh, exactly as old as the
  interval, and older.

### Fairness

Fairness is asked of the process alone, never of the network or a user.

* `ChatSend`: the loop takes a frame or an error that is there, and a call
  whose context is cancelled returns; `net/http` guarantees the latter.  No
  call has a timeout, so nothing else is promised.
* `Invocation`: a process goes on as long as it can: a call that is due is made
  or given up, one whose context is cancelled returns, and when all have
  returned (`wg.Wait`) the command prints and exits.  Which of its goroutines
  goes on is left open.  Nothing is asked of the service; reading standard input is not
  ended by Ctrl-C, and `FailureEnds` does not claim it.

## 4. Proofs

TLAPS checks, for every value of the constants allowed by the named
assumptions (any number of processes, names, commands and inodes):

* **`ConfigStoreProofs`.**  `TypeCorrect` is from `TypeInv`, which adds to the
  types that a process past its first Load has resolved its slot.
  `ActivePointerSafe` rests on `ActiveInv`: every *document in reach* is sound,
  those in inodes that are whole (`SoundData`) and the configuration each
  process is about to save (`SoundEdits`).  The property alone is not
  inductive: a rename installs what somebody wrote earlier, so what is in the
  inodes must be sound already.  The module begins with the facts about the pure
  operations: `Upsert`, `Remove`, `LoadOf` and the edit of each command yield
  configurations, and keep the active pointer on a profile of the map.
* `TmpIsCleanedUp` is by induction on who may own the `.tmp`: as long as it is
  there, some process is saving, or one has crashed, failed to write, or been
  refused both the rename and the removal.
* `SavesPreserveOthers` is about any number of processes that overlap.  Its
  invariant, `FreshInv`, is about those that nobody has overlapped with since
  their last Load: the stored configuration is still the one that they edited,
  and what they are about to rename is what they wrote.
* `IntervalSafe` needs `IntervalInv`: every document in reach carries the one
  interval that no command changes.
* `SerialReadable` and `SerialImplementsAtomic` assume `~Concurrent`.  Their
  invariant `SerialInv` says what the only running process has read: its slot,
  endpoint and edited configuration are those of the stored one, and what it
  has written so far is whole or out of the way.  Each step is then a stutter of
  `AtomicConfig`, except the rename, which is `Commit`, and the ends, which are
  `Abort`.
* **`SelfUpdateProofs`.**  Everything rests on `FilesInv`: what is installed,
  aside or about to be installed is whole or nothing, and only on Windows is the
  executable missing or a process between two renames.  `NothingIsLost` is
  inductive relative to it, and so is `GoneOnlyMidway`, from which
  `InstalledOrMidway` follows.
  `NoDowngradeAlone` needs `OrderInv`: an updater got past the comparison only
  with a tag newer than the image it runs.  It says something of Unix only: on
  Windows nothing is at the path when the new binary is put there, so there is
  nothing to lower.

* **`ResolverProofs`.**  For every verb tree and every argv.
  `EveryFailureReportedOnce` is from `Reported`: up to its end `run` has printed a
  message exactly if the error is marked as reported, and help is never so
  marked.  `ResolverTypeCorrect` is from `TypeInv`: the path has one group more
  than verbs were read while the walk is at a group, and as many at a leaf.
  `NothingLostOrUsedTwice` is from `AccountInv`: at every moment each token the
  walk has passed is in one of four places, and in one only: the verbs, the
  arguments, what is left to parse, or what flags have taken.  The property
  itself speaks of the end, where nothing is left to parse.
  `WalkAndParseNeverDisagree` is from `AgreeInv`: the tokens left to parse are in
  order, a flag that the walk took for one with a value is followed by it, and
  so is each setting; as long as no switch is early, the parse takes the same
  groups off the front that the walk put there.
  `UpdateIsAlwaysRecognized` relates the walk to `FirstVerb`, a recursive
  function over argv.  `UpdateInv` says what the walk skips on its way to the verb
  `update`: flags only, each with its value exactly if it is not one of the
  root's switches; behind a `--help` nothing is executed.  `FirstVerb` then takes
  the same steps: `FirstVerbIsTheVerb` shows that every place from which it goes
  on, up to the verb, leads to another such place.  The library's theorems of induction
  cannot be used here, since they take an operator; `LeastOne` (a non-empty set of
  numbers has a least one) is from the one about well-founded relations that
  takes a set, `Inducts` from it, and `Recursion`, that a recursion towards the
  end of a list defines a function, from that.  `UpdateAssumption` is what is special
  about `update`: it is registered at the root only and has no flags of its own
  (`main.go:291`), and `isKnownValueGlobal` knows the root's flags with a value.

* **`UpdateCheckProofs`.**  `CmpSemverIsOlder` and `OlderIsAStrictOrder` are about
  version texts of any length, good or bad; `NudgesAreTrue` needs the first.  The
  invariant is `CheckInv`.  `Entries` says of every inode that no release newer
  than its entry was out when it was stamped, `Checks` the same of the tag and
  the time that a goroutine is holding between its answer and its write; without
  it `StampIsConservative` is not inductive, since the write installs what was
  read some steps ago.  `World` has releases come out one after the other, so
  that the latest one is the last.

* **`InvocationProofs`.**  All six theorems are from one invariant, `Inv`, for any
  number of processes, whose users may call any of the verbs.  `VerbsAreRegular`
  says what all verbs have in common; it is all the rest uses of them.  For each
  call `CallOK` has how far it is on the three sides of it (process, client and
  service); `EffectOK` ties what the service has done to its answer of the first
  call; `ExitOK` says what an exit code was given for in terms that no later step
  changes.  That is why it is needed: `ExitCodeIsHonest` speaks of the keys that
  are live now, and a request may be served after the command has gone.
  `DeadToken` is what connects 3 with the keys: an answer that turns down a token
  is about a key that is not live.  For that to last, keys must not come to
  life again: new ones have numbers that nobody holds yet, which `TokensKnown`
  provides (every token in use is one that was given out).

* **`ChatSendProofs`.**  For a reply of any number of cells.  The invariant is
  `ChatInv`.  `StreamIsTrue` relates the frames that the service has sent to what
  has happened there: of an execution only when it was, of every final state
  while the stream is up, and of all of the reply before a trailer.  `ReplyGrows`
  (a cell begins when the one before it has ended) is what makes a reply whose
  last cell is final a whole one.  `RenderedIsTaken` carries this over to what
  the command has seen, and `SuccessHasAReason` says which of the two exits of
  the loop a success came from.  None of the properties is inductive alone: they
  speak of the end of the command, and it is by then that the service may
  have gone on.  `TheMessageIsAccountedFor` is from `MessageInv`, which ties the
  place in `Run`, the error and the request to one another.
  The module also has the proof that `StreamReader`, instantiated as `Reader`,
  implements the `FrameReader` that `ChatSend` extends, for a stream of any length (`TheReaderReadsFrames`).  Its invariant, `ReaderInv`, is
  `TheBodyIsWhatWasSent`: the pieces still unread are numbered by the frames that
  were sent and not yet taken, a header is followed by its payload unless the
  body is cut there, and a call waits for what comes next and only before a
  verdict.  The frames in flight, which the refinement mapping counts by the
  pieces that end one (`Ends`), are then exactly those not yet taken.
  `ACleanEndIsReal`, an action property, is from the same invariant.

* **`ConnectorsProofs`.**  For any number of processes, any commands and any number
  of failing calls.  `ConnInv` has for each process the way it takes through the
  steps (`OnItsWay`), which secret it holds where (`SecretIsMeant`), what it has done
  so far (`EffectIsTold`), and that what an update has read is what is there, as far as
  the client reads it, unless it was overtaken (`ReadIsCurrent`).  `UpdateIsFaithful`,
  an action property, needs the last one: the write sends what was read two calls ago.
  `SettingsOf` is all it uses of the service: a field that is sent is stored, one
  that is not is zero or what it was.  `CreateReqCorrect` is
  the lemma about the nine leaves: from flags that pass the checks the request
  has the mode, the fields and the credentials that the leaf asks for.
  `ConnectorsAssumption` keeps the names of processes apart from the values
  "default" and "zero", as a value that a user writes is told from both.

* **`HarnessProofs`.**  For any number of tests that run against one organization
  at once, whatever calls fail and whoever is killed.  `HarnessInv` has for each test:
  * `StackInv`: its cleanups delete what it created itself, each something else,
    and a cleanup by name never takes what an earlier one is for.  Without this
    a cleanup could make another fail, and `NoAlarmIsFalse` would not hold.
  * `CoverInv`: a number that a helper knows is covered by a cleanup, ledgered or
    gone; of a test that has not failed, each of its resources is.  It is the
    strengthening of `PassingLeavesNothing` and `LeftoversAreLedgered` to moments
    before the end.
  * `SweepInv` and `VictimInv`: what earlier runs left is still to be swept, about to
    be deleted, missed or gone; what is about to be deleted is not of people.
    `TheSweepReaps` is the first with nothing to be swept left, and
    `PeopleKeepWhatIsTheirs`, an action property, is from the second.
  * `AloneInv`: while no other test is at work and no call has failed, what a
    cleanup is for is there, so that it succeeds.
  * `TitleInv`: the *oldest* cleanup for a shared title has the one that was found.
    They run last in, first out, so this is the one that stays.

  `HandsOff` has an induction of its own, since it is about runs in which all tests
  are of two modes.  `HarnessAssumption` says that every kind that is created
  is one that `sweepPrior` goes through, as is so in the code.

The assumptions are those of the modules (`NameAssumption`,
`CommandAssumption`, `InitDocumentAssumption`, `SelfUpdateAssumption`, ...);
TLC evaluates them in every run.

The type invariants of `ConfigStore`, `Resolver`, `SelfUpdate`, `UpdateCheck` and
`Invocation` are proved, and no longer part of a run; those of `Harness` and
`Connectors` are proved and checked.

Every safety and every action property that a run checks is proved, the two
refinements included; `SerialReadable` and `SerialImplementsAtomic` under
`~Concurrent`, as they are checked.  Only
model-checked are the liveness properties `InterruptEnds` and `StreamEndEnds` of
`ChatSend` and `FailureEnds` of `Invocation`: fairness and ENABLED are beyond the
prover.  No module declares a RECURSIVE operator; `FirstVerb` is a function.

## 5. Not modelled, and the plan

What may come next is detail of what is modelled in part (below), and more theorems
about what `Resolver` gives a leaf.

Left out for good: formatting (tables, truncation, dates, labels), the text of
help, the rewriting of URLs and paths, the installer, and the test helpers in
`internal/testcli` and `e2e/harness/client.go`, which have no state that anything
depends on.  `internal/cli/helpers.go` is modelled in part: its checks of arguments
are sets of inputs in `Verbs`, and which errors `RenderOutput` returns is in
`Invocation`; the rest of it is formatting.

## 6. Where the code and its documentation differ

* Two overlapping saves can leave a `config.json` that does not parse
  (`config_torn_save`), against "writes cfg to path atomically".
* `updateCheckInterval` is erased by the next login when it is set in a file
  without profiles or in an old-shape file (`config_interval_lost`).

More that the models show without a run of their own:

* `send.go:30` says that `--wait-all` waits for ALL cells.  `Satisfied` of `ChatSend`
  compares with the cells seen so far: in the pause after the first cell of a
  reply has executed, and before the next is streamed, the command succeeds.
  `EarlyStopIsJustified` says what does hold.
* `errors.go:32` maps an authentication error to 3 "including wrapped".
  `IsAuth` of `CliErrors` takes the first error of a tree that has the method:
  when GetMember fails for another reason and GetOrganization for this one, the
  exit code is 2.  `ExitCodeIsHonest` has the other direction.
* `keys.go:124-126` says that the service tells the secret of a key exactly once.
  `emitPlaintextToken` does not look at the error of printing it: with a standard
  output that cannot be written to `keys create` exits with 0 and the secret is
  lost, and after `keys rotate` the old key is revoked as well.  Nor does it look
  at the secret: an answer without `apiKeyHash` decodes, an empty line is printed,
  and the exit code is 0 (`Prints` of `Verbs`).  These two are the exceptions of
  `NoSilentOrphan`.
* `keys rotate` of the key that one is logged in with leaves the profile with the
  dead one; nothing tells the user to log in again until the next command exits
  with 3.
* An error that only mentions "unauthenticated" (upper case, or in its message)
  makes the verbs of `auth` exit with 3 (`TranslateErr`) and every other verb with 2.
  `api` exits with 2 whatever the status is.
* `dashboard health` exits with 1, a usage error, when the answer has no such
  dashboard (`health.go:64`), after the call was made.  `ExitCodeIsHonest` has this as
  its exception.
* `auth.go:20` says that `ErrNotLoggedIn` is returned by "commands that require an
  auth token".  Only `whoami` does; the others send the request without one.
  `whoami` asks the profile, not `ANA_TOKEN`: with only the latter set it fails,
  and the file it looks into (`CheckLoggedIn`) is read after the one its token
  is from (`InitConfig`).
* After `chat send` the exit codes 2 and 3 do not tell whether the message was
  recorded; the text of the error does (`MessageIsAccountedFor`).
* `snapshot.go:41-59` restores a connector with the settings as they were read,
  under `postgresMetadata`, which an update does not take: `RunRestore` fails for
  connectors, and the ledger says so.  No test calls `SnapshotConnector` yet.
* `e2e/README.md:163` says "Review the checklist, revert by hand".  The checklist
  is written into `t.TempDir()` (`harness.go:57`), whose removal is registered
  before `End` is (`harness.go:95`) and so comes right after it: `RemoveTempDir`.
  Only what was logged stays.
* `update.go:32` says that only supplied flags are sent, and `types.go:23` that an
  update can omit the settings when none of their flags was set.  `UpdateReq`
  always has the whole configuration that was read, under `postgres`
  (`update.go:109`).  So a connector of another dialect cannot be renamed, and an
  update that overlaps another one puts its values back: `UpdateDoesWhatWasAsked`
  holds unless somebody was `overtaken`.
* `update` does not look at the range of `--port`, as `create` does.  Nor can it
  set anything to its zero value: `--name ""`, `--port 0` and `--ssl=false` are
  left out of the request (`types_postgres.go:6`), so the service keeps the old
  value, or drops it, or refuses the block, and the exit code is 0 in the first
  two cases.  The `dialect` of a block (`api-catalog`) is in no struct; an update
  does not send it back.
* `connector delete` ignores the error of printing (`delete.go:34`): with a
  standard output that cannot be written to it exits with 0, where the other
  commands exit with 2 (`Fine`, and the exception of `ExitTellsTheEffect`).
* `config.go:157` discards the error of the removal: when it is refused after the
  rename was, `config.json.tmp` stays behind with its tokens, and the next save
  writes over it (`RemoveTmpFails`).
* `sweep.go:15` is for "a previous crashed run's leftovers".  The sweep knows no
  runs: it deletes what a test in progress has made as well.
  `KnownLeftoversAreLedgered` holds all the same, `NoFalseAlarm` has the overlap
  as its premise.
* `README.md:54` says `ana update` replaces the running binary.  The new one is
  extracted into `os.MkdirTemp("", ...)` and installed with `os.Rename`: when the
  temporary directory is on another file system, `CanReplace` of `SelfUpdate` is
  false and every update fails after the download.
* `resolve.go:57` says that `--help` anywhere returns `ErrHelp`.  An unknown
  subcommand behind it is a usage error: `WalkUnknown` comes before
  `WalkEndsInHelp`.
* A switch written before the verb that declares it takes the next word with it
  in the walk and not in the parse (`EarlySwitch` in `WalkAndParseAgree`); the
  word then reaches the leaf behind the other arguments.
* `main.go:433` says `SaveCfg` "preserves every other profile".  It writes back
  the whole configuration it loaded, as all commands that save do, so a profile
  that another one added meanwhile is gone.  `SavePreservesOthers` has this as
  its proviso (`overlapped`): if nobody else was saving between the last Load and
  the rename, nothing is lost, whatever overlaps, fails or dies besides.
* `stream.go:30` says of `done` "no more data frames coming (trailer seen or
  error)".  A payload that does not decode is an error after which `Next` hands
  out data again: `NextUndecodable` of `FrameReader` leaves `done` alone.
* `cmd/ana/update.go:14` says that update replaces the binary atomically.  On
  Windows it takes two renames: `AlwaysInstalled` has the moments at which
  nothing is installed, `Recoverable` says where the binary is then.
