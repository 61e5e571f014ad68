------------------------------ MODULE Harness ------------------------------
(***************************************************************************)
(* The live test harness e2e/harness: tests create, rename and rotate      *)
(* things in a real organization and must leave it as they found it, or    *)
(* fail loudly.  A call may be refused, or done with its answer lost; a    *)
(* test may fail, or be killed, at any step; two runs of the suite may     *)
(* work on the same organization.                                          *)
(*                                                                         *)
(* h is the struct H of each test, with the stage it is in.  Resources are *)
(* known by the number the service gave them.  A name is a run's prefix    *)
(* and a suffix: `by' and `suffix'.  Titles are numbers too, 0 the one a   *)
(* shared chat or connector has had all along.                             *)
(***************************************************************************)
EXTENDS Naturals, Sequences

CONSTANTS
  Test,       \* the tests
  Prior,      \* a run that crashed before all of them
  People,     \* whoever made the resources that are not the harness's
  OrgBefore,  \* what is in the organization before the first test
  FirstId,    \* the first number that is not in it
  ByHelper, ByCLI,  \* the kinds that the bodies create, by a helper or a verb
  SweepOrder, \* the kinds in the order they are swept
  MaxId, MaxCleanups, MaxFaults  \* bounds on the bodies and on failing calls

Kind == {"connector", "chat", "key", "account"}
Shared == {"chat", "connector"}

Resource == [kind : Kind, by : Test \union {Prior, People}, suffix : Nat]

ASSUME HarnessAssumption ==
  /\ Prior \notin Test /\ People \notin Test /\ Prior # People
  /\ ByHelper \subseteq Kind /\ ByCLI \subseteq Kind /\ SweepOrder \in Seq(Kind)
  /\ FirstId \in Nat \ {0} /\ MaxId \in Nat /\ MaxCleanups \in Nat /\ MaxFaults \in Nat
  /\ DOMAIN OrgBefore \subseteq 1 .. FirstId - 1
  /\ \A i \in DOMAIN OrgBefore :
       OrgBefore[i] \in [kind : Kind, by : {Prior, People}, suffix : Nat]
  \* sweepPrior goes over every kind that is ever created.
  /\ \A k \in ByHelper \union ByCLI
           \union {OrgBefore[i].kind : i \in {j \in DOMAIN OrgBefore : OrgBefore[j].by = Prior}} :
       \E m \in DOMAIN SweepOrder : SweepOrder[m] = k

\* "dry" is ANA_E2E_DRYRUN, "sweepOnly" is ANA_E2E_SWEEP_ONLY, "wrongOrg" a
\* token of another organization than ANA_E2E_EXPECT_ORG_ID.
Mode == {"run", "dry", "sweepOnly", "wrongOrg"}

Working == {"guard", "sweep", "body", "end", "ended"}
Stage   == Working \union {"idle", "refused", "skipped", "over", "crashed"}

\* What a registered closure will do: delete a number, delete what has a
\* name, or give a shared resource its title back.
Cleanup == [op : {"delete", "byName", "restore"}, kind : Kind, arg : Nat]

Delete(k, i)  == [op |-> "delete", kind |-> k, arg |-> i]
ByName(k, n)  == [op |-> "byName", kind |-> k, arg |-> n]
Restore(k, v) == [op |-> "restore", kind |-> k, arg |-> v]

VARIABLES
  org,    \* the resources there are, by number
  title,  \* of the shared resources
  next,   \* the next number, suffix or title that nobody has used
  mode,   \* per test, from its environment
  faults, \* how many calls have failed
  h,      \* per test, the harness
  hist    \* per test, what happened to it; no step depends on it

service == <<org, title>>
vars == <<org, title, next, mode, faults, h, hist>>

\* left and errs are the kinds still to sweep and whether a list failed;
\* victims what a list returned and is being deleted; latestKey the index of
\* the cleanup that the slot h.latestKey points into, or 0; ledger the numbers,
\* suffixes and titles that its entries name.
H == [stage : Stage, left : Seq(Kind), errs : BOOLEAN, victims : SUBSET Nat,
      cleanups : Seq(Cleanup), latestKey : Nat, ledger : SUBSET Nat,
      failed : BOOLEAN]

\* faulted says that a call has failed, overlapped that another test was
\* working at the same time, titles and leftovers are the titles and the
\* abandoned resources when it began, missed those its sweep did not get
\* deleted, known the numbers it has a cleanup for.
History == [faulted : BOOLEAN, overlapped : BOOLEAN, titles : [Shared -> Nat],
            leftovers : SUBSET Nat, missed : SUBSET Nat, known : SUBSET Nat]

Empty == [stage |-> "idle", left |-> <<>>, errs |-> FALSE, victims |-> {}, cleanups |-> <<>>,
          latestKey |-> 0, ledger |-> {}, failed |-> FALSE]

NoHistory == [faulted |-> FALSE, overlapped |-> FALSE, titles |-> [k \in Shared |-> 0],
              leftovers |-> {}, missed |-> {}, known |-> {}]

Init ==
  /\ org = OrgBefore
  /\ title = [k \in Shared |-> 0]
  /\ next = FirstId
  /\ mode \in [Test -> Mode]
  /\ faults = 0
  /\ h = [t \in Test |-> Empty]
  /\ hist = [t \in Test |-> NoHistory]

At(t, s)  == h[t].stage = s
Others(t) == {u \in Test \ {t} : h[u].stage \in Working}

With(i, r) == [j \in DOMAIN org \union {i} |-> IF j = i THEN r ELSE org[j]]
Without(i) == [j \in DOMAIN org \ {i} |-> org[j]]

\* How a call ends: done, not done and reported so, done and reported failed.
Outcome == {"ok", "refused", "lost"}
Done(out) == out # "refused"

\* MaxFaults bounds the calls that end otherwise than "ok".
Call(out) ==
  IF out = "ok" THEN UNCHANGED faults ELSE faults < MaxFaults /\ faults' = faults + 1

-----------------------------------------------------------------------------
\* Begin.  The service is called from the next step on.

\* Defect: the sweep runs without the check of the organization.
BeginUnguarded(t) ==
  /\ At(t, "idle")
  /\ h' = [h EXCEPT ![t].stage = IF mode[t] = "dry" THEN "body" ELSE "sweep", ![t].left = SweepOrder]
  /\ UNCHANGED <<service, next, mode, faults, hist>>

Begin(t) ==
  /\ At(t, "idle")
  /\ h' = [h EXCEPT ![t].stage = IF mode[t] = "dry" THEN "body" ELSE "guard"]
  /\ hist' = [u \in Test |->
       CASE u = t -> [hist[t] EXCEPT
              !.overlapped = Others(t) # {},
              !.titles = title,
              !.leftovers = {i \in DOMAIN org :
                 /\ org[i].by # People
                 /\ org[i].by \in Test => h[org[i].by].stage \notin Working}]
         [] u \in Others(t) -> [hist[u] EXCEPT !.overlapped = TRUE]
         [] OTHER -> hist[u]]
  /\ UNCHANGED <<service, next, mode, faults>>

\* guardOrg; on failure Begin ends the test, and End is not registered yet.
Guard(t) ==
  /\ At(t, "guard")
  /\ \/ /\ mode[t] # "wrongOrg"
        /\ h' = [h EXCEPT ![t].stage = "sweep", ![t].left = SweepOrder]
        /\ UNCHANGED <<faults, hist>>
     \/ /\ \/ mode[t] = "wrongOrg" /\ UNCHANGED <<faults, hist>>
           \/ Call("refused") /\ hist' = [hist EXCEPT ![t].faulted = TRUE]
        /\ h' = [h EXCEPT ![t].stage = "refused", ![t].failed = TRUE]
  /\ UNCHANGED <<service, next, mode>>

\* Defect: everything of a kind is swept.
AnyName(i) == TRUE

\* strings.HasPrefix(name, sweepPrefix).
HasSweepPrefix(i) == org[i].by # People

SweepList(t) ==
  /\ At(t, "sweep") /\ h[t].victims = {} /\ h[t].left # <<>>
  /\ \/ /\ h' = [h EXCEPT ![t].left = Tail(@),
              ![t].victims = {i \in DOMAIN org : org[i].kind = Head(h[t].left) /\ HasSweepPrefix(i)}]
        /\ UNCHANGED <<faults, hist>>
     \/ /\ Call("refused")
        /\ hist' = [hist EXCEPT ![t].faulted = TRUE]
        /\ h' = [h EXCEPT ![t].left = Tail(@), ![t].errs = TRUE]
  /\ UNCHANGED <<service, next, mode>>

\* The error of a delete is ignored, whatever it is.
SweepDelete(t) ==
  /\ At(t, "sweep")
  /\ \E i \in h[t].victims, out \in Outcome :
       /\ Call(out)
       /\ org' = IF Done(out) THEN Without(i) ELSE org
       /\ h' = [h EXCEPT ![t].victims = @ \ {i}]
       /\ hist' = [hist EXCEPT ![t].faulted = @ \/ out # "ok",
                               ![t].missed = IF Done(out) THEN @ ELSE @ \union {i}]
  /\ UNCHANGED <<title, next, mode>>

\* Defect: the errors of the lists are ignored as well.
SweepDoneRegardless(t) ==
  /\ At(t, "sweep") /\ h[t].victims = {} /\ h[t].left = <<>>
  /\ h' = [h EXCEPT ![t].stage = IF mode[t] = "sweepOnly" THEN "skipped" ELSE "body"]
  /\ UNCHANGED <<service, next, mode, faults, hist>>

SweepDone(t) ==
  /\ At(t, "sweep") /\ h[t].victims = {} /\ h[t].left = <<>>
  /\ \/ h[t].errs /\ h' = [h EXCEPT ![t].stage = "refused", ![t].failed = TRUE]
     \/ ~h[t].errs /\ h' = [h EXCEPT ![t].stage = IF mode[t] = "sweepOnly" THEN "skipped" ELSE "body"]
  /\ UNCHANGED <<service, next, mode, faults, hist>>

-----------------------------------------------------------------------------
\* The body of a test.  The helpers do nothing in a dry run.
InBody(t) == At(t, "body") /\ mode[t] # "dry" /\ next < MaxId

Registers(t) == InBody(t) /\ Len(h[t].cleanups) < MaxCleanups

\* Defect: the slot is that of the cleanup registered before.
SlotBefore(s, k, latest) == IF k = "key" THEN Len(s) - 1 ELSE latest

\* Where *current is, after the cleanup of a key has been appended.
Slot(s, k, latest) == IF k = "key" THEN Len(s) ELSE latest

\* CreateConnector, CreateChat, CreateAPIKey, CreateServiceAccount.
CreateHelper(t, k) ==
  /\ Registers(t)
  /\ \E out \in Outcome :
       LET s == Append(h[t].cleanups, Delete(k, next)) IN
       /\ Call(out)
       /\ org' = IF Done(out) THEN With(next, [kind |-> k, by |-> t, suffix |-> next]) ELSE org
       /\ IF out = "ok"
          THEN h' = [h EXCEPT ![t].cleanups = s, ![t].latestKey = Slot(s, k, @)]
          ELSE h' = [h EXCEPT ![t].stage = "end", ![t].failed = TRUE]
       /\ hist' = [hist EXCEPT ![t].faulted = @ \/ out # "ok",
                               ![t].known = IF out = "ok" THEN @ \union {next} ELSE @]
  /\ next' = next + 1
  /\ UNCHANGED <<title, mode>>

\* A test that creates through the CLI registers a cleanup by name first,
\* except for chats, and one by number when it has found the number in the
\* output, or in a list.
CreateByCLI(t, k) ==
  /\ Registers(t)
  /\ \E out \in Outcome, found \in BOOLEAN :
       LET net == IF k = "chat" THEN <<>> ELSE <<ByName(k, next)>> IN
       /\ Call(out) /\ (found => out = "ok")
       /\ org' = IF Done(out) THEN With(next, [kind |-> k, by |-> t, suffix |-> next]) ELSE org
       /\ IF found
          THEN h' = [h EXCEPT ![t].cleanups = @ \o Append(net, Delete(k, next))]
          ELSE h' = [h EXCEPT ![t].cleanups = @ \o net, ![t].stage = "end", ![t].failed = TRUE]
       /\ hist' = [hist EXCEPT ![t].faulted = @ \/ out # "ok",
                               ![t].known = IF found THEN @ \union {next} ELSE @]
  /\ next' = next + 1
  /\ UNCHANGED <<title, mode>>

\* Defect: *h.latestKey keeps the number of the key that was rotated.
KeepTarget(s, n, i) == s

\* *h.latestKey = resp.APIKey.ID: the cleanup is redirected.
Redirect(s, n, i) == [s EXCEPT ![n].arg = i]

\* RotateAPIKey of the key created last: the service replaces it by another
\* of the same name.
RotateKey(t) ==
  /\ InBody(t) /\ h[t].latestKey > 0
  /\ LET key == h[t].cleanups[h[t].latestKey].arg IN
     \E out \in Outcome :
       /\ IF key \in DOMAIN org THEN Call(out) ELSE out = "refused" /\ UNCHANGED faults
       /\ org' = IF Done(out)
                 THEN [j \in (DOMAIN org \ {key}) \union {next} |->
                         IF j = next THEN org[key] ELSE org[j]]
                 ELSE org
       /\ IF out = "ok"
          THEN h' = [h EXCEPT ![t].cleanups = Redirect(@, h[t].latestKey, next)]
          ELSE h' = [h EXCEPT ![t].stage = "end", ![t].failed = TRUE]
       /\ hist' = [hist EXCEPT ![t].faulted = @ \/ out # "ok",
                               ![t].known = IF out = "ok" THEN @ \union {next} ELSE @]
  /\ next' = next + 1
  /\ UNCHANGED <<title, mode>>

\* SnapshotChatName, SnapshotConnector.
Snapshot(t, k) ==
  /\ Registers(t)
  /\ \/ h' = [h EXCEPT ![t].cleanups = Append(@, Restore(k, title[k]))] /\ UNCHANGED <<faults, hist>>
     \/ /\ Call("refused")
        /\ hist' = [hist EXCEPT ![t].faulted = TRUE]
        /\ h' = [h EXCEPT ![t].stage = "end", ![t].failed = TRUE]
  /\ UNCHANGED <<service, next, mode>>

\* The mutation that the snapshot is for.
Rename(t, k) ==
  /\ InBody(t)
  /\ \E n \in DOMAIN h[t].cleanups : h[t].cleanups[n].op = "restore" /\ h[t].cleanups[n].kind = k
  /\ \E out \in Outcome :
       /\ Call(out)
       /\ title' = IF Done(out) THEN [title EXCEPT ![k] = next] ELSE title
       /\ IF out = "ok"
          THEN UNCHANGED h
          ELSE h' = [h EXCEPT ![t].stage = "end", ![t].failed = TRUE]
       /\ hist' = [hist EXCEPT ![t].faulted = @ \/ out # "ok"]
  /\ next' = next + 1
  /\ UNCHANGED <<org, mode>>

\* The test returns, or an assertion of its own fails.  A dry run has not
\* registered End.
BodyEnds(t) ==
  /\ At(t, "body")
  /\ \E fails \in BOOLEAN :
       h' = [h EXCEPT ![t].stage = IF mode[t] = "dry" THEN "ended" ELSE "end", ![t].failed = @ \/ fails]
  /\ UNCHANGED <<service, next, mode, faults, hist>>

-----------------------------------------------------------------------------
\* End: the cleanups in LIFO order.

\* Defect: the cleanups in the order they were registered.
Oldest(s) == 1

Newest(s) == Len(s)

Popped(s, n) == SubSeq(s, 1, n - 1) \o SubSeq(s, n + 1, Len(s))

\* What h[t] becomes when cleanup n has run and, if it failed, is recorded
\* with RecordManualRevert.
AfterCleanup(t, n, ok) ==
  [h EXCEPT ![t].cleanups = Popped(@, n),
            ![t].failed = @ \/ ~ok,
            ![t].ledger = IF ok THEN @ ELSE @ \union {h[t].cleanups[n].arg}]

\* The service answers "not found", but for keys, which may be revoked twice
\* and whose cleanup takes "not found" for success.
Missing(c) == c.arg \notin DOMAIN org /\ c.kind # "key"

\* Defect: a delete whose answer is lost counts as done.
LenientDelete(t) ==
  /\ At(t, "end") /\ h[t].victims = {} /\ h[t].cleanups # <<>>
  /\ LET n == Newest(h[t].cleanups)  c == h[t].cleanups[n] IN
     /\ c.op = "delete"
     /\ \E out \in Outcome :
          /\ Call(out)
          /\ org' = IF Done(out) THEN Without(c.arg) ELSE org
          /\ h' = AfterCleanup(t, n, TRUE)
          /\ hist' = [hist EXCEPT ![t].faulted = @ \/ out # "ok"]
  /\ UNCHANGED <<title, next, mode>>

\* deleteConnector, deleteChat, revokeAPIKey, deleteServiceAccount, and the
\* CLI's delete in a closure of a test.
RunDelete(t) ==
  /\ At(t, "end") /\ h[t].victims = {} /\ h[t].cleanups # <<>>
  /\ LET n == Newest(h[t].cleanups)  c == h[t].cleanups[n] IN
     /\ c.op = "delete"
     /\ \E out \in Outcome :
          /\ Call(out)
          /\ org' = IF Done(out) THEN Without(c.arg) ELSE org
          /\ h' = AfterCleanup(t, n, out = "ok" /\ ~Missing(c))
          /\ hist' = [hist EXCEPT ![t].faulted = @ \/ out # "ok"]
  /\ UNCHANGED <<title, next, mode>>

\* deleteConnectorByName and its like: the list ...
RunByName(t) ==
  /\ At(t, "end") /\ h[t].victims = {} /\ h[t].cleanups # <<>>
  /\ LET n == Newest(h[t].cleanups)  c == h[t].cleanups[n] IN
     /\ c.op = "byName"
     /\ \/ /\ h' = [AfterCleanup(t, n, TRUE) EXCEPT ![t].victims =
                      {i \in DOMAIN org : org[i] = [kind |-> c.kind, by |-> t, suffix |-> c.arg]}]
           /\ UNCHANGED <<faults, hist>>
        \/ /\ Call("refused")
           /\ hist' = [hist EXCEPT ![t].faulted = TRUE]
           /\ h' = AfterCleanup(t, n, FALSE)
  /\ UNCHANGED <<service, next, mode>>

\* ... and a delete of what it returned, which may be gone by now.
DeleteByName(t) ==
  /\ At(t, "end")
  /\ \E i \in h[t].victims, out \in Outcome :
       /\ Call(out)
       /\ org' = IF Done(out) THEN Without(i) ELSE org
       /\ h' = [h EXCEPT ![t].victims = @ \ {i},
                         ![t].failed = @ \/ out # "ok",
                         ![t].ledger = IF out = "ok" THEN @ ELSE @ \union {i}]
       /\ hist' = [hist EXCEPT ![t].faulted = @ \/ out # "ok"]
  /\ UNCHANGED <<title, next, mode>>

\* A chat's title is sent back.  A connector's update has its settings under
\* postgresMetadata, as they were read, and the service takes postgres only.
RunRestore(t) ==
  /\ At(t, "end") /\ h[t].victims = {} /\ h[t].cleanups # <<>>
  /\ LET n == Newest(h[t].cleanups)  c == h[t].cleanups[n] IN
     /\ c.op = "restore"
     /\ \E out \in Outcome :
          /\ c.kind = "connector" => out = "refused"
          /\ IF c.kind = "connector" THEN UNCHANGED faults ELSE Call(out)
          /\ title' = IF Done(out) THEN [title EXCEPT ![c.kind] = c.arg] ELSE title
          /\ h' = AfterCleanup(t, n, out = "ok")
          /\ hist' = [hist EXCEPT ![t].faulted = @ \/ out # "ok"]
  /\ UNCHANGED <<org, next, mode>>

\* ManualRevertLog.Flush: an entry fails the test, whether it can be written
\* or not.
Flush(t) ==
  /\ At(t, "end") /\ h[t].victims = {} /\ h[t].cleanups = <<>>
  /\ h' = [h EXCEPT ![t].stage = "ended", ![t].failed = @ \/ h[t].ledger # {}]
  /\ UNCHANGED <<service, next, mode, faults, hist>>

\* The test is over, its temporary directory removed, the ledger with it.
RemoveTempDir(t) ==
  /\ At(t, "ended")
  /\ h' = [h EXCEPT ![t] = [Empty EXCEPT !.stage = "over"]]
  /\ hist' = [hist EXCEPT ![t] = NoHistory]
  /\ UNCHANGED <<service, next, mode, faults>>

\* Killed, or out of the time that go test allows: what it knew is lost.
Crash(t) ==
  /\ h[t].stage \in Working
  /\ h' = [h EXCEPT ![t] = [Empty EXCEPT !.stage = "crashed"]]
  /\ hist' = [hist EXCEPT ![t] = NoHistory]
  /\ UNCHANGED <<service, next, mode, faults>>

Next ==
  \E t \in Test :
    \/ Begin(t) \/ Guard(t) \/ SweepList(t) \/ SweepDelete(t) \/ SweepDone(t)
    \/ \E k \in ByHelper : CreateHelper(t, k)
    \/ \E k \in ByCLI : CreateByCLI(t, k)
    \/ RotateKey(t)
    \/ \E k \in Shared : Snapshot(t, k) \/ Rename(t, k)
    \/ BodyEnds(t)
    \/ RunDelete(t) \/ RunByName(t) \/ DeleteByName(t) \/ RunRestore(t)
    \/ Flush(t) \/ RemoveTempDir(t) \/ Crash(t)

Spec == Init /\ [][Next]_vars

-----------------------------------------------------------------------------
\* Types; in a body the slot of the latest key is the cleanup of a key.
TypeOK ==
  /\ DOMAIN org \subseteq 1 .. next - 1
  /\ \A i \in DOMAIN org : org[i] \in Resource
  /\ title \in [Shared -> Nat]
  /\ next \in Nat
  /\ mode \in [Test -> Mode]
  /\ faults \in Nat
  /\ h \in [Test -> H]
  /\ hist \in [Test -> History]
  /\ \A t \in Test : At(t, "body") /\ h[t].latestKey > 0 =>
       /\ h[t].latestKey <= Len(h[t].cleanups)
       /\ h[t].cleanups[h[t].latestKey].op = "delete"
       /\ h[t].cleanups[h[t].latestKey].kind = "key"

\* e2e/README.md: the organization is identical at the end of a test.  A test
\* that ends without having failed has left nothing of its own behind, and the
\* shared titles are what they were unless another test was at work.
PassLeavesNothing ==
  \A t \in Test : At(t, "ended") /\ ~h[t].failed /\ mode[t] # "dry" =>
    /\ \A i \in DOMAIN org : org[i].by # t
    /\ hist[t].overlapped \/ title = hist[t].titles

\* A number the harness has had a cleanup for is gone when End returns, or it
\* is in the ledger, whatever failed and whoever else was at work.
KnownLeftoversAreLedgered ==
  \A t \in Test : At(t, "ended") =>
    hist[t].known \intersect DOMAIN org \subseteq h[t].ledger

\* The ledger asks somebody to look only if a call has failed or another test
\* has interfered: cleanups never get in the way of each other.
NoFalseAlarm ==
  \A t \in Test : h[t].ledger # {} => hist[t].faulted \/ hist[t].overlapped

\* When the body of a test starts, whatever ended or killed runs had left is
\* gone, but for what the service refused to delete.
SweepReaps ==
  \A t \in Test : h[t].stage \in {"body", "skipped"} /\ mode[t] # "dry" =>
    hist[t].leftovers \intersect DOMAIN org \subseteq hist[t].missed

\* Nothing that people made is ever deleted or renamed.
PeopleKeepTheirs ==
  [][\A i \in DOMAIN org : org[i].by = People => i \in DOMAIN org' /\ org'[i] = org[i]]_vars

\* Tests that run dry or with the token of another organization change
\* nothing in it, not even by the sweep.
HandsOffTheWrongOrg ==
  (\A t \in Test : mode[t] \in {"dry", "wrongOrg"}) =>
    org = OrgBefore /\ title = [k \in Shared |-> 0]
=============================================================================
