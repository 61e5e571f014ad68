---------------------------- MODULE HarnessProofs ----------------------------
(***************************************************************************)
(* Theorems about Harness, for any number of tests, kinds, resources and   *)
(* failing calls, and any interleaving of the tests.                       *)
(***************************************************************************)
EXTENDS Harness, SequenceTheorems, TLAPS

-----------------------------------------------------------------------------
(* The inductive invariant.                                                *)

\* Abandoned resources are of a kind that is swept, and a name that a test
\* gave to anything but a key is that of one resource.
OrgInv ==
  /\ next > 0
  /\ \A i \in DOMAIN org :
       /\ org[i].by # People => \E m \in DOMAIN SweepOrder : SweepOrder[m] = org[i].kind
       /\ org[i].by \in Test /\ org[i].kind # "key" => org[i].suffix = i

\* Where a test of a mode can be, and what it can hold there.
StageInv(t) ==
  /\ mode[t] = "dry" => /\ h[t].stage \in {"idle", "body", "ended", "over", "crashed"}
                        /\ h[t].cleanups = << >>
  /\ mode[t] = "wrongOrg" => h[t].stage \in {"idle", "guard", "refused", "crashed"}
  /\ h[t].stage \notin {"body", "end"} => h[t].cleanups = << >>
  /\ h[t].stage \notin {"end", "ended"} => h[t].ledger = {}
  /\ h[t].stage \notin {"sweep", "end"} => h[t].victims = {}
  /\ h[t].stage = "refused" => h[t].failed
  /\ h[t].stage \in {"idle", "guard", "sweep"} => h[t].latestKey = 0

\* The cleanups of a test delete what it created itself, each something else;
\* and one by name never takes what a cleanup before it is for.
StackInv(t) ==
  \A n \in 1 .. Len(h[t].cleanups) :
    /\ h[t].cleanups[n].op \in {"delete", "byName"} =>
         /\ h[t].cleanups[n].arg < next
         /\ \A m \in 1 .. n - 1 :
              h[t].cleanups[m].op = "delete" => h[t].cleanups[m].arg # h[t].cleanups[n].arg
    /\ h[t].cleanups[n].op = "delete" /\ h[t].cleanups[n].arg \in DOMAIN org =>
         /\ org[h[t].cleanups[n].arg].by = t
         /\ org[h[t].cleanups[n].arg].kind = h[t].cleanups[n].kind

\* What is being deleted is nobody's but the harness's.
VictimInv(t) ==
  \A i \in h[t].victims : i < next /\ (i \in DOMAIN org => org[i].by # People)

Covered(t, i) ==
  \E n \in 1 .. Len(h[t].cleanups) : h[t].cleanups[n].op = "delete" /\ h[t].cleanups[n].arg = i

\* A number that is known is covered by a cleanup, ledgered or gone; and so is
\* every resource of a test that has not failed.
CoverInv(t) ==
  /\ \A i \in hist[t].known :
       i < next /\ (i \in DOMAIN org => Covered(t, i) \/ i \in h[t].ledger)
  /\ ~h[t].failed /\ h[t].stage \notin {"over", "crashed"} =>
       \A i \in DOMAIN org : org[i].by = t => Covered(t, i)

\* What was left before is still to be swept, being deleted, missed or gone.
SweepInv(t) ==
  /\ \A i \in hist[t].leftovers : i < next /\ (i \in DOMAIN org => org[i].by # People)
  /\ h[t].stage = "sweep" /\ ~h[t].errs =>
       \A i \in hist[t].leftovers \intersect DOMAIN org :
         \/ i \in hist[t].missed \union h[t].victims
         \/ \E m \in 1 .. Len(h[t].left) : h[t].left[m] = org[i].kind
  /\ h[t].stage \in {"body", "skipped"} /\ mode[t] # "dry" =>
       hist[t].leftovers \intersect DOMAIN org \subseteq hist[t].missed

Alone(t) == h[t].stage \in Working /\ ~hist[t].overlapped

Restores(t, n, k) == h[t].cleanups[n].op = "restore" /\ h[t].cleanups[n].kind = k

\* While a test is alone and no call of its fails, no cleanup of it can fail
\* either, those for keys apart, which may.
AloneInv(t) ==
  /\ Alone(t) => Others(t) = {}
  /\ Alone(t) /\ ~hist[t].faulted =>
       /\ h[t].ledger = {}
       /\ \A n \in 1 .. Len(h[t].cleanups) :
            h[t].cleanups[n].op = "delete" /\ h[t].cleanups[n].kind # "key" =>
              /\ h[t].cleanups[n].arg \in DOMAIN org
              /\ h[t].stage = "end" => h[t].cleanups[n].arg \notin h[t].victims

\* The oldest of the cleanups for a title has the one to end with.
TitleInv(t) ==
  Alone(t) /\ ~h[t].failed =>
    \A k \in Shared :
      /\ (\A n \in 1 .. Len(h[t].cleanups) : ~Restores(t, n, k)) => title[k] = hist[t].titles[k]
      /\ \A n \in 1 .. Len(h[t].cleanups) :
           Restores(t, n, k) /\ (\A m \in 1 .. n - 1 : ~Restores(t, m, k)) =>
             h[t].cleanups[n].arg = hist[t].titles[k]

TestInv(t) ==
  StageInv(t) /\ StackInv(t) /\ VictimInv(t) /\ CoverInv(t) /\ SweepInv(t) /\ AloneInv(t) /\ TitleInv(t)

HarnessInv == TypeOK /\ OrgInv /\ \A t \in Test : TestInv(t)

-----------------------------------------------------------------------------
(* The steps of one test and the others.                                   *)

SlotInv(t) ==
  At(t, "body") /\ h[t].latestKey > 0 =>
    /\ h[t].latestKey <= Len(h[t].cleanups)
    /\ h[t].cleanups[h[t].latestKey].op = "delete"
    /\ h[t].cleanups[h[t].latestKey].kind = "key"

\* What a step of t does to the organization: it deletes, or adds the next
\* number in its own name.
OrgStep(t) ==
  /\ next' \in {next, next + 1}
  /\ \A i \in DOMAIN org' :
       \/ i \in DOMAIN org /\ org'[i] = org[i]
       \/ /\ i = next /\ next' = next + 1
          /\ org'[i] \in Resource /\ org'[i].by = t
          /\ \E m \in DOMAIN SweepOrder : SweepOrder[m] = org'[i].kind
          /\ org'[i].kind # "key" => org'[i].suffix = i

\* t is at work and changes nothing of the other tests.
OwnStep(t) ==
  /\ h[t].stage \in Working
  /\ OrgStep(t)
  /\ mode' = mode /\ faults' \in Nat /\ title' \in [Shared -> Nat]
  /\ h' \in [Test -> H] /\ hist' \in [Test -> History]
  /\ \A u \in Test : u # t => h'[u] = h[u] /\ hist'[u] = hist[u]
  /\ SlotInv(t)'

LEMMA TypeFacts ==
  ASSUME TypeOK, NEW t \in Test
  PROVE  /\ next \in Nat /\ mode[t] \in Mode /\ title \in [Shared -> Nat]
         /\ h[t].stage \in Stage /\ h[t].left \in Seq(Kind) /\ h[t].errs \in BOOLEAN
         /\ h[t].victims \in SUBSET Nat /\ h[t].cleanups \in Seq(Cleanup)
         /\ h[t].latestKey \in Nat /\ h[t].ledger \in SUBSET Nat /\ h[t].failed \in BOOLEAN
         /\ Len(h[t].cleanups) \in Nat /\ Len(h[t].left) \in Nat
         /\ \A n \in 1 .. Len(h[t].cleanups) :
              /\ h[t].cleanups[n] \in Cleanup
              /\ h[t].cleanups[n].op \in {"delete", "byName", "restore"}
              /\ h[t].cleanups[n].kind \in Kind /\ h[t].cleanups[n].arg \in Nat
         /\ SlotInv(t)
<1>1. h[t] \in H /\ next \in Nat /\ mode[t] \in Mode /\ title \in [Shared -> Nat] /\ SlotInv(t)
  BY DEF TypeOK, SlotInv
<1>2. /\ h[t].stage \in Stage /\ h[t].left \in Seq(Kind) /\ h[t].errs \in BOOLEAN
      /\ h[t].victims \in SUBSET Nat /\ h[t].cleanups \in Seq(Cleanup)
      /\ h[t].latestKey \in Nat /\ h[t].ledger \in SUBSET Nat /\ h[t].failed \in BOOLEAN
  BY <1>1 DEF H
<1>3. \A n \in 1 .. Len(h[t].cleanups) : h[t].cleanups[n] \in Cleanup
  BY <1>2
<1>4. \A c \in Cleanup : c.op \in {"delete", "byName", "restore"} /\ c.kind \in Kind /\ c.arg \in Nat
  BY DEF Cleanup
<1>5. Len(h[t].cleanups) \in Nat /\ Len(h[t].left) \in Nat
  BY <1>2
<1> QED
  BY <1>1, <1>2, <1>3, <1>4, <1>5

LEMMA OrgFacts ==
  ASSUME TypeOK
  PROVE  /\ next \in Nat
         /\ \A i \in DOMAIN org : i \in Nat /\ i > 0 /\ i < next /\ org[i] \in Resource /\ org[i].kind \in Kind
         /\ next \notin DOMAIN org
         /\ People \notin Test /\ Prior \notin Test
BY HarnessAssumption DEF TypeOK, Resource

LEMMA OwnStepTypeOK == ASSUME HarnessInv, NEW t \in Test, OwnStep(t) PROVE TypeOK' /\ OrgInv'
<1>1. /\ next \in Nat
      /\ \A i \in DOMAIN org : i \in Nat /\ i > 0 /\ i < next /\ org[i] \in Resource /\ org[i].kind \in Kind
  BY OrgFacts DEF HarnessInv
<1>2. next' \in Nat /\ next' >= next
  BY <1>1 DEF OwnStep, OrgStep
<1>3. \A i \in DOMAIN org' : i \in Nat /\ i < next' /\ org'[i] \in Resource
  BY <1>1, <1>2 DEF OwnStep, OrgStep
<1>4. DOMAIN org' \subseteq 1 .. next' - 1
  <2> SUFFICES ASSUME NEW i \in DOMAIN org' PROVE i \in 1 .. next' - 1
    OBVIOUS
  <2>1. i > 0
    <3>1. CASE i \in DOMAIN org
      BY <1>1, <3>1
    <3>2. CASE i = next
      BY <1>1, <3>2 DEF HarnessInv, OrgInv
    <3> QED
      BY <3>1, <3>2 DEF OwnStep, OrgStep
  <2> QED
    BY <1>2, <1>3, <2>1
<1>5. \A u \in Test : SlotInv(u)'
  <2> TAKE u \in Test
  <2>1. CASE u = t
    BY <2>1 DEF OwnStep
  <2>2. CASE u # t
    <3>1. SlotInv(u) /\ h'[u] = h[u]
      BY <2>2, TypeFacts DEF HarnessInv, OwnStep
    <3> QED
      BY <3>1 DEF SlotInv, At
  <2> QED
    BY <2>1, <2>2
<1>6. TypeOK'
  BY <1>2, <1>3, <1>4, <1>5 DEF TypeOK, OwnStep, SlotInv, HarnessInv
<1>7. OrgInv'
  BY <1>1, <1>2 DEF OwnStep, OrgStep, OrgInv, HarnessInv
<1> QED
  BY <1>6, <1>7

\* What holds of a test holds whatever another one does.
LEMMA OthersKeep ==
  ASSUME HarnessInv, NEW t \in Test, OwnStep(t), NEW u \in Test, u # t
  PROVE  TestInv(u)'
<1>1. /\ next \in Nat /\ next' \in {next, next + 1}
      /\ \A i \in DOMAIN org : i \in Nat /\ i < next
  BY OrgFacts DEF HarnessInv, OwnStep, OrgStep
<1>2. h'[u] = h[u] /\ hist'[u] = hist[u] /\ mode'[u] = mode[u] /\ TestInv(u)
  BY DEF OwnStep, HarnessInv
<1>3. ASSUME NEW i \in DOMAIN org', i # next \/ org'[i].by # t
      PROVE  i \in DOMAIN org /\ org'[i] = org[i]
  BY <1>3 DEF OwnStep, OrgStep
<1>4. /\ \A n \in 1 .. Len(h[u].cleanups) : h[u].cleanups[n].arg \in Nat
      /\ h[u].victims \subseteq Nat
  BY TypeFacts DEF HarnessInv
<1>5. StageInv(u)'
  BY <1>2 DEF TestInv, StageInv
<1>6. StackInv(u)'
  <2> SUFFICES ASSUME NEW n \in 1 .. Len(h[u].cleanups)
               PROVE  /\ h[u].cleanups[n].op \in {"delete", "byName"} =>
                           /\ h[u].cleanups[n].arg < next'
                           /\ \A m \in 1 .. n - 1 :
                                h[u].cleanups[m].op = "delete" => h[u].cleanups[m].arg # h[u].cleanups[n].arg
                      /\ h[u].cleanups[n].op = "delete" /\ h[u].cleanups[n].arg \in DOMAIN org' =>
                           /\ org'[h[u].cleanups[n].arg].by = u
                           /\ org'[h[u].cleanups[n].arg].kind = h[u].cleanups[n].kind
    BY <1>2 DEF StackInv
  <2>1. /\ h[u].cleanups[n].op \in {"delete", "byName"} =>
             /\ h[u].cleanups[n].arg < next
             /\ \A m \in 1 .. n - 1 :
                  h[u].cleanups[m].op = "delete" => h[u].cleanups[m].arg # h[u].cleanups[n].arg
        /\ h[u].cleanups[n].op = "delete" /\ h[u].cleanups[n].arg \in DOMAIN org =>
             /\ org[h[u].cleanups[n].arg].by = u
             /\ org[h[u].cleanups[n].arg].kind = h[u].cleanups[n].kind
    BY <1>2 DEF TestInv, StackInv
  <2> QED
    BY <1>1, <1>3, <1>4, <2>1
<1>7. VictimInv(u)'
  <2> SUFFICES ASSUME NEW i \in h[u].victims
               PROVE  i < next' /\ (i \in DOMAIN org' => org'[i].by # People)
    BY <1>2 DEF VictimInv
  <2>1. i < next /\ (i \in DOMAIN org => org[i].by # People)
    BY <1>2 DEF TestInv, VictimInv
  <2> QED
    BY <1>1, <1>3, <1>4, <2>1
<1>8. CoverInv(u)'
  <2>1. \A i : Covered(u, i) <=> Covered(u, i)'
    BY <1>2 DEF Covered
  <2>2. ASSUME NEW i \in hist[u].known
        PROVE  i < next' /\ (i \in DOMAIN org' => Covered(u, i)' \/ i \in h[u].ledger)
    <3>1. i < next /\ (i \in DOMAIN org => Covered(u, i) \/ i \in h[u].ledger) /\ i \in Nat
      BY <1>2 DEF TestInv, CoverInv, HarnessInv, TypeOK, History
    <3> QED
      BY <1>1, <1>3, <2>1, <3>1
  <2>3. ASSUME ~h[u].failed, h[u].stage \notin {"over", "crashed"}, NEW i \in DOMAIN org', org'[i].by = u
        PROVE  Covered(u, i)'
    <3>1. i \in DOMAIN org /\ org[i].by = u
      BY <1>3, <2>3
    <3> QED
      BY <1>2, <2>1, <2>3, <3>1 DEF TestInv, CoverInv
  <2> QED
    BY <1>2, <2>2, <2>3 DEF CoverInv
<1>9. SweepInv(u)'
  <2>1. \A i \in hist[u].leftovers : i \in Nat /\ i < next /\ (i \in DOMAIN org => org[i].by # People)
    BY <1>2 DEF TestInv, SweepInv, HarnessInv, TypeOK, History
  <2>2. \A i \in hist[u].leftovers : i \in DOMAIN org' => i \in DOMAIN org /\ org'[i] = org[i]
    BY <1>1, <1>3, <2>1
  <2>3. \A i \in hist[u].leftovers : i < next' /\ (i \in DOMAIN org' => org'[i].by # People)
    BY <1>1, <2>1, <2>2
  <2> QED
    BY <1>2, <2>2, <2>3 DEF TestInv, SweepInv
<1>10. ~Alone(u)
  BY <1>2 DEF TestInv, AloneInv, Others, OwnStep
<1>11. AloneInv(u)' /\ TitleInv(u)'
  BY <1>2, <1>10 DEF Alone, AloneInv, TitleInv
<1> QED
  BY <1>5, <1>6, <1>7, <1>8, <1>9, <1>11 DEF TestInv

LEMMA OwnStepKeeps ==
  ASSUME HarnessInv, NEW t \in Test, OwnStep(t), TestInv(t)'
  PROVE  HarnessInv'
<1>1. \A u \in Test : TestInv(u)'
  BY OthersKeep
<1> QED
  BY <1>1, OwnStepTypeOK DEF HarnessInv

-----------------------------------------------------------------------------
(* What a step of a test does not disturb of its own.                      *)

\* The cleanups are the same, or the newest ones are gone.
StackShrinks(t) ==
  /\ Len(h'[t].cleanups) <= Len(h[t].cleanups)
  /\ \A n \in 1 .. Len(h'[t].cleanups) : h'[t].cleanups[n] = h[t].cleanups[n]

LEMMA StackKeeps ==
  ASSUME HarnessInv, NEW t \in Test, OwnStep(t), StackShrinks(t)
  PROVE  StackInv(t)'
<1>1. /\ next \in Nat /\ next' \in {next, next + 1}
      /\ Len(h[t].cleanups) \in Nat /\ Len(h'[t].cleanups) \in Nat
      /\ \A n \in 1 .. Len(h[t].cleanups) : h[t].cleanups[n].arg \in Nat
  BY TypeFacts DEF HarnessInv, OwnStep, OrgStep, H
<1>2. ASSUME NEW i \in DOMAIN org', i # next PROVE i \in DOMAIN org /\ org'[i] = org[i]
  BY <1>2 DEF OwnStep, OrgStep
<1> SUFFICES ASSUME NEW n \in 1 .. Len(h'[t].cleanups)
             PROVE  /\ h[t].cleanups[n].op \in {"delete", "byName"} =>
                         /\ h[t].cleanups[n].arg < next'
                         /\ \A m \in 1 .. n - 1 :
                              h[t].cleanups[m].op = "delete" => h[t].cleanups[m].arg # h[t].cleanups[n].arg
                    /\ h[t].cleanups[n].op = "delete" /\ h[t].cleanups[n].arg \in DOMAIN org' =>
                         /\ org'[h[t].cleanups[n].arg].by = t
                         /\ org'[h[t].cleanups[n].arg].kind = h[t].cleanups[n].kind
  <2>1. \A n \in 1 .. Len(h'[t].cleanups) : \A m \in 1 .. n - 1 : m \in 1 .. Len(h'[t].cleanups)
    BY <1>1
  <2> QED
    BY <2>1, ZenonT(40) DEF StackInv, StackShrinks
<1>3. n \in 1 .. Len(h[t].cleanups)
  BY <1>1 DEF StackShrinks
<1>4. /\ h[t].cleanups[n].op \in {"delete", "byName"} =>
           /\ h[t].cleanups[n].arg < next
           /\ \A m \in 1 .. n - 1 :
                h[t].cleanups[m].op = "delete" => h[t].cleanups[m].arg # h[t].cleanups[n].arg
      /\ h[t].cleanups[n].op = "delete" /\ h[t].cleanups[n].arg \in DOMAIN org =>
           /\ org[h[t].cleanups[n].arg].by = t
           /\ org[h[t].cleanups[n].arg].kind = h[t].cleanups[n].kind
  BY <1>3 DEF HarnessInv, TestInv, StackInv
<1> QED
  BY <1>1, <1>2, <1>3, <1>4

LEMMA VictimsKeep ==
  ASSUME HarnessInv, NEW t \in Test, OwnStep(t), h'[t].victims \subseteq h[t].victims
  PROVE  VictimInv(t)'
<1> SUFFICES ASSUME NEW i \in h'[t].victims
             PROVE  i < next' /\ (i \in DOMAIN org' => org'[i].by # People)
  BY DEF VictimInv
<1>1. i \in Nat /\ i < next /\ (i \in DOMAIN org => org[i].by # People)
  BY TypeFacts DEF HarnessInv, TestInv, VictimInv
<1>2. next \in Nat /\ next' \in {next, next + 1}
  BY OrgFacts DEF HarnessInv, OwnStep, OrgStep
<1> QED
  BY <1>1, <1>2 DEF OwnStep, OrgStep

\* Outside the sweep nothing is left to be swept.
LEMMA SweptKeeps ==
  ASSUME HarnessInv, NEW t \in Test, OwnStep(t), hist'[t].leftovers = hist[t].leftovers,
         hist[t].missed \subseteq hist'[t].missed, h'[t].stage # "sweep",
         h'[t].stage \in {"body", "skipped"} => h[t].stage = "body"
  PROVE  SweepInv(t)'
<1>1. \A i \in hist[t].leftovers : i \in Nat /\ i < next /\ (i \in DOMAIN org => org[i].by # People)
  BY DEF HarnessInv, TestInv, SweepInv, TypeOK, History
<1>2. next \in Nat /\ next' \in {next, next + 1}
  BY OrgFacts DEF HarnessInv, OwnStep, OrgStep
<1>3. \A i \in hist[t].leftovers : i \in DOMAIN org' => i \in DOMAIN org /\ org'[i] = org[i]
  BY <1>1, <1>2 DEF OwnStep, OrgStep
<1>4. \A i \in hist'[t].leftovers : i < next' /\ (i \in DOMAIN org' => org'[i].by # People)
  BY <1>1, <1>2, <1>3
<1>5. h'[t].stage \in {"body", "skipped"} /\ mode'[t] # "dry" =>
        hist'[t].leftovers \intersect DOMAIN org' \subseteq hist'[t].missed
  BY <1>3 DEF HarnessInv, TestInv, SweepInv, OwnStep
<1> QED
  BY <1>4, <1>5 DEF SweepInv

\* A cleanup may go when what it is for is gone or ledgered, and a number may
\* come when there is a cleanup for it.
LEMMA CoverKeeps ==
  ASSUME HarnessInv, NEW t \in Test, OwnStep(t), h'[t].stage \notin {"over", "crashed"},
         \A i \in DOMAIN org' : i \in DOMAIN org /\ Covered(t, i) =>
           Covered(t, i)' \/ (i \in h'[t].ledger /\ h'[t].failed),
         \A i \in DOMAIN org' : i = next =>
           Covered(t, i)' \/ (h'[t].failed /\ next \notin hist'[t].known),
         hist'[t].known \subseteq hist[t].known \union {next},
         next \in hist'[t].known => next' = next + 1,
         h[t].ledger \subseteq h'[t].ledger, h[t].failed => h'[t].failed
  PROVE  CoverInv(t)'
<1>1. next \in Nat /\ next' \in {next, next + 1} /\ hist[t].known \subseteq Nat
  BY OrgFacts DEF HarnessInv, OwnStep, OrgStep, TypeOK, History
<1>2. \A i \in hist[t].known :
        i < next /\ (i \in DOMAIN org => Covered(t, i) \/ i \in h[t].ledger)
  BY DEF HarnessInv, TestInv, CoverInv
<1>3. \A i \in DOMAIN org' : (i \in DOMAIN org /\ org'[i] = org[i]) \/ i = next
  BY DEF OwnStep, OrgStep
<1>4. ASSUME NEW i \in hist'[t].known
      PROVE  i < next' /\ (i \in DOMAIN org' => Covered(t, i)' \/ i \in h'[t].ledger)
  <2>1. CASE i = next
    BY <1>1, <1>4, <2>1
  <2>2. CASE i # next
    BY <1>1, <1>2, <1>3, <1>4, <2>2
  <2> QED
    BY <2>1, <2>2
<1>5. ASSUME ~h'[t].failed, NEW i \in DOMAIN org', org'[i].by = t PROVE Covered(t, i)'
  <2>1. CASE i = next
    BY <1>5, <2>1
  <2>2. CASE i # next
    <3>1. h[t].stage \notin {"over", "crashed"} /\ ~h[t].failed
      BY <1>5 DEF OwnStep, Working
    <3>2. i \in DOMAIN org /\ Covered(t, i)
      BY <1>3, <1>5, <2>2, <3>1 DEF HarnessInv, TestInv, CoverInv
    <3> QED
      BY <1>5, <3>2
  <2> QED
    BY <2>1, <2>2
<1> QED
  BY <1>4, <1>5 DEF CoverInv

\* The cleanups that give titles back are the same.
LEMMA TitlesKeep ==
  ASSUME HarnessInv, NEW t \in Test, OwnStep(t), title' = title,
         hist'[t].overlapped = hist[t].overlapped, hist'[t].titles = hist[t].titles,
         h[t].failed => h'[t].failed,
         \A k \in Shared, n \in Nat :
           n \in 1 .. Len(h'[t].cleanups) /\ Restores(t, n, k)' <=>
             n \in 1 .. Len(h[t].cleanups) /\ Restores(t, n, k),
         \A n \in 1 .. Len(h'[t].cleanups) :
           h'[t].cleanups[n].op = "restore" => h'[t].cleanups[n].arg = h[t].cleanups[n].arg
  PROVE  TitleInv(t)'
<1> SUFFICES ASSUME Alone(t), ~h[t].failed, NEW k \in Shared
             PROVE  /\ (\A n \in 1 .. Len(h'[t].cleanups) : ~Restores(t, n, k)') => title[k] = hist[t].titles[k]
                    /\ \A n \in 1 .. Len(h'[t].cleanups) :
                         Restores(t, n, k)' /\ (\A m \in 1 .. n - 1 : ~Restores(t, m, k)') =>
                           h'[t].cleanups[n].arg = hist[t].titles[k]
  BY DEF TitleInv, Alone, OwnStep
<1>1. /\ (\A n \in 1 .. Len(h[t].cleanups) : ~Restores(t, n, k)) => title[k] = hist[t].titles[k]
      /\ \A n \in 1 .. Len(h[t].cleanups) :
           Restores(t, n, k) /\ (\A m \in 1 .. n - 1 : ~Restores(t, m, k)) =>
             h[t].cleanups[n].arg = hist[t].titles[k]
  BY DEF HarnessInv, TestInv, TitleInv
<1>2. Len(h[t].cleanups) \in Nat /\ Len(h'[t].cleanups) \in Nat
  BY TypeFacts DEF HarnessInv, OwnStep, H
<1>3. \A n \in 1 .. Len(h[t].cleanups) : Restores(t, n, k) => n \in 1 .. Len(h'[t].cleanups) /\ Restores(t, n, k)'
  BY <1>2
<1>4. \A n \in 1 .. Len(h'[t].cleanups) : Restores(t, n, k)' => n \in 1 .. Len(h[t].cleanups) /\ Restores(t, n, k)
  BY <1>2
<1>5. (\A n \in 1 .. Len(h'[t].cleanups) : ~Restores(t, n, k)') => title[k] = hist[t].titles[k]
  BY <1>1, <1>3
<1>6. ASSUME NEW n \in 1 .. Len(h'[t].cleanups), Restores(t, n, k)', \A m \in 1 .. n - 1 : ~Restores(t, m, k)'
      PROVE  h'[t].cleanups[n].arg = hist[t].titles[k]
  <2>1. n \in 1 .. Len(h[t].cleanups) /\ Restores(t, n, k) /\ n \in Nat
    BY <1>2, <1>4, <1>6
  <2>2. \A m \in 1 .. n - 1 : m \in 1 .. Len(h[t].cleanups)
    BY <1>2, <2>1
  <2>3. \A m \in 1 .. n - 1 : ~Restores(t, m, k)
    BY <1>3, <1>6, <2>2
  <2>4. h'[t].cleanups[n].arg = h[t].cleanups[n].arg
    BY <1>6 DEF Restores
  <2> QED
    BY <1>1, <2>1, <2>3, <2>4
<1> QED
  BY <1>5, <1>6

\* A test that is alone stays so.
LEMMA AloneKeeps ==
  ASSUME HarnessInv, NEW t \in Test, OwnStep(t),
         hist'[t].overlapped = hist[t].overlapped,
         Alone(t) /\ ~hist'[t].faulted =>
           /\ h'[t].ledger = {}
           /\ \A n \in 1 .. Len(h'[t].cleanups) :
                h'[t].cleanups[n].op = "delete" /\ h'[t].cleanups[n].kind # "key" =>
                  /\ h'[t].cleanups[n].arg \in DOMAIN org'
                  /\ h'[t].stage = "end" => h'[t].cleanups[n].arg \notin h'[t].victims
  PROVE  AloneInv(t)'
<1>1. Alone(t)' => Alone(t)
  BY DEF Alone, OwnStep
<1>2. Alone(t) => Others(t)' = {}
  <2>1. Alone(t) => Others(t) = {}
    BY DEF HarnessInv, TestInv, AloneInv
  <2> QED
    BY <2>1 DEF Others, OwnStep
<1> QED
  BY <1>1, <1>2 DEF AloneInv

LEMMA WithoutFacts ==
  ASSUME NEW i
  PROVE  /\ DOMAIN Without(i) = DOMAIN org \ {i}
         /\ \A j \in DOMAIN org \ {i} : Without(i)[j] = org[j]
BY DEF Without

LEMMA WithFacts ==
  ASSUME NEW i, NEW r
  PROVE  /\ DOMAIN With(i, r) = DOMAIN org \union {i}
         /\ With(i, r)[i] = r
         /\ \A j \in DOMAIN org \ {i} : With(i, r)[j] = org[j]
BY DEF With

LEMMA CallFacts == ASSUME TypeOK, NEW out, Call(out) PROVE faults' \in Nat
BY DEF TypeOK, Call

\* What most steps do to the history of their test.
HistStep(t) ==
  /\ hist' \in [Test -> History]
  /\ \A u \in Test : u # t => hist'[u] = hist[u]
  /\ hist'[t].overlapped = hist[t].overlapped /\ hist'[t].titles = hist[t].titles
  /\ hist'[t].leftovers = hist[t].leftovers
  /\ hist[t].faulted => hist'[t].faulted

LEMMA HistFaulted ==
  ASSUME hist \in [Test -> History], NEW t \in Test, NEW f \in BOOLEAN, hist[t].faulted => f,
         hist' = [hist EXCEPT ![t].faulted = f]
  PROVE  /\ HistStep(t) /\ (hist'[t].faulted <=> f)
         /\ hist'[t].known = hist[t].known /\ hist'[t].missed = hist[t].missed
<1>1. hist' \in [Test -> History]
  BY DEF History
<1>2. /\ \A u \in Test : u # t => hist'[u] = hist[u]
      /\ hist'[t].titles = hist[t].titles
      /\ hist'[t].leftovers = hist[t].leftovers
      /\ hist'[t].known = hist[t].known /\ hist'[t].missed = hist[t].missed
  BY DEF History
<1>3. hist'[t].faulted = f /\ hist'[t].overlapped = hist[t].overlapped
  BY DEF History
<1> QED
  BY <1>1, <1>2, <1>3 DEF HistStep

LEMMA HistMissed ==
  ASSUME hist \in [Test -> History], NEW t \in Test, NEW f \in BOOLEAN, hist[t].faulted => f,
         NEW m \in SUBSET Nat, hist' = [hist EXCEPT ![t].faulted = f, ![t].missed = m]
  PROVE  /\ HistStep(t) /\ (hist'[t].faulted <=> f)
         /\ hist'[t].known = hist[t].known /\ hist'[t].missed = m
<1>1. hist' \in [Test -> History]
  BY ZenonT(40) DEF History
<1>2. /\ \A u \in Test : u # t => hist'[u] = hist[u]
      /\ hist'[t].titles = hist[t].titles
      /\ hist'[t].leftovers = hist[t].leftovers
      /\ hist'[t].known = hist[t].known /\ hist'[t].missed = m
  BY DEF History
<1>3. hist'[t].faulted = f /\ hist'[t].overlapped = hist[t].overlapped
  BY DEF History
<1> QED
  BY <1>1, <1>2, <1>3 DEF HistStep

LEMMA HistKnown ==
  ASSUME hist \in [Test -> History], NEW t \in Test, NEW f \in BOOLEAN, hist[t].faulted => f,
         NEW m \in SUBSET Nat, hist' = [hist EXCEPT ![t].faulted = f, ![t].known = m]
  PROVE  /\ HistStep(t) /\ (hist'[t].faulted <=> f)
         /\ hist'[t].known = m /\ hist'[t].missed = hist[t].missed
<1>1. hist' \in [Test -> History]
  BY ZenonT(40) DEF History
<1>2. /\ \A u \in Test : u # t => hist'[u] = hist[u]
      /\ hist'[t].titles = hist[t].titles
      /\ hist'[t].leftovers = hist[t].leftovers
      /\ hist'[t].known = m /\ hist'[t].missed = hist[t].missed
  BY DEF History
<1>3. hist'[t].faulted = f /\ hist'[t].overlapped = hist[t].overlapped
  BY DEF History
<1> QED
  BY <1>1, <1>2, <1>3 DEF HistStep

-----------------------------------------------------------------------------
(* The guard and the sweep.                                                *)

\* Before the body there is nothing to clean up.
LEMMA EarlyKeeps ==
  ASSUME HarnessInv, NEW t \in Test, OwnStep(t), HistStep(t),
         h[t].stage \in {"guard", "sweep"}, h'[t].stage \notin {"over", "crashed"},
         h'[t].cleanups = h[t].cleanups, h'[t].ledger = h[t].ledger,
         h[t].failed => h'[t].failed,
         \A i \in DOMAIN org' : i \in DOMAIN org,
         title' = title, hist'[t].known = hist[t].known
  PROVE  StackInv(t)' /\ CoverInv(t)' /\ AloneInv(t)' /\ TitleInv(t)'
<1>1. h[t].cleanups = << >> /\ h[t].ledger = {} /\ Len(h[t].cleanups) = 0
  BY DEF HarnessInv, TestInv, StageInv
<1>2. StackInv(t)'
  BY <1>1 DEF StackInv
<1>3. next \notin DOMAIN org /\ next \notin hist[t].known
  BY OrgFacts DEF HarnessInv, TestInv, CoverInv
<1>4. \A i : Covered(t, i) <=> Covered(t, i)'
  BY DEF Covered
<1>5. CoverInv(t)'
  BY <1>3, <1>4, CoverKeeps
<1>6. AloneInv(t)'
  BY <1>1, AloneKeeps DEF HistStep
<1>7. \A k \in Shared, n \in Nat : Restores(t, n, k)' <=> Restores(t, n, k)
  BY DEF Restores
<1>8. TitleInv(t)'
  BY <1>1, <1>7, TitlesKeep DEF HistStep
<1> QED
  BY <1>2, <1>5, <1>6, <1>8

LEMMA GuardStep == ASSUME HarnessInv, NEW t \in Test, Guard(t) PROVE HarnessInv'
<1>1. /\ h[t].stage = "guard" /\ org' = org /\ title' = title /\ next' = next /\ mode' = mode
      /\ h \in [Test -> H] /\ hist \in [Test -> History] /\ faults \in Nat
      /\ title \in [Shared -> Nat] /\ next \in Nat
  BY DEF Guard, At, service, HarnessInv, TypeOK
<1>2. OrgStep(t)
  BY <1>1 DEF OrgStep
<1>3. HistStep(t) /\ hist'[t].known = hist[t].known /\ hist'[t].missed = hist[t].missed /\ faults' \in Nat
  <2>1. CASE hist' = hist /\ faults' = faults
    BY <1>1, <2>1 DEF HistStep
  <2>2. CASE hist' = [hist EXCEPT ![t].faulted = TRUE] /\ Call("refused")
    BY <1>1, <2>2, HistFaulted, CallFacts DEF HarnessInv
  <2> QED
    BY <2>1, <2>2 DEF Guard
<1>4. /\ h' \in [Test -> H] /\ \A u \in Test : u # t => h'[u] = h[u]
      /\ h'[t].victims = h[t].victims /\ h'[t].cleanups = h[t].cleanups /\ h'[t].ledger = h[t].ledger
      /\ h'[t].latestKey = h[t].latestKey
      /\ \/ h'[t].stage = "sweep" /\ h'[t].left = SweepOrder /\ h'[t].failed = h[t].failed /\ mode[t] # "wrongOrg"
         \/ h'[t].stage = "refused" /\ h'[t].failed
  <2>1. CASE h' = [h EXCEPT ![t].stage = "sweep", ![t].left = SweepOrder] /\ mode[t] # "wrongOrg"
    <3>1. SweepOrder \in Seq(Kind) /\ "sweep" \in Stage
      BY HarnessAssumption DEF Stage, Working
    <3>2. h' \in [Test -> H]
      BY <1>1, <2>1, <3>1, ZenonT(40) DEF H
    <3>3. /\ \A u \in Test : u # t => h'[u] = h[u]
          /\ h'[t].victims = h[t].victims /\ h'[t].cleanups = h[t].cleanups /\ h'[t].ledger = h[t].ledger
          /\ h'[t].stage = "sweep" /\ h'[t].left = SweepOrder /\ h'[t].latestKey = h[t].latestKey
      BY <1>1, <2>1 DEF H
    <3>4. h'[t].failed = h[t].failed
      BY <1>1, <2>1 DEF H
    <3> QED
      BY <2>1, <3>2, <3>3, <3>4
  <2>2. CASE h' = [h EXCEPT ![t].stage = "refused", ![t].failed = TRUE]
    BY <1>1, <2>2, ZenonT(40) DEF H, Stage, Working
  <2> QED
    BY <2>1, <2>2 DEF Guard
<1>5. OwnStep(t)
  BY <1>1, <1>2, <1>3, <1>4 DEF OwnStep, HistStep, SlotInv, At, Working
<1>6. StackInv(t)' /\ CoverInv(t)' /\ AloneInv(t)' /\ TitleInv(t)'
  BY <1>1, <1>3, <1>4, <1>5, EarlyKeeps
<1>7. VictimInv(t)'
  BY <1>4, <1>5, VictimsKeep
<1>8. StageInv(t)'
  BY <1>1, <1>4 DEF HarnessInv, TestInv, StageInv
<1>9. SweepInv(t)'
  <2>1. CASE h'[t].stage = "refused"
    BY <1>1, <1>3, <1>5, <2>1, SweptKeeps DEF HistStep
  <2>2. CASE h'[t].stage = "sweep" /\ h'[t].left = SweepOrder
    <3>1. \A i \in hist[t].leftovers : i < next /\ (i \in DOMAIN org => org[i].by # People)
      BY DEF HarnessInv, TestInv, SweepInv
    <3>2. \A i \in DOMAIN org : org[i].by # People => \E m \in 1 .. Len(SweepOrder) : SweepOrder[m] = org[i].kind
      BY HarnessAssumption DEF HarnessInv, OrgInv
    <3> QED
      BY <1>1, <1>3, <2>2, <3>1, <3>2 DEF SweepInv, HistStep
  <2> QED
    BY <1>4, <2>1, <2>2
<1> QED
  BY <1>5, <1>6, <1>7, <1>8, <1>9, OwnStepKeeps DEF TestInv

LEMMA SweepListStep == ASSUME HarnessInv, NEW t \in Test, SweepList(t) PROVE HarnessInv'
<1> DEFINE found == {i \in DOMAIN org : org[i].kind = Head(h[t].left) /\ HasSweepPrefix(i)}
           rest  == Tail(h[t].left)
<1>1. /\ h[t].stage = "sweep" /\ h[t].victims = {} /\ h[t].left # << >>
      /\ org' = org /\ title' = title /\ next' = next /\ mode' = mode
      /\ h \in [Test -> H] /\ hist \in [Test -> History] /\ faults \in Nat
      /\ title \in [Shared -> Nat] /\ next \in Nat
  BY DEF SweepList, At, service, HarnessInv, TypeOK
<1>2. OrgStep(t)
  BY <1>1 DEF OrgStep
<1>3. HistStep(t) /\ hist'[t].known = hist[t].known /\ hist'[t].missed = hist[t].missed /\ faults' \in Nat
  <2>1. CASE hist' = hist /\ faults' = faults
    BY <1>1, <2>1 DEF HistStep
  <2>2. CASE hist' = [hist EXCEPT ![t].faulted = TRUE] /\ Call("refused")
    BY <1>1, <2>2, HistFaulted, CallFacts DEF HarnessInv
  <2> QED
    BY <2>1, <2>2 DEF SweepList
<1>4. /\ h[t].left \in Seq(Kind) /\ rest \in Seq(Kind) /\ Len(rest) = Len(h[t].left) - 1
      /\ Len(h[t].left) \in Nat \ {0}
      /\ h[t].left[1] = Head(h[t].left) /\ \A m \in 1 .. Len(rest) : rest[m] = h[t].left[m + 1]
  <2>1. h[t].left \in Seq(Kind)
    BY TypeFacts DEF HarnessInv
  <2> QED
    BY <1>1, <2>1
<1>5. found \in SUBSET Nat /\ \A i \in found : i < next /\ i \in DOMAIN org /\ org[i].by # People
  BY OrgFacts DEF HarnessInv, HasSweepPrefix
<1>6. \A i \in DOMAIN org : org[i].kind = Head(h[t].left) /\ org[i].by # People => i \in found
  BY DEF HasSweepPrefix
<1> HIDE DEF found, rest
<1>7. /\ h' \in [Test -> H] /\ \A u \in Test : u # t => h'[u] = h[u]
      /\ h'[t].cleanups = h[t].cleanups /\ h'[t].ledger = h[t].ledger /\ h'[t].latestKey = h[t].latestKey
      /\ h'[t].stage = h[t].stage /\ h'[t].failed = h[t].failed /\ h'[t].left = rest
      /\ \/ h'[t].errs
         \/ h'[t].errs = h[t].errs /\ h'[t].victims = found
      /\ h'[t].victims = found \/ h'[t].victims = {}
  <2>1. CASE h' = [h EXCEPT ![t].left = rest, ![t].victims = found]
    <3>0. h \in [Test -> H] /\ rest \in Seq(Kind) /\ found \in SUBSET Nat
      BY <1>1, <1>4, <1>5
    <3>1. h' \in [Test -> H]
      BY <3>0, <2>1 DEF H
    <3>2. /\ \A u \in Test : u # t => h'[u] = h[u]
          /\ h'[t].cleanups = h[t].cleanups /\ h'[t].ledger = h[t].ledger /\ h'[t].latestKey = h[t].latestKey
          /\ h'[t].stage = h[t].stage /\ h'[t].left = rest /\ h'[t].victims = found
      BY <1>1, <2>1 DEF H
    <3>3. h'[t].failed = h[t].failed /\ h'[t].errs = h[t].errs
      BY <1>1, <2>1 DEF H
    <3> QED
      BY <3>1, <3>2, <3>3
  <2>2. CASE h' = [h EXCEPT ![t].left = rest, ![t].errs = TRUE]
    <3>0. h \in [Test -> H] /\ rest \in Seq(Kind)
      BY <1>1, <1>4
    <3>1. h' \in [Test -> H]
      BY <3>0, <2>2 DEF H
    <3>2. /\ \A u \in Test : u # t => h'[u] = h[u]
          /\ h'[t].cleanups = h[t].cleanups /\ h'[t].ledger = h[t].ledger /\ h'[t].latestKey = h[t].latestKey
          /\ h'[t].stage = h[t].stage /\ h'[t].left = rest /\ h'[t].victims = {}
      BY <1>1, <2>2 DEF H
    <3>3. h'[t].failed = h[t].failed /\ h'[t].errs = TRUE
      BY <1>1, <2>2 DEF H
    <3> QED
      BY <3>1, <3>2, <3>3
  <2> QED
    BY <2>1, <2>2 DEF SweepList, found, rest
<1>8. OwnStep(t)
  BY <1>1, <1>2, <1>3, <1>7 DEF OwnStep, HistStep, SlotInv, At, Working
<1>9. StackInv(t)' /\ CoverInv(t)' /\ AloneInv(t)' /\ TitleInv(t)'
  BY <1>1, <1>3, <1>7, <1>8, EarlyKeeps
<1>10. VictimInv(t)'
  BY <1>1, <1>5, <1>7 DEF VictimInv
<1>11. StageInv(t)'
  BY <1>1, <1>7 DEF HarnessInv, TestInv, StageInv
<1>12. SweepInv(t)'
  <2>1. \A i \in hist[t].leftovers : i < next /\ (i \in DOMAIN org => org[i].by # People)
    BY DEF HarnessInv, TestInv, SweepInv
  <2>2. ASSUME ~h'[t].errs, NEW i \in hist[t].leftovers, i \in DOMAIN org
        PROVE  \/ i \in hist[t].missed \union found
               \/ \E m \in 1 .. Len(rest) : rest[m] = org[i].kind
    <3>1. \/ i \in hist[t].missed \union h[t].victims
          \/ \E m \in 1 .. Len(h[t].left) : h[t].left[m] = org[i].kind
      BY <1>1, <1>7, <2>2 DEF HarnessInv, TestInv, SweepInv
    <3>2. CASE \E m \in 1 .. Len(h[t].left) : h[t].left[m] = org[i].kind
      <4>1. PICK m \in 1 .. Len(h[t].left) : h[t].left[m] = org[i].kind
        BY <3>2
      <4>2. CASE m = 1
        BY <1>4, <1>6, <2>1, <2>2, <4>1, <4>2
      <4>3. CASE m # 1
        <5>1. m - 1 \in 1 .. Len(rest) /\ m - 1 + 1 = m
          BY <1>4, <4>3
        <5> QED
          BY <1>4, <4>1, <5>1
      <4> QED
        BY <4>2, <4>3
    <3> QED
      BY <1>1, <3>1, <3>2
  <2> QED
    BY <1>1, <1>3, <1>7, <2>1, <2>2 DEF SweepInv, HistStep
<1> QED
  BY <1>8, <1>9, <1>10, <1>11, <1>12, OwnStepKeeps DEF TestInv

LEMMA SweepDeleteStep == ASSUME HarnessInv, NEW t \in Test, SweepDelete(t) PROVE HarnessInv'
<1>1. /\ h[t].stage = "sweep" /\ title' = title /\ next' = next /\ mode' = mode
      /\ h \in [Test -> H] /\ hist \in [Test -> History] /\ faults \in Nat
      /\ title \in [Shared -> Nat] /\ next \in Nat
  BY DEF SweepDelete, At, HarnessInv, TypeOK
<1>2. PICK i \in h[t].victims, out \in Outcome :
        /\ Call(out)
        /\ org' = IF Done(out) THEN Without(i) ELSE org
        /\ h' = [h EXCEPT ![t].victims = @ \ {i}]
        /\ hist' = [hist EXCEPT ![t].faulted = @ \/ out # "ok",
                                ![t].missed = IF Done(out) THEN @ ELSE @ \union {i}]
  BY DEF SweepDelete
<1>3. \A j \in DOMAIN org' : j \in DOMAIN org /\ org'[j] = org[j] /\ (Done(out) => j # i)
  BY <1>2, WithoutFacts
<1>4. OrgStep(t)
  BY <1>1, <1>3 DEF OrgStep
<1>5. faults' \in Nat
  BY <1>2, CallFacts DEF HarnessInv
<1>6. /\ HistStep(t) /\ hist'[t].known = hist[t].known
      /\ hist'[t].missed = IF Done(out) THEN hist[t].missed ELSE hist[t].missed \union {i}
  <2> DEFINE f == hist[t].faulted \/ out # "ok"
             m == IF Done(out) THEN hist[t].missed ELSE hist[t].missed \union {i}
  <2>1. hist[t].missed \in SUBSET Nat /\ i \in Nat
    BY <1>1, <1>2, TypeFacts DEF History, HarnessInv
  <2>2. f \in BOOLEAN /\ m \in SUBSET Nat /\ (hist[t].faulted => f)
    BY <2>1
  <2>3. hist' = [hist EXCEPT ![t].faulted = f, ![t].missed = m]
    BY <1>1, <1>2 DEF History
  <2> HIDE DEF f, m
  <2>4. HistStep(t) /\ hist'[t].known = hist[t].known /\ hist'[t].missed = m
    BY <1>1, <2>2, <2>3, HistMissed
  <2> QED
    BY <2>4 DEF m
<1>7. /\ h' \in [Test -> H] /\ \A u \in Test : u # t => h'[u] = h[u]
      /\ h'[t].cleanups = h[t].cleanups /\ h'[t].ledger = h[t].ledger /\ h'[t].latestKey = h[t].latestKey
      /\ h'[t].stage = h[t].stage /\ h'[t].left = h[t].left /\ h'[t].victims = h[t].victims \ {i}
      /\ h'[t].failed = h[t].failed /\ h'[t].errs = h[t].errs
  <2>1. h'[t].failed = h[t].failed /\ h'[t].errs = h[t].errs
    BY <1>1, <1>2 DEF H
  <2> QED
    BY <1>1, <1>2, <2>1 DEF H
<1>8. OwnStep(t)
  BY <1>1, <1>4, <1>5, <1>6, <1>7 DEF OwnStep, HistStep, SlotInv, At, Working
<1>9. StackInv(t)' /\ CoverInv(t)' /\ AloneInv(t)' /\ TitleInv(t)'
  BY <1>1, <1>3, <1>6, <1>7, <1>8, EarlyKeeps
<1>10. VictimInv(t)'
  BY <1>7, <1>8, VictimsKeep
<1>11. StageInv(t)'
  BY <1>1, <1>7 DEF HarnessInv, TestInv, StageInv
<1>12. SweepInv(t)'
  <2>1. /\ \A j \in hist[t].leftovers : j < next /\ (j \in DOMAIN org => org[j].by # People)
        /\ ~h[t].errs => \A j \in hist[t].leftovers \intersect DOMAIN org :
             \/ j \in hist[t].missed \union h[t].victims
             \/ \E m \in 1 .. Len(h[t].left) : h[t].left[m] = org[j].kind
    BY <1>1 DEF HarnessInv, TestInv, SweepInv
  <2> QED
    BY <1>1, <1>3, <1>6, <1>7, <2>1 DEF SweepInv, HistStep
<1> QED
  BY <1>8, <1>9, <1>10, <1>11, <1>12, OwnStepKeeps DEF TestInv

LEMMA SweepDoneStep == ASSUME HarnessInv, NEW t \in Test, SweepDone(t) PROVE HarnessInv'
<1> DEFINE then == IF mode[t] = "sweepOnly" THEN "skipped" ELSE "body"
<1>1. /\ h[t].stage = "sweep" /\ h[t].victims = {} /\ h[t].left = << >>
      /\ org' = org /\ title' = title /\ next' = next /\ mode' = mode
      /\ faults' = faults /\ hist' = hist
      /\ h \in [Test -> H] /\ hist \in [Test -> History] /\ faults \in Nat
      /\ title \in [Shared -> Nat] /\ next \in Nat
  BY DEF SweepDone, At, service, HarnessInv, TypeOK
<1>2. OrgStep(t) /\ HistStep(t)
  BY <1>1 DEF OrgStep, HistStep
<1>3. /\ h' \in [Test -> H] /\ \A u \in Test : u # t => h'[u] = h[u]
      /\ h'[t].victims = h[t].victims /\ h'[t].cleanups = h[t].cleanups /\ h'[t].ledger = h[t].ledger
      /\ h[t].failed => h'[t].failed
      /\ \/ h'[t].stage = "refused" /\ h'[t].failed
         \/ ~h[t].errs /\ h'[t].stage \in {"skipped", "body"}
  <2>1. CASE h[t].errs /\ h' = [h EXCEPT ![t].stage = "refused", ![t].failed = TRUE]
    BY <1>1, <2>1, ZenonT(40) DEF H, Stage, Working
  <2>2. CASE ~h[t].errs /\ h' = [h EXCEPT ![t].stage = then]
    <3>1. then \in Stage /\ then \in {"skipped", "body"}
      BY DEF Stage, Working
    <3> HIDE DEF then
    <3>2. h' \in [Test -> H]
      BY <1>1, <2>2, <3>1 DEF H
    <3>3. h'[t].failed = h[t].failed
      BY <1>1, <2>2 DEF H
    <3> QED
      BY <1>1, <2>2, <3>1, <3>2, <3>3 DEF H
  <2> QED
    BY <2>1, <2>2 DEF SweepDone
<1>4. /\ h[t].cleanups = << >> /\ h[t].ledger = {} /\ h[t].latestKey = 0 /\ mode[t] \notin {"dry", "wrongOrg"}
  BY <1>1 DEF HarnessInv, TestInv, StageInv
<1>5. SlotInv(t)'
  <2>1. h'[t].latestKey = h[t].latestKey
    BY <1>1 DEF SweepDone, H
  <2> QED
    BY <1>1, <1>3, <1>4, <2>1 DEF SlotInv, At
<1>6. OwnStep(t)
  BY <1>1, <1>2, <1>3, <1>5 DEF OwnStep, HistStep, Working
<1>7. StackInv(t)' /\ CoverInv(t)' /\ AloneInv(t)' /\ TitleInv(t)'
  BY <1>1, <1>2, <1>3, <1>6, EarlyKeeps
<1>8. VictimInv(t)'
  BY <1>3, <1>6, VictimsKeep
<1>9. StageInv(t)'
  BY <1>1, <1>3, <1>4 DEF StageInv
<1>10. SweepInv(t)'
  <2>1. /\ \A j \in hist[t].leftovers : j < next /\ (j \in DOMAIN org => org[j].by # People)
        /\ ~h[t].errs => \A j \in hist[t].leftovers \intersect DOMAIN org : j \in hist[t].missed
    BY <1>1 DEF HarnessInv, TestInv, SweepInv
  <2> QED
    BY <1>1, <1>3, <2>1 DEF SweepInv
<1> QED
  BY <1>6, <1>7, <1>8, <1>9, <1>10, OwnStepKeeps DEF TestInv

-----------------------------------------------------------------------------
(* The body.                                                               *)

\* Cleanups for the number that is created in this step come on top: one by
\* name, and at the end one by number if it has been created.
Grown(t) ==
  /\ Len(h[t].cleanups) <= Len(h'[t].cleanups)
  /\ \A n \in 1 .. Len(h[t].cleanups) : h'[t].cleanups[n] = h[t].cleanups[n]
  /\ \A n \in 1 .. Len(h'[t].cleanups) : n > Len(h[t].cleanups) =>
       /\ h'[t].cleanups[n].op \in {"byName", "delete"}
       /\ h'[t].cleanups[n].arg = next /\ next' = next + 1
       /\ h'[t].cleanups[n].op = "delete" =>
            /\ n = Len(h'[t].cleanups)
            /\ next \in DOMAIN org' /\ org'[next].by = t /\ org'[next].kind = h'[t].cleanups[n].kind

LEMMA BodyGrows ==
  ASSUME HarnessInv, NEW t \in Test, OwnStep(t), HistStep(t), h[t].stage = "body", mode[t] # "dry",
         h'[t].stage = "body" \/ h'[t].stage = "end",
         h'[t].victims = h[t].victims, h'[t].ledger = h[t].ledger, h[t].failed => h'[t].failed,
         Grown(t), title' = title, hist'[t].missed = hist[t].missed,
         \A i \in DOMAIN org : i \in DOMAIN org' /\ org'[i] = org[i],
         \/ next \notin DOMAIN org' /\ hist'[t].known = hist[t].known
         \/ h'[t].failed /\ hist'[t].known = hist[t].known
         \/ /\ Len(h'[t].cleanups) > Len(h[t].cleanups)
            /\ h'[t].cleanups[Len(h'[t].cleanups)].op = "delete"
            /\ hist'[t].known = hist[t].known \union {next}
  PROVE  TestInv(t)'
<1> DEFINE c == h[t].cleanups
           d == h'[t].cleanups
<1>1. /\ next \in Nat /\ next' \in {next, next + 1} /\ next \notin DOMAIN org
      /\ Len(c) \in Nat /\ Len(d) \in Nat /\ \A n \in 1 .. Len(c) : n \in 1 .. Len(d) /\ c[n].arg \in Nat
  BY OrgFacts, TypeFacts DEF HarnessInv, OwnStep, OrgStep, H, Grown
<1>2. ASSUME NEW n \in 1 .. Len(d), ~(n \in 1 .. Len(c))
      PROVE  /\ n > Len(c)
             /\ d[n].op \in {"byName", "delete"} /\ d[n].arg = next /\ next' = next + 1
             /\ d[n].op = "delete" =>
                  n = Len(d) /\ next \in DOMAIN org' /\ org'[next].by = t /\ org'[next].kind = d[n].kind
  BY <1>1, <1>2 DEF Grown
<1>3. \A n \in 1 .. Len(c) : d[n] = c[n]
  BY DEF Grown
<1>4. \A n \in 1 .. Len(c) :
        /\ c[n].op \in {"delete", "byName"} =>
             c[n].arg < next /\ \A m \in 1 .. n - 1 : c[m].op = "delete" => c[m].arg # c[n].arg
        /\ c[n].op = "delete" /\ c[n].arg \in DOMAIN org =>
             org[c[n].arg].by = t /\ org[c[n].arg].kind = c[n].kind
  BY DEF HarnessInv, TestInv, StackInv
<1>5. \A i \in DOMAIN org' : i # next => i \in DOMAIN org /\ org'[i] = org[i]
  BY DEF OwnStep, OrgStep
<1> HIDE DEF c, d
<1>6. ASSUME NEW n \in 1 .. Len(d)
      PROVE  /\ d[n].op \in {"delete", "byName"} =>
                  d[n].arg < next' /\ \A m \in 1 .. n - 1 : d[m].op = "delete" => d[m].arg # d[n].arg
             /\ d[n].op = "delete" /\ d[n].arg \in DOMAIN org' =>
                  org'[d[n].arg].by = t /\ org'[d[n].arg].kind = d[n].kind
  <2>1. CASE n \in 1 .. Len(c)
    <3>1. \A m \in 1 .. n - 1 : m \in 1 .. Len(c) /\ d[m] = c[m]
      BY <1>1, <1>3, <2>1
    <3>2. d[n] = c[n] /\ c[n].arg \in Nat
      BY <1>1, <1>3, <2>1
    <3>3. d[n].op \in {"delete", "byName"} =>
             d[n].arg < next /\ \A m \in 1 .. n - 1 : d[m].op = "delete" => d[m].arg # d[n].arg
      BY <1>4, <2>1, <3>1, <3>2
    <3>4. d[n].op = "delete" /\ d[n].arg \in DOMAIN org' =>
             org'[d[n].arg].by = t /\ org'[d[n].arg].kind = d[n].kind
      BY <1>1, <1>4, <1>5, <2>1, <3>2, <3>3
    <3> QED
      BY <1>1, <3>2, <3>3, <3>4
  <2>2. CASE ~(n \in 1 .. Len(c))
    <3>1. /\ n > Len(c)
          /\ d[n].op \in {"byName", "delete"} /\ d[n].arg = next /\ next' = next + 1
          /\ d[n].op = "delete" =>
                  n = Len(d) /\ next \in DOMAIN org' /\ org'[next].by = t /\ org'[next].kind = d[n].kind
      BY <1>2, <2>2
    <3>2. ASSUME NEW m \in 1 .. n - 1, d[m].op = "delete" PROVE d[m].arg # next
      <4>1. m \in 1 .. Len(d) /\ m # Len(d)
        BY <1>1, <3>2
      <4>2. m \in 1 .. Len(c)
        BY <1>2, <3>2, <4>1
      <4> QED
        BY <1>1, <1>3, <1>4, <3>2, <4>2
    <3> QED
      BY <1>1, <3>1, <3>2
  <2> QED
    BY <2>1, <2>2
<1>7. StackInv(t)'
  BY <1>6 DEF StackInv, d
<1>8. VictimInv(t)'
  BY VictimsKeep
<1>9. SweepInv(t)'
  BY SweptKeeps DEF HistStep
<1>10. StageInv(t)'
  BY DEF StageInv, HarnessInv, TestInv, OwnStep
<1>11. CoverInv(t)'
  <2>1. \A i : Covered(t, i) => Covered(t, i)'
    <3> SUFFICES ASSUME NEW i, NEW n \in 1 .. Len(c), c[n].op = "delete", c[n].arg = i
                 PROVE  \E m \in 1 .. Len(d) : d[m].op = "delete" /\ d[m].arg = i
      BY DEF Covered, c, d
    <3> QED
      BY <1>1, <1>3
  <2>2. ASSUME NEW i \in DOMAIN org', i = next
        PROVE  Covered(t, i)' \/ (h'[t].failed /\ next \notin hist'[t].known)
    <3>1. next \notin hist[t].known
      BY <1>1 DEF HarnessInv, TestInv, CoverInv
    <3>2. CASE Len(d) > Len(c) /\ d[Len(d)].op = "delete"
      <4>1. Len(d) \in 1 .. Len(d) /\ ~(Len(d) \in 1 .. Len(c))
        BY <1>1, <3>2
      <4>2. d[Len(d)].arg = next
        BY <1>2, <4>1
      <4> QED
        BY <2>2, <3>2, <4>1, <4>2 DEF Covered, d
    <3> QED
      BY <2>2, <3>1, <3>2 DEF c, d
  <2>3. hist'[t].known \subseteq hist[t].known \union {next}
    OBVIOUS
  <2>4. next \in hist'[t].known => next' = next + 1
    <3>1. next \notin hist[t].known
      BY <1>1 DEF HarnessInv, TestInv, CoverInv
    <3>2. CASE Len(d) > Len(c) /\ d[Len(d)].op = "delete"
      <4>1. Len(d) \in 1 .. Len(d) /\ ~(Len(d) \in 1 .. Len(c))
        BY <1>1, <3>2
      <4> QED
        BY <1>2, <4>1
    <3> QED
      BY <3>1, <3>2 DEF c, d
  <2> QED
    BY <2>1, <2>2, <2>3, <2>4, CoverKeeps
<1>12. AloneInv(t)'
  <2>1. h[t].victims = {} /\ h[t].ledger = {}
    BY DEF HarnessInv, TestInv, StageInv
  <2>2. ASSUME Alone(t), ~hist'[t].faulted, NEW n \in 1 .. Len(d), d[n].op = "delete", d[n].kind # "key"
        PROVE  d[n].arg \in DOMAIN org'
    <3>1. CASE n \in 1 .. Len(c)
      <4>1. d[n] = c[n]
        BY <1>3, <3>1
      <4>2. c[n].arg \in DOMAIN org
        BY <2>2, <3>1, <4>1 DEF HarnessInv, TestInv, AloneInv, HistStep, c
      <4> QED
        BY <4>1, <4>2
    <3> QED
      BY <1>2, <2>2, <3>1
  <2> QED
    BY <2>1, <2>2, AloneKeeps DEF HistStep, d
<1>13. TitleInv(t)'
  <2>1. ASSUME NEW n \in 1 .. Len(d), d[n].op = "restore" PROVE n \in 1 .. Len(c) /\ d[n] = c[n]
    <3>1. n \in 1 .. Len(c)
      BY <1>2, <2>1
    <3> QED
      BY <1>3, <3>1
  <2>2. \A k \in Shared, n \in Nat :
           n \in 1 .. Len(d) /\ Restores(t, n, k)' <=> n \in 1 .. Len(c) /\ Restores(t, n, k)
    BY <1>1, <1>3, <2>1 DEF Restores, c, d
  <2> QED
    BY <2>1, <2>2, TitlesKeep DEF HistStep, c, d
<1> QED
  BY <1>7, <1>8, <1>9, <1>10, <1>11, <1>12, <1>13 DEF TestInv

LEMMA CreateFacts ==
  ASSUME HarnessInv, NEW t \in Test, NEW k \in ByHelper \union ByCLI, NEW out \in Outcome, next' = next + 1,
         org' = IF Done(out) THEN With(next, [kind |-> k, by |-> t, suffix |-> next]) ELSE org
  PROVE  /\ OrgStep(t) /\ k \in Kind
         /\ \A i \in DOMAIN org : i \in DOMAIN org' /\ org'[i] = org[i]
         /\ out = "ok" => next \in DOMAIN org' /\ org'[next].by = t /\ org'[next].kind = k
<1> DEFINE r == [kind |-> k, by |-> t, suffix |-> next]
<1>1. next \in Nat /\ next \notin DOMAIN org
  BY OrgFacts DEF HarnessInv
<1>2. k \in Kind /\ \E m \in DOMAIN SweepOrder : SweepOrder[m] = k
  BY HarnessAssumption
<1>3. r \in Resource /\ r.by = t /\ r.kind = k /\ r.suffix = next
  BY <1>1, <1>2 DEF Resource
<1> HIDE DEF r
<1>4. CASE Done(out)
  <2>1. /\ DOMAIN org' = DOMAIN org \union {next}
        /\ org'[next] = r
        /\ \A j \in DOMAIN org \ {next} : org'[j] = org[j]
    <3>1. org' = With(next, r)
      BY <1>4 DEF r
    <3>2. /\ DOMAIN With(next, r) = DOMAIN org \union {next}
          /\ With(next, r)[next] = r
          /\ \A j \in DOMAIN org \ {next} : With(next, r)[j] = org[j]
      BY WithFacts, ZenonT(40)
    <3> QED
      BY <3>1, <3>2
  <2>2. \A i \in DOMAIN org : i # next
    BY <1>1
  <2>3. \A i \in DOMAIN org : i \in DOMAIN org' /\ org'[i] = org[i]
    BY <2>1, <2>2
  <2>4. next \in DOMAIN org' /\ org'[next].by = t /\ org'[next].kind = k
    BY <1>3, <2>1
  <2>5. ASSUME NEW i \in DOMAIN org', i \notin DOMAIN org
        PROVE  /\ i = next /\ next' = next + 1
               /\ org'[i] \in Resource /\ org'[i].by = t
               /\ \E m \in DOMAIN SweepOrder : SweepOrder[m] = org'[i].kind
               /\ org'[i].kind # "key" => org'[i].suffix = i
    <3>1. i = next /\ org'[i] = r
      BY <2>1, <2>5
    <3> QED
      BY <1>2, <1>3, <3>1
  <2>6. OrgStep(t)
    BY <1>1, <2>3, <2>5 DEF OrgStep
  <2> QED
    BY <1>2, <2>3, <2>4, <2>6
<1>5. CASE ~Done(out)
  BY <1>2, <1>5 DEF OrgStep, Done
<1> QED
  BY <1>4, <1>5

\* A call of the body fails, and the test with it.
LEMMA GivesUp ==
  ASSUME h \in [Test -> H], NEW t \in Test, h' = [h EXCEPT ![t].stage = "end", ![t].failed = TRUE]
  PROVE  /\ h' \in [Test -> H] /\ \A u \in Test : u # t => h'[u] = h[u]
         /\ h'[t].stage = "end" /\ h'[t].cleanups = h[t].cleanups /\ h'[t].failed
         /\ h'[t].victims = h[t].victims /\ h'[t].ledger = h[t].ledger
<1>1. "end" \in Stage
  BY DEF Stage, Working
<1>2. h' \in [Test -> H]
  BY <1>1 DEF H
<1>3. /\ \A u \in Test : u # t => h'[u] = h[u]
      /\ h'[t].stage = "end" /\ h'[t].cleanups = h[t].cleanups
      /\ h'[t].victims = h[t].victims /\ h'[t].ledger = h[t].ledger
  BY DEF H
<1>4. h'[t].failed = TRUE
  BY DEF H
<1> QED
  BY <1>2, <1>3, <1>4

LEMMA CreateHelperStep ==
  ASSUME HarnessInv, NEW t \in Test, NEW k \in ByHelper, CreateHelper(t, k)
  PROVE  HarnessInv'
<1> DEFINE c == h[t].cleanups
           s == Append(c, Delete(k, next))
<1>1. /\ h[t].stage = "body" /\ mode[t] # "dry"
      /\ title' = title /\ mode' = mode /\ next' = next + 1
      /\ h \in [Test -> H] /\ hist \in [Test -> History] /\ title \in [Shared -> Nat] /\ next \in Nat
  BY DEF CreateHelper, Registers, InBody, At, HarnessInv, TypeOK
<1>2. PICK out \in Outcome :
        /\ Call(out)
        /\ org' = IF Done(out) THEN With(next, [kind |-> k, by |-> t, suffix |-> next]) ELSE org
        /\ IF out = "ok"
           THEN h' = [h EXCEPT ![t].cleanups = s, ![t].latestKey = Slot(s, k, @)]
           ELSE h' = [h EXCEPT ![t].stage = "end", ![t].failed = TRUE]
        /\ hist' = [hist EXCEPT ![t].faulted = @ \/ out # "ok",
                                ![t].known = IF out = "ok" THEN @ \union {next} ELSE @]
  BY DEF CreateHelper
<1>3. /\ OrgStep(t) /\ k \in Kind
      /\ \A i \in DOMAIN org : i \in DOMAIN org' /\ org'[i] = org[i]
      /\ out = "ok" => next \in DOMAIN org' /\ org'[next].by = t /\ org'[next].kind = k
  BY <1>1, <1>2, CreateFacts
<1>4. faults' \in Nat
  BY <1>2, CallFacts DEF HarnessInv
<1>5. /\ HistStep(t) /\ hist'[t].missed = hist[t].missed
      /\ hist'[t].known = IF out = "ok" THEN hist[t].known \union {next} ELSE hist[t].known
  <2> DEFINE f == hist[t].faulted \/ out # "ok"
             m == IF out = "ok" THEN hist[t].known \union {next} ELSE hist[t].known
  <2>1. hist[t].known \in SUBSET Nat
    BY <1>1 DEF History
  <2>2. f \in BOOLEAN /\ m \in SUBSET Nat /\ (hist[t].faulted => f)
    BY <1>1, <2>1
  <2>3. hist' = [hist EXCEPT ![t].faulted = f, ![t].known = m]
    BY <1>1, <1>2 DEF History
  <2> HIDE DEF f, m
  <2>4. HistStep(t) /\ hist'[t].missed = hist[t].missed /\ hist'[t].known = m
    BY <1>1, <2>2, <2>3, HistKnown
  <2> QED
    BY <2>4 DEF m
<1>6. /\ c \in Seq(Cleanup) /\ Len(c) \in Nat
      /\ \A n \in 1 .. Len(c) : c[n] \in Cleanup
      /\ SlotInv(t) /\ h[t].latestKey \in Nat
  BY TypeFacts DEF HarnessInv
<1>7. /\ s \in Seq(Cleanup) /\ Len(s) = Len(c) + 1 /\ \A n \in 1 .. Len(c) : s[n] = c[n]
      /\ s[Len(c) + 1].op = "delete" /\ s[Len(c) + 1].kind = k /\ s[Len(c) + 1].arg = next
  <2> DEFINE e == Delete(k, next)
  <2>1. e \in Cleanup /\ e.op = "delete" /\ e.kind = k /\ e.arg = next
    BY <1>1, <1>3 DEF Delete, Cleanup
  <2> HIDE DEF e
  <2>2. /\ Append(c, e) \in Seq(Cleanup) /\ Len(Append(c, e)) = Len(c) + 1
        /\ \A n \in 1 .. Len(c) : Append(c, e)[n] = c[n]
        /\ Append(c, e)[Len(c) + 1] = e
    BY <1>6, <2>1
  <2> QED
    BY <2>1, <2>2 DEF e
<1> HIDE DEF s
<1>8. CASE out = "ok"
  <2> DEFINE l == Slot(s, k, h[t].latestKey)
  <2>1. l \in Nat /\ ((l = Len(s) /\ k = "key") \/ l = h[t].latestKey)
    BY <1>6, <1>7 DEF Slot
  <2>2. h' = [h EXCEPT ![t].cleanups = s, ![t].latestKey = l]
    BY <1>1, <1>2, <1>8 DEF H
  <2> HIDE DEF l
  <2>3. h' \in [Test -> H]
    <3>1. h \in [Test -> H] /\ s \in Seq(Cleanup) /\ l \in Nat
      BY <1>1, <1>7, <2>1
    <3> QED
      BY <2>2, <3>1 DEF H
  <2>4. /\ \A u \in Test : u # t => h'[u] = h[u]
        /\ h'[t].stage = h[t].stage /\ h'[t].cleanups = s /\ h'[t].latestKey = l
        /\ h'[t].victims = h[t].victims /\ h'[t].ledger = h[t].ledger
    BY <1>1, <2>2 DEF H
  <2>5. h'[t].failed = h[t].failed
    BY <1>1, <2>2 DEF H
  <2>6. SlotInv(t)'
    <3>1. CASE l = Len(s) /\ k = "key"
      BY <1>6, <1>7, <2>4, <3>1 DEF SlotInv
    <3>2. CASE l = h[t].latestKey
      <4> SUFFICES ASSUME h[t].latestKey > 0
                   PROVE  l <= Len(s) /\ s[l].op = "delete" /\ s[l].kind = "key"
        BY <2>4, <3>2 DEF SlotInv
      <4>1. l <= Len(c) /\ c[l].op = "delete" /\ c[l].kind = "key"
        BY <1>1, <1>6, <3>2 DEF SlotInv, At
      <4> QED
        BY <1>6, <1>7, <3>2, <4>1
    <3> QED
      BY <2>1, <3>1, <3>2
  <2>7. OwnStep(t)
    BY <1>1, <1>3, <1>4, <1>5, <2>3, <2>4, <2>6 DEF OwnStep, HistStep, Working
  <2>8. Grown(t)
    BY <1>1, <1>3, <1>6, <1>7, <1>8, <2>4 DEF Grown
  <2>9. /\ Len(h'[t].cleanups) > Len(h[t].cleanups)
        /\ h'[t].cleanups[Len(h'[t].cleanups)].op = "delete"
        /\ hist'[t].known = hist[t].known \union {next}
    BY <1>5, <1>6, <1>7, <1>8, <2>4
  <2>10. TestInv(t)'
    BY <1>1, <1>3, <1>5, <2>4, <2>5, <2>7, <2>8, <2>9, BodyGrows
  <2> QED
    BY <2>7, <2>10, OwnStepKeeps
<1>9. CASE out # "ok"
  <2>1. /\ h' \in [Test -> H] /\ \A u \in Test : u # t => h'[u] = h[u]
        /\ h'[t].stage = "end" /\ h'[t].cleanups = c /\ h'[t].failed
        /\ h'[t].victims = h[t].victims /\ h'[t].ledger = h[t].ledger
    BY <1>1, <1>2, <1>9, GivesUp
  <2>2. OwnStep(t)
    BY <1>1, <1>3, <1>4, <1>5, <2>1 DEF OwnStep, HistStep, Working, SlotInv, At
  <2>3. Grown(t)
    BY <1>6, <2>1 DEF Grown
  <2>4. TestInv(t)'
    BY <1>1, <1>3, <1>5, <1>9, <2>1, <2>2, <2>3, BodyGrows
  <2> QED
    BY <2>2, <2>4, OwnStepKeeps
<1> QED
  BY <1>8, <1>9

LEMMA AppendToOne == ASSUME NEW x, NEW y PROVE Append(<<x>>, y) = <<x, y>>
<1> DEFINE s == Append(<<x>>, y)
           r == <<x, y>>
<1>1. <<x>> \in Seq({x, y}) /\ Len(<<x>>) = 1 /\ <<x>>[1] = x
  OBVIOUS
<1>2. s \in Seq({x, y}) /\ Len(s) = 2 /\ s[1] = x /\ s[2] = y
  BY <1>1, AppendProperties
<1>3. r \in Seq({x, y}) /\ Len(r) = 2 /\ r[1] = x /\ r[2] = y
  OBVIOUS
<1> HIDE DEF s, r
<1>4. Len(s) = Len(r) /\ \A i \in 1 .. Len(s) : s[i] = r[i]
  BY <1>2, <1>3
<1>5. s = r
  BY <1>2, <1>3, <1>4, SeqEqual
<1> QED
  BY <1>5 DEF s, r

LEMMA CreateByCLIStep ==
  ASSUME HarnessInv, NEW t \in Test, NEW k \in ByCLI, CreateByCLI(t, k)
  PROVE  HarnessInv'
<1> DEFINE c   == h[t].cleanups
           net == IF k = "chat" THEN << >> ELSE <<ByName(k, next)>>
<1>1. /\ h[t].stage = "body" /\ mode[t] # "dry"
      /\ title' = title /\ mode' = mode /\ next' = next + 1
      /\ h \in [Test -> H] /\ hist \in [Test -> History] /\ title \in [Shared -> Nat] /\ next \in Nat
  BY DEF CreateByCLI, Registers, InBody, At, HarnessInv, TypeOK
<1>2. PICK out \in Outcome, found \in BOOLEAN :
        /\ Call(out) /\ (found => out = "ok")
        /\ org' = IF Done(out) THEN With(next, [kind |-> k, by |-> t, suffix |-> next]) ELSE org
        /\ IF found
           THEN h' = [h EXCEPT ![t].cleanups = @ \o Append(net, Delete(k, next))]
           ELSE h' = [h EXCEPT ![t].cleanups = @ \o net, ![t].stage = "end", ![t].failed = TRUE]
        /\ hist' = [hist EXCEPT ![t].faulted = @ \/ out # "ok",
                                ![t].known = IF found THEN @ \union {next} ELSE @]
  BY DEF CreateByCLI
<1>3. /\ OrgStep(t) /\ k \in Kind
      /\ \A i \in DOMAIN org : i \in DOMAIN org' /\ org'[i] = org[i]
      /\ out = "ok" => next \in DOMAIN org' /\ org'[next].by = t /\ org'[next].kind = k
  BY <1>1, <1>2, CreateFacts
<1>4. faults' \in Nat
  BY <1>2, CallFacts DEF HarnessInv
<1>5. /\ HistStep(t) /\ hist'[t].missed = hist[t].missed
      /\ hist'[t].known = IF found THEN hist[t].known \union {next} ELSE hist[t].known
  <2> DEFINE f == hist[t].faulted \/ out # "ok"
             m == IF found THEN hist[t].known \union {next} ELSE hist[t].known
  <2>1. hist[t].known \in SUBSET Nat
    BY <1>1 DEF History
  <2>2. f \in BOOLEAN /\ m \in SUBSET Nat /\ (hist[t].faulted => f)
    BY <1>1, <2>1
  <2>3. hist' = [hist EXCEPT ![t].faulted = f, ![t].known = m]
    BY <1>1, <1>2 DEF History
  <2> HIDE DEF f, m
  <2>4. HistStep(t) /\ hist'[t].missed = hist[t].missed /\ hist'[t].known = m
    BY <1>1, <2>2, <2>3, HistKnown
  <2> QED
    BY <2>4 DEF m
<1>6. /\ c \in Seq(Cleanup) /\ Len(c) \in Nat
      /\ SlotInv(t) /\ h[t].latestKey \in Nat
  BY TypeFacts DEF HarnessInv
\* The cleanups that are added.
<1> DEFINE added == IF found THEN Append(net, Delete(k, next)) ELSE net
           s     == c \o added
<1>7. /\ added \in Seq(Cleanup) /\ Len(added) \in Nat
      /\ \A n \in 1 .. Len(added) :
           /\ added[n].op \in {"byName", "delete"} /\ added[n].kind = k /\ added[n].arg = next
           /\ added[n].op = "delete" => n = Len(added) /\ found
      /\ found => Len(added) > 0 /\ added[Len(added)].op = "delete"
  <2> DEFINE e == Delete(k, next)
             b == ByName(k, next)
  <2>1. /\ e \in Cleanup /\ e.op = "delete" /\ e.kind = k /\ e.arg = next
        /\ b \in Cleanup /\ b.op = "byName" /\ b.kind = k /\ b.arg = next
    BY <1>1, <1>3 DEF Delete, ByName, Cleanup
  <2>2. /\ added \in {<< >>, <<b>>, <<e>>, <<b, e>>}
        /\ found => added \in {<<e>>, <<b, e>>}
        /\ ~found => added \in {<< >>, <<b>>}
    <3>1. net = << >> \/ net = <<b>>
      BY DEF net, b
    <3>2. added = IF found THEN Append(net, e) ELSE net
      BY DEF added, e
    <3> HIDE DEF e, b, net, added
    <3>3. Append(<< >>, e) = <<e>> /\ Append(<<b>>, e) = <<b, e>>
      BY AppendToOne
    <3> QED
      BY <3>1, <3>2, <3>3
  <2> HIDE DEF e, b, added
  <2>3. CASE added = << >>
    BY <2>2, <2>3
  <2>4. CASE added = <<b>>
    BY <2>1, <2>2, <2>4
  <2>5. CASE added = <<e>>
    BY <2>1, <2>2, <2>5
  <2>6. CASE added = <<b, e>>
    BY <2>1, <2>2, <2>6
  <2> QED
    BY <2>2, <2>3, <2>4, <2>5, <2>6
<1> HIDE DEF added, c
<1>8. /\ s \in Seq(Cleanup) /\ Len(s) = Len(c) + Len(added)
      /\ \A n \in 1 .. Len(c) : s[n] = c[n]
      /\ \A n \in 1 .. Len(s) : n > Len(c) => n - Len(c) \in 1 .. Len(added) /\ s[n] = added[n - Len(c)]
  <2>1. /\ s \in Seq(Cleanup) /\ Len(s) = Len(c) + Len(added)
        /\ \A n \in 1 .. Len(c) + Len(added) : s[n] = IF n <= Len(c) THEN c[n] ELSE added[n - Len(c)]
    BY <1>6, <1>7, ConcatProperties
  <2> HIDE DEF s
  <2>2. \A n \in 1 .. Len(c) : s[n] = c[n]
    BY <1>6, <1>7, <2>1
  <2>3. ASSUME NEW n \in 1 .. Len(s), n > Len(c)
        PROVE  n - Len(c) \in 1 .. Len(added) /\ s[n] = added[n - Len(c)]
    BY <1>6, <1>7, <2>1, <2>3
  <2> QED
    BY <2>1, <2>2, <2>3
<1>9. ASSUME NEW n \in 1 .. Len(s), n > Len(c)
      PROVE  /\ s[n].op \in {"byName", "delete"} /\ s[n].arg = next
             /\ s[n].op = "delete" =>
                  n = Len(s) /\ next \in DOMAIN org' /\ org'[next].by = t /\ org'[next].kind = s[n].kind
  <2>1. n - Len(c) \in 1 .. Len(added) /\ s[n] = added[n - Len(c)]
    BY <1>8, <1>9
  <2>2. n - Len(c) = Len(added) => n = Len(s)
    BY <1>6, <1>7, <1>8
  <2> HIDE DEF s
  <2> QED
    BY <1>2, <1>3, <1>7, <2>1, <2>2
<1>10. s = IF found THEN c \o Append(net, Delete(k, next)) ELSE c \o net
  BY DEF added
<1>11. found => Len(s) > Len(c) /\ s[Len(s)].op = "delete"
  <2> SUFFICES ASSUME found PROVE Len(s) > Len(c) /\ s[Len(s)].op = "delete"
    OBVIOUS
  <2>1. Len(added) > 0 /\ added[Len(added)].op = "delete"
    BY <1>7
  <2>2. Len(s) > Len(c) /\ Len(s) \in 1 .. Len(s) /\ Len(s) - Len(c) = Len(added)
    BY <1>6, <1>7, <1>8, <2>1
  <2> HIDE DEF s
  <2> QED
    BY <1>8, <2>1, <2>2
<1> HIDE DEF s
<1>12. /\ h' \in [Test -> H] /\ \A u \in Test : u # t => h'[u] = h[u]
       /\ h'[t].cleanups = s /\ h'[t].latestKey = h[t].latestKey
       /\ h'[t].victims = h[t].victims /\ h'[t].ledger = h[t].ledger
       /\ h[t].failed => h'[t].failed
       /\ h'[t].stage = IF found THEN "body" ELSE "end"
       /\ ~found => h'[t].failed
  <2>1. h \in [Test -> H] /\ s \in Seq(Cleanup) /\ "end" \in Stage
    BY <1>1, <1>8 DEF Stage, Working
  <2>2. CASE found
    <3>1. h' = [h EXCEPT ![t].cleanups = s]
      BY <1>2, <1>10, <2>1, <2>2 DEF c
    <3>2. h' \in [Test -> H]
      BY <2>1, <3>1 DEF H
    <3>3. h'[t].failed = h[t].failed
      BY <2>1, <3>1 DEF H
    <3> QED
      BY <1>1, <2>1, <2>2, <3>1, <3>2, <3>3 DEF H
  <2>3. CASE ~found
    <3>1. h' = [h EXCEPT ![t].cleanups = s, ![t].stage = "end", ![t].failed = TRUE]
      BY <1>2, <1>10, <2>1, <2>3 DEF c
    <3>2. h' \in [Test -> H]
      BY <2>1, <3>1, ZenonT(40) DEF H
    <3>3. h'[t].failed = TRUE
      BY <2>1, <3>1 DEF H
    <3> QED
      BY <1>1, <2>1, <2>3, <3>1, <3>2, <3>3 DEF H
  <2> QED
    BY <2>2, <2>3
<1>13. SlotInv(t)'
  <2> SUFFICES ASSUME found, h[t].latestKey > 0
               PROVE  /\ h[t].latestKey <= Len(s)
                      /\ s[h[t].latestKey].op = "delete" /\ s[h[t].latestKey].kind = "key"
    BY <1>12 DEF SlotInv, At
  <2>1. /\ h[t].latestKey <= Len(c)
        /\ c[h[t].latestKey].op = "delete" /\ c[h[t].latestKey].kind = "key"
    BY <1>1, <1>6 DEF SlotInv, At, c
  <2> QED
    BY <1>6, <1>7, <1>8, <2>1
<1>14. OwnStep(t)
  BY <1>1, <1>3, <1>4, <1>5, <1>12, <1>13 DEF OwnStep, HistStep, Working
<1>15. Grown(t)
  BY <1>1, <1>6, <1>7, <1>8, <1>9, <1>12 DEF Grown, c
<1>16. TestInv(t)'
  BY <1>1, <1>3, <1>5, <1>11, <1>12, <1>14, <1>15, BodyGrows DEF c
<1> QED
  BY <1>14, <1>16, OwnStepKeeps

LEMMA FailsKeeps ==
  ASSUME HarnessInv, NEW t \in Test, OwnStep(t), HistStep(t), h[t].stage = "body", mode[t] # "dry",
         h'[t].stage = "end", h'[t].cleanups = h[t].cleanups, h'[t].failed, hist'[t].faulted,
         h'[t].victims = h[t].victims, h'[t].ledger = h[t].ledger,
         hist'[t].known = hist[t].known, hist'[t].missed = hist[t].missed
  PROVE  TestInv(t)'
<1>1. Len(h[t].cleanups) \in Nat
  BY TypeFacts DEF HarnessInv
<1>2. StackInv(t)'
  BY <1>1, StackKeeps DEF StackShrinks
<1>3. VictimInv(t)'
  BY VictimsKeep
<1>4. SweepInv(t)'
  BY SweptKeeps DEF HistStep
<1>5. StageInv(t)'
  BY DEF HarnessInv, TestInv, StageInv, OwnStep
<1>6. CoverInv(t)'
  <2>1. \A i : Covered(t, i) <=> Covered(t, i)'
    BY DEF Covered
  <2>2. next \notin hist[t].known
    BY OrgFacts DEF HarnessInv, TestInv, CoverInv
  <2> QED
    BY <2>1, <2>2, CoverKeeps
<1>7. AloneInv(t)'
  BY AloneKeeps DEF HistStep
<1>8. TitleInv(t)'
  BY DEF TitleInv
<1> QED
  BY <1>2, <1>3, <1>4, <1>5, <1>6, <1>7, <1>8 DEF TestInv

LEMMA RotateKeyStep == ASSUME HarnessInv, NEW t \in Test, RotateKey(t) PROVE HarnessInv'
<1> DEFINE c   == h[t].cleanups
           l   == h[t].latestKey
           key == c[l].arg
           d   == Redirect(c, l, next)
<1>1. /\ h[t].stage = "body" /\ mode[t] # "dry" /\ l > 0
      /\ title' = title /\ mode' = mode /\ next' = next + 1
      /\ h \in [Test -> H] /\ hist \in [Test -> History] /\ title \in [Shared -> Nat] /\ next \in Nat
      /\ faults \in Nat
  BY DEF RotateKey, InBody, At, HarnessInv, TypeOK
<1>2. PICK out \in Outcome :
        /\ IF key \in DOMAIN org THEN Call(out) ELSE out = "refused" /\ UNCHANGED faults
        /\ org' = IF Done(out)
                  THEN [j \in (DOMAIN org \ {key}) \union {next} |->
                          IF j = next THEN org[key] ELSE org[j]]
                  ELSE org
        /\ IF out = "ok"
           THEN h' = [h EXCEPT ![t].cleanups = Redirect(@, h[t].latestKey, next)]
           ELSE h' = [h EXCEPT ![t].stage = "end", ![t].failed = TRUE]
        /\ hist' = [hist EXCEPT ![t].faulted = @ \/ out # "ok",
                                ![t].known = IF out = "ok" THEN @ \union {next} ELSE @]
  BY DEF RotateKey
<1>3. faults' \in Nat
  BY <1>1, <1>2, CallFacts DEF HarnessInv
<1>4. /\ HistStep(t) /\ hist'[t].missed = hist[t].missed /\ (out # "ok" => hist'[t].faulted)
      /\ hist'[t].known = IF out = "ok" THEN hist[t].known \union {next} ELSE hist[t].known
  <2> DEFINE f == hist[t].faulted \/ out # "ok"
             m == IF out = "ok" THEN hist[t].known \union {next} ELSE hist[t].known
  <2>1. hist[t].known \in SUBSET Nat
    BY <1>1 DEF History
  <2>2. f \in BOOLEAN /\ m \in SUBSET Nat /\ (hist[t].faulted => f)
    BY <1>1, <2>1
  <2>3. hist' = [hist EXCEPT ![t].faulted = f, ![t].known = m]
    BY <1>1, <1>2 DEF History
  <2> HIDE DEF m
  <2>4. (out # "ok" => f)
    OBVIOUS
  <2> HIDE DEF f
  <2>5. HistStep(t) /\ hist'[t].missed = hist[t].missed /\ hist'[t].known = m /\ (hist'[t].faulted <=> f)
    BY <1>1, <2>2, <2>3, HistKnown
  <2> QED
    BY <2>4, <2>5 DEF m
<1>5. /\ c \in Seq(Cleanup) /\ Len(c) \in Nat /\ l \in 1 .. Len(c)
      /\ c[l].op = "delete" /\ c[l].kind = "key"
      /\ \A n \in 1 .. Len(c) : c[n] \in Cleanup /\ c[n].arg \in Nat
  BY <1>1, TypeFacts DEF HarnessInv, SlotInv, At
<1>6. /\ next \notin DOMAIN org /\ next \notin hist[t].known
      /\ \A i \in DOMAIN org : i # next
      /\ h[t].ledger = {} /\ h[t].victims = {}
  BY <1>1, OrgFacts DEF HarnessInv, TestInv, CoverInv, StageInv
\* The cleanups before the rotation.
<1>7. \A n \in 1 .. Len(c) :
        /\ c[n].op \in {"delete", "byName"} =>
             c[n].arg < next /\ \A m \in 1 .. n - 1 : c[m].op = "delete" => c[m].arg # c[n].arg
        /\ c[n].op = "delete" /\ c[n].arg \in DOMAIN org =>
             org[c[n].arg].by = t /\ org[c[n].arg].kind = c[n].kind
  BY DEF HarnessInv, TestInv, StackInv
<1>8. Done(out) =>
        /\ key \in DOMAIN org /\ org[key].by = t /\ org[key].kind = "key" /\ org[key] \in Resource
        /\ \E m \in DOMAIN SweepOrder : SweepOrder[m] = org[key].kind
  <2> SUFFICES ASSUME Done(out) PROVE
        /\ key \in DOMAIN org /\ org[key].by = t /\ org[key].kind = "key" /\ org[key] \in Resource
        /\ \E m \in DOMAIN SweepOrder : SweepOrder[m] = org[key].kind
    OBVIOUS
  <2>1. key \in DOMAIN org
    BY <1>2 DEF Done
  <2>2. org[key].by = t /\ org[key].kind = "key"
    BY <1>5, <1>7, <2>1
  <2> QED
    BY <2>1, <2>2, OrgFacts DEF HarnessInv, OrgInv
<1> HIDE DEF key
<1>9. /\ \A i \in DOMAIN org' : i # next => i \in DOMAIN org /\ org'[i] = org[i]
      /\ Done(out) =>
           /\ next \in DOMAIN org' /\ org'[next] = org[key]
           /\ \A i \in DOMAIN org : i # key => i \in DOMAIN org'
           /\ key \notin DOMAIN org'
      /\ ~Done(out) => org' = org
  BY <1>2, <1>6, <1>8
<1>10. OrgStep(t)
  <2>1. CASE Done(out)
    BY <1>1, <1>8, <1>9, <2>1 DEF OrgStep
  <2>2. CASE ~Done(out)
    BY <1>1, <1>9, <2>2 DEF OrgStep
  <2> QED
    BY <2>1, <2>2
<1>11. CASE out # "ok"
  <2>1. /\ h' \in [Test -> H] /\ \A u \in Test : u # t => h'[u] = h[u]
        /\ h'[t].stage = "end" /\ h'[t].cleanups = c /\ h'[t].failed
        /\ h'[t].victims = h[t].victims /\ h'[t].ledger = h[t].ledger
    BY <1>1, <1>2, <1>11, GivesUp
  <2>2. OwnStep(t)
    BY <1>1, <1>3, <1>4, <1>10, <2>1 DEF OwnStep, HistStep, Working, SlotInv, At
  <2>3. TestInv(t)'
    BY <1>1, <1>4, <1>9, <1>11, <2>1, <2>2, FailsKeeps
  <2> QED
    BY <2>2, <2>3, OwnStepKeeps
<1>12. CASE out = "ok"
  <2>1. Done(out)
    BY <1>12 DEF Done
  <2>2. /\ d \in Seq(Cleanup) /\ Len(d) = Len(c)
        /\ \A n \in 1 .. Len(c) :
             d[n].op = c[n].op /\ d[n].kind = c[n].kind /\ d[n].arg = IF n = l THEN next ELSE c[n].arg
    <3> DEFINE e == [c[l] EXCEPT !.arg = next]
    <3>1. e \in Cleanup /\ e.op = c[l].op /\ e.kind = c[l].kind /\ e.arg = next
      BY <1>1, <1>5 DEF Cleanup
    <3> HIDE DEF e
    <3>2. d = [c EXCEPT ![l] = e]
      BY <1>5 DEF Redirect, e
    <3> HIDE DEF d, c
    <3>3. d \in Seq(Cleanup) /\ Len(d) = Len(c) /\ \A n \in 1 .. Len(c) : d[n] = IF n = l THEN e ELSE c[n]
      BY <1>5, <3>1, <3>2
    <3> QED
      BY <3>1, <3>3
  <2> HIDE DEF d
  <2>3. /\ h' \in [Test -> H] /\ \A u \in Test : u # t => h'[u] = h[u]
        /\ h'[t].stage = h[t].stage /\ h'[t].cleanups = d /\ h'[t].latestKey = l
        /\ h'[t].victims = h[t].victims /\ h'[t].ledger = h[t].ledger
        /\ h'[t].failed = h[t].failed
    <3>1. h \in [Test -> H] /\ d \in Seq(Cleanup) /\ h' = [h EXCEPT ![t].cleanups = d]
      BY <1>1, <1>2, <1>12, <2>2 DEF d
    <3>2. h' \in [Test -> H]
      BY <3>1 DEF H
    <3>3. h'[t].failed = h[t].failed
      BY <3>1 DEF H
    <3> QED
      BY <3>1, <3>2, <3>3 DEF H
  <2> HIDE DEF c
  <2>4. SlotInv(t)'
    BY <1>5, <2>2, <2>3 DEF SlotInv
  <2>5. OwnStep(t)
    BY <1>1, <1>3, <1>4, <1>10, <2>3, <2>4 DEF OwnStep, HistStep, Working
  <2>6. StackInv(t)'
    <3> SUFFICES ASSUME NEW n \in 1 .. Len(d)
                 PROVE  /\ d[n].op \in {"delete", "byName"} =>
                             d[n].arg < next' /\ \A m \in 1 .. n - 1 : d[m].op = "delete" => d[m].arg # d[n].arg
                        /\ d[n].op = "delete" /\ d[n].arg \in DOMAIN org' =>
                             org'[d[n].arg].by = t /\ org'[d[n].arg].kind = d[n].kind
      BY <2>3 DEF StackInv
    <3>1. n \in 1 .. Len(c) /\ \A m \in 1 .. n - 1 : m \in 1 .. Len(c)
      BY <1>5, <2>2
    <3>2. CASE n = l
      <4>1. \A m \in 1 .. n - 1 : d[m].op = "delete" => d[m].arg # next
        BY <1>1, <1>5, <1>7, <2>2, <3>1, <3>2
      <4>2. d[n].arg = next /\ next < next' /\ d[n].kind = "key"
        BY <1>1, <1>5, <2>2, <3>2
      <4> QED
        BY <1>8, <1>9, <2>1, <4>1, <4>2
    <3>3. CASE n # l
      <4>1. d[n].op = c[n].op /\ d[n].kind = c[n].kind /\ d[n].arg = c[n].arg /\ c[n].arg \in Nat
        BY <1>5, <2>2, <3>1, <3>3
      <4>2. c[n].op \in {"delete", "byName"} => c[n].arg < next /\ c[n].arg < next'
        BY <1>1, <1>7, <3>1, <4>1
      <4>3. ASSUME c[n].op \in {"delete", "byName"}, NEW m \in 1 .. n - 1, d[m].op = "delete"
            PROVE  d[m].arg # c[n].arg
        <5>1. m \in 1 .. Len(c) /\ c[m].op = "delete" /\ c[m].arg # c[n].arg
          BY <1>7, <2>2, <3>1, <4>3
        <5> QED
          BY <1>1, <2>2, <4>1, <4>2, <4>3, <5>1
      <4>4. c[n].op = "delete" /\ c[n].arg \in DOMAIN org' =>
              org'[c[n].arg].by = t /\ org'[c[n].arg].kind = c[n].kind
        BY <1>1, <1>7, <1>9, <3>1, <4>1, <4>2
      <4> QED
        BY <4>1, <4>2, <4>3, <4>4
    <3> QED
      BY <3>2, <3>3
  <2>7. VictimInv(t)'
    BY <2>3, <2>5, VictimsKeep
  <2>8. SweepInv(t)'
    BY <1>1, <1>4, <2>3, <2>5, SweptKeeps DEF HistStep
  <2>9. StageInv(t)'
    BY <1>1, <1>6, <2>3 DEF HarnessInv, TestInv, StageInv
  <2>10. CoverInv(t)'
    <3>1. ASSUME NEW i \in DOMAIN org', i \in DOMAIN org, Covered(t, i) PROVE Covered(t, i)'
      <4>1. PICK n \in 1 .. Len(c) : c[n].op = "delete" /\ c[n].arg = i
        BY <3>1 DEF Covered, c
      <4>2. n # l
        BY <1>9, <2>1, <3>1, <4>1 DEF key
      <4>3. n \in 1 .. Len(d) /\ d[n].op = "delete" /\ d[n].arg = i
        BY <2>2, <4>1, <4>2
      <4> QED
        BY <2>3, <4>3 DEF Covered
    <3>2. ASSUME NEW i, i = next PROVE Covered(t, i)'
      <4>1. l \in 1 .. Len(d) /\ d[l].op = "delete" /\ d[l].arg = i
        BY <1>5, <2>2, <3>2
      <4> QED
        BY <2>3, <4>1 DEF Covered
    <3>3. hist'[t].known \subseteq hist[t].known \union {next}
      BY <1>4
    <3> QED
      BY <1>1, <2>3, <2>5, <3>1, <3>2, <3>3, CoverKeeps
  <2>11. AloneInv(t)'
    <3>1. ASSUME Alone(t), ~hist'[t].faulted, NEW n \in 1 .. Len(d), d[n].op = "delete", d[n].kind # "key"
          PROVE  d[n].arg \in DOMAIN org'
      <4>1. n \in 1 .. Len(c) /\ c[n].op = "delete" /\ c[n].kind # "key" /\ d[n].arg = c[n].arg
        BY <1>5, <2>2, <3>1
      <4>2. c[n].arg \in DOMAIN org
        BY <1>4, <3>1, <4>1 DEF HarnessInv, TestInv, AloneInv, HistStep, c
      <4>3. c[n].arg # key
        BY <1>7, <1>8, <2>1, <4>1, <4>2
      <4> QED
        BY <1>9, <2>1, <4>1, <4>2, <4>3
    <3>2. ASSUME Alone(t), ~hist'[t].faulted PROVE h'[t].ledger = {} /\ h'[t].victims = {}
      BY <1>6, <2>3
    <3> QED
      BY <1>4, <2>3, <2>5, <3>1, <3>2, AloneKeeps DEF HistStep
  <2>12. TitleInv(t)'
    <3>1. \A n \in 1 .. Len(d) : d[n].op = "restore" => d[n].arg = c[n].arg
      BY <1>5, <2>2
    <3>2. \A k \in Shared, n \in Nat :
            n \in 1 .. Len(d) /\ Restores(t, n, k)' <=> n \in 1 .. Len(c) /\ Restores(t, n, k)
      BY <2>2, <2>3 DEF Restores, c
    <3> QED
      BY <1>1, <1>4, <2>3, <2>5, <3>1, <3>2, TitlesKeep DEF HistStep, c
  <2>13. TestInv(t)'
    BY <2>6, <2>7, <2>8, <2>9, <2>10, <2>11, <2>12 DEF TestInv
  <2> QED
    BY <2>5, <2>13, OwnStepKeeps
<1> QED
  BY <1>11, <1>12

LEMMA SnapshotStep == ASSUME HarnessInv, NEW t \in Test, NEW k \in Shared, Snapshot(t, k) PROVE HarnessInv'
<1> DEFINE c == h[t].cleanups
           e == Restore(k, title[k])
           d == Append(c, e)
<1>1. /\ h[t].stage = "body" /\ mode[t] # "dry"
      /\ org' = org /\ title' = title /\ mode' = mode /\ next' = next
      /\ h \in [Test -> H] /\ hist \in [Test -> History] /\ title \in [Shared -> Nat] /\ next \in Nat
      /\ faults \in Nat
  BY DEF Snapshot, Registers, InBody, At, HarnessInv, TypeOK, service
<1>2. OrgStep(t)
  BY <1>1 DEF OrgStep
<1>3. CASE /\ Call("refused") /\ hist' = [hist EXCEPT ![t].faulted = TRUE]
           /\ h' = [h EXCEPT ![t].stage = "end", ![t].failed = TRUE]
  <2>1. /\ HistStep(t) /\ hist'[t].faulted
        /\ hist'[t].known = hist[t].known /\ hist'[t].missed = hist[t].missed
    BY <1>1, <1>3, HistFaulted
  <2>2. /\ h' \in [Test -> H] /\ \A u \in Test : u # t => h'[u] = h[u]
        /\ h'[t].stage = "end" /\ h'[t].cleanups = c /\ h'[t].failed
        /\ h'[t].victims = h[t].victims /\ h'[t].ledger = h[t].ledger
    BY <1>1, <1>3, GivesUp
  <2>3. faults' \in Nat
    BY <1>3, CallFacts DEF HarnessInv
  <2>4. OwnStep(t)
    BY <1>1, <1>2, <2>1, <2>2, <2>3 DEF OwnStep, HistStep, Working, SlotInv, At
  <2>5. TestInv(t)'
    BY <1>1, <2>1, <2>2, <2>4, FailsKeeps
  <2> QED
    BY <2>4, <2>5, OwnStepKeeps
<1>4. CASE h' = [h EXCEPT ![t].cleanups = Append(@, Restore(k, title[k]))] /\ UNCHANGED <<faults, hist>>
  <2>1. /\ c \in Seq(Cleanup) /\ Len(c) \in Nat /\ h[t].latestKey \in Nat /\ SlotInv(t)
    BY TypeFacts DEF HarnessInv
  <2>2. e \in Cleanup /\ e.op = "restore" /\ e.kind = k /\ e.arg = title[k]
    BY <1>1 DEF Restore, Cleanup, Shared, Kind
  <2> HIDE DEF e
  <2>3. /\ d \in Seq(Cleanup) /\ Len(d) = Len(c) + 1
        /\ \A n \in 1 .. Len(c) : d[n] = c[n]
        /\ d[Len(c) + 1] = e
    BY <2>1, <2>2
  <2>4. h \in [Test -> H] /\ d \in Seq(Cleanup) /\ h' = [h EXCEPT ![t].cleanups = d]
    BY <1>1, <1>4, <2>3 DEF e
  <2> HIDE DEF d
  <2>5. h' \in [Test -> H]
    BY <2>4 DEF H
  <2>6. /\ \A u \in Test : u # t => h'[u] = h[u]
        /\ h'[t].stage = h[t].stage /\ h'[t].cleanups = d /\ h'[t].latestKey = h[t].latestKey
        /\ h'[t].victims = h[t].victims /\ h'[t].ledger = h[t].ledger
    BY <2>4 DEF H
  <2>7. h'[t].failed = h[t].failed
    BY <2>4 DEF H
  <2> HIDE DEF c
  <2>8. SlotInv(t)'
    <3> SUFFICES ASSUME h[t].latestKey > 0
                 PROVE  /\ h[t].latestKey <= Len(d)
                        /\ d[h[t].latestKey].op = "delete" /\ d[h[t].latestKey].kind = "key"
      BY <2>6 DEF SlotInv, At
    <3>1. /\ h[t].latestKey <= Len(c)
          /\ c[h[t].latestKey].op = "delete" /\ c[h[t].latestKey].kind = "key"
      BY <1>1, <2>1 DEF SlotInv, At, c
    <3> QED
      BY <2>1, <2>3, <3>1
  <2>9. HistStep(t)
    BY <1>1, <1>4 DEF HistStep
  <2>10. OwnStep(t)
    BY <1>1, <1>2, <1>4, <2>5, <2>6, <2>8, <2>9 DEF OwnStep, HistStep, Working
  <2>11. ASSUME NEW n \in 1 .. Len(d)
         PROVE  \/ n \in 1 .. Len(c) /\ d[n] = c[n]
                \/ n = Len(c) + 1 /\ d[n] = e
    <3>1. n \in 1 .. Len(c) \/ n = Len(c) + 1
      BY <2>1, <2>3
    <3> QED
      BY <2>3, <3>1
  <2>12. StackInv(t)'
    <3>1. \A n \in 1 .. Len(c) :
            /\ c[n].op \in {"delete", "byName"} =>
                 c[n].arg < next /\ \A m \in 1 .. n - 1 : c[m].op = "delete" => c[m].arg # c[n].arg
            /\ c[n].op = "delete" /\ c[n].arg \in DOMAIN org =>
                 org[c[n].arg].by = t /\ org[c[n].arg].kind = c[n].kind
      BY DEF HarnessInv, TestInv, StackInv, c
    <3>2. \A n \in 1 .. Len(c) : \A m \in 1 .. n - 1 : m \in 1 .. Len(c) /\ d[m] = c[m]
      BY <2>1, <2>3
    <3> QED
      BY <1>1, <2>2, <2>6, <2>11, <3>1, <3>2, SMTT(20) DEF StackInv
  <2>13. VictimInv(t)'
    BY <2>6, <2>10, VictimsKeep
  <2>14. SweepInv(t)'
    BY <1>1, <1>4, <2>6, <2>10, SweptKeeps
  <2>15. StageInv(t)'
    BY <1>1, <2>6 DEF HarnessInv, TestInv, StageInv
  <2>16. CoverInv(t)'
    <3>1. ASSUME NEW i, Covered(t, i) PROVE Covered(t, i)'
      <4>1. PICK n \in 1 .. Len(c) : c[n].op = "delete" /\ c[n].arg = i
        BY <3>1 DEF Covered, c
      <4>2. n \in 1 .. Len(d) /\ d[n] = c[n]
        BY <2>1, <2>3
      <4> QED
        BY <2>6, <4>1, <4>2 DEF Covered
    <3>2. next \notin hist[t].known /\ next \notin DOMAIN org
      BY OrgFacts DEF HarnessInv, TestInv, CoverInv
    <3> QED
      BY <1>1, <1>4, <2>6, <2>7, <2>10, <3>1, <3>2, CoverKeeps
  <2>17. AloneInv(t)'
    <3>1. ASSUME NEW n \in 1 .. Len(d), d[n].op = "delete" PROVE n \in 1 .. Len(c) /\ d[n] = c[n]
      BY <2>2, <2>11, <3>1
    <3> QED
      BY <1>1, <1>4, <2>6, <2>10, <3>1, AloneKeeps DEF HarnessInv, TestInv, AloneInv, c
  <2>18. TitleInv(t)'
    <3> SUFFICES ASSUME Alone(t), ~h[t].failed, NEW j \in Shared
                 PROVE  /\ (\A n \in 1 .. Len(d) : ~Restores(t, n, j)') => title[j] = hist[t].titles[j]
                        /\ \A n \in 1 .. Len(d) :
                             Restores(t, n, j)' /\ (\A m \in 1 .. n - 1 : ~Restores(t, m, j)') =>
                               d[n].arg = hist[t].titles[j]
      <4>1. hist' = hist /\ title' = title /\ h'[t].cleanups = d
        BY <1>1, <1>4, <2>6
      <4>2. Alone(t)' /\ ~h'[t].failed => Alone(t) /\ ~h[t].failed
        BY <2>6, <2>7, <4>1 DEF Alone
      <4> QED
        BY <4>1, <4>2 DEF TitleInv
    <3>1. /\ (\A n \in 1 .. Len(c) : ~Restores(t, n, j)) => title[j] = hist[t].titles[j]
          /\ \A n \in 1 .. Len(c) :
               Restores(t, n, j) /\ (\A m \in 1 .. n - 1 : ~Restores(t, m, j)) =>
                 c[n].arg = hist[t].titles[j]
      BY DEF HarnessInv, TestInv, TitleInv, c
    <3>2. \A n \in 1 .. Len(c) : Restores(t, n, j) <=> Restores(t, n, j)'
      BY <2>3, <2>6 DEF Restores, c
    <3>3. \A n \in 1 .. Len(c) : n \in 1 .. Len(d) /\ \A m \in 1 .. n - 1 : m \in 1 .. Len(c)
      BY <2>1, <2>3
    <3>4. ASSUME NEW n \in 1 .. Len(d), Restores(t, n, j)', \A m \in 1 .. n - 1 : ~Restores(t, m, j)'
          PROVE  d[n].arg = hist[t].titles[j]
      <4>1. CASE n \in 1 .. Len(c)
        <5>1. Restores(t, n, j) /\ d[n] = c[n]
          BY <2>3, <3>2, <3>4, <4>1
        <5>2. \A m \in 1 .. n - 1 : ~Restores(t, m, j)
          BY <3>2, <3>3, <3>4, <4>1
        <5> QED
          BY <3>1, <4>1, <5>1, <5>2
      <4>2. CASE n = Len(c) + 1
        <5>1. n - 1 = Len(c)
          BY <2>1, <4>2
        <5>2. \A m \in 1 .. Len(c) : ~Restores(t, m, j)
          BY <3>2, <3>4, <5>1
        <5>3. d[n] = e /\ j = k
          BY <2>2, <2>3, <2>6, <3>4, <4>2 DEF Restores
        <5> QED
          BY <2>2, <3>1, <5>2, <5>3
      <4> QED
        BY <2>11, <4>1, <4>2
    <3> QED
      BY <3>1, <3>2, <3>3, <3>4
  <2>19. TestInv(t)'
    BY <2>12, <2>13, <2>14, <2>15, <2>16, <2>17, <2>18 DEF TestInv
  <2> QED
    BY <2>10, <2>19, OwnStepKeeps
<1> QED
  BY <1>3, <1>4 DEF Snapshot

LEMMA RenameStep == ASSUME HarnessInv, NEW t \in Test, NEW k \in Shared, Rename(t, k) PROVE HarnessInv'
<1>1. /\ h[t].stage = "body" /\ mode[t] # "dry"
      /\ org' = org /\ mode' = mode /\ next' = next + 1
      /\ h \in [Test -> H] /\ hist \in [Test -> History] /\ title \in [Shared -> Nat] /\ next \in Nat
  BY DEF Rename, InBody, At, HarnessInv, TypeOK
<1>2. PICK out \in Outcome :
        /\ Call(out)
        /\ title' = IF Done(out) THEN [title EXCEPT ![k] = next] ELSE title
        /\ IF out = "ok"
           THEN UNCHANGED h
           ELSE h' = [h EXCEPT ![t].stage = "end", ![t].failed = TRUE]
        /\ hist' = [hist EXCEPT ![t].faulted = @ \/ out # "ok"]
  BY DEF Rename
<1>3. PICK r \in 1 .. Len(h[t].cleanups) : Restores(t, r, k)
  <2>1. h[t].cleanups \in Seq(Cleanup)
    BY TypeFacts DEF HarnessInv
  <2> QED
    BY <2>1 DEF Rename, Restores
<1>4. OrgStep(t) /\ faults' \in Nat /\ title' \in [Shared -> Nat] /\ \A j \in Shared \ {k} : title'[j] = title[j]
  BY <1>1, <1>2, CallFacts DEF OrgStep, HarnessInv
<1>5. /\ HistStep(t) /\ hist'[t].known = hist[t].known /\ hist'[t].missed = hist[t].missed
      /\ out # "ok" => hist'[t].faulted
  <2> DEFINE f == hist[t].faulted \/ out # "ok"
  <2>1. f \in BOOLEAN /\ (hist[t].faulted => f) /\ (out # "ok" => f)
    OBVIOUS
  <2>2. hist' = [hist EXCEPT ![t].faulted = f]
    BY <1>1, <1>2 DEF History
  <2> HIDE DEF f
  <2> QED
    BY <1>1, <2>1, <2>2, HistFaulted
<1>6. CASE out # "ok"
  <2>1. /\ h' \in [Test -> H] /\ \A u \in Test : u # t => h'[u] = h[u]
        /\ h'[t].stage = "end" /\ h'[t].cleanups = h[t].cleanups /\ h'[t].failed
        /\ h'[t].victims = h[t].victims /\ h'[t].ledger = h[t].ledger
    BY <1>1, <1>2, <1>6, GivesUp
  <2>2. OwnStep(t)
    BY <1>1, <1>4, <1>5, <2>1 DEF OwnStep, HistStep, Working, SlotInv, At
  <2>3. TestInv(t)'
    BY <1>1, <1>5, <1>6, <2>1, <2>2, FailsKeeps
  <2> QED
    BY <2>2, <2>3, OwnStepKeeps
<1>7. CASE out = "ok"
  <2>1. h' = h
    BY <1>2, <1>7
  <2>2. SlotInv(t)' /\ Len(h[t].cleanups) \in Nat
    BY <2>1, TypeFacts DEF SlotInv, At, HarnessInv
  <2>3. OwnStep(t)
    BY <1>1, <1>4, <1>5, <2>1, <2>2 DEF OwnStep, HistStep, Working
  <2>4. StackInv(t)'
    BY <2>1, <2>2, <2>3, StackKeeps DEF StackShrinks
  <2>5. VictimInv(t)'
    BY <2>1, <2>3, VictimsKeep
  <2>6. SweepInv(t)'
    BY <1>1, <1>5, <2>1, <2>3, SweptKeeps DEF HistStep
  <2>7. StageInv(t)'
    BY <1>1, <2>1 DEF HarnessInv, TestInv, StageInv
  <2>8. CoverInv(t)'
    <3>1. \A i : Covered(t, i) <=> Covered(t, i)'
      BY <2>1 DEF Covered
    <3>2. next \notin DOMAIN org
      BY OrgFacts DEF HarnessInv
    <3> QED
      BY <1>1, <1>5, <2>1, <2>3, <3>1, <3>2, CoverKeeps
  <2>9. AloneInv(t)'
    BY <1>1, <1>5, <2>1, <2>3, AloneKeeps DEF HarnessInv, TestInv, AloneInv, HistStep
  <2>10. TitleInv(t)'
    <3>1. Alone(t)' => Alone(t)
      BY <1>5, <2>1 DEF Alone, HistStep
    <3>2. \A j \in Shared, n \in Nat : Restores(t, n, j)' <=> Restores(t, n, j)
      BY <2>1 DEF Restores
    <3> SUFFICES ASSUME Alone(t), ~h[t].failed, NEW j \in Shared
                 PROVE  /\ (\A n \in 1 .. Len(h[t].cleanups) : ~Restores(t, n, j)) => title'[j] = hist[t].titles[j]
                        /\ \A n \in 1 .. Len(h[t].cleanups) :
                             Restores(t, n, j) /\ (\A m \in 1 .. n - 1 : ~Restores(t, m, j)) =>
                               h[t].cleanups[n].arg = hist[t].titles[j]
      BY <1>5, <2>1, <3>1, SMTT(20) DEF TitleInv, HistStep, Restores
    <3>3. /\ (\A n \in 1 .. Len(h[t].cleanups) : ~Restores(t, n, j)) => title[j] = hist[t].titles[j]
          /\ \A n \in 1 .. Len(h[t].cleanups) :
               Restores(t, n, j) /\ (\A m \in 1 .. n - 1 : ~Restores(t, m, j)) =>
                 h[t].cleanups[n].arg = hist[t].titles[j]
      BY DEF HarnessInv, TestInv, TitleInv
    <3> QED
      BY <1>3, <1>4, <3>3
  <2>11. TestInv(t)'
    BY <2>4, <2>5, <2>6, <2>7, <2>8, <2>9, <2>10 DEF TestInv
  <2> QED
    BY <2>3, <2>11, OwnStepKeeps
<1> QED
  BY <1>6, <1>7

LEMMA BodyEndsStep == ASSUME HarnessInv, NEW t \in Test, BodyEnds(t) PROVE HarnessInv'
<1> DEFINE then == IF mode[t] = "dry" THEN "ended" ELSE "end"
<1>1. /\ h[t].stage = "body"
      /\ org' = org /\ title' = title /\ mode' = mode /\ next' = next /\ faults' = faults /\ hist' = hist
      /\ h \in [Test -> H] /\ hist \in [Test -> History] /\ title \in [Shared -> Nat] /\ next \in Nat
      /\ faults \in Nat
  BY DEF BodyEnds, At, HarnessInv, TypeOK, service
<1>2. OrgStep(t) /\ HistStep(t)
  BY <1>1 DEF OrgStep, HistStep
<1>3. /\ h' \in [Test -> H] /\ \A u \in Test : u # t => h'[u] = h[u]
      /\ h'[t].stage = then /\ h'[t].cleanups = h[t].cleanups
      /\ h'[t].victims = h[t].victims /\ h'[t].ledger = h[t].ledger
      /\ h[t].failed => h'[t].failed
  <2>1. PICK fails \in BOOLEAN : h' = [h EXCEPT ![t].stage = then, ![t].failed = @ \/ fails]
    BY DEF BodyEnds
  <2> DEFINE f == h[t].failed \/ fails
  <2>2. f \in BOOLEAN /\ (h[t].failed => f)
    OBVIOUS
  <2>3. then \in Stage
    BY DEF Stage, Working
  <2>4. h' = [h EXCEPT ![t].stage = then, ![t].failed = f]
    BY <1>1, <2>1 DEF H
  <2> HIDE DEF f, then
  <2>5. h' \in [Test -> H]
    BY <1>1, <2>2, <2>3, <2>4, ZenonT(40) DEF H
  <2>6. h'[t].failed = f
    BY <1>1, <2>4 DEF H
  <2>7. /\ \A u \in Test : u # t => h'[u] = h[u]
        /\ h'[t].stage = then /\ h'[t].cleanups = h[t].cleanups
        /\ h'[t].victims = h[t].victims /\ h'[t].ledger = h[t].ledger
    BY <1>1, <2>4 DEF H
  <2> QED
    BY <2>2, <2>5, <2>6, <2>7
<1>4. then \in {"end", "ended"}
  OBVIOUS
<1>5. OwnStep(t)
  BY <1>1, <1>2, <1>3, <1>4 DEF OwnStep, HistStep, Working, SlotInv, At
<1>6. Len(h[t].cleanups) \in Nat
  BY TypeFacts DEF HarnessInv
<1>7. StackInv(t)'
  BY <1>3, <1>5, <1>6, StackKeeps DEF StackShrinks
<1>8. VictimInv(t)'
  BY <1>3, <1>5, VictimsKeep
<1>9. SweepInv(t)'
  BY <1>1, <1>3, <1>5, SweptKeeps
<1>10. StageInv(t)'
  BY <1>1, <1>3 DEF HarnessInv, TestInv, StageInv
<1>11. CoverInv(t)'
  <2>1. \A i : Covered(t, i) <=> Covered(t, i)'
    BY <1>3 DEF Covered
  <2>2. next \notin DOMAIN org /\ next \notin hist[t].known
    BY OrgFacts DEF HarnessInv, TestInv, CoverInv
  <2> QED
    BY <1>1, <1>3, <1>4, <1>5, <2>1, <2>2, CoverKeeps
<1>12. AloneInv(t)'
  <2>1. h[t].victims = {}
    BY <1>1 DEF HarnessInv, TestInv, StageInv
  <2> QED
    BY <1>1, <1>3, <1>5, <2>1, AloneKeeps DEF HarnessInv, TestInv, AloneInv
<1>13. TitleInv(t)'
  <2>1. \A k \in Shared, n \in Nat : Restores(t, n, k)' <=> Restores(t, n, k)
    BY <1>3 DEF Restores
  <2> QED
    BY <1>1, <1>3, <1>5, <2>1, TitlesKeep
<1>14. TestInv(t)'
  BY <1>7, <1>8, <1>9, <1>10, <1>11, <1>12, <1>13 DEF TestInv
<1> QED
  BY <1>5, <1>14, OwnStepKeeps

-----------------------------------------------------------------------------
(* End.                                                                    *)

\* The newest of the cleanups is popped: the ones before it stay.
LEMMA PoppedFacts ==
  ASSUME NEW S, NEW s \in Seq(S), s # << >>
  PROVE  /\ Len(s) \in Nat \ {0} /\ s[Len(s)] \in S
         /\ Popped(s, Len(s)) \in Seq(S) /\ Len(Popped(s, Len(s))) = Len(s) - 1
         /\ \A n \in 1 .. Len(s) - 1 : Popped(s, Len(s))[n] = s[n]
<1> DEFINE L == Len(s)
<1>1. L \in Nat \ {0} /\ s[L] \in S
  OBVIOUS
<1> HIDE DEF L
<1> DEFINE a == SubSeq(s, 1, L - 1)
           b == SubSeq(s, L + 1, L)
<1>2. a \in Seq(S) /\ Len(a) = L - 1 /\ \A n \in 1 .. L - 1 : a[n] = s[n]
  <2> DEFINE m == L - 1
  <2>1. m \in Nat /\ 1 \in Int /\ m \in Int /\ m = L - 1
    BY <1>1
  <2>2. \A i \in 1 .. m : s[i] \in S
    BY <1>1 DEF L
  <2> HIDE DEF m
  <2>3. /\ SubSeq(s, 1, m) \in Seq(S)
        /\ Len(SubSeq(s, 1, m)) = IF 1 <= m THEN m - 1 + 1 ELSE 0
        /\ \A i \in 1 .. m - 1 + 1 : SubSeq(s, 1, m)[i] = s[1 + i - 1]
    BY <2>1, <2>2, SubSeqProperties, SMT
  <2> DEFINE c == SubSeq(s, 1, m)
  <2>4. a = c
    BY DEF m
  <2>5. /\ c \in Seq(S) /\ Len(c) = IF 1 <= m THEN m - 1 + 1 ELSE 0
        /\ \A i \in 1 .. m - 1 + 1 : c[i] = s[1 + i - 1]
    BY <2>3
  <2> HIDE DEF a, c
  <2>6. Len(c) = m /\ m - 1 + 1 = m
    BY <2>1, <2>5
  <2>7. \A i \in 1 .. m : c[i] = s[i]
    <3> TAKE i \in 1 .. m
    <3>1. 1 + i - 1 = i
      BY <2>1
    <3> QED
      BY <2>5, <2>6, <3>1
  <2> QED
    BY <2>4, <2>5, <2>6, <2>7 DEF m
<1>3. b = << >>
  BY <1>1, SubSeqEmpty
<1> HIDE DEF a
<1>4. a \o b = a
  BY <1>2, <1>3, ConcatEmptySeq
<1>5. Popped(s, L) = a \o b
  BY DEF Popped, L, a
<1> HIDE DEF a, b
<1> QED
  BY <1>1, <1>2, <1>4, <1>5 DEF L


\* What running the newest cleanup makes of h.
AfterRun(t, g, ok) ==
  /\ Len(h[t].cleanups) \in Nat \ {0}
  /\ g \in [Test -> H] /\ \A u \in Test : u # t => g[u] = h[u]
  /\ g[t].stage = h[t].stage /\ g[t].victims = h[t].victims
  /\ Len(g[t].cleanups) = Len(h[t].cleanups) - 1
  /\ \A n \in 1 .. Len(h[t].cleanups) - 1 : g[t].cleanups[n] = h[t].cleanups[n]
  /\ g[t].failed <=> h[t].failed \/ ~ok
  /\ g[t].ledger = IF ok THEN h[t].ledger
                   ELSE h[t].ledger \union {h[t].cleanups[Len(h[t].cleanups)].arg}

LEMMA AfterFacts ==
  ASSUME TypeOK, NEW t \in Test, h[t].cleanups # << >>, NEW ok \in BOOLEAN,
         NEW g, g = AfterCleanup(t, Len(h[t].cleanups), ok)
  PROVE  AfterRun(t, g, ok)
<1> DEFINE c == h[t].cleanups
           L == Len(c)
           s == Popped(c, L)
           f == h[t].failed \/ ~ok
           l == IF ok THEN h[t].ledger ELSE h[t].ledger \union {c[L].arg}
<1>1. c \in Seq(Cleanup) /\ c # << >> /\ h[t].ledger \in SUBSET Nat /\ h \in [Test -> H]
  BY TypeFacts DEF TypeOK
<1>2. /\ L \in Nat \ {0} /\ c[L] \in Cleanup
      /\ s \in Seq(Cleanup) /\ Len(s) = L - 1
      /\ \A n \in 1 .. L - 1 : s[n] = c[n]
  BY <1>1, PoppedFacts
<1>3. l \in SUBSET Nat /\ f \in BOOLEAN
  BY <1>1, <1>2 DEF Cleanup
<1>4. g = [h EXCEPT ![t].cleanups = s, ![t].failed = f, ![t].ledger = l]
  <2>1. g = [h EXCEPT ![t].cleanups = Popped(@, L),
                      ![t].failed = @ \/ ~ok,
                      ![t].ledger = IF ok THEN @ ELSE @ \union {h[t].cleanups[L].arg}]
    BY DEF AfterCleanup
  <2>2. h \in [Test -> H] /\ c = h[t].cleanups
    BY <1>1
  <2> HIDE DEF c, L
  <2> QED
    BY <2>1, <2>2 DEF H
<1> HIDE DEF s, f, l
<1>5. g \in [Test -> H]
  <2>1. h \in [Test -> H] /\ s \in Seq(Cleanup) /\ l \in SUBSET Nat /\ f \in BOOLEAN
    BY <1>1, <1>2, <1>3
  <2> DEFINE g1 == [h EXCEPT ![t].cleanups = s]
             g2 == [g1 EXCEPT ![t].failed = f]
  <2>2. g1 \in [Test -> H]
    BY <2>1 DEF H
  <2>3. g = [g2 EXCEPT ![t].ledger = l]
    BY <1>4
  <2> HIDE DEF g1
  <2>4. g2 \in [Test -> H]
    BY <2>1, <2>2 DEF H
  <2> HIDE DEF g2
  <2> QED
    BY <2>1, <2>3, <2>4, ZenonT(40) DEF H
<1>6. /\ \A u \in Test : u # t => g[u] = h[u]
      /\ g[t].stage = h[t].stage /\ g[t].victims = h[t].victims
      /\ g[t].cleanups = s /\ g[t].ledger = l
  BY <1>1, <1>4 DEF H
<1>7. g[t].failed = f
  BY <1>1, <1>4 DEF H
<1>8. g[t].failed <=> h[t].failed \/ ~ok
  BY <1>7 DEF f
<1>9. g[t].ledger = IF ok THEN h[t].ledger ELSE h[t].ledger \union {h[t].cleanups[Len(h[t].cleanups)].arg}
  BY <1>6 DEF l
<1> HIDE DEF c, L
<1>10. L = Len(h[t].cleanups) /\ c = h[t].cleanups
  BY DEF c, L
<1> QED
  BY <1>2, <1>5, <1>6, <1>8, <1>9, <1>10 DEF AfterRun

\* Every step of End leaves the cleanups that are still to run alone.
LEMMA EndKeeps ==
  ASSUME HarnessInv, NEW t \in Test, OwnStep(t), HistStep(t), h[t].stage = "end", h'[t].stage = "end",
         StackShrinks(t), hist'[t].missed = hist[t].missed
  PROVE  StackInv(t)' /\ SweepInv(t)' /\ StageInv(t)'
<1>1. StackInv(t)'
  BY StackKeeps
<1>2. SweepInv(t)'
  BY SweptKeeps DEF HistStep
<1>3. StageInv(t)'
  BY DEF HarnessInv, TestInv, StageInv, OwnStep
<1> QED
  BY <1>1, <1>2, <1>3

LEMMA RunDeleteStep == ASSUME HarnessInv, NEW t \in Test, RunDelete(t) PROVE HarnessInv'
<1> DEFINE c == h[t].cleanups
           d == h'[t].cleanups
           L == Len(c)
           x == c[L]
<1>1. /\ h[t].stage = "end" /\ c # << >> /\ x.op = "delete"
      /\ title' = title /\ mode' = mode /\ next' = next
      /\ h \in [Test -> H] /\ hist \in [Test -> History] /\ title \in [Shared -> Nat] /\ next \in Nat
      /\ faults \in Nat
  BY DEF RunDelete, Newest, At, HarnessInv, TypeOK
<1>2. PICK out \in Outcome :
        /\ Call(out)
        /\ org' = IF Done(out) THEN Without(x.arg) ELSE org
        /\ h' = AfterCleanup(t, L, out = "ok" /\ ~Missing(x))
        /\ hist' = [hist EXCEPT ![t].faulted = @ \/ out # "ok"]
  BY DEF RunDelete, Newest
<1> DEFINE ok == out = "ok" /\ ~Missing(x)
<1>3. /\ L \in Nat \ {0}
      /\ h' \in [Test -> H] /\ \A u \in Test : u # t => h'[u] = h[u]
      /\ h'[t].stage = h[t].stage /\ h'[t].victims = h[t].victims
      /\ Len(d) = L - 1
      /\ \A n \in 1 .. L - 1 : d[n] = c[n]
      /\ h'[t].failed <=> h[t].failed \/ ~ok
      /\ h'[t].ledger = IF ok THEN h[t].ledger ELSE h[t].ledger \union {x.arg}
  <2>1. ok \in BOOLEAN /\ h' = AfterCleanup(t, L, ok)
    BY <1>2
  <2>2. TypeOK /\ h[t].cleanups # << >>
    BY <1>1 DEF HarnessInv
  <2> HIDE DEF ok
  <2>3. AfterRun(t, h', ok)
    BY <2>1, <2>2, AfterFacts
  <2> QED
    BY <2>3 DEF AfterRun
<1>4. \A j \in DOMAIN org' : j \in DOMAIN org /\ org'[j] = org[j] /\ (Done(out) => j # x.arg)
  BY <1>2, WithoutFacts
<1>5. OrgStep(t) /\ faults' \in Nat
  BY <1>1, <1>2, <1>4, CallFacts DEF OrgStep, HarnessInv
<1>6. /\ HistStep(t) /\ hist'[t].known = hist[t].known /\ hist'[t].missed = hist[t].missed
      /\ out # "ok" => hist'[t].faulted
  <2> DEFINE f == hist[t].faulted \/ out # "ok"
  <2>1. f \in BOOLEAN /\ (hist[t].faulted => f) /\ (out # "ok" => f)
    OBVIOUS
  <2>2. hist' = [hist EXCEPT ![t].faulted = f]
    BY <1>1, <1>2 DEF History
  <2> HIDE DEF f
  <2> QED
    BY <1>1, <2>1, <2>2, HistFaulted
<1>7. OwnStep(t)
  BY <1>1, <1>3, <1>5, <1>6 DEF OwnStep, HistStep, Working, SlotInv, At
<1>8. StackInv(t)' /\ SweepInv(t)' /\ StageInv(t)'
  <2>1. StackShrinks(t)
    BY <1>3, SMTT(20) DEF StackShrinks
  <2> QED
    BY <1>1, <1>3, <1>6, <1>7, <2>1, EndKeeps
<1>9. VictimInv(t)'
  BY <1>3, <1>7, VictimsKeep
\* The other cleanups do not delete what this one does.
<1>10. \A n \in 1 .. L - 1 : n \in 1 .. L /\ (c[n].op = "delete" => c[n].arg # x.arg)
  <2>1. L \in 1 .. L /\ \A n \in 1 .. L - 1 : n \in 1 .. L
    BY <1>3
  <2> QED
    BY <1>1, <2>1 DEF HarnessInv, TestInv, StackInv
<1>11. CoverInv(t)'
  <2>1. ASSUME NEW i \in DOMAIN org', i \in DOMAIN org, Covered(t, i)
        PROVE  Covered(t, i)' \/ (i \in h'[t].ledger /\ h'[t].failed)
    <3>1. PICK n \in 1 .. L : c[n].op = "delete" /\ c[n].arg = i
      BY <2>1 DEF Covered
    <3>2. CASE n = L
      <4>1. ~ok
        BY <1>4, <2>1, <3>1, <3>2 DEF Done
      <4> QED
        BY <1>3, <3>1, <3>2, <4>1
    <3>3. CASE n # L
      <4>1. n \in 1 .. L - 1
        BY <1>3, <3>3
      <4>2. n \in 1 .. Len(d) /\ d[n].op = "delete" /\ d[n].arg = i
        BY <1>3, <3>1, <4>1
      <4> QED
        BY <4>2 DEF Covered
    <3> QED
      BY <3>2, <3>3
  <2>2. next \notin DOMAIN org' /\ next \notin hist[t].known
    BY <1>4, OrgFacts DEF HarnessInv, TestInv, CoverInv
  <2>3. h[t].ledger \subseteq h'[t].ledger /\ (h[t].failed => h'[t].failed)
    BY <1>3
  <2> QED
    BY <1>1, <1>3, <1>6, <1>7, <2>1, <2>2, <2>3, CoverKeeps
<1>12. AloneInv(t)'
  <2>1. ASSUME Alone(t), ~hist'[t].faulted
        PROVE  /\ h'[t].ledger = {}
               /\ \A n \in 1 .. Len(d) :
                    d[n].op = "delete" /\ d[n].kind # "key" =>
                      d[n].arg \in DOMAIN org' /\ d[n].arg \notin h'[t].victims
    <3>1. out = "ok" /\ ~hist[t].faulted
      BY <1>6, <2>1 DEF HistStep
    <3>2. /\ h[t].ledger = {}
          /\ \A n \in 1 .. L :
               c[n].op = "delete" /\ c[n].kind # "key" =>
                 c[n].arg \in DOMAIN org /\ c[n].arg \notin h[t].victims
      BY <1>1, <2>1, <3>1 DEF HarnessInv, TestInv, AloneInv
    <3>3. ok
      <4>1. L \in 1 .. L
        BY <1>3
      <4> QED
        BY <1>1, <3>1, <3>2, <4>1 DEF Missing
    <3>4. \A j \in DOMAIN org : j # x.arg => j \in DOMAIN org'
      BY <1>2, WithoutFacts
    <3> QED
      BY <1>3, <1>10, <3>2, <3>3, <3>4
  <2> QED
    BY <1>6, <1>7, <2>1, AloneKeeps DEF HistStep
<1>13. TitleInv(t)'
  <2>1. ASSUME NEW k \in Shared, NEW n \in Nat
        PROVE  n \in 1 .. Len(d) /\ Restores(t, n, k)' <=> n \in 1 .. L /\ Restores(t, n, k)
    <3>1. n \in 1 .. Len(d) => n \in 1 .. L /\ d[n] = c[n]
      BY <1>3
    <3>2. n \in 1 .. L /\ n # L => n \in 1 .. Len(d) /\ d[n] = c[n]
      BY <1>3
    <3>3. Restores(t, n, k) => n # L
      BY <1>1 DEF Restores
    <3> QED
      BY <3>1, <3>2, <3>3 DEF Restores
  <2>2. \A n \in 1 .. Len(d) : d[n] = c[n]
    BY <1>3
  <2> QED
    BY <1>1, <1>3, <1>6, <1>7, <2>1, <2>2, TitlesKeep DEF HistStep
<1>14. TestInv(t)'
  BY <1>8, <1>9, <1>11, <1>12, <1>13 DEF TestInv
<1> QED
  BY <1>7, <1>14, OwnStepKeeps

LEMMA RunByNameStep == ASSUME HarnessInv, NEW t \in Test, RunByName(t) PROVE HarnessInv'
<1> DEFINE c == h[t].cleanups
           d == h'[t].cleanups
           L == Len(c)
           x == c[L]
           named == {i \in DOMAIN org : org[i] = [kind |-> x.kind, by |-> t, suffix |-> x.arg]}
<1>1. /\ h[t].stage = "end" /\ h[t].victims = {} /\ c # << >> /\ x.op = "byName"
      /\ org' = org /\ title' = title /\ mode' = mode /\ next' = next
      /\ h \in [Test -> H] /\ hist \in [Test -> History] /\ title \in [Shared -> Nat] /\ next \in Nat
      /\ faults \in Nat /\ TypeOK
  BY DEF RunByName, Newest, At, HarnessInv, TypeOK, service
<1>2. \/ /\ h' = [AfterCleanup(t, L, TRUE) EXCEPT ![t].victims = named]
         /\ UNCHANGED <<faults, hist>>
      \/ /\ Call("refused") /\ hist' = [hist EXCEPT ![t].faulted = TRUE]
         /\ h' = AfterCleanup(t, L, FALSE)
  BY DEF RunByName, Newest
<1>3. /\ named \subseteq DOMAIN org /\ named \in SUBSET Nat
      /\ \A i \in named : org[i].kind = x.kind /\ org[i].by = t /\ org[i].suffix = x.arg
  BY OrgFacts DEF HarnessInv
<1> HIDE DEF named
<1>4. /\ L \in Nat \ {0}
      /\ h' \in [Test -> H] /\ \A u \in Test : u # t => h'[u] = h[u]
      /\ h'[t].stage = h[t].stage
      /\ Len(d) = L - 1
      /\ \A n \in 1 .. L - 1 : d[n] = c[n]
      /\ h[t].failed => h'[t].failed
      /\ h[t].ledger \subseteq h'[t].ledger
      /\ faults' \in Nat
      /\ HistStep(t) /\ hist'[t].known = hist[t].known /\ hist'[t].missed = hist[t].missed
      /\ \/ h'[t].victims = named /\ h'[t].ledger = h[t].ledger
         \/ h'[t].victims = {} /\ hist'[t].faulted
  <2>1. CASE /\ h' = [AfterCleanup(t, L, TRUE) EXCEPT ![t].victims = named]
             /\ UNCHANGED <<faults, hist>>
    <3> DEFINE g == AfterCleanup(t, L, TRUE)
    <3>1. AfterRun(t, g, TRUE)
      BY <1>1, AfterFacts
    <3> HIDE DEF g
    <3>2. /\ L \in Nat \ {0}
          /\ g \in [Test -> H] /\ \A u \in Test : u # t => g[u] = h[u]
          /\ g[t].stage = h[t].stage
          /\ Len(g[t].cleanups) = L - 1
          /\ \A n \in 1 .. L - 1 : g[t].cleanups[n] = c[n]
          /\ h[t].failed => g[t].failed
          /\ g[t].ledger = h[t].ledger
      BY <3>1 DEF AfterRun
    <3>3. h' = [g EXCEPT ![t].victims = named]
      BY <2>1 DEF g
    <3>4. h' \in [Test -> H]
      <4>1. g \in [Test -> H] /\ named \in SUBSET Nat
        BY <1>3, <3>2
      <4> QED
        BY <3>3, <4>1 DEF H
    <3>5. /\ \A u \in Test : u # t => h'[u] = h[u]
          /\ h'[t].stage = h[t].stage /\ d = g[t].cleanups /\ h'[t].ledger = h[t].ledger
          /\ h'[t].victims = named
      BY <3>2, <3>3 DEF H
    <3>6. h'[t].failed = g[t].failed
      BY <3>2, <3>3 DEF H
    <3>7. HistStep(t) /\ hist'[t].known = hist[t].known /\ hist'[t].missed = hist[t].missed /\ faults' \in Nat
      BY <1>1, <2>1 DEF HistStep
    <3> HIDE DEF c, d, L
    <3> QED
      BY <3>2, <3>4, <3>5, <3>6, <3>7
  <2>2. CASE /\ Call("refused") /\ hist' = [hist EXCEPT ![t].faulted = TRUE]
             /\ h' = AfterCleanup(t, L, FALSE)
    <3>1. AfterRun(t, h', FALSE)
      BY <1>1, <2>2, AfterFacts
    <3>2. /\ L \in Nat \ {0}
          /\ h' \in [Test -> H] /\ \A u \in Test : u # t => h'[u] = h[u]
          /\ h'[t].stage = h[t].stage
          /\ Len(d) = L - 1
          /\ \A n \in 1 .. L - 1 : d[n] = c[n]
          /\ h'[t].failed
          /\ h[t].ledger \subseteq h'[t].ledger
          /\ h'[t].victims = h[t].victims
      BY <3>1 DEF AfterRun
    <3>3. /\ HistStep(t) /\ hist'[t].faulted /\ faults' \in Nat
          /\ hist'[t].known = hist[t].known /\ hist'[t].missed = hist[t].missed
      BY <1>1, <2>2, HistFaulted, CallFacts
    <3> HIDE DEF c, d, L
    <3> QED
      BY <1>1, <3>2, <3>3
  <2> QED
    BY <1>2, <2>1, <2>2
<1>5. OwnStep(t)
  BY <1>1, <1>4 DEF OwnStep, OrgStep, HistStep, Working, SlotInv, At
<1>6. StackInv(t)' /\ SweepInv(t)' /\ StageInv(t)'
  <2>1. StackShrinks(t)
    <3>1. L \in Nat /\ Len(d) = L - 1 /\ \A n \in 1 .. L - 1 : d[n] = c[n]
      BY <1>4
    <3> HIDE DEF d, L
    <3>2. Len(d) <= L /\ \A n \in 1 .. Len(d) : d[n] = c[n]
      BY <3>1
    <3> QED
      BY <3>2 DEF StackShrinks, d, L
  <2> QED
    BY <1>1, <1>4, <1>5, <2>1, EndKeeps
<1>7. VictimInv(t)'
  <2>1. People \notin Test /\ \A i \in DOMAIN org : i < next
    BY OrgFacts DEF HarnessInv
  <2> QED
    BY <1>1, <1>3, <1>4, <2>1 DEF VictimInv
<1>8. \A n \in 1 .. L - 1 : n \in 1 .. L /\ (c[n].op = "delete" => c[n].arg # x.arg)
  <2>1. L \in 1 .. L /\ \A n \in 1 .. L - 1 : n \in 1 .. L
    BY <1>4
  <2> QED
    BY <1>1, <2>1 DEF HarnessInv, TestInv, StackInv
<1>9. CoverInv(t)'
  <2>1. ASSUME NEW i, Covered(t, i) PROVE Covered(t, i)'
    <3>1. PICK n \in 1 .. L : c[n].op = "delete" /\ c[n].arg = i
      BY <2>1 DEF Covered
    <3>2. n # L
      BY <1>1, <3>1
    <3>3. n \in 1 .. L - 1
      BY <1>4, <3>2
    <3>4. n \in 1 .. Len(d) /\ d[n].op = "delete" /\ d[n].arg = i
      BY <1>4, <3>1, <3>3
    <3> QED
      BY <3>4 DEF Covered
  <2>2. next \notin DOMAIN org /\ next \notin hist[t].known
    BY OrgFacts DEF HarnessInv, TestInv, CoverInv
  <2> QED
    BY <1>1, <1>4, <1>5, <2>1, <2>2, CoverKeeps
<1>10. AloneInv(t)'
  <2>1. ASSUME Alone(t), ~hist'[t].faulted
        PROVE  /\ h'[t].ledger = {}
               /\ \A n \in 1 .. Len(d) :
                    d[n].op = "delete" /\ d[n].kind # "key" =>
                      d[n].arg \in DOMAIN org' /\ d[n].arg \notin h'[t].victims
    <3>1. h'[t].victims = named /\ h'[t].ledger = h[t].ledger /\ ~hist[t].faulted
      BY <1>4, <2>1 DEF HistStep
    <3>2. /\ h[t].ledger = {}
          /\ \A n \in 1 .. L : c[n].op = "delete" /\ c[n].kind # "key" => c[n].arg \in DOMAIN org
      BY <2>1, <3>1 DEF HarnessInv, TestInv, AloneInv
    <3>3. ASSUME NEW n \in 1 .. L - 1, c[n].op = "delete", c[n].kind # "key"
          PROVE  c[n].arg \in DOMAIN org /\ c[n].arg \notin named
      <4>1. n \in 1 .. L /\ c[n].arg \in DOMAIN org /\ c[n].arg # x.arg
        BY <1>8, <3>2, <3>3
      <4>2. org[c[n].arg].by = t /\ org[c[n].arg].kind = c[n].kind
        BY <3>3, <4>1 DEF HarnessInv, TestInv, StackInv
      <4>3. org[c[n].arg].suffix = c[n].arg
        BY <3>3, <4>1, <4>2 DEF HarnessInv, OrgInv
      <4> QED
        BY <1>3, <4>1, <4>3
    <3> QED
      BY <1>1, <1>4, <3>1, <3>2, <3>3
  <2> QED
    BY <1>4, <1>5, <2>1, AloneKeeps DEF HistStep
<1>11. TitleInv(t)'
  <2>1. ASSUME NEW k \in Shared, NEW n \in Nat
        PROVE  n \in 1 .. Len(d) /\ Restores(t, n, k)' <=> n \in 1 .. L /\ Restores(t, n, k)
    <3>1. n \in 1 .. Len(d) => n \in 1 .. L /\ d[n] = c[n]
      BY <1>4
    <3>2. n \in 1 .. L /\ n # L => n \in 1 .. Len(d) /\ d[n] = c[n]
      BY <1>4
    <3>3. Restores(t, n, k) => n # L
      BY <1>1 DEF Restores
    <3> QED
      BY <3>1, <3>2, <3>3 DEF Restores
  <2>2. \A n \in 1 .. Len(d) : d[n] = c[n]
    BY <1>4
  <2> QED
    BY <1>1, <1>4, <1>5, <2>1, <2>2, TitlesKeep DEF HistStep
<1>12. TestInv(t)'
  BY <1>6, <1>7, <1>9, <1>10, <1>11 DEF TestInv
<1> QED
  BY <1>5, <1>12, OwnStepKeeps

LEMMA DeleteByNameStep == ASSUME HarnessInv, NEW t \in Test, DeleteByName(t) PROVE HarnessInv'
<1> DEFINE c == h[t].cleanups
<1>1. /\ h[t].stage = "end" /\ title' = title /\ mode' = mode /\ next' = next
      /\ h \in [Test -> H] /\ hist \in [Test -> History] /\ title \in [Shared -> Nat] /\ next \in Nat
      /\ faults \in Nat
  BY DEF DeleteByName, At, HarnessInv, TypeOK
<1>2. PICK i \in h[t].victims, out \in Outcome :
        /\ Call(out)
        /\ org' = IF Done(out) THEN Without(i) ELSE org
        /\ h' = [h EXCEPT ![t].victims = @ \ {i},
                          ![t].failed = @ \/ out # "ok",
                          ![t].ledger = IF out = "ok" THEN @ ELSE @ \union {i}]
        /\ hist' = [hist EXCEPT ![t].faulted = @ \/ out # "ok"]
  BY DEF DeleteByName
<1>3. /\ h' \in [Test -> H] /\ \A u \in Test : u # t => h'[u] = h[u]
      /\ h'[t].stage = h[t].stage /\ h'[t].cleanups = c
      /\ h'[t].victims = h[t].victims \ {i}
      /\ h[t].failed => h'[t].failed
      /\ h'[t].ledger = IF out = "ok" THEN h[t].ledger ELSE h[t].ledger \union {i}
  <2> DEFINE v == h[t].victims \ {i}
             f == h[t].failed \/ out # "ok"
             l == IF out = "ok" THEN h[t].ledger ELSE h[t].ledger \union {i}
  <2>1. v \in SUBSET Nat /\ f \in BOOLEAN /\ l \in SUBSET Nat /\ (h[t].failed => f)
    BY <1>2, TypeFacts DEF HarnessInv
  <2>2. h' = [h EXCEPT ![t].victims = v, ![t].failed = f, ![t].ledger = l]
    BY <1>1, <1>2 DEF H
  <2>3. v = h[t].victims \ {i} /\ l = IF out = "ok" THEN h[t].ledger ELSE h[t].ledger \union {i}
    OBVIOUS
  <2> HIDE DEF v, f, l
  <2>4. h' \in [Test -> H]
    <3> DEFINE g1 == [h EXCEPT ![t].victims = v]
               g2 == [g1 EXCEPT ![t].failed = f]
    <3>1. g1 \in [Test -> H]
      BY <1>1, <2>1 DEF H
    <3>2. h' = [g2 EXCEPT ![t].ledger = l]
      BY <2>2
    <3> HIDE DEF g1
    <3>3. g2 \in [Test -> H]
      BY <2>1, <3>1 DEF H
    <3> HIDE DEF g2
    <3>4. l \in SUBSET Nat
      BY <2>1
    <3> QED
      BY <3>2, <3>3, <3>4 DEF H
  <2>5. /\ \A u \in Test : u # t => h'[u] = h[u]
        /\ h'[t].stage = h[t].stage /\ h'[t].cleanups = c
        /\ h'[t].victims = v /\ h'[t].ledger = l
    BY <1>1, <2>2 DEF H
  <2>6. h'[t].failed = f
    BY <1>1, <2>2 DEF H
  <2> QED
    BY <2>1, <2>3, <2>4, <2>5, <2>6
<1>4. \A j \in DOMAIN org' : j \in DOMAIN org /\ org'[j] = org[j]
  BY <1>2, WithoutFacts
<1>5. OrgStep(t) /\ faults' \in Nat
  BY <1>1, <1>2, <1>4, CallFacts DEF OrgStep, HarnessInv
<1>6. /\ HistStep(t) /\ hist'[t].known = hist[t].known /\ hist'[t].missed = hist[t].missed
      /\ out # "ok" => hist'[t].faulted
  <2> DEFINE f == hist[t].faulted \/ out # "ok"
  <2>1. f \in BOOLEAN /\ (hist[t].faulted => f) /\ (out # "ok" => f)
    OBVIOUS
  <2>2. hist' = [hist EXCEPT ![t].faulted = f]
    BY <1>1, <1>2 DEF History
  <2> HIDE DEF f
  <2> QED
    BY <1>1, <2>1, <2>2, HistFaulted
<1>7. OwnStep(t)
  BY <1>1, <1>3, <1>5, <1>6 DEF OwnStep, HistStep, Working, SlotInv, At
<1>8. Len(c) \in Nat
  BY TypeFacts DEF HarnessInv
<1>9. StackInv(t)' /\ SweepInv(t)' /\ StageInv(t)'
  <2>1. StackShrinks(t)
    BY <1>3, <1>8 DEF StackShrinks
  <2> QED
    BY <1>1, <1>3, <1>6, <1>7, <2>1, EndKeeps
<1>10. VictimInv(t)'
  BY <1>3, <1>7, VictimsKeep
<1>11. CoverInv(t)'
  <2>1. \A j : Covered(t, j) <=> Covered(t, j)'
    BY <1>3 DEF Covered
  <2>2. next \notin DOMAIN org' /\ next \notin hist[t].known
    BY <1>4, OrgFacts DEF HarnessInv, TestInv, CoverInv
  <2>3. h[t].ledger \subseteq h'[t].ledger
    BY <1>3
  <2> QED
    BY <1>1, <1>3, <1>6, <1>7, <2>1, <2>2, <2>3, CoverKeeps
<1>12. AloneInv(t)'
  <2>1. ASSUME Alone(t), ~hist'[t].faulted
        PROVE  /\ h'[t].ledger = {}
               /\ \A n \in 1 .. Len(c) :
                    c[n].op = "delete" /\ c[n].kind # "key" =>
                      c[n].arg \in DOMAIN org' /\ c[n].arg \notin h'[t].victims
    <3>1. out = "ok" /\ ~hist[t].faulted
      BY <1>6, <2>1 DEF HistStep
    <3>2. /\ h[t].ledger = {}
          /\ \A n \in 1 .. Len(c) :
               c[n].op = "delete" /\ c[n].kind # "key" =>
                 c[n].arg \in DOMAIN org /\ c[n].arg \notin h[t].victims
      BY <1>1, <2>1, <3>1 DEF HarnessInv, TestInv, AloneInv
    <3>3. \A j \in DOMAIN org : j # i => j \in DOMAIN org'
      BY <1>2, WithoutFacts
    <3> QED
      BY <1>2, <1>3, <3>1, <3>2, <3>3
  <2> QED
    BY <1>3, <1>6, <1>7, <2>1, AloneKeeps DEF HistStep
<1>13. TitleInv(t)'
  <2>1. \A k \in Shared, n \in Nat : Restores(t, n, k)' <=> Restores(t, n, k)
    BY <1>3 DEF Restores
  <2> QED
    BY <1>1, <1>3, <1>6, <1>7, <2>1, TitlesKeep DEF HistStep
<1>14. TestInv(t)'
  BY <1>9, <1>10, <1>11, <1>12, <1>13 DEF TestInv
<1> QED
  BY <1>7, <1>14, OwnStepKeeps

LEMMA RunRestoreStep == ASSUME HarnessInv, NEW t \in Test, RunRestore(t) PROVE HarnessInv'
<1> DEFINE c == h[t].cleanups
           d == h'[t].cleanups
           L == Len(c)
           x == c[L]
<1>1. /\ h[t].stage = "end" /\ c # << >> /\ x.op = "restore"
      /\ org' = org /\ mode' = mode /\ next' = next
      /\ h \in [Test -> H] /\ hist \in [Test -> History] /\ title \in [Shared -> Nat] /\ next \in Nat
      /\ faults \in Nat /\ TypeOK
  BY DEF RunRestore, Newest, At, HarnessInv, TypeOK
<1>2. PICK out \in Outcome :
        /\ x.kind = "connector" => out = "refused"
        /\ IF x.kind = "connector" THEN UNCHANGED faults ELSE Call(out)
        /\ title' = IF Done(out) THEN [title EXCEPT ![x.kind] = x.arg] ELSE title
        /\ h' = AfterCleanup(t, L, out = "ok")
        /\ hist' = [hist EXCEPT ![t].faulted = @ \/ out # "ok"]
  BY DEF RunRestore, Newest
<1>3. /\ L \in Nat \ {0}
      /\ h' \in [Test -> H] /\ \A u \in Test : u # t => h'[u] = h[u]
      /\ h'[t].stage = h[t].stage /\ h'[t].victims = h[t].victims
      /\ Len(d) = L - 1
      /\ \A n \in 1 .. L - 1 : d[n] = c[n]
      /\ h'[t].failed <=> h[t].failed \/ out # "ok"
      /\ h'[t].ledger = IF out = "ok" THEN h[t].ledger ELSE h[t].ledger \union {x.arg}
  <2> DEFINE ok == out = "ok"
  <2>1. ok \in BOOLEAN /\ h' = AfterCleanup(t, L, ok)
    BY <1>2
  <2> HIDE DEF ok
  <2>2. AfterRun(t, h', ok)
    BY <1>1, <2>1, AfterFacts
  <2> QED
    BY <2>2 DEF AfterRun, ok
<1>4. x \in Cleanup /\ x.arg \in Nat
  BY <1>1, <1>3, TypeFacts
<1>5. faults' \in Nat /\ title' \in [Shared -> Nat]
  BY <1>1, <1>2, <1>4, CallFacts
<1>6. /\ HistStep(t) /\ hist'[t].known = hist[t].known /\ hist'[t].missed = hist[t].missed
      /\ out # "ok" => hist'[t].faulted
  <2> DEFINE f == hist[t].faulted \/ out # "ok"
  <2>1. f \in BOOLEAN /\ (hist[t].faulted => f) /\ (out # "ok" => f)
    OBVIOUS
  <2>2. hist' = [hist EXCEPT ![t].faulted = f]
    BY <1>1, <1>2 DEF History
  <2> HIDE DEF f
  <2> QED
    BY <1>1, <2>1, <2>2, HistFaulted
<1>7. OwnStep(t)
  BY <1>1, <1>3, <1>5, <1>6 DEF OwnStep, OrgStep, HistStep, Working, SlotInv, At
<1>8. StackInv(t)' /\ SweepInv(t)' /\ StageInv(t)'
  <2>1. StackShrinks(t)
    <3>1. L \in Nat /\ Len(d) = L - 1 /\ \A n \in 1 .. L - 1 : d[n] = c[n]
      BY <1>3
    <3> HIDE DEF d, L
    <3>2. Len(d) <= L /\ \A n \in 1 .. Len(d) : d[n] = c[n]
      BY <3>1
    <3> QED
      BY <3>2 DEF StackShrinks, d, L
  <2> QED
    BY <1>1, <1>3, <1>6, <1>7, <2>1, EndKeeps
<1>9. VictimInv(t)'
  BY <1>3, <1>7, VictimsKeep
<1>10. CoverInv(t)'
  <2>1. ASSUME NEW i, Covered(t, i) PROVE Covered(t, i)'
    <3>1. PICK n \in 1 .. L : c[n].op = "delete" /\ c[n].arg = i
      BY <2>1 DEF Covered
    <3>2. n # L
      BY <1>1, <3>1
    <3>3. n \in 1 .. L - 1
      BY <1>3, <3>2
    <3>4. n \in 1 .. Len(d) /\ d[n].op = "delete" /\ d[n].arg = i
      BY <1>3, <3>1, <3>3
    <3> QED
      BY <3>4 DEF Covered
  <2>2. next \notin DOMAIN org /\ next \notin hist[t].known
    BY OrgFacts DEF HarnessInv, TestInv, CoverInv
  <2>3. h[t].ledger \subseteq h'[t].ledger /\ (h[t].failed => h'[t].failed)
    BY <1>3
  <2> QED
    BY <1>1, <1>3, <1>6, <1>7, <2>1, <2>2, <2>3, CoverKeeps
<1>11. AloneInv(t)'
  <2>1. ASSUME Alone(t), ~hist'[t].faulted
        PROVE  /\ h'[t].ledger = {}
               /\ \A n \in 1 .. Len(d) :
                    d[n].op = "delete" /\ d[n].kind # "key" =>
                      d[n].arg \in DOMAIN org' /\ d[n].arg \notin h'[t].victims
    <3>1. out = "ok" /\ ~hist[t].faulted
      BY <1>6, <2>1 DEF HistStep
    <3>2. /\ h[t].ledger = {}
          /\ \A n \in 1 .. L :
               c[n].op = "delete" /\ c[n].kind # "key" =>
                 c[n].arg \in DOMAIN org /\ c[n].arg \notin h[t].victims
      BY <1>1, <2>1, <3>1 DEF HarnessInv, TestInv, AloneInv
    <3>3. \A n \in 1 .. Len(d) : n \in 1 .. L /\ d[n] = c[n]
      BY <1>3
    <3> QED
      BY <1>1, <1>3, <3>1, <3>2, <3>3
  <2> QED
    BY <1>6, <1>7, <2>1, AloneKeeps DEF HistStep
<1>12. TitleInv(t)'
  <2> SUFFICES ASSUME Alone(t), ~h[t].failed, out = "ok", NEW k \in Shared
               PROVE  /\ (\A n \in 1 .. Len(d) : ~Restores(t, n, k)') => title'[k] = hist[t].titles[k]
                      /\ \A n \in 1 .. Len(d) :
                           Restores(t, n, k)' /\ (\A m \in 1 .. n - 1 : ~Restores(t, m, k)') =>
                             d[n].arg = hist[t].titles[k]
    <3>1. Alone(t)' /\ ~h'[t].failed => Alone(t) /\ ~h[t].failed /\ out = "ok"
      BY <1>3, <1>6 DEF Alone, HistStep
    <3>2. hist'[t].titles = hist[t].titles
      BY <1>6 DEF HistStep
    <3> QED
      BY <3>1, <3>2 DEF TitleInv
  <2>1. /\ (\A n \in 1 .. L : ~Restores(t, n, k)) => title[k] = hist[t].titles[k]
        /\ \A n \in 1 .. L :
             Restores(t, n, k) /\ (\A m \in 1 .. n - 1 : ~Restores(t, m, k)) =>
               c[n].arg = hist[t].titles[k]
    BY DEF HarnessInv, TestInv, TitleInv
  <2>2. \A n \in 1 .. Len(d) : /\ n \in 1 .. L /\ d[n] = c[n]
                               /\ Restores(t, n, k)' <=> Restores(t, n, k)
                               /\ \A m \in 1 .. n - 1 : m \in 1 .. Len(d)
    <3>1. \A n \in 1 .. Len(d) : /\ n \in 1 .. L /\ d[n] = c[n]
                                 /\ \A m \in 1 .. n - 1 : m \in 1 .. Len(d)
      BY <1>3
    <3> QED
      BY <3>1 DEF Restores
  <2>3. ASSUME \A n \in 1 .. Len(d) : ~Restores(t, n, k)' PROVE title'[k] = hist[t].titles[k]
    <3>1. \A n \in 1 .. L - 1 : ~Restores(t, n, k)
      BY <1>3, <2>2, <2>3
    <3>2. CASE Restores(t, L, k)
      <4>1. L \in 1 .. L /\ x.arg = hist[t].titles[k]
        BY <1>3, <2>1, <3>1, <3>2
      <4>2. title' = [title EXCEPT ![k] = x.arg]
        BY <1>2, <3>2 DEF Restores, Done
      <4> QED
        BY <1>1, <4>1, <4>2
    <3>3. CASE ~Restores(t, L, k)
      <4>1. \A n \in 1 .. L : ~Restores(t, n, k)
        <5> TAKE n \in 1 .. L
        <5>1. n = L \/ n \in 1 .. L - 1
          BY <1>3
        <5> QED
          BY <3>1, <3>3, <5>1
      <4>2. x.kind # k
        BY <1>1, <3>3 DEF Restores
      <4>3. title'[k] = title[k]
        BY <1>1, <1>2, <4>2
      <4> QED
        BY <2>1, <4>1, <4>3
    <3> QED
      BY <3>2, <3>3
  <2>4. ASSUME NEW n \in 1 .. Len(d), Restores(t, n, k)', \A m \in 1 .. n - 1 : ~Restores(t, m, k)'
        PROVE  d[n].arg = hist[t].titles[k]
    <3>1. n \in 1 .. L /\ d[n] = c[n] /\ Restores(t, n, k)
      BY <2>2, <2>4
    <3>2. \A m \in 1 .. n - 1 : ~Restores(t, m, k)
      BY <2>2, <2>4
    <3> QED
      BY <2>1, <3>1, <3>2
  <2> QED
    BY <2>3, <2>4
<1>13. TestInv(t)'
  BY <1>8, <1>9, <1>10, <1>11, <1>12 DEF TestInv
<1> QED
  BY <1>7, <1>13, OwnStepKeeps

LEMMA FlushStep == ASSUME HarnessInv, NEW t \in Test, Flush(t) PROVE HarnessInv'
<1>1. /\ h[t].stage = "end" /\ h[t].victims = {} /\ h[t].cleanups = << >>
      /\ org' = org /\ title' = title /\ mode' = mode /\ next' = next /\ faults' = faults /\ hist' = hist
      /\ h \in [Test -> H] /\ hist \in [Test -> History] /\ title \in [Shared -> Nat] /\ next \in Nat
      /\ faults \in Nat
  BY DEF Flush, At, HarnessInv, TypeOK, service
<1>2. OrgStep(t) /\ HistStep(t)
  BY <1>1 DEF OrgStep, HistStep
<1>3. /\ h' \in [Test -> H] /\ \A u \in Test : u # t => h'[u] = h[u]
      /\ h'[t].stage = "ended" /\ h'[t].cleanups = h[t].cleanups
      /\ h'[t].victims = h[t].victims /\ h'[t].ledger = h[t].ledger
      /\ h[t].failed => h'[t].failed
  <2> DEFINE f == h[t].failed \/ h[t].ledger # {}
  <2>1. f \in BOOLEAN /\ (h[t].failed => f) /\ "ended" \in Stage
    BY DEF Stage, Working
  <2>2. h' = [h EXCEPT ![t].stage = "ended", ![t].failed = f]
    BY <1>1 DEF Flush, H
  <2> HIDE DEF f
  <2>3. h' \in [Test -> H]
    BY <1>1, <2>1, <2>2, ZenonT(40) DEF H
  <2>4. h'[t].failed = f
    BY <1>1, <2>2 DEF H
  <2>5. /\ \A u \in Test : u # t => h'[u] = h[u]
        /\ h'[t].stage = "ended" /\ h'[t].cleanups = h[t].cleanups
        /\ h'[t].victims = h[t].victims /\ h'[t].ledger = h[t].ledger
    BY <1>1, <2>2 DEF H
  <2> QED
    BY <2>1, <2>3, <2>4, <2>5
<1>4. OwnStep(t)
  BY <1>1, <1>2, <1>3 DEF OwnStep, HistStep, Working, SlotInv, At
<1>5. Len(h[t].cleanups) = 0
  BY <1>1
<1>6. StackInv(t)'
  BY <1>3, <1>5 DEF StackInv
<1>7. VictimInv(t)'
  BY <1>3, <1>4, VictimsKeep
<1>8. SweepInv(t)'
  BY <1>1, <1>3, <1>4, SweptKeeps
<1>9. StageInv(t)'
  BY <1>1, <1>3 DEF HarnessInv, TestInv, StageInv
<1>10. CoverInv(t)'
  <2>1. \A i : Covered(t, i) <=> Covered(t, i)'
    BY <1>3 DEF Covered
  <2>2. next \notin DOMAIN org /\ next \notin hist[t].known
    BY OrgFacts DEF HarnessInv, TestInv, CoverInv
  <2> QED
    BY <1>1, <1>3, <1>4, <2>1, <2>2, CoverKeeps
<1>11. AloneInv(t)'
  BY <1>1, <1>3, <1>4, <1>5, AloneKeeps DEF HarnessInv, TestInv, AloneInv
<1>12. TitleInv(t)'
  <2>1. \A k \in Shared, n \in Nat : Restores(t, n, k)' <=> Restores(t, n, k)
    BY <1>3 DEF Restores
  <2> QED
    BY <1>1, <1>3, <1>4, <2>1, TitlesKeep
<1>13. TestInv(t)'
  BY <1>6, <1>7, <1>8, <1>9, <1>10, <1>11, <1>12 DEF TestInv
<1> QED
  BY <1>4, <1>13, OwnStepKeeps

\* A test that leaves, in an orderly way or not, takes what it knew along.
LEMMA LeaveStep ==
  ASSUME HarnessInv, NEW t \in Test, RemoveTempDir(t) \/ Crash(t)
  PROVE  HarnessInv'
<1>1. /\ h[t].stage \in Working
      /\ org' = org /\ title' = title /\ mode' = mode /\ next' = next /\ faults' = faults
      /\ h \in [Test -> H] /\ hist \in [Test -> History] /\ title \in [Shared -> Nat] /\ next \in Nat
      /\ faults \in Nat /\ hist' = [hist EXCEPT ![t] = NoHistory]
  BY DEF RemoveTempDir, Crash, At, Working, HarnessInv, TypeOK, service
<1>2. PICK s \in {"over", "crashed"} :
        /\ h' = [h EXCEPT ![t] = [Empty EXCEPT !.stage = s]]
        /\ s = "over" => h[t].stage = "ended"
  BY DEF RemoveTempDir, Crash, At
<1>3. /\ h' \in [Test -> H] /\ \A u \in Test : u # t => h'[u] = h[u]
      /\ h'[t].stage = s /\ h'[t].cleanups = << >> /\ h'[t].victims = {} /\ h'[t].ledger = {}
  <2> DEFINE e == [Empty EXCEPT !.stage = s]
  <2>1. e.stage = s /\ e.cleanups = << >> /\ e.victims = {} /\ e.ledger = {}
    BY DEF Empty
  <2>2. e \in H
    <3>1. Empty \in H
      BY DEF Empty, H, Stage
    <3>2. s \in Stage
      BY DEF Stage
    <3> QED
      BY <3>1, <3>2 DEF H
  <2>3. h' = [h EXCEPT ![t] = e]
    BY <1>2
  <2> HIDE DEF e
  <2> QED
    BY <1>1, <2>1, <2>2, <2>3
<1>4. /\ hist' \in [Test -> History] /\ \A u \in Test : u # t => hist'[u] = hist[u]
      /\ hist'[t].known = {} /\ hist'[t].leftovers = {}
  <2>1. NoHistory \in History /\ NoHistory.known = {} /\ NoHistory.leftovers = {}
    BY DEF NoHistory, History
  <2> QED
    BY <1>1, <2>1
<1>5. OwnStep(t)
  BY <1>1, <1>2, <1>3, <1>4 DEF OwnStep, OrgStep, SlotInv, At
<1>6. StageInv(t)'
  BY <1>1, <1>2, <1>3 DEF HarnessInv, TestInv, StageInv
<1>7. StackInv(t)' /\ VictimInv(t)'
  BY <1>3 DEF StackInv, VictimInv
<1>8. CoverInv(t)' /\ SweepInv(t)'
  BY <1>2, <1>3, <1>4 DEF CoverInv, SweepInv
<1>9. AloneInv(t)' /\ TitleInv(t)'
  BY <1>2, <1>3 DEF AloneInv, TitleInv, Alone, Working
<1> QED
  BY <1>5, <1>6, <1>7, <1>8, <1>9, OwnStepKeeps DEF TestInv

\* Begin tells the tests at work that they are not alone any more.
LEMMA BeginStep == ASSUME HarnessInv, NEW t \in Test, Begin(t) PROVE HarnessInv'
<1> DEFINE then == IF mode[t] = "dry" THEN "body" ELSE "guard"
           left == {i \in DOMAIN org :
                      /\ org[i].by # People
                      /\ org[i].by \in Test => h[org[i].by].stage \notin Working}
           over == Others(t) # {}
<1>1. /\ h[t].stage = "idle"
      /\ org' = org /\ title' = title /\ mode' = mode /\ next' = next /\ faults' = faults
      /\ h \in [Test -> H] /\ hist \in [Test -> History] /\ title \in [Shared -> Nat] /\ next \in Nat
      /\ h' = [h EXCEPT ![t].stage = then]
      /\ hist' = [u \in Test |->
           CASE u = t -> [hist[t] EXCEPT !.overlapped = over, !.titles = title, !.leftovers = left]
             [] u \in Others(t) -> [hist[u] EXCEPT !.overlapped = TRUE]
             [] OTHER -> hist[u]]
  BY DEF Begin, At, HarnessInv, TypeOK, service
<1>2. /\ left \in SUBSET Nat /\ over \in BOOLEAN
      /\ \A i \in left : i < next /\ i \in DOMAIN org /\ org[i].by # People
  BY OrgFacts DEF HarnessInv
<1>3. t \notin Others(t) /\ Others(t) \subseteq Test
  BY DEF Others
<1>4. \A u \in Test : h[u].stage \in Working /\ u # t => u \in Others(t)
  BY DEF Others
<1>5. over <=> Others(t) # {}
  OBVIOUS
<1> HIDE DEF left, over
<1>6. /\ hist'[t] \in History
      /\ hist'[t].overlapped = over /\ hist'[t].titles = title /\ hist'[t].leftovers = left
      /\ hist'[t].known = hist[t].known
  <2>1. hist'[t] = [hist[t] EXCEPT !.overlapped = over, !.titles = title, !.leftovers = left]
    BY <1>1, <1>3
  <2>2. hist[t] \in History
    BY <1>1
  <2>3. hist'[t] \in History
    BY <1>1, <1>2, <2>1, <2>2 DEF History
  <2>4. hist'[t].titles = title /\ hist'[t].leftovers = left /\ hist'[t].known = hist[t].known
    BY <2>1, <2>2 DEF History
  <2>5. hist'[t].overlapped = over
    BY <2>1, <2>2 DEF History
  <2> QED
    BY <2>3, <2>4, <2>5
<1>7. ASSUME NEW u \in Test, u # t
      PROVE  /\ hist'[u] \in History
             /\ hist'[u].titles = hist[u].titles /\ hist'[u].leftovers = hist[u].leftovers
             /\ hist'[u].known = hist[u].known /\ hist'[u].missed = hist[u].missed
             /\ h[u].stage \in Working => hist'[u].overlapped
  <2>1. hist[u] \in History
    BY <1>1
  <2>2. CASE u \in Others(t)
    <3>1. hist'[u] = [hist[u] EXCEPT !.overlapped = TRUE]
      BY <1>1, <1>7, <2>2
    <3>2. hist'[u] \in History
      BY <2>1, <3>1 DEF History
    <3>3. /\ hist'[u].titles = hist[u].titles /\ hist'[u].leftovers = hist[u].leftovers
          /\ hist'[u].known = hist[u].known /\ hist'[u].missed = hist[u].missed
      BY <2>1, <3>1 DEF History
    <3>4. hist'[u].overlapped = TRUE
      BY <2>1, <3>1 DEF History
    <3> QED
      BY <3>2, <3>3, <3>4
  <2>3. CASE u \notin Others(t)
    <3>1. hist'[u] = hist[u]
      BY <1>1, <1>7, <2>3
    <3> QED
      BY <1>4, <1>7, <2>1, <2>3, <3>1
  <2> QED
    BY <2>2, <2>3
<1>8. hist' \in [Test -> History]
  <2>1. \A u \in Test : hist'[u] \in History
    BY <1>6, <1>7
  <2>2. hist' = [u \in Test |-> hist'[u]]
    BY <1>1
  <2> QED
    BY <2>1, <2>2
<1>9. then \in Stage /\ then \in {"body", "guard"}
  BY DEF Stage, Working
<1>10. then = "body" <=> mode[t] = "dry"
  OBVIOUS
<1> HIDE DEF then
<1>11. /\ h' \in [Test -> H] /\ \A u \in Test : u # t => h'[u] = h[u]
       /\ h'[t].stage = then /\ h'[t].cleanups = h[t].cleanups /\ h'[t].victims = h[t].victims
       /\ h'[t].ledger = h[t].ledger /\ h'[t].latestKey = h[t].latestKey
       /\ h'[t].failed = h[t].failed
  <2>1. h' \in [Test -> H]
    BY <1>1, <1>9 DEF H
  <2>2. /\ \A u \in Test : u # t => h'[u] = h[u]
        /\ h'[t].stage = then /\ h'[t].cleanups = h[t].cleanups /\ h'[t].victims = h[t].victims
        /\ h'[t].ledger = h[t].ledger /\ h'[t].latestKey = h[t].latestKey
    BY <1>1 DEF H
  <2>3. h'[t].failed = h[t].failed
    BY <1>1 DEF H
  <2> QED
    BY <2>1, <2>2, <2>3
<1>12. /\ h[t].cleanups = << >> /\ h[t].ledger = {} /\ h[t].victims = {} /\ h[t].latestKey = 0
       /\ Len(h[t].cleanups) = 0
  BY <1>1 DEF HarnessInv, TestInv, StageInv
<1>13. TypeOK'
  <2>1. \A u \in Test : SlotInv(u)'
    <3> TAKE u \in Test
    <3>1. CASE u = t
      BY <1>11, <1>12, <3>1 DEF SlotInv
    <3>2. CASE u # t
      <4>1. SlotInv(u) /\ h'[u] = h[u]
        BY <1>11, <3>2, TypeFacts DEF HarnessInv
      <4> QED
        BY <4>1 DEF SlotInv, At
    <3> QED
      BY <3>1, <3>2
  <2>2. /\ DOMAIN org' \subseteq 1 .. next' - 1
        /\ \A i \in DOMAIN org' : org'[i] \in Resource
        /\ title' \in [Shared -> Nat] /\ next' \in Nat /\ mode' \in [Test -> Mode] /\ faults' \in Nat
    BY <1>1 DEF HarnessInv, TypeOK
  <2> QED
    BY <1>8, <1>11, <2>1, <2>2 DEF TypeOK, SlotInv
<1>14. OrgInv'
  BY <1>1 DEF HarnessInv, OrgInv
<1>15. TestInv(t)'
  <2>1. StageInv(t)'
    BY <1>1, <1>9, <1>10, <1>11, <1>12 DEF StageInv
  <2>2. StackInv(t)' /\ VictimInv(t)'
    BY <1>11, <1>12 DEF StackInv, VictimInv
  <2>3. CoverInv(t)'
    <3>1. \A i : Covered(t, i) <=> Covered(t, i)'
      BY <1>11 DEF Covered
    <3>2. CoverInv(t)
      BY DEF HarnessInv, TestInv
    <3>3. \A i \in hist'[t].known : i < next' /\ (i \in DOMAIN org' => Covered(t, i)' \/ i \in h'[t].ledger)
      BY <1>1, <1>6, <1>11, <3>1, <3>2 DEF CoverInv
    <3>4. ~h'[t].failed => \A i \in DOMAIN org' : org'[i].by = t => Covered(t, i)'
      BY <1>1, <1>11, <3>1, <3>2 DEF CoverInv
    <3> QED
      BY <3>3, <3>4 DEF CoverInv
  <2>4. SweepInv(t)'
    BY <1>1, <1>2, <1>6, <1>9, <1>10, <1>11 DEF SweepInv
  <2>5. AloneInv(t)'
    <3>1. Others(t)' = Others(t)
      BY <1>11 DEF Others
    <3>2. Alone(t)' => Others(t) = {}
      BY <1>5, <1>6 DEF Alone
    <3> QED
      BY <1>11, <1>12, <3>1, <3>2 DEF AloneInv
  <2>6. TitleInv(t)'
    BY <1>1, <1>6, <1>11, <1>12 DEF TitleInv
  <2> QED
    BY <2>1, <2>2, <2>3, <2>4, <2>5, <2>6 DEF TestInv
<1>16. ASSUME NEW u \in Test, u # t PROVE TestInv(u)'
  <2>1. h'[u] = h[u] /\ TestInv(u)
    BY <1>11, <1>16 DEF HarnessInv
  <2>2. StageInv(u)' /\ StackInv(u)' /\ VictimInv(u)'
    <3>1. StageInv(u)'
      BY <1>1, <2>1 DEF TestInv, StageInv
    <3>2. StackInv(u)'
      BY <1>1, <2>1 DEF TestInv, StackInv
    <3>3. VictimInv(u)'
      BY <1>1, <2>1 DEF TestInv, VictimInv
    <3> QED
      BY <3>1, <3>2, <3>3
  <2>3. CoverInv(u)'
    <3>1. \A i : Covered(u, i) <=> Covered(u, i)'
      BY <2>1 DEF Covered
    <3> QED
      BY <1>1, <1>7, <1>16, <2>1, <3>1 DEF TestInv, CoverInv
  <2>4. SweepInv(u)'
    BY <1>1, <1>7, <1>16, <2>1 DEF TestInv, SweepInv
  <2>5. AloneInv(u)' /\ TitleInv(u)'
    BY <1>7, <1>16, <2>1 DEF AloneInv, TitleInv, Alone
  <2> QED
    BY <2>2, <2>3, <2>4, <2>5 DEF TestInv
<1> QED
  BY <1>13, <1>14, <1>15, <1>16 DEF HarnessInv

-----------------------------------------------------------------------------
(* The invariant is inductive.                                             *)

LEMMA HarnessInvInit == ASSUME Init PROVE HarnessInv
<1>1. /\ org = OrgBefore /\ title = [k \in Shared |-> 0] /\ next = FirstId /\ mode \in [Test -> Mode]
      /\ faults = 0 /\ h = [t \in Test |-> Empty] /\ hist = [t \in Test |-> NoHistory]
  BY DEF Init
<1>2. ASSUME NEW i \in DOMAIN org
      PROVE  /\ org[i] \in Resource /\ org[i].by \notin Test
             /\ org[i].by # People => \E m \in DOMAIN SweepOrder : SweepOrder[m] = org[i].kind
  <2>1. /\ i \in DOMAIN OrgBefore /\ org[i] = OrgBefore[i]
        /\ org[i] \in [kind : Kind, by : {Prior, People}, suffix : Nat]
    BY <1>1, <1>2, HarnessAssumption
  <2>2. org[i].by \in {Prior, People}
    BY <2>1
  <2>3. org[i].by = Prior => \E m \in DOMAIN SweepOrder : SweepOrder[m] = org[i].kind
    BY <1>1, <1>2, HarnessAssumption
  <2> QED
    BY <2>1, <2>2, <2>3, HarnessAssumption DEF Resource
<1>3. Empty \in H /\ NoHistory \in History
  BY DEF Empty, H, Stage, NoHistory, History, Shared
<1>4. TypeOK
  <2>1. DOMAIN org \subseteq 1 .. next - 1 /\ next \in Nat
    BY <1>1, HarnessAssumption
  <2>2. title \in [Shared -> Nat]
    BY <1>1
  <2>3. h \in [Test -> H] /\ hist \in [Test -> History]
    BY <1>1, <1>3
  <2>4. \A t \in Test : ~At(t, "body")
    BY <1>1 DEF At, Empty
  <2> QED
    BY <1>1, <1>2, <2>1, <2>2, <2>3, <2>4 DEF TypeOK
<1>5. OrgInv
  BY <1>1, <1>2, HarnessAssumption DEF OrgInv
<1>6. ASSUME NEW t \in Test PROVE TestInv(t)
  <2>1. /\ h[t].stage = "idle" /\ h[t].cleanups = << >> /\ h[t].victims = {} /\ h[t].ledger = {}
        /\ h[t].latestKey = 0
        /\ hist[t].known = {} /\ hist[t].leftovers = {}
    BY <1>1 DEF Empty, NoHistory
  <2>2. StageInv(t) /\ StackInv(t) /\ VictimInv(t)
    BY <2>1 DEF StageInv, StackInv, VictimInv
  <2>3. CoverInv(t) /\ SweepInv(t)
    BY <1>2, <2>1 DEF CoverInv, SweepInv
  <2>4. AloneInv(t) /\ TitleInv(t)
    BY <2>1 DEF AloneInv, TitleInv, Alone, Working
  <2> QED
    BY <2>2, <2>3, <2>4 DEF TestInv
<1> QED
  BY <1>4, <1>5, <1>6 DEF HarnessInv

LEMMA HarnessInvStutters == ASSUME HarnessInv, UNCHANGED vars PROVE HarnessInv'
<1>1. /\ org' = org /\ title' = title /\ next' = next /\ mode' = mode /\ faults' = faults
      /\ h' = h /\ hist' = hist
  BY DEF vars
<1>2. TypeOK' /\ OrgInv'
  BY <1>1 DEF HarnessInv, TypeOK, OrgInv, At
<1>3. ASSUME NEW t \in Test PROVE TestInv(t)'
  <2>1. /\ StageInv(t) /\ StackInv(t) /\ VictimInv(t) /\ CoverInv(t) /\ SweepInv(t)
        /\ AloneInv(t) /\ TitleInv(t)
    BY DEF HarnessInv, TestInv
  <2>2. StageInv(t)'
    BY <1>1, <2>1 DEF StageInv
  <2>3. StackInv(t)' /\ VictimInv(t)'
    BY <1>1, <2>1 DEF StackInv, VictimInv
  <2>4. CoverInv(t)' /\ SweepInv(t)'
    BY <1>1, <2>1 DEF CoverInv, SweepInv, Covered
  <2>5. AloneInv(t)'
    BY <1>1, <2>1 DEF AloneInv, Alone, Others
  <2>6. TitleInv(t)'
    BY <1>1, <2>1 DEF TitleInv, Alone, Restores
  <2> QED
    BY <2>2, <2>3, <2>4, <2>5, <2>6 DEF TestInv
<1> QED
  BY <1>2, <1>3 DEF HarnessInv

LEMMA HarnessInvStep == ASSUME HarnessInv, [Next]_vars PROVE HarnessInv'
<1>1. CASE UNCHANGED vars
  BY <1>1, HarnessInvStutters
<1>2. ASSUME NEW t \in Test, NEW k \in ByHelper, CreateHelper(t, k) PROVE HarnessInv'
  BY <1>2, CreateHelperStep
<1>3. ASSUME NEW t \in Test, NEW k \in ByCLI, CreateByCLI(t, k) PROVE HarnessInv'
  BY <1>3, CreateByCLIStep
<1>4. ASSUME NEW t \in Test, NEW k \in Shared, Snapshot(t, k) \/ Rename(t, k) PROVE HarnessInv'
  BY <1>4, SnapshotStep, RenameStep
<1>5. ASSUME NEW t \in Test,
             \/ Begin(t) \/ Guard(t) \/ SweepList(t) \/ SweepDelete(t) \/ SweepDone(t)
             \/ RotateKey(t) \/ BodyEnds(t)
      PROVE  HarnessInv'
  BY <1>5, BeginStep, GuardStep, SweepListStep, SweepDeleteStep, SweepDoneStep, RotateKeyStep, BodyEndsStep
<1>6. ASSUME NEW t \in Test,
             \/ RunDelete(t) \/ RunByName(t) \/ DeleteByName(t) \/ RunRestore(t)
             \/ Flush(t) \/ RemoveTempDir(t) \/ Crash(t)
      PROVE  HarnessInv'
  BY <1>6, RunDeleteStep, RunByNameStep, DeleteByNameStep, RunRestoreStep, FlushStep, LeaveStep
<1> QED
  BY <1>1, <1>2, <1>3, <1>4, <1>5, <1>6 DEF Next

-----------------------------------------------------------------------------
(* The theorems.                                                           *)

\* In every reachable state of the harness its inductive invariant holds: each
\* resource that a test made is covered by a cleanup, ledgered or gone, no
\* cleanup disturbs another, and nothing of anybody else's is a victim.
THEOREM HarnessInvariant == Spec => []HarnessInv
<1>1. Init => HarnessInv
  BY HarnessInvInit
<1>2. HarnessInv /\ [Next]_vars => HarnessInv'
  BY HarnessInvStep
<1> QED
  BY <1>1, <1>2, PTL DEF Spec

\* The state of the harness has its type, and the slot h.latestKey of
\* CreateAPIKey always points into the cleanup of a key while a body runs.
THEOREM HarnessTypeOK == Spec => []TypeOK
<1>1. HarnessInv => TypeOK
  BY DEF HarnessInv
<1> QED
  BY <1>1, HarnessInvariant, PTL

\* A test that ends without having failed has left nothing of its own in the
\* organization, and the shared titles are those it found unless another test
\* was at work: H.End has no way to pass over a leftover.
THEOREM PassingLeavesNothing == Spec => []PassLeavesNothing
<1>1. ASSUME HarnessInv, NEW t \in Test, At(t, "ended"), ~h[t].failed
      PROVE  /\ \A i \in DOMAIN org : org[i].by # t
             /\ hist[t].overlapped \/ title = hist[t].titles
  <2>1. h[t].stage = "ended" /\ h[t].cleanups = << >> /\ Len(h[t].cleanups) = 0
    BY <1>1 DEF At, HarnessInv, TestInv, StageInv
  <2>2. \A i \in DOMAIN org : org[i].by # t
    BY <1>1, <2>1 DEF HarnessInv, TestInv, CoverInv, Covered
  <2>3. ASSUME ~hist[t].overlapped PROVE title = hist[t].titles
    <3>1. \A k \in Shared : title[k] = hist[t].titles[k]
      BY <1>1, <2>1, <2>3 DEF HarnessInv, TestInv, TitleInv, Alone, Working
    <3>2. title \in [Shared -> Nat] /\ hist[t].titles \in [Shared -> Nat]
      BY <1>1 DEF HarnessInv, TypeOK, History
    <3> QED
      BY <3>1, <3>2
  <2> QED
    BY <2>2, <2>3
<1>2. HarnessInv => PassLeavesNothing
  BY <1>1 DEF PassLeavesNothing
<1> QED
  BY <1>2, HarnessInvariant, PTL

\* When End returns, each number the harness has had a cleanup for is gone or
\* in the ledger of RecordManualRevert, whatever failed and whoever else was
\* at work on the organization.
THEOREM LeftoversAreLedgered == Spec => []KnownLeftoversAreLedgered
<1>1. ASSUME HarnessInv, NEW t \in Test, At(t, "ended")
      PROVE  hist[t].known \intersect DOMAIN org \subseteq h[t].ledger
  <2>1. Len(h[t].cleanups) = 0
    BY <1>1 DEF At, HarnessInv, TestInv, StageInv
  <2> QED
    BY <1>1, <2>1 DEF HarnessInv, TestInv, CoverInv, Covered
<1>2. HarnessInv => KnownLeftoversAreLedgered
  BY <1>1 DEF KnownLeftoversAreLedgered
<1> QED
  BY <1>2, HarnessInvariant, PTL

\* The ledger has an entry only if a call has failed or another test was at
\* work: cleanups by name and by number never make each other fail.
THEOREM NoAlarmIsFalse == Spec => []NoFalseAlarm
<1>1. ASSUME HarnessInv, NEW t \in Test, h[t].ledger # {} PROVE hist[t].faulted \/ hist[t].overlapped
  <2>1. h[t].stage \in {"end", "ended"}
    BY <1>1 DEF HarnessInv, TestInv, StageInv
  <2> QED
    BY <1>1, <2>1 DEF HarnessInv, TestInv, AloneInv, Alone, Working
<1>2. HarnessInv => NoFalseAlarm
  BY <1>1 DEF NoFalseAlarm
<1> QED
  BY <1>2, HarnessInvariant, PTL

\* When a body starts, or the run that only sweeps is done, what the tests
\* before had abandoned is gone, but for what the service refused to delete.
THEOREM TheSweepReaps == Spec => []SweepReaps
<1>1. HarnessInv => SweepReaps
  BY DEF SweepReaps, HarnessInv, TestInv, SweepInv
<1> QED
  BY <1>1, HarnessInvariant, PTL

\* A step of a test that is neither dry nor of another organization is needed
\* to change anything there.
LEMMA OnlyOthersTouch ==
  ASSUME HarnessInv, [Next]_vars, \A t \in Test : mode[t] \in {"dry", "wrongOrg"}
  PROVE  org' = org /\ title' = title
<1>1. ASSUME NEW t \in Test PROVE ~At(t, "sweep") /\ ~At(t, "end") /\ ~InBody(t)
  <2>1. mode[t] \in {"dry", "wrongOrg"} /\ StageInv(t)
    BY DEF HarnessInv, TestInv
  <2> QED
    BY <2>1 DEF StageInv, At, InBody
<1>2. CASE UNCHANGED vars
  BY <1>2 DEF vars
<1>3. ASSUME NEW t \in Test, Begin(t) \/ Guard(t) \/ BodyEnds(t) \/ RemoveTempDir(t) \/ Crash(t)
      PROVE  org' = org /\ title' = title
  BY <1>3 DEF Begin, Guard, BodyEnds, RemoveTempDir, Crash, service
<1>4. ASSUME NEW t \in Test
      PROVE  /\ ~SweepList(t) /\ ~SweepDelete(t) /\ ~SweepDone(t)
             /\ \A k : ~CreateHelper(t, k) /\ ~CreateByCLI(t, k) /\ ~Snapshot(t, k) /\ ~Rename(t, k)
             /\ ~RotateKey(t)
  BY <1>1 DEF SweepList, SweepDelete, SweepDone, CreateHelper, CreateByCLI, Registers, RotateKey, Snapshot, Rename
<1>5. ASSUME NEW t \in Test
      PROVE  ~RunDelete(t) /\ ~RunByName(t) /\ ~DeleteByName(t) /\ ~RunRestore(t) /\ ~Flush(t)
  BY <1>1 DEF RunDelete, RunByName, DeleteByName, RunRestore, Flush
<1> QED
  BY <1>2, <1>3, <1>4, <1>5 DEF Next

\* No step changes the environment of a test.
LEMMA ModesStay == ASSUME [Next]_vars PROVE mode' = mode
<1>1. CASE UNCHANGED vars
  BY <1>1 DEF vars
<1>2. ASSUME NEW t \in Test, Begin(t) \/ Guard(t) \/ SweepList(t) \/ SweepDelete(t) \/ SweepDone(t) PROVE mode' = mode
  BY <1>2 DEF Begin, Guard, SweepList, SweepDelete, SweepDone
<1>3. ASSUME NEW t \in Test, NEW k, CreateHelper(t, k) \/ CreateByCLI(t, k) \/ Snapshot(t, k) \/ Rename(t, k)
      PROVE  mode' = mode
  BY <1>3 DEF CreateHelper, CreateByCLI, Snapshot, Rename
<1>4. ASSUME NEW t \in Test, RotateKey(t) \/ BodyEnds(t) \/ RunDelete(t) \/ RunByName(t) PROVE mode' = mode
  BY <1>4 DEF RotateKey, BodyEnds, RunDelete, RunByName
<1>5. ASSUME NEW t \in Test, DeleteByName(t) \/ RunRestore(t) \/ Flush(t) \/ RemoveTempDir(t) \/ Crash(t)
      PROVE  mode' = mode
  BY <1>5 DEF DeleteByName, RunRestore, Flush, RemoveTempDir, Crash
<1> QED
  BY <1>1, <1>2, <1>3, <1>4, <1>5 DEF Next

\* Tests that run dry, or with the token of another organization than the
\* expected one, leave the organization as it is: guardOrg comes before the
\* sweep and before anything a body does.
THEOREM HandsOff == Spec => []HandsOffTheWrongOrg
<1>1. Init => HandsOffTheWrongOrg
  BY DEF Init, HandsOffTheWrongOrg
<1>2. ASSUME HarnessInv, HandsOffTheWrongOrg, [Next]_vars PROVE HandsOffTheWrongOrg'
  <2> SUFFICES ASSUME \A t \in Test : mode'[t] \in {"dry", "wrongOrg"}
               PROVE  org' = OrgBefore /\ title' = [k \in Shared |-> 0]
    BY DEF HandsOffTheWrongOrg
  <2>1. \A t \in Test : mode[t] \in {"dry", "wrongOrg"}
    BY <1>2, ModesStay
  <2> QED
    BY <1>2, <2>1, OnlyOthersTouch DEF HandsOffTheWrongOrg
<1>3. HarnessInv /\ HandsOffTheWrongOrg /\ [Next]_vars => HandsOffTheWrongOrg'
  BY <1>2
<1> QED
  BY <1>1, <1>3, HarnessInvariant, PTL DEF Spec

\* No step of the sweep, of a cleanup or of a body deletes or changes what
\* people made in the organization.
THEOREM PeopleKeepWhatIsTheirs == Spec => PeopleKeepTheirs
<1> DEFINE Kept == \A i \in DOMAIN org : org[i].by = People => i \in DOMAIN org' /\ org'[i] = org[i]
<1>1. ASSUME HarnessInv, Next PROVE Kept
  <2> SUFFICES ASSUME NEW i \in DOMAIN org, org[i].by = People PROVE i \in DOMAIN org' /\ org'[i] = org[i]
    OBVIOUS
  <2>1. People \notin Test /\ i # next
    BY <1>1, OrgFacts DEF HarnessInv
  <2>2. ASSUME NEW t \in Test,
               \/ Begin(t) \/ Guard(t) \/ SweepList(t) \/ SweepDone(t) \/ BodyEnds(t) \/ RunByName(t)
               \/ RunRestore(t) \/ Flush(t) \/ RemoveTempDir(t) \/ Crash(t)
               \/ \E k \in Shared : Snapshot(t, k) \/ Rename(t, k)
        PROVE  org' = org
    BY <2>2 DEF Begin, Guard, SweepList, SweepDone, BodyEnds, RunByName, RunRestore, Flush, RemoveTempDir,
                Crash, Snapshot, Rename, service
  <2>3. ASSUME NEW t \in Test, SweepDelete(t) \/ DeleteByName(t) PROVE i \in DOMAIN org' /\ org'[i] = org[i]
    <3>1. PICK j \in h[t].victims : org' = Without(j) \/ org' = org
      BY <2>3 DEF SweepDelete, DeleteByName
    <3>2. j # i
      BY <1>1 DEF HarnessInv, TestInv, VictimInv
    <3> QED
      BY <3>1, <3>2, WithoutFacts
  <2>4. ASSUME NEW t \in Test, RunDelete(t) PROVE i \in DOMAIN org' /\ org'[i] = org[i]
    <3> DEFINE c == h[t].cleanups
               x == c[Len(c)]
    <3>1. c # << >> /\ x.op = "delete" /\ (org' = Without(x.arg) \/ org' = org)
      BY <2>4 DEF RunDelete, Newest
    <3>2. Len(c) \in 1 .. Len(c)
      <4>1. c \in Seq(Cleanup)
        BY <1>1, TypeFacts DEF HarnessInv
      <4> QED
        BY <3>1, <4>1
    <3>3. x.arg # i
      BY <1>1, <2>1, <3>1, <3>2 DEF HarnessInv, TestInv, StackInv
    <3> HIDE DEF x
    <3>4. CASE org' = Without(x.arg)
      BY <3>3, <3>4 DEF Without
    <3> QED
      BY <3>1, <3>4
  <2>5. ASSUME NEW t \in Test, NEW k, CreateHelper(t, k) \/ CreateByCLI(t, k)
        PROVE  i \in DOMAIN org' /\ org'[i] = org[i]
    <3> DEFINE r == [kind |-> k, by |-> t, suffix |-> next]
    <3>1. org' = With(next, r) \/ org' = org
      BY <2>5 DEF CreateHelper, CreateByCLI
    <3> HIDE DEF r
    <3>2. CASE org' = With(next, r)
      BY <2>1, <3>2 DEF With
    <3> QED
      BY <3>1, <3>2
  <2>6. ASSUME NEW t \in Test, RotateKey(t) PROVE i \in DOMAIN org' /\ org'[i] = org[i]
    <3> DEFINE c   == h[t].cleanups
               l   == h[t].latestKey
               key == c[l].arg
    <3>1. /\ h[t].stage = "body" /\ l > 0
          /\ \/ org' = [j \in (DOMAIN org \ {key}) \union {next} |->
                          IF j = next THEN org[key] ELSE org[j]]
             \/ org' = org
      BY <2>6 DEF RotateKey, InBody, At
    <3>2. l \in 1 .. Len(c) /\ c[l].op = "delete"
      BY <1>1, <3>1, TypeFacts, SMTT(20) DEF HarnessInv, SlotInv, At
    <3>3. key # i
      BY <1>1, <2>1, <3>2 DEF HarnessInv, TestInv, StackInv
    <3> QED
      BY <2>1, <3>1, <3>3
  <2> QED
    BY <1>1, <2>2, <2>3, <2>4, <2>5, <2>6 DEF Next
<1>2. HarnessInv /\ [Next]_vars => [Kept]_vars
  BY <1>1
<1> QED
  BY <1>2, HarnessInvariant, PTL DEF Spec, PeopleKeepTheirs
=============================================================================
