------------------------------- MODULE Semver -------------------------------
(***************************************************************************)
(* The order of versions by which an update is offered.  Of the text of a  *)
(* version, a leading v and what follows a + are cut off; a part is the    *)
(* number between two dots, or BadPart; pre is the place that the text     *)
(* after the first - has in the order of bytes ("rc.10" is before "rc.9"), *)
(* NoPre where there is none.                                              *)
(***************************************************************************)
EXTENDS Integers, Sequences

BadPart == -1
NoPre   == 0

Text == [parts : Seq(Nat \union {BadPart}), pre : Nat]

ParseSemver(text) ==
  [core |-> text.parts,
   pre  |-> text.pre,
   ok   |-> Len(text.parts) = 3 /\ \A i \in 1 .. 3 : text.parts[i] # BadPart]

\* Defect: no text comes before any text, so a release before its pre-releases.
CmpPreAsText(a, b) == IF a = b THEN 0 ELSE IF a < b THEN -1 ELSE 1

CmpPre(a, b) ==
  CASE a = b -> 0
    [] a # b /\ a = NoPre -> 1
    [] a # b /\ b = NoPre -> -1
    [] OTHER -> IF a < b THEN -1 ELSE 1

FirstDifference(x, y) == CHOOSE i \in 1 .. 3 : x[i] # y[i] /\ \A j \in 1 .. i - 1 : x[j] = y[j]

\* 0 if either is malformed.
CmpSemver(a, b) ==
  LET x == ParseSemver(a)
      y == ParseSemver(b)
      i == FirstDifference(x.core, y.core)
  IN  IF ~x.ok \/ ~y.ok THEN 0
      ELSE IF \A j \in 1 .. 3 : x.core[j] = y.core[j] THEN CmpPre(x.pre, y.pre)
      ELSE IF x.core[i] < y.core[i] THEN -1 ELSE 1

-----------------------------------------------------------------------------
(* What it means for a version to be older: both are versions; the numbers *)
(* decide, then a pre-release is before its release.                       *)

IsVersion(text) == Len(text.parts) = 3 /\ \A i \in 1 .. 3 : text.parts[i] \in Nat

Older(a, b) ==
  /\ IsVersion(a) /\ IsVersion(b)
  /\ \/ \E i \in 1 .. 3 :
          a.parts[i] < b.parts[i] /\ \A j \in 1 .. i - 1 : a.parts[j] = b.parts[j]
     \/ /\ \A j \in 1 .. 3 : a.parts[j] = b.parts[j]
        /\ a.pre # NoPre /\ (b.pre = NoPre \/ a.pre < b.pre)
=============================================================================
