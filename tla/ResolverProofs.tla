--------------------------- MODULE ResolverProofs ---------------------------
(***************************************************************************)
(* Proofs about Resolver, for every verb tree and every argv.              *)
(***************************************************************************)
EXTENDS Resolver, WellFoundedInduction, TLAPS

(* What is in a sequence, and how often, after the operations Resolve and  *)
(* ParseFlags use.                                                         *)

LEMMA AppendFacts ==
  ASSUME NEW S, NEW s \in Seq(S), NEW x \in S
  PROVE  /\ Append(s, x) \in Seq(S)
         /\ Elements(Append(s, x)) = Elements(s) \cup {x}
         /\ Distinct(s) /\ x \notin Elements(s) => Distinct(Append(s, x))
<1> DEFINE t == Append(s, x)
<1>1. t \in Seq(S) /\ Len(t) = Len(s) + 1 /\ t[Len(s) + 1] = x
  OBVIOUS
<1>2. \A k \in 1 .. Len(s) : t[k] = s[k]
  OBVIOUS
<1>3. DOMAIN s = 1 .. Len(s) /\ DOMAIN t = 1 .. (Len(s) + 1) /\ Len(s) \in Nat
  BY <1>1
<1> HIDE DEF t
<1>4. Elements(t) = Elements(s) \cup {x}
  <2>1. ASSUME NEW y \in Elements(t) PROVE y \in Elements(s) \cup {x}
    BY <2>1, <1>1, <1>2, <1>3 DEF Elements
  <2>2. ASSUME NEW y \in Elements(s) \cup {x} PROVE y \in Elements(t)
    BY <2>2, <1>1, <1>2, <1>3 DEF Elements
  <2> QED BY <2>1, <2>2
<1>5. ASSUME Distinct(s), x \notin Elements(s) PROVE Distinct(t)
  BY <1>5, <1>1, <1>2, <1>3 DEF Distinct, Elements
<1> QED BY <1>1, <1>4, <1>5 DEF t

LEMMA TailFacts ==
  ASSUME NEW S, NEW s \in Seq(S), s # << >>
  PROVE  /\ Head(s) \in S /\ Tail(s) \in Seq(S) /\ Head(s) = s[1]
         /\ Elements(s) = {Head(s)} \cup Elements(Tail(s))
         /\ Distinct(s) => Distinct(Tail(s)) /\ Head(s) \notin Elements(Tail(s))
<1> DEFINE t == Tail(s)
<1>1. t \in Seq(S) /\ Len(t) = Len(s) - 1 /\ Len(s) \in Nat \ {0} /\ Head(s) = s[1]
  OBVIOUS
<1>2. \A k \in 1 .. Len(t) : t[k] = s[k + 1]
  OBVIOUS
<1>3. DOMAIN s = 1 .. Len(s) /\ DOMAIN t = 1 .. (Len(s) - 1)
  BY <1>1
<1> HIDE DEF t
<1>4. Elements(s) = {s[1]} \cup Elements(t)
  <2>1. ASSUME NEW k \in DOMAIN s PROVE s[k] \in {s[1]} \cup Elements(t)
    <3>1. CASE k = 1 BY <3>1
    <3>2. CASE k # 1
      <4>1. k - 1 \in DOMAIN t /\ t[k - 1] = s[k]
        BY <3>2, <1>1, <1>2, <1>3
      <4> QED BY <4>1 DEF Elements
    <3> QED BY <3>1, <3>2
  <2>2. ASSUME NEW k \in DOMAIN t PROVE t[k] \in Elements(s)
    <3>1. k + 1 \in DOMAIN s /\ t[k] = s[k + 1]
      BY <1>1, <1>2, <1>3
    <3> QED BY <3>1 DEF Elements
  <2>3. s[1] \in Elements(s)
    BY <1>1, <1>3 DEF Elements
  <2> QED BY <2>1, <2>2, <2>3 DEF Elements
<1>5. ASSUME Distinct(s) PROVE Distinct(t) /\ s[1] \notin Elements(t)
  <2>1. ASSUME NEW k \in DOMAIN t PROVE t[k] # s[1]
    BY <1>5, <1>1, <1>2, <1>3 DEF Distinct
  <2>2. ASSUME NEW j \in DOMAIN t, NEW k \in DOMAIN t, t[j] = t[k] PROVE j = k
    <3>1. s[j + 1] = s[k + 1] /\ j + 1 \in DOMAIN s /\ k + 1 \in DOMAIN s
      BY <2>2, <1>1, <1>2, <1>3
    <3>2. j + 1 = k + 1
      BY <3>1, <1>5 DEF Distinct
    <3> QED BY <3>2, <1>1, <1>3
  <2> QED BY <2>1, <2>2 DEF Distinct, Elements
<1>6. s[1] \in S
  BY <1>1
<1> QED BY <1>1, <1>4, <1>5, <1>6 DEF t

LEMMA AboveOne == \A n \in Nat : n > 1 => n # 1
OBVIOUS

LEMMA SecondFacts ==
  ASSUME NEW S, NEW s \in Seq(S), s # << >>, Len(s) # 1
  PROVE  Tail(s) # << >> /\ s[2] \in S /\ Head(Tail(s)) = s[2] /\ Tail(Tail(s)) \in Seq(S)
<1>0. Len(s) \in Nat \ {0} /\ Len(Tail(s)) = Len(s) - 1 /\ Tail(s) \in Seq(S)
  OBVIOUS
<1>1. Len(s) \in Nat /\ Len(s) > 1 /\ Len(Tail(s)) = Len(s) - 1 /\ Tail(s) \in Seq(S)
  BY <1>0
<1>2. s[2] \in S /\ Tail(s)[1] = s[2]
  BY <1>1
<1>3. Tail(s) # << >>
  BY <1>1
<1>4. Tail(Tail(s)) \in Seq(S) /\ Head(Tail(s)) = Tail(s)[1]
  BY <1>1, <1>3
<1> QED BY <1>2, <1>3, <1>4

LEMMA ConcatFacts ==
  ASSUME NEW S, NEW s \in Seq(S), NEW t \in Seq(S)
  PROVE  /\ s \o t \in Seq(S)
         /\ Elements(s \o t) = Elements(s) \cup Elements(t)
         /\ Distinct(s) /\ Distinct(t) /\ Elements(s) \cap Elements(t) = {}
              => Distinct(s \o t)
<1> DEFINE u == s \o t
<1>1. u \in Seq(S) /\ Len(u) = Len(s) + Len(t) /\ Len(s) \in Nat /\ Len(t) \in Nat
  OBVIOUS
<1>2. /\ \A k \in 1 .. Len(s) : u[k] = s[k]
      /\ \A k \in 1 .. Len(u) : k > Len(s) => u[k] = t[k - Len(s)]
  OBVIOUS
<1>3. DOMAIN s = 1 .. Len(s) /\ DOMAIN t = 1 .. Len(t) /\ DOMAIN u = 1 .. (Len(s) + Len(t))
  BY <1>1
<1> HIDE DEF u
<1>4. \A k \in DOMAIN u :
        \/ k \in DOMAIN s /\ u[k] = s[k]
        \/ k - Len(s) \in DOMAIN t /\ u[k] = t[k - Len(s)]
  BY <1>1, <1>2, <1>3
<1>5. Elements(u) = Elements(s) \cup Elements(t)
  <2>1. ASSUME NEW y \in Elements(u) PROVE y \in Elements(s) \cup Elements(t)
    BY <2>1, <1>4 DEF Elements
  <2>2. ASSUME NEW y \in Elements(s) PROVE y \in Elements(u)
    BY <2>2, <1>1, <1>2, <1>3 DEF Elements
  <2>3. ASSUME NEW y \in Elements(t) PROVE y \in Elements(u)
    <3>1. PICK k \in DOMAIN t : y = t[k]
      BY <2>3 DEF Elements
    <3>2. k + Len(s) \in DOMAIN u /\ (k + Len(s)) - Len(s) = k /\ k + Len(s) > Len(s)
      BY <3>1, <1>1, <1>3
    <3>3. u[k + Len(s)] = y
      BY <3>1, <3>2, <1>1, <1>2, <1>3
    <3> QED BY <3>2, <3>3 DEF Elements
  <2> QED BY <2>1, <2>2, <2>3
<1>6. ASSUME Distinct(s), Distinct(t), Elements(s) \cap Elements(t) = {},
             NEW j \in DOMAIN u, NEW k \in DOMAIN u, u[j] = u[k]
      PROVE  j = k
  <2>1. CASE j \in DOMAIN s /\ k \in DOMAIN s
    BY <2>1, <1>6, <1>2, <1>3 DEF Distinct
  <2>2. CASE j \notin DOMAIN s /\ k \notin DOMAIN s
    <3>1. j - Len(s) \in DOMAIN t /\ k - Len(s) \in DOMAIN t /\ t[j - Len(s)] = t[k - Len(s)]
      BY <2>2, <1>6, <1>4
    <3>2. j - Len(s) = k - Len(s)
      BY <3>1, <1>6 DEF Distinct
    <3> QED BY <3>2, <1>1, <1>3
  <2>3. CASE j \in DOMAIN s /\ k \notin DOMAIN s
    <3>1. u[j] = s[j] /\ k - Len(s) \in DOMAIN t /\ u[k] = t[k - Len(s)]
      BY <2>3, <1>4, <1>2, <1>3
    <3> QED BY <3>1, <2>3, <1>6 DEF Elements
  <2>4. CASE j \notin DOMAIN s /\ k \in DOMAIN s
    <3>1. u[k] = s[k] /\ j - Len(s) \in DOMAIN t /\ u[j] = t[j - Len(s)]
      BY <2>4, <1>4, <1>2, <1>3
    <3> QED BY <3>1, <2>4, <1>6 DEF Elements
  <2> QED BY <2>1, <2>2, <2>3, <2>4
<1> QED BY <1>1, <1>5, <1>6 DEF u, Distinct

LEMMA WiderSeq ==
  ASSUME NEW S, NEW R, S \subseteq R, NEW s \in Seq(S)
  PROVE  s \in Seq(R)
<1>1. s \in [1 .. Len(s) -> S] /\ Len(s) \in Nat
  OBVIOUS
<1>2. s \in [1 .. Len(s) -> R]
  BY <1>1
<1> QED BY <1>1, <1>2

LEMMA RunFacts ==
  ASSUME NEW m \in Nat, NEW n \in Nat
  PROVE  LET r == [k \in 1 .. n |-> m + k]
         IN  /\ r \in Seq((m + 1) .. (m + n))
             /\ Elements(r) = (m + 1) .. (m + n)
             /\ Distinct(r)
<1> DEFINE r == [k \in 1 .. n |-> m + k]
<1>1. DOMAIN r = 1 .. n /\ \A k \in 1 .. n : r[k] = m + k
  OBVIOUS
<1>2. r \in Seq((m + 1) .. (m + n))
  OBVIOUS
<1> HIDE DEF r
<1>3. ASSUME NEW y \in (m + 1) .. (m + n) PROVE y \in Elements(r)
  <2>1. y - m \in DOMAIN r /\ r[y - m] = y
    BY <1>1
  <2> QED BY <2>1 DEF Elements
<1>4. Elements(r) \subseteq (m + 1) .. (m + n)
  BY <1>1 DEF Elements
<1>5. Distinct(r)
  BY <1>1 DEF Distinct
<1> QED BY <1>2, <1>3, <1>4, <1>5 DEF r

-----------------------------------------------------------------------------
(* Types, and one message per failure.                                     *)

Fresh == pc = "start" =>
  /\ next = 1 /\ path = <<Root>> /\ leaf = Root /\ verbs = << >> /\ values = {}
  /\ flagTokens = << >> /\ args = << >> /\ settings = << >>

TypeInv == TypeOK /\ Fresh

Reported ==
  /\ pc \notin {"exit", "done"} => err = Nil /\ printed = 0
  /\ pc = "exit" => /\ printed = (IF Is(err, "reported") THEN 1 ELSE 0)
                    /\ ~(Is(err, "help") /\ Is(err, "reported"))
  /\ pc = "done" => printed = (IF code = 0 THEN 0 ELSE 1)

LEMMA OneMark ==
  ASSUME NEW m, NEW n
  PROVE  Is(<<m>>, n) <=> m = n
BY DEF Is

LEMMA TwoMarks ==
  ASSUME NEW l, NEW m, NEW n
  PROVE  Is(<<l, m>>, n) <=> n \in {l, m}
<1> DOMAIN <<l, m>> = 1 .. 2 /\ <<l, m>>[1] = l /\ <<l, m>>[2] = m
  OBVIOUS
<1> QED BY DEF Is

LEMMA ReportInit == Init => Reported
BY DEF Init, Reported

LEMMA ReportStep == Reported /\ [Next]_vars => Reported'
<1> SUFFICES ASSUME Reported, [Next]_vars PROVE Reported'
  OBVIOUS
<1> USE DEF Reported
<1>1. ASSUME WalkUnknown \/ ParseFails PROVE Reported'
  BY <1>1, TwoMarks DEF WalkUnknown, ParseFails, ReportUsageError, Goto
<1>2. ASSUME RunHelp \/ WalkEndsInHelp \/ ExecuteGroup PROVE Reported'
  BY <1>2, OneMark DEF RunHelp, WalkEndsInHelp, ExecuteGroup, ShowHelp, Goto
<1>3. ASSUME ExecuteLeaf PROVE Reported'
  <2>1. PICK e \in LeafError :
          IF ShouldAttachUsageHelp(e)
          THEN err' = Join(e, <<"reported">>)
               /\ printed' = (IF Is(e, "reported") THEN 1 ELSE 0) + 1
          ELSE err' = e /\ printed' = (IF Is(e, "reported") THEN 1 ELSE 0)
    BY <1>3 DEF ExecuteLeaf
  <2>2. pc' = "exit"
    BY <1>3 DEF ExecuteLeaf, Goto
  <2>3. CASE ShouldAttachUsageHelp(e)
    <3>1. e = <<"usage">>
      BY <2>3, OneMark, TwoMarks DEF ShouldAttachUsageHelp, LeafError, Is, Nil
    <3>2. err' = <<"usage", "reported">> /\ printed' = 1
      BY <2>1, <2>3, <3>1, OneMark DEF Join
    <3> QED BY <2>2, <3>2, TwoMarks
  <2>4. CASE ~ShouldAttachUsageHelp(e)
    <3>1. ~(Is(e, "help") /\ Is(e, "reported"))
      BY OneMark, TwoMarks DEF LeafError, Is, Nil
    <3> QED BY <2>1, <2>2, <2>4, <3>1
  <2> QED BY <2>3, <2>4
<1>4. ASSUME Exit PROVE Reported'
  <2>1. /\ pc = "exit" /\ pc' = "done" /\ code' = ExitCode(err)
        /\ printed' = IF PrintedByMain(err) THEN printed + 1 ELSE printed
    BY <1>4 DEF Exit, Goto
  <2>2. CASE err = Nil \/ Is(err, "help")
    BY <2>1, <2>2 DEF PrintedByMain, ExitCode, Is, Nil
  <2>3. CASE err # Nil /\ ~Is(err, "help")
    <3>1. code' # 0
      BY <2>1, <2>3 DEF ExitCode
    <3> QED BY <2>1, <2>3, <3>1 DEF PrintedByMain
  <2> QED BY <2>2, <2>3
<1>5. ASSUME UNCHANGED report, pc \notin {"exit", "done"}, pc' \notin {"exit", "done"}
      PROVE  Reported'
  BY <1>5 DEF report
<1>6. ASSUME RunVersion \/ RunResolve \/ WalkTerminator \/ WalkHelp \/ WalkFlag
               \/ WalkDescend \/ WalkPositional \/ WalkEnds
      PROVE  Reported'
  BY <1>5, <1>6 DEF RunVersion, RunResolve, WalkTerminator, WalkHelp, WalkFlag, WalkDescend,
     WalkPositional, WalkEnds, Walking, Goto
<1>7. ASSUME ParseSwitch \/ ParseValue \/ ParseWord \/ ParseTerminator \/ ParseEnds
      PROVE  Reported'
  BY <1>5, <1>7 DEF ParseSwitch, ParseValue, ParseWord, ParseTerminator, ParseEnds, Parsing, Goto
<1>8. CASE UNCHANGED vars
  BY <1>8 DEF vars, report
<1> QED BY <1>1, <1>2, <1>3, <1>4, <1>6, <1>7, <1>8 DEF Next

(* For every argv, and whatever a leaf does, run ends with one error       *)
(* message if its exit code is not zero, and with none if it is.           *)
THEOREM EveryFailureReportedOnce == Spec => []OneMessagePerFailure
<1>1. Reported => OneMessagePerFailure
  BY DEF Reported, OneMessagePerFailure
<1> QED BY <1>1, ReportInit, ReportStep, PTL DEF Spec

-----------------------------------------------------------------------------
LEMMA TypeInit == Init => TypeInv
<1> SUFFICES ASSUME Init PROVE TypeInv
  OBVIOUS
<1>1. argv \in Seq(Token)
  BY DEF Init
<1>2. << >> \in Seq(Places) /\ << >> \in Seq(Places \X Places) /\ << >> \in Seq(Mark)
  OBVIOUS
<1>3. <<Root>> \in Seq(Group) /\ Len(<<Root>>) = 1 /\ Len(<< >>) = 0 /\ <<Root>>[1] = Root
  BY TreeAssumption
<1>4. Len(argv) \in Nat
  BY <1>1
<1>5. path = <<Root>> /\ leaf = Root /\ verbs = << >>
  BY DEF Init
<1>6. Len(verbs) = Len(path) - 1 /\ leaf = path[Len(path)] /\ path # << >>
  BY <1>3, <1>5
<1>7. AtGroup
  BY <1>5, TreeAssumption DEF AtGroup
<1>8. next \in 1 .. Len(argv) + 1 /\ Fresh
  BY <1>4 DEF Init, Fresh
<1>9. path \in Seq(Group) /\ leaf \in Group \cup Leaf
  BY <1>3, <1>5, TreeAssumption
<1>10. {flagTokens, args, verbs} \subseteq Seq(Places) /\ settings \in Seq(Places \X Places)
  BY <1>2 DEF Init
<1>11. err \in Seq(Mark)
  BY <1>2 DEF Init, Nil
<1>12. /\ pc = "start" /\ help = FALSE /\ values = {} /\ printed = 0 /\ code = 0
  BY DEF Init
<1>13. printed \in 0 .. 2 /\ code \in 0 .. 3
  BY <1>12
<1> QED
  BY <1>1, <1>6, <1>7, <1>8, <1>9, <1>10, <1>11, <1>12, <1>13, Zenon DEF TypeInv, TypeOK

LEMMA ExitCodes == \A e : ExitCode(e) \in 0 .. 3
BY DEF ExitCode

LEMMA TypeStep == TypeInv /\ Reported /\ [Next]_vars => TypeInv'
<1> SUFFICES ASSUME TypeInv, Reported, [Next]_vars PROVE TypeInv'
  OBVIOUS
<1> USE DEF TypeInv, TypeOK, Fresh
<1>a. Places = 1 .. Len(argv) /\ Len(argv) \in Nat
  BY DEF Places
<1>1. ASSUME RunVersion PROVE TypeInv'
  <2> DEFINE t == [kind |-> "word", name |-> VersionWord, eq |-> FALSE]
  <2>1. t \in Token
    BY ArgvAssumption DEF Token
  <2>2. argv' = <<t>> /\ argv' \in Seq(Token) /\ Len(argv') = 1
    BY <1>1, <2>1 DEF RunVersion
  <2>3. << >> \in Seq(Places') /\ << >> \in Seq(Places' \X Places')
    OBVIOUS
  <2>4. /\ pc = "start" /\ pc' = "walk" /\ UNCHANGED <<walk, flagTokens, args, settings, report>>
    BY <1>1 DEF RunVersion, Goto
  <2> QED BY <2>2, <2>3, <2>4 DEF walk, report, AtGroup
<1>2. ASSUME RunHelp \/ WalkEndsInHelp \/ ExecuteGroup PROVE TypeInv'
  <2>1. <<"help">> \in Seq(Mark)
    BY DEF Mark
  <2> QED
    BY <1>2, <2>1 DEF RunHelp, WalkEndsInHelp, ExecuteGroup, ShowHelp, Goto, walk, AtGroup, Places
<1>3. ASSUME RunResolve \/ WalkEnds \/ ParseEnds PROVE TypeInv'
  BY <1>3 DEF RunResolve, WalkEnds, ParseEnds, Goto, walk, report, AtGroup, Places
<1>4. ASSUME WalkUnknown \/ ParseFails PROVE TypeInv'
  <2>1. <<"usage", "reported">> \in Seq(Mark)
    BY DEF Mark
  <2>2. printed = 0
    BY <1>4 DEF Reported, WalkUnknown, ParseFails, ReportUsageError, Goto
  <2>3. /\ UNCHANGED <<argv, next, path, leaf, verbs, help, values, flagTokens, args, settings, code>>
        /\ pc' = "exit" /\ err' = <<"usage", "reported">> /\ printed' = 1
    BY <1>4, <2>2 DEF WalkUnknown, ParseFails, ReportUsageError, Goto
  <2> QED
    BY <2>1, <2>3 DEF AtGroup, Places
<1>5. ASSUME WalkTerminator PROVE TypeInv'
  <2> DEFINE r == [k \in 1 .. (Len(argv) - next) |-> next + k]
  <2>1. next \in Places
    BY <1>5, <1>a DEF WalkTerminator, Walking
  <2>2. r \in Seq(Places)
    BY <2>1, <1>a
  <2>3. flagTokens' \in Seq(Places)
    BY <1>5, <2>1, AppendFacts DEF WalkTerminator
  <2>4. args' \in Seq(Places)
    BY <1>5, <2>2, ConcatFacts DEF WalkTerminator
  <2> QED
    BY <1>5, <1>a, <2>3, <2>4 DEF WalkTerminator, Walking, report, AtGroup, Places
<1>6. ASSUME WalkHelp PROVE TypeInv'
  <2>1. next \in Places
    BY <1>6, <1>a DEF WalkHelp, Walking
  <2>2. flagTokens' \in Seq(Places)
    BY <1>6, <2>1, AppendFacts DEF WalkHelp
  <2> QED
    BY <1>6, <1>a, <2>1, <2>2 DEF WalkHelp, Walking, report, AtGroup, Places
<1>7. ASSUME WalkFlag PROVE TypeInv'
  <2>1. next \in Places
    BY <1>7, <1>a DEF WalkFlag, Walking
  <2>2. CASE TakesNext(next)
    <3>1. next + 1 \in Places
      <4>1. next < Len(argv)
        BY <2>2 DEF TakesNext
      <4> QED BY ONLY <2>1, <4>1, <1>a
    <3>2. /\ flagTokens' = flagTokens \o [k \in 1 .. 2 |-> next + k - 1]
          /\ next' = next + 2 /\ values' = values \cup {next + 1}
      BY <1>7, <2>2 DEF WalkFlag
    <3>3. [k \in 1 .. 2 |-> next + k - 1] \in Seq(Places)
      <4>1. \A k \in 1 .. 2 : next + k - 1 \in {next, next + 1}
        BY ONLY <2>1, <1>a
      <4>2. [k \in 1 .. 2 |-> next + k - 1] \in [1 .. 2 -> Places]
        BY ONLY <2>1, <3>1, <4>1
      <4> QED BY ONLY <4>2
    <3>4. flagTokens' \in Seq(Places)
      BY <3>2, <3>3, ConcatFacts
    <3>5. values' \subseteq Places
      BY <3>1, <3>2
    <3>6. next' \in 1 .. Len(argv) + 1
      BY ONLY <2>1, <3>1, <3>2, <1>a
    <3> QED
      BY <1>7, <3>4, <3>5, <3>6 DEF WalkFlag, Walking, report, AtGroup, Places
  <2>3. CASE ~TakesNext(next)
    <3>1. /\ flagTokens' = flagTokens \o [k \in 1 .. 1 |-> next + k - 1]
          /\ next' = next + 1 /\ values' = values
      BY <1>7, <2>3 DEF WalkFlag
    <3>2. [k \in 1 .. 1 |-> next + k - 1] \in Seq(Places)
      <4>1. \A k \in 1 .. 1 : next + k - 1 = next
        BY ONLY <2>1, <1>a
      <4>2. [k \in 1 .. 1 |-> next + k - 1] \in [1 .. 1 -> Places]
        BY ONLY <2>1, <4>1
      <4> QED BY ONLY <4>2
    <3>3. flagTokens' \in Seq(Places)
      BY <3>1, <3>2, ConcatFacts
    <3>4. next' \in 1 .. Len(argv) + 1
      BY ONLY <2>1, <3>1, <1>a
    <3> QED
      BY <1>7, <3>1, <3>3, <3>4 DEF WalkFlag, Walking, report, AtGroup, Places
  <2> QED BY <2>2, <2>3
<1>8. ASSUME WalkDescend PROVE TypeInv'
  <2>1. next \in Places
    BY <1>8, <1>a DEF WalkDescend, Walking
  <2>2. leaf' \in Group \cup Leaf /\ leaf \in Group
    BY <1>8, TreeAssumption DEF WalkDescend, AtGroup
  <2>3. verbs' \in Seq(Places) /\ Len(verbs') = Len(verbs) + 1 /\ Len(verbs) \in Nat
    BY <1>8, <2>1 DEF WalkDescend
  <2>4. CASE leaf' \in Group
    <3>1. path' \in Seq(Group) /\ Len(path') = Len(path) + 1 /\ path'[Len(path')] = leaf'
          /\ Len(path) \in Nat
      BY <1>8, <2>4 DEF WalkDescend
    <3>2. path' # << >>
      BY <3>1
    <3> QED
      BY <1>8, <1>a, <2>1, <2>2, <2>3, <2>4, <3>1, <3>2 DEF WalkDescend, Walking, report, AtGroup, Places
  <2>5. CASE leaf' \notin Group
    <3>1. path' = path /\ Len(path) \in Nat
      BY <1>8, <2>5 DEF WalkDescend
    <3> QED
      BY <1>8, <1>a, <2>1, <2>2, <2>3, <2>5, <3>1 DEF WalkDescend, Walking, report, AtGroup, Places
  <2> QED BY <2>4, <2>5
<1>9. ASSUME WalkPositional PROVE TypeInv'
  <2>1. next \in Places
    BY <1>9, <1>a DEF WalkPositional, Walking
  <2>2. args' \in Seq(Places)
    BY <1>9, <2>1, AppendFacts DEF WalkPositional
  <2> QED
    BY <1>9, <1>a, <2>1, <2>2 DEF WalkPositional, Walking, report, AtGroup, Places
<1>10. ASSUME ParseSwitch PROVE TypeInv'
  <2>1. Head(flagTokens) \in Places /\ flagTokens' \in Seq(Places)
    BY <1>10, TailFacts DEF ParseSwitch, Parsing
  <2>2. settings' \in Seq(Places \X Places)
    BY <1>10, <2>1, AppendFacts DEF ParseSwitch
  <2> QED
    BY <1>10, <2>1, <2>2 DEF ParseSwitch, Parsing, walk, report, AtGroup, Places
<1>11. ASSUME ParseValue PROVE TypeInv'
  <2>1. Head(flagTokens) \in Places /\ flagTokens[2] \in Places /\ flagTokens' \in Seq(Places)
    <3>1. Len(flagTokens) > 1 /\ flagTokens' = Tail(Tail(flagTokens)) /\ flagTokens # << >>
      BY <1>11 DEF ParseValue, Parsing
    <3>2. Head(flagTokens) \in Places /\ Tail(flagTokens) \in Seq(Places)
      BY <3>1, TailFacts
    <3>3. Len(flagTokens) # 1
      <4>1. Len(flagTokens) \in Nat /\ Len(flagTokens) > 1
        BY <3>1
      <4> QED BY <4>1, AboveOne
    <3>4. flagTokens[2] \in Places /\ Tail(Tail(flagTokens)) \in Seq(Places)
      BY <3>1, <3>3, SecondFacts
    <3> QED BY <3>1, <3>2, <3>3, <3>4
  <2>2. settings' \in Seq(Places \X Places)
    BY <1>11, <2>1, AppendFacts DEF ParseValue
  <2> QED
    BY <1>11, <2>1, <2>2 DEF ParseValue, Parsing, walk, report, AtGroup, Places
<1>12. ASSUME ParseWord PROVE TypeInv'
  <2>1. Head(flagTokens) \in Places /\ flagTokens' \in Seq(Places)
    BY <1>12, TailFacts DEF ParseWord, Parsing
  <2>2. args' \in Seq(Places)
    BY <1>12, <2>1, AppendFacts DEF ParseWord
  <2> QED
    BY <1>12, <2>1, <2>2 DEF ParseWord, Parsing, walk, report, AtGroup, Places
<1>13. ASSUME ParseTerminator PROVE TypeInv'
  <2>1. flagTokens' \in Seq(Places) /\ args' \in Seq(Places)
    <3>1. flagTokens # << >> /\ Tail(flagTokens) \in Seq(Places)
      BY <1>13, TailFacts DEF ParseTerminator, Parsing
    <3>2. CASE Len(flagTokens) = 1
      BY <1>13, <3>2 DEF ParseTerminator
    <3>3. CASE Len(flagTokens) # 1
      <4>1. flagTokens[2] \in Places /\ Tail(Tail(flagTokens)) \in Seq(Places)
        BY <3>1, <3>3, SecondFacts
      <4>2. Append(args, flagTokens[2]) \in Seq(Places)
        BY <4>1, AppendFacts
      <4> QED BY <1>13, <3>3, <4>1, <4>2 DEF ParseTerminator
    <3> QED BY <3>2, <3>3
  <2> QED
    BY <1>13, <2>1 DEF ParseTerminator, Parsing, walk, report, AtGroup, Places
<1>14. ASSUME ExecuteLeaf PROVE TypeInv'
  <2>1. \A e \in LeafError : e \in Seq(Mark) /\ Join(e, <<"reported">>) \in Seq(Mark)
    <3>1. LeafError \subseteq Seq(Mark) /\ <<"reported">> \in Seq(Mark)
      BY DEF LeafError, Mark, Nil
    <3> QED BY <3>1 DEF Join
  <2>2. err' \in Seq(Mark) /\ printed' \in 0 .. 2
    BY <1>14, <2>1 DEF ExecuteLeaf
  <2> QED
    BY <1>14, <2>2 DEF ExecuteLeaf, Goto, walk, AtGroup, Places
<1>15. ASSUME Exit PROVE TypeInv'
  <2>1. printed' \in 0 .. 2
    BY <1>15 DEF Exit, Reported, Goto
  <2> QED
    BY <1>15, <2>1, ExitCodes DEF Exit, Goto, walk, AtGroup, Places
<1>16. CASE UNCHANGED vars
  BY <1>16 DEF vars, walk, report, AtGroup, Places
<1> QED
  BY <1>1, <1>2, <1>3, <1>4, <1>5, <1>6, <1>7, <1>8, <1>9, <1>10, <1>11, <1>12, <1>13, <1>14,
     <1>15, <1>16 DEF Next

(* TypeOK of Resolver holds in every reachable state. *)
THEOREM ResolverTypeCorrect == Spec => []TypeOK
<1>1. TypeInv => TypeOK
  BY DEF TypeInv
<1> QED BY <1>1, TypeInit, TypeStep, ReportInit, ReportStep, PTL DEF Spec

-----------------------------------------------------------------------------
(* Every token is used once: at any moment each token the walk has passed  *)
(* is in one place, and in one only.                                       *)

Taken(s) == UNION {Elements(s[k]) : k \in DOMAIN s}

Apart(s) == \A j, k \in DOMAIN s : Elements(s[j]) \cap Elements(s[k]) # {} => j = k

Separate(v, a, f, t) ==
  /\ v \cap a = {} /\ v \cap f = {} /\ v \cap t = {}
  /\ a \cap f = {} /\ a \cap t = {} /\ f \cap t = {}

Passed == 1 .. (next - 1)

Once ==
  /\ Distinct(verbs) /\ Distinct(args) /\ Distinct(flagTokens) /\ Apart(settings)
  /\ Separate(Elements(verbs), Elements(args), Elements(flagTokens), Taken(settings))

Accounted ==
  /\ Elements(verbs) \subseteq Passed /\ Elements(args) \subseteq Passed
  /\ Elements(flagTokens) \subseteq Passed /\ Taken(settings) \subseteq Passed
  /\ \A i \in Passed :
       \/ i \in Elements(verbs) \/ i \in Elements(args)
       \/ i \in Elements(flagTokens) \/ i \in Taken(settings)
       \/ argv[i].kind = "end"

Staged ==
  /\ pc \in {"parse", "execute"} => next = Len(argv) + 1
  /\ pc = "execute" => flagTokens = << >>

AccountInv == Once /\ Accounted /\ Staged

LEMMA EmptyFacts ==
  Elements(<< >>) = {} /\ Taken(<< >>) = {} /\ Distinct(<< >>) /\ Apart(<< >>)
BY DEF Elements, Taken, Distinct, Apart

LEMMA PairFacts ==
  ASSUME NEW S, NEW s \in Seq(S), NEW i, NEW j, <<i, j>> \in S
  PROVE  LET t == Append(s, <<i, j>>)
         IN  /\ Taken(t) = Taken(s) \cup {i, j}
             /\ Apart(s) /\ {i, j} \cap Taken(s) = {} => Apart(t)
<1> DEFINE p == <<i, j>>
           t == Append(s, p)
<1>0. p \in S
  OBVIOUS
<1>1. t \in Seq(S) /\ Len(t) = Len(s) + 1 /\ t[Len(s) + 1] = p /\ Len(s) \in Nat
  BY <1>0
<1>2. \A k \in 1 .. Len(s) : t[k] = s[k]
  BY <1>0
<1>3. DOMAIN s = 1 .. Len(s) /\ DOMAIN t = 1 .. (Len(s) + 1)
  BY <1>1
<1>4. Elements(p) = {i, j}
  BY DEF Elements
<1> HIDE DEF t, p
<1>5. Taken(t) = Taken(s) \cup Elements(p)
  <2>1. ASSUME NEW k \in DOMAIN t PROVE Elements(t[k]) \subseteq Taken(s) \cup Elements(p)
    <3>1. CASE k = Len(s) + 1
      BY <3>1, <1>1
    <3>2. CASE k # Len(s) + 1
      <4>1. k \in DOMAIN s /\ t[k] = s[k]
        BY <3>2, <1>1, <1>2, <1>3
      <4> QED BY <4>1 DEF Taken
    <3> QED BY <3>1, <3>2
  <2>2. ASSUME NEW k \in DOMAIN s PROVE Elements(s[k]) \subseteq Taken(t)
    <3>1. k \in DOMAIN t /\ t[k] = s[k]
      BY <1>1, <1>2, <1>3
    <3> QED BY <3>1 DEF Taken
  <2>3. Elements(p) \subseteq Taken(t)
    <3>1. Len(s) + 1 \in DOMAIN t /\ t[Len(s) + 1] = p
      BY <1>1, <1>3
    <3> QED BY <3>1 DEF Taken
  <2>4. Taken(t) \subseteq Taken(s) \cup Elements(p)
    BY <2>1 DEF Taken
  <2>5. Taken(s) \subseteq Taken(t)
    BY <2>2 DEF Taken
  <2> QED BY <2>3, <2>4, <2>5
<1>6. ASSUME Apart(s), Elements(p) \cap Taken(s) = {},
             NEW k \in DOMAIN t, NEW l \in DOMAIN t, Elements(t[k]) \cap Elements(t[l]) # {}
      PROVE  k = l
  <2>1. \A n \in DOMAIN t : \/ n = Len(s) + 1 /\ t[n] = p
                            \/ n \in DOMAIN s /\ t[n] = s[n] /\ Elements(t[n]) \subseteq Taken(s)
    <3>1. ASSUME NEW n \in DOMAIN t, n # Len(s) + 1
          PROVE  n \in DOMAIN s /\ t[n] = s[n] /\ Elements(t[n]) \subseteq Taken(s)
      <4>1. n \in DOMAIN s /\ t[n] = s[n]
        BY <3>1, <1>1, <1>2, <1>3
      <4> QED BY <4>1 DEF Taken
    <3> QED BY <3>1, <1>1
  <2>2. CASE k \in DOMAIN s /\ l \in DOMAIN s
    <3>1. t[k] = s[k] /\ t[l] = s[l]
      BY <2>2, <1>2, <1>3
    <3> QED BY <2>2, <3>1, <1>6 DEF Apart
  <2>3. CASE k \notin DOMAIN s /\ l \notin DOMAIN s
    BY <2>1, <2>3
  <2>4. CASE k \in DOMAIN s /\ l \notin DOMAIN s
    <3>1. t[l] = p /\ t[k] = s[k] /\ Elements(s[k]) \subseteq Taken(s)
      <4>1. t[l] = p
        BY <2>1, <2>4
      <4>2. t[k] = s[k]
        BY <2>4, <1>2, <1>3
      <4> QED BY <4>1, <4>2, <2>4 DEF Taken
    <3> QED BY <3>1, <1>6
  <2>5. CASE k \notin DOMAIN s /\ l \in DOMAIN s
    <3>1. t[k] = p /\ t[l] = s[l] /\ Elements(s[l]) \subseteq Taken(s)
      <4>1. t[k] = p
        BY <2>1, <2>5
      <4>2. t[l] = s[l]
        BY <2>5, <1>2, <1>3
      <4> QED BY <4>1, <4>2, <2>5 DEF Taken
    <3> QED BY <3>1, <1>6
  <2> QED BY <2>2, <2>3, <2>4, <2>5
<1> QED BY <1>4, <1>5, <1>6 DEF t, p, Apart

LEMMA AccountInit == Init => AccountInv
BY EmptyFacts DEF Init, AccountInv, Once, Accounted, Staged, Separate, Passed

LEMMA AccountStep == TypeInv /\ AccountInv /\ [Next]_vars => AccountInv'
<1> SUFFICES ASSUME TypeInv, AccountInv, [Next]_vars PROVE AccountInv'
  OBVIOUS
<1> DEFINE V == Elements(verbs)
           A == Elements(args)
           F == Elements(flagTokens)
           T == Taken(settings)
<1>a. /\ Places = 1 .. Len(argv) /\ Len(argv) \in Nat
      /\ next \in 1 .. (Len(argv) + 1) /\ next \in Nat
      /\ verbs \in Seq(Places) /\ args \in Seq(Places) /\ flagTokens \in Seq(Places)
      /\ settings \in Seq(Places \X Places)
  BY DEF TypeInv, TypeOK, Places
<1>b. Distinct(verbs) /\ Distinct(args) /\ Distinct(flagTokens) /\ Apart(settings)
  BY DEF AccountInv, Once
<1>c. Separate(V, A, F, T)
  BY DEF AccountInv, Once
<1>d. /\ V \subseteq Passed /\ A \subseteq Passed /\ F \subseteq Passed /\ T \subseteq Passed
      /\ \A i \in Passed : i \in V \/ i \in A \/ i \in F \/ i \in T \/ argv[i].kind = "end"
  BY DEF AccountInv, Accounted
<1>e. next \notin Passed /\ next + 1 \notin Passed
  BY <1>a DEF Passed
<1>1. ASSUME UNCHANGED <<argv, next, verbs, args, flagTokens, settings>>
      PROVE  Once' /\ Accounted'
  BY <1>1 DEF AccountInv, Once, Accounted, Passed
<1>2. ASSUME RunHelp \/ RunResolve \/ WalkUnknown \/ WalkEndsInHelp
      PROVE  AccountInv'
  BY <1>1, <1>2 DEF RunHelp, RunResolve, WalkUnknown, WalkEndsInHelp, ShowHelp, ReportUsageError,
     Goto, walk, AccountInv, Staged
<1>3. ASSUME ParseFails \/ ExecuteGroup \/ ExecuteLeaf \/ Exit
      PROVE  AccountInv'
  BY <1>1, <1>3 DEF ParseFails, ExecuteGroup, ExecuteLeaf, Exit, ShowHelp, ReportUsageError,
     Goto, walk, AccountInv, Staged
<1>4. ASSUME WalkEnds PROVE AccountInv'
  <2>1. next = Len(argv) + 1
    <3>1. next > Len(argv)
      BY <1>4 DEF WalkEnds
    <3> QED BY ONLY <3>1, <1>a
  <2> QED BY <1>1, <1>4, <2>1 DEF WalkEnds, Goto, walk, AccountInv, Staged
<1>5. ASSUME ParseEnds PROVE AccountInv'
  BY <1>1, <1>5 DEF ParseEnds, Goto, walk, AccountInv, Staged
<1>6. ASSUME RunVersion PROVE AccountInv'
  <2>1. /\ next' = 1 /\ pc' = "walk" /\ verbs' = << >> /\ args' = << >>
        /\ flagTokens' = << >> /\ settings' = << >>
    BY <1>6 DEF RunVersion, Goto, walk, TypeInv, Fresh
  <2> QED
    BY <2>1, EmptyFacts DEF AccountInv, Once, Accounted, Staged, Separate, Passed
<1>7. ASSUME WalkTerminator PROVE AccountInv'
  <2> DEFINE n == Len(argv) - next
             r == [k \in 1 .. n |-> next + k]
  <2>0. next <= Len(argv) /\ argv[next].kind = "end" /\ pc = "walk"
    BY <1>7 DEF WalkTerminator, Walking
  <2>1. next \in Places /\ n \in Nat /\ next + n = Len(argv)
    BY ONLY <2>0, <1>a
  <2>2. /\ flagTokens' = Append(flagTokens, next) /\ args' = args \o r
        /\ next' = Len(argv) + 1 /\ UNCHANGED <<argv, pc, verbs, settings>>
    BY <1>7 DEF WalkTerminator
  <2>3. /\ r \in Seq(Places) /\ Elements(r) = (next + 1) .. Len(argv) /\ Distinct(r)
    <3>1. r \in Seq((next + 1) .. (next + n)) /\ Elements(r) = (next + 1) .. (next + n) /\ Distinct(r)
      BY <2>1, <1>a, RunFacts
    <3> QED BY <3>1, <2>1, <1>a
  <2> HIDE DEF r
  <2>4. Elements(r) \cap Passed = {} /\ next \notin Elements(r)
    BY <2>1, <2>3, <1>a DEF Passed
  <2>5. Elements(flagTokens') = F \cup {next} /\ Distinct(flagTokens')
    BY <2>1, <2>2, <1>a, <1>b, <1>d, <1>e, AppendFacts
  <2>6. Elements(args') = A \cup Elements(r) /\ Distinct(args')
    <3>1. A \cap Elements(r) = {}
      BY <2>4, <1>d
    <3>2. Elements(args \o r) = A \cup Elements(r) /\ Distinct(args \o r)
      <4>1. /\ args \in Seq(Places) /\ r \in Seq(Places)
            /\ Distinct(args) /\ Distinct(r)
        BY <2>3, <1>a, <1>b
      <4> QED BY ONLY <3>1, <4>1, ConcatFacts
    <3> QED BY <2>2, <3>2
  <2>7. Passed' = Passed \cup {next} \cup Elements(r)
    <3>1. Passed' = 1 .. Len(argv)
      BY <2>2, <1>a DEF Passed
    <3>2. Passed = 1 .. (next - 1) /\ Elements(r) = (next + 1) .. Len(argv)
      BY <2>3 DEF Passed
    <3> QED BY ONLY <3>1, <3>2, <2>1, <1>a
  <2>8. Once'
    BY <2>2, <2>4, <2>5, <2>6, <1>b, <1>c, <1>d, <1>e DEF Once, Separate
  <2>9. Accounted'
    BY <2>0, <2>2, <2>5, <2>6, <2>7, <1>d DEF Accounted
  <2> QED BY <2>0, <2>2, <2>8, <2>9 DEF AccountInv, Staged
<1>8. ASSUME WalkHelp PROVE AccountInv'
  <2>1. next \in Places /\ pc = "walk"
    BY <1>8, <1>a DEF WalkHelp, Walking
  <2>2. /\ flagTokens' = Append(flagTokens, next) /\ next' = next + 1
        /\ UNCHANGED <<argv, pc, verbs, args, settings>>
    BY <1>8 DEF WalkHelp
  <2>3. Elements(flagTokens') = F \cup {next} /\ Distinct(flagTokens')
    BY <2>1, <2>2, <1>a, <1>b, <1>d, <1>e, AppendFacts
  <2>4. Passed' = Passed \cup {next}
    BY <2>1, <2>2, <1>a DEF Passed
  <2>5. Once'
    BY <2>2, <2>3, <1>b, <1>c, <1>d, <1>e DEF Once, Separate
  <2>6. Accounted'
    BY <2>2, <2>3, <2>4, <1>d DEF Accounted
  <2> QED BY <2>1, <2>2, <2>5, <2>6 DEF AccountInv, Staged
<1>9. ASSUME WalkFlag PROVE AccountInv'
  <2> DEFINE n == IF TakesNext(next) THEN 2 ELSE 1
             r == [k \in 1 .. n |-> (next - 1) + k]
  <2>1. next \in Places /\ pc = "walk"
    BY <1>9, <1>a DEF WalkFlag, Walking
  <2>2. n \in {1, 2} /\ (n = 2 => next + 1 \in Places)
    <3>1. TakesNext(next) => next < Len(argv)
      BY DEF TakesNext
    <3> QED BY <3>1, <2>1, <1>a
  <2>3. /\ flagTokens' = flagTokens \o [k \in 1 .. n |-> next + k - 1] /\ next' = next + n
        /\ UNCHANGED <<argv, pc, verbs, args, settings>>
    BY <1>9 DEF WalkFlag
  <2> HIDE DEF n
  <2>4. flagTokens' = flagTokens \o r
    <3>1. \A k \in 1 .. n : next + k - 1 = (next - 1) + k
      BY <2>2, <1>a
    <3>2. [k \in 1 .. n |-> next + k - 1] = r
      BY <3>1
    <3> QED BY <2>3, <3>2
  <2>5. r \in Seq(Places) /\ Elements(r) = next .. (next + n - 1) /\ Distinct(r)
    <3>1. next - 1 \in Nat /\ n \in Nat
      BY ONLY <2>2, <1>a
    <3>2. /\ r \in Seq(((next - 1) + 1) .. ((next - 1) + n))
          /\ Elements(r) = ((next - 1) + 1) .. ((next - 1) + n) /\ Distinct(r)
      BY <3>1, RunFacts
    <3> HIDE DEF r
    <3>3. (next - 1) + 1 = next /\ (next - 1) + n = next + n - 1
      BY ONLY <2>2, <1>a
    <3>4. next .. (next + n - 1) \subseteq Places
      BY ONLY <2>1, <2>2, <1>a
    <3>5. r \in Seq(next .. (next + n - 1))
      BY <3>2, <3>3
    <3>6. r \in Seq(Places)
      BY ONLY <3>4, <3>5, WiderSeq
    <3> QED BY <3>2, <3>3, <3>6
  <2> HIDE DEF r
  <2>6. Elements(r) \cap Passed = {}
    BY <2>2, <2>5, <1>a DEF Passed
  <2>7. Elements(flagTokens') = F \cup Elements(r) /\ Distinct(flagTokens')
    <3>1. F \cap Elements(r) = {}
      BY <2>6, <1>d
    <3>2. Elements(flagTokens \o r) = F \cup Elements(r) /\ Distinct(flagTokens \o r)
      <4>1. /\ flagTokens \in Seq(Places) /\ r \in Seq(Places)
            /\ Distinct(flagTokens) /\ Distinct(r)
        BY <2>5, <1>a, <1>b
      <4> QED BY ONLY <3>1, <4>1, ConcatFacts
    <3> QED BY <2>4, <3>2
  <2>8. Passed' = Passed \cup Elements(r)
    BY <2>2, <2>3, <2>5, <1>a DEF Passed
  <2>9. Once'
    BY <2>3, <2>6, <2>7, <1>b, <1>c, <1>d DEF Once, Separate
  <2>10. Accounted'
    BY <2>3, <2>7, <2>8, <1>d DEF Accounted
  <2> QED BY <2>1, <2>3, <2>9, <2>10 DEF AccountInv, Staged
<1>10. ASSUME WalkDescend PROVE AccountInv'
  <2>1. next \in Places /\ pc = "walk"
    BY <1>10, <1>a DEF WalkDescend, Walking
  <2>2. /\ verbs' = Append(verbs, next) /\ next' = next + 1
        /\ UNCHANGED <<argv, pc, flagTokens, args, settings>>
    BY <1>10 DEF WalkDescend
  <2>3. Elements(verbs') = V \cup {next} /\ Distinct(verbs')
    BY <2>1, <2>2, <1>a, <1>b, <1>d, <1>e, AppendFacts
  <2>4. Passed' = Passed \cup {next}
    BY <2>1, <2>2, <1>a DEF Passed
  <2>5. Once'
    BY <2>2, <2>3, <1>b, <1>c, <1>d, <1>e DEF Once, Separate
  <2>6. Accounted'
    BY <2>2, <2>3, <2>4, <1>d DEF Accounted
  <2> QED BY <2>1, <2>2, <2>5, <2>6 DEF AccountInv, Staged
<1>11. ASSUME WalkPositional PROVE AccountInv'
  <2>1. next \in Places /\ pc = "walk"
    BY <1>11, <1>a DEF WalkPositional, Walking
  <2>2. /\ args' = Append(args, next) /\ next' = next + 1
        /\ UNCHANGED <<argv, pc, flagTokens, verbs, settings>>
    BY <1>11 DEF WalkPositional
  <2>3. Elements(args') = A \cup {next} /\ Distinct(args')
    BY <2>1, <2>2, <1>a, <1>b, <1>d, <1>e, AppendFacts
  <2>4. Passed' = Passed \cup {next}
    BY <2>1, <2>2, <1>a DEF Passed
  <2>5. Once'
    BY <2>2, <2>3, <1>b, <1>c, <1>d, <1>e DEF Once, Separate
  <2>6. Accounted'
    BY <2>2, <2>3, <2>4, <1>d DEF Accounted
  <2> QED BY <2>1, <2>2, <2>5, <2>6 DEF AccountInv, Staged
<1>f. ASSUME pc = "parse", pc' = "parse", UNCHANGED <<argv, next>> PROVE Staged' /\ Passed' = Passed
  BY <1>f DEF AccountInv, Staged, Passed
<1>g. ASSUME flagTokens # << >>
      PROVE  /\ Head(flagTokens) \in Places /\ Tail(flagTokens) \in Seq(Places)
             /\ F = {Head(flagTokens)} \cup Elements(Tail(flagTokens))
             /\ Distinct(Tail(flagTokens)) /\ Head(flagTokens) \notin Elements(Tail(flagTokens))
  BY <1>g, <1>a, <1>b, TailFacts
<1>h. ASSUME flagTokens # << >>, Len(flagTokens) # 1
      PROVE  LET rest == Tail(Tail(flagTokens))
             IN  /\ flagTokens[2] \in Places
                 /\ F = {Head(flagTokens), flagTokens[2]} \cup Elements(rest)
                 /\ Distinct(rest) /\ {Head(flagTokens), flagTokens[2]} \cap Elements(rest) = {}
                 /\ flagTokens[2] # Head(flagTokens)
  <2>1. Tail(flagTokens) # << >> /\ flagTokens[2] \in Places /\ Head(Tail(flagTokens)) = flagTokens[2]
    BY <1>h, <1>a, SecondFacts
  <2>2. LET t == Tail(flagTokens)
        IN  Elements(t) = {Head(t)} \cup Elements(Tail(t)) /\ Distinct(Tail(t))
            /\ Head(t) \notin Elements(Tail(t))
    BY <1>g, <1>h, <2>1, TailFacts
  <2> QED BY <1>g, <1>h, <2>1, <2>2
<1>i. ASSUME NEW i \in Places, NEW j \in Places
      PROVE  LET t == Append(settings, <<i, j>>)
             IN  /\ Taken(t) = T \cup {i, j}
                 /\ {i, j} \cap T = {} => Apart(t)
  <2>1. settings \in Seq(Places \X Places) /\ <<i, j>> \in Places \X Places
    BY <1>a
  <2> DEFINE P == Places \X Places
  <2> HIDE DEF P
  <2>2. settings \in Seq(P) /\ <<i, j>> \in P
    BY <2>1 DEF P
  <2> QED BY ONLY <2>2, <1>b, PairFacts
<1>12. ASSUME ParseSwitch PROVE AccountInv'
  <2> DEFINE i == Head(flagTokens)
  <2>1. /\ pc = "parse" /\ flagTokens # << >> /\ flagTokens' = Tail(flagTokens)
        /\ settings' = Append(settings, <<i, i>>)
        /\ UNCHANGED <<argv, pc, next, verbs, args>>
    BY <1>12 DEF ParseSwitch, Parsing, walk
  <2>2. /\ F = {i} \cup Elements(flagTokens') /\ Distinct(flagTokens')
        /\ i \notin Elements(flagTokens') /\ i \in Places
    BY <2>1, <1>g
  <2>3. i \notin T
    BY <2>2, <1>c DEF Separate
  <2> HIDE DEF i
  <2>4. Taken(settings') = T \cup {i} /\ Apart(settings')
    <3> DEFINE t == Append(settings, <<i, i>>)
    <3>1. {i, i} \cap T = {}
      BY <2>3
    <3>2. Taken(t) = T \cup {i, i} /\ Apart(t)
      BY ONLY <2>2, <3>1, <1>i
    <3> QED BY <2>1, <3>2
  <2>5. Once'
    BY <2>1, <2>2, <2>4, <1>b, <1>c DEF Once, Separate
  <2>6. Staged' /\ Passed' = Passed
    BY <2>1, <1>f
  <2>7. Accounted'
    BY <2>1, <2>2, <2>4, <2>6, <1>d DEF Accounted
  <2> QED BY <2>5, <2>6, <2>7 DEF AccountInv
<1>13. ASSUME ParseValue PROVE AccountInv'
  <2> DEFINE i == Head(flagTokens)
             j == flagTokens[2]
  <2>1. /\ pc = "parse" /\ flagTokens # << >> /\ flagTokens' = Tail(Tail(flagTokens))
        /\ Len(flagTokens) > 1
        /\ settings' = Append(settings, <<i, j>>)
        /\ UNCHANGED <<argv, pc, next, verbs, args>>
    BY <1>13 DEF ParseValue, Parsing, walk
  <2>2. Len(flagTokens) # 1
    <3>1. Len(flagTokens) \in Nat
      BY <1>a
    <3> QED BY <2>1, <3>1, AboveOne
  <2>3. /\ F = {i, j} \cup Elements(flagTokens') /\ Distinct(flagTokens')
        /\ {i, j} \cap Elements(flagTokens') = {} /\ i \in Places /\ j \in Places
    BY <2>1, <2>2, <1>g, <1>h
  <2>4. {i, j} \cap T = {}
    BY <2>3, <1>c DEF Separate
  <2> HIDE DEF i, j
  <2>5. Taken(settings') = T \cup {i, j} /\ Apart(settings')
    <3> DEFINE t == Append(settings, <<i, j>>)
    <3>1. Taken(t) = T \cup {i, j} /\ Apart(t)
      BY ONLY <2>3, <2>4, <1>i
    <3> QED BY <2>1, <3>1
  <2>6. Once'
    BY <2>1, <2>3, <2>5, <1>b, <1>c DEF Once, Separate
  <2>7. Staged' /\ Passed' = Passed
    BY <2>1, <1>f
  <2>8. Accounted'
    BY <2>1, <2>3, <2>5, <2>7, <1>d DEF Accounted
  <2> QED BY <2>6, <2>7, <2>8 DEF AccountInv
<1>14. ASSUME ParseWord PROVE AccountInv'
  <2> DEFINE i == Head(flagTokens)
  <2>1. /\ pc = "parse" /\ flagTokens # << >> /\ flagTokens' = Tail(flagTokens)
        /\ args' = Append(args, i)
        /\ UNCHANGED <<argv, pc, next, verbs, settings>>
    BY <1>14 DEF ParseWord, Parsing, walk
  <2>2. /\ F = {i} \cup Elements(flagTokens') /\ Distinct(flagTokens')
        /\ i \notin Elements(flagTokens') /\ i \in Places
    BY <2>1, <1>g
  <2>3. i \notin A
    BY <2>2, <1>c DEF Separate
  <2> HIDE DEF i
  <2>4. Elements(args') = A \cup {i} /\ Distinct(args')
    BY <2>1, <2>2, <2>3, <1>a, <1>b, AppendFacts
  <2>5. Once'
    BY <2>1, <2>2, <2>4, <1>b, <1>c DEF Once, Separate
  <2>6. Staged' /\ Passed' = Passed
    BY <2>1, <1>f
  <2>7. Accounted'
    BY <2>1, <2>2, <2>4, <2>6, <1>d DEF Accounted
  <2> QED BY <2>5, <2>6, <2>7 DEF AccountInv
<1>15. ASSUME ParseTerminator PROVE AccountInv'
  <2> DEFINE i == Head(flagTokens)
             j == flagTokens[2]
  <2>1. /\ pc = "parse" /\ flagTokens # << >> /\ argv[i].kind = "end"
        /\ UNCHANGED <<argv, pc, next, verbs, settings>>
    BY <1>15 DEF ParseTerminator, Parsing, walk
  <2>2. Staged' /\ Passed' = Passed
    BY <2>1, <1>f
  <2>3. CASE Len(flagTokens) = 1
    <3>1. flagTokens' = << >> /\ args' = args
      BY <1>15, <2>3 DEF ParseTerminator
    <3>2. F = {i}
      <4>1. flagTokens = <<i>>
        BY <2>1, <2>3, <1>a
      <4>2. Elements(<<i>>) = {i}
        BY DEF Elements
      <4> QED BY <4>1, <4>2
    <3> HIDE DEF i
    <3>3. Once'
      BY <2>1, <3>1, EmptyFacts, <1>b, <1>c DEF Once, Separate
    <3>4. Accounted'
      BY <2>1, <2>2, <3>1, <3>2, EmptyFacts, <1>d DEF Accounted
    <3> QED BY <2>2, <3>3, <3>4 DEF AccountInv
  <2>4. CASE Len(flagTokens) # 1
    <3>1. args' = Append(args, j) /\ flagTokens' = Tail(Tail(flagTokens))
      BY <1>15, <2>4 DEF ParseTerminator
    <3>2. /\ F = {i, j} \cup Elements(flagTokens') /\ Distinct(flagTokens')
          /\ {i, j} \cap Elements(flagTokens') = {} /\ j \in Places
      BY <2>1, <2>4, <3>1, <1>h
    <3>3. j \notin A
      BY <3>2, <1>c DEF Separate
    <3> HIDE DEF i, j
    <3>4. Elements(args') = A \cup {j} /\ Distinct(args')
      BY <3>1, <3>2, <3>3, <1>a, <1>b, AppendFacts
    <3>5. Once'
      BY <2>1, <3>2, <3>4, <1>b, <1>c DEF Once, Separate
    <3>6. Accounted'
      BY <2>1, <2>2, <3>2, <3>4, <1>d DEF Accounted
    <3> QED BY <2>2, <3>5, <3>6 DEF AccountInv
  <2> QED BY <2>3, <2>4
<1>16. CASE UNCHANGED vars
  BY <1>1, <1>16 DEF vars, walk, AccountInv, Staged
<1> QED
  BY <1>2, <1>3, <1>4, <1>5, <1>6, <1>7, <1>8, <1>9, <1>10, <1>11, <1>12, <1>13, <1>14, <1>15,
     <1>16 DEF Next

(* For every verb tree and every argv, when a leaf runs each token is a     *)
(* verb, an argument, a flag or the value of one flag, and only one.        *)
THEOREM NothingLostOrUsedTwice == Spec => []EveryTokenUsedOnce
<1>1. TypeInv /\ AccountInv => EveryTokenUsedOnce
  <2> SUFFICES ASSUME TypeInv, AccountInv, pc = "execute" PROVE EveryTokenUsedOnce
    BY DEF EveryTokenUsedOnce
  <2>1. Passed = Places /\ Elements(flagTokens) = {}
    <3>1. Len(argv) \in Nat /\ Places = 1 .. Len(argv)
      BY DEF TypeInv, TypeOK, Places
    <3> QED BY <3>1, EmptyFacts DEF AccountInv, Staged, Passed
  <2>2. TakenByFlags = Taken(settings)
    BY DEF TakenByFlags, Taken
  <2> QED
    BY <2>1, <2>2 DEF EveryTokenUsedOnce, AccountInv, Once, Accounted, Separate, Apart
<1> QED
  BY <1>1, TypeInit, TypeStep, ReportInit, ReportStep, AccountInit, AccountStep, PTL DEF Spec
-----------------------------------------------------------------------------
(* The walk and the parse agree on what a value is.                        *)

Increasing(s) == \A j, k \in DOMAIN s : j < k => s[j] < s[k]

NoSwitchIsEarly == \A i \in Places : ~EarlySwitch(i)

\* A value follows its flag, which the walk took for one with a value: it has
\* one, or it is a switch of a node that the walk had not come to.
Guessed == \A v \in values :
  /\ v - 1 \in Passed /\ v \in Passed /\ v - 1 \notin values
  /\ argv[v - 1].kind = "flag" /\ ~argv[v - 1].eq
  /\ KindOf[argv[v - 1].name] = "bool" =>
       \A k \in 0 .. Len(verbs) :
         argv[v - 1].name \in FlagsOf[Node(k)] => k > 0 /\ verbs[k] > v - 1

\* What is left to parse is in order, a flag and its value together; all else
\* in it is flags that need no value, but for one at the end of argv, and the
\* terminator, behind which nothing is left.
Grouped == \A i \in Elements(flagTokens) :
  /\ i + 1 \in values => i + 1 \in Elements(flagTokens)
  /\ i \in values => i - 1 \in Elements(flagTokens)
  /\ i \notin values =>
       /\ argv[i].kind # "word"
       /\ argv[i].kind = "end" => next > Len(argv) /\ \A j \in Elements(flagTokens) : j <= i
       /\ argv[i].kind = "flag" /\ i + 1 \notin values => OwnValue(i) \/ i = Len(argv)

Agreed == \A k \in DOMAIN settings :
  settings[k][2] = IF settings[k][1] + 1 \in values THEN settings[k][1] + 1 ELSE settings[k][1]

InOrder == Increasing(args) /\ Increasing(flagTokens) /\ Grouped /\ Agreed

AgreeInv ==
  /\ pc \in {"start", "walk", "parse", "execute"} => Guessed
  /\ pc \in {"start", "walk"} => settings = << >>
  /\ pc \in {"start", "walk"} \/ (pc \in {"parse", "execute"} /\ NoSwitchIsEarly) => InOrder

LEMMA AppendIncreases ==
  ASSUME NEW S \in SUBSET Nat, NEW s \in Seq(S), NEW x \in S,
         Increasing(s), \A y \in Elements(s) : y < x
  PROVE  Increasing(Append(s, x))
<1> DEFINE t == Append(s, x)
<1>1. Len(t) = Len(s) + 1 /\ t[Len(s) + 1] = x /\ Len(s) \in Nat /\ t \in Seq(S)
  OBVIOUS
<1>2. \A k \in 1 .. Len(s) : t[k] = s[k]
  OBVIOUS
<1>3. DOMAIN s = 1 .. Len(s) /\ DOMAIN t = 1 .. (Len(s) + 1)
  BY <1>1
<1> HIDE DEF t
<1>4. ASSUME NEW j \in DOMAIN t, NEW k \in DOMAIN t, j < k PROVE t[j] < t[k]
  <2>1. j \in DOMAIN s /\ t[j] = s[j]
    BY <1>4, <1>1, <1>2, <1>3
  <2>2. CASE k \in DOMAIN s
    BY <1>4, <2>1, <2>2, <1>2, <1>3 DEF Increasing
  <2>3. CASE k \notin DOMAIN s
    <3>1. k = Len(s) + 1
      BY <2>3, <1>1, <1>3
    <3> QED BY <3>1, <2>1, <1>1 DEF Elements
  <2> QED BY <2>2, <2>3
<1> QED BY <1>4 DEF t, Increasing

LEMMA ConcatIncreases ==
  ASSUME NEW S \in SUBSET Nat, NEW s \in Seq(S), NEW t \in Seq(S),
         Increasing(s), Increasing(t), \A y \in Elements(s), z \in Elements(t) : y < z
  PROVE  Increasing(s \o t)
<1> DEFINE u == s \o t
<1>1. u \in Seq(S) /\ Len(u) = Len(s) + Len(t) /\ Len(s) \in Nat /\ Len(t) \in Nat
  OBVIOUS
<1>2. /\ \A k \in 1 .. Len(s) : u[k] = s[k]
      /\ \A k \in 1 .. Len(u) : k > Len(s) => u[k] = t[k - Len(s)]
  OBVIOUS
<1>3. DOMAIN s = 1 .. Len(s) /\ DOMAIN t = 1 .. Len(t) /\ DOMAIN u = 1 .. (Len(s) + Len(t))
  BY <1>1
<1> HIDE DEF u
<1>4. \A k \in DOMAIN u :
        /\ k <= Len(s) => k \in DOMAIN s /\ u[k] = s[k]
        /\ k > Len(s) => k - Len(s) \in DOMAIN t /\ u[k] = t[k - Len(s)]
  BY <1>1, <1>2, <1>3
<1>5. ASSUME NEW j \in DOMAIN u, NEW k \in DOMAIN u, j < k PROVE u[j] < u[k]
  <2>1. CASE k <= Len(s)
    <3>1. j <= Len(s)
      BY <1>5, <2>1, <1>1, <1>3
    <3> QED BY <2>1, <3>1, <1>4, <1>5 DEF Increasing
  <2>2. CASE j > Len(s)
    <3>1. k > Len(s) /\ j - Len(s) < k - Len(s)
      BY <1>5, <2>2, <1>1, <1>3
    <3> QED BY <2>2, <3>1, <1>4, <1>5 DEF Increasing
  <2>3. CASE j <= Len(s) /\ k > Len(s)
    BY <2>3, <1>4, <1>5 DEF Elements
  <2> QED BY <2>1, <2>2, <2>3, <1>1, <1>3
<1> QED BY <1>5 DEF u, Increasing

LEMMA TailIncreases ==
  ASSUME NEW S \in SUBSET Nat, NEW s \in Seq(S), s # << >>, Increasing(s)
  PROVE  Increasing(Tail(s)) /\ \A y \in Elements(Tail(s)) : Head(s) < y
<1> DEFINE t == Tail(s)
<1>1. t \in Seq(S) /\ Len(t) = Len(s) - 1 /\ Len(s) \in Nat \ {0} /\ Head(s) = s[1]
  OBVIOUS
<1>2. \A k \in 1 .. Len(t) : t[k] = s[k + 1]
  OBVIOUS
<1>3. DOMAIN s = 1 .. Len(s) /\ DOMAIN t = 1 .. (Len(s) - 1)
  BY <1>1
<1> HIDE DEF t
<1>4. \A k \in DOMAIN t : k + 1 \in DOMAIN s /\ 1 \in DOMAIN s /\ 1 < k + 1 /\ t[k] = s[k + 1]
  BY <1>1, <1>2, <1>3
<1>5. ASSUME NEW j \in DOMAIN t, NEW k \in DOMAIN t, j < k PROVE t[j] < t[k]
  <2>1. j + 1 < k + 1
    BY <1>5, <1>1, <1>3
  <2> QED BY <2>1, <1>4, <1>5 DEF Increasing
<1>6. \A y \in Elements(t) : s[1] < y
  BY <1>4 DEF Elements, Increasing
<1> QED BY <1>1, <1>5, <1>6 DEF t, Increasing

LEMMA RunIncreases ==
  ASSUME NEW m \in Nat, NEW n \in Nat
  PROVE  Increasing([k \in 1 .. n |-> m + k])
BY DEF Increasing

\* The shapes are the flags of the nodes visited.
LEMMA ShapesAreOfNodes ==
  ASSUME TypeInv, NEW k \in 0 .. Len(verbs)
  PROVE  FlagsOf[Node(k)] \subseteq Shapes
<1>1. path \in Seq(Group) /\ Len(path) \in Nat /\ k \in Nat /\ DOMAIN path = 1 .. Len(path)
  BY DEF TypeInv, TypeOK
<1>2. CASE k < Len(path)
  <2>1. k + 1 \in DOMAIN path
    BY <1>1, <1>2
  <2> QED BY <1>2, <2>1 DEF Node, Shapes
<1>3. CASE ~(k < Len(path))
  BY <1>3 DEF Node, Shapes
<1> QED BY <1>2, <1>3

LEMMA NodeOfLonger ==
  ASSUME TypeInv, WalkDescend, NEW k \in 0 .. Len(verbs)
  PROVE  Node(k)' = Node(k)
<1>1. /\ path \in Seq(Group) /\ path # << >> /\ Len(path) \in Nat \ {0} /\ k \in Nat
      /\ leaf = path[Len(path)] /\ Len(verbs) = Len(path) - 1 /\ k <= Len(verbs)
  BY DEF TypeInv, TypeOK, WalkDescend
<1>2. Node(k) = path[k + 1] /\ k + 1 \in 1 .. Len(path)
  BY <1>1 DEF Node
<1>3. CASE path' = path
  <2>1. k < Len(path')
    BY <1>1, <1>3
  <2> QED BY <1>2, <1>3, <2>1 DEF Node
<1>4. CASE path' # path
  <2>1. path' = Append(path, leaf') /\ leaf' \in Group
    BY <1>4 DEF WalkDescend
  <2>2. Len(path') = Len(path) + 1 /\ \A j \in 1 .. Len(path) : path'[j] = path[j]
    BY <1>1, <2>1
  <2>3. k < Len(path')
    BY <1>1, <2>2
  <2> QED BY <1>2, <2>2, <2>3 DEF Node
<1> QED BY <1>3, <1>4

LEMMA AgreeInit == Init => AgreeInv
<1> SUFFICES ASSUME Init PROVE AgreeInv
  OBVIOUS
<1>1. flagTokens = << >> /\ args = << >> /\ settings = << >> /\ values = {}
  BY DEF Init
<1>2. Increasing(<< >>) /\ Elements(<< >>) = {}
  BY EmptyFacts DEF Increasing
<1>3. Guessed /\ Grouped /\ Agreed
  BY <1>1, <1>2 DEF Guessed, Grouped, Agreed
<1> QED BY <1>1, <1>2, <1>3 DEF AgreeInv, InOrder

LEMMA PassedGrows ==
  ASSUME next \in Nat, next' \in Nat, next < next'
  PROVE  Passed \subseteq Passed'
<1>1. \A a, b \in Nat : a < b => \A i \in 1 .. (a - 1) : i \in 1 .. (b - 1)
  OBVIOUS
<1>2. \A i \in 1 .. (next - 1) : i \in 1 .. (next' - 1)
  BY ONLY <1>1, next \in Nat, next' \in Nat, next < next'
<1> QED BY ONLY <1>2 DEF Passed

LEMMA AgreeWalk ==
  ASSUME TypeInv, AccountInv, AgreeInv,
         WalkTerminator \/ WalkHelp \/ WalkFlag \/ WalkDescend \/ WalkPositional
  PROVE  Guessed' /\ InOrder'
<1> DEFINE A == Elements(args)
           F == Elements(flagTokens)
<1>a. /\ Places = 1 .. Len(argv) /\ Len(argv) \in Nat
      /\ next \in 1 .. (Len(argv) + 1) /\ next \in Nat \ {0}
      /\ args \in Seq(Places) /\ flagTokens \in Seq(Places)
      /\ Places \in SUBSET Nat
  BY DEF TypeInv, TypeOK, Places
<1>b. Passed = 1 .. (next - 1) /\ A \subseteq Passed /\ F \subseteq Passed
  BY DEF AccountInv, Accounted, Passed
<1>c. pc = "walk" /\ next <= Len(argv) /\ UNCHANGED <<argv, pc, settings>>
  BY DEF WalkTerminator, WalkHelp, WalkFlag, WalkDescend, WalkPositional, Walking
<1>d. /\ Guessed /\ settings = << >>
      /\ Increasing(args) /\ Increasing(flagTokens) /\ Grouped
  BY <1>c DEF AgreeInv, InOrder
<1>e. /\ \A v \in values : v \in Nat /\ 1 < v /\ v < next
      /\ \A i \in F : i \in Nat /\ 0 < i /\ i < next
      /\ \A i \in A : i \in Nat /\ 0 < i /\ i < next
  <2>1. \A v \in values : v \in Passed /\ v - 1 \in Passed
    BY <1>d DEF Guessed
  <2> QED BY <2>1, <1>a, <1>b
<1>f. next \notin values /\ next + 1 \notin values /\ next + 2 \notin values /\ next \notin F
  BY <1>a, <1>e
<1>g. \A i \in F \ values : argv[i].kind # "end"
  <2>1. ~(next > Len(argv))
    BY <1>a, <1>c
  <2> QED BY <2>1, <1>d DEF Grouped
<1>h. Agreed'
  <2>1. settings' = << >>
    BY <1>c, <1>d
  <2> QED BY <2>1 DEF Agreed
<1>i. next \in Places
  BY <1>a, <1>c
<1>n. next \in Nat /\ next >= 1
  BY <1>a
\* One token is set aside that is no flag.
<1>1. ASSUME flagTokens' = Append(flagTokens, next), next' \in Nat, next < next',
             argv[next].kind = "end" => next' > Len(argv),
             argv[next].kind \in {"help", "end"}, UNCHANGED <<values, verbs, path, leaf>>
      PROVE  Guessed' /\ Increasing(flagTokens)' /\ Grouped'
  <2>1. Elements(flagTokens') = F \cup {next} /\ Increasing(flagTokens')
    <3>1. /\ flagTokens \in Seq(Places) /\ next \in Places /\ Places \in SUBSET Nat
          /\ Increasing(flagTokens) /\ \A y \in Elements(flagTokens) : y < next
      BY <1>a, <1>d, <1>e, <1>i
    <3> DEFINE t == Append(flagTokens, next)
    <3>2. Elements(t) = Elements(flagTokens) \cup {next}
      BY ONLY <3>1, AppendFacts
    <3>3. Increasing(t)
      BY ONLY <3>1, AppendIncreases
    <3> QED BY <1>1, <3>2, <3>3
  <2>2. Passed \subseteq Passed'
    BY ONLY <1>1, <1>n, PassedGrows
  <2>3. Guessed'
    BY <1>1, <1>c, <1>d, <2>2 DEF Guessed, Node
  <2>4. Grouped'
    <3> SUFFICES ASSUME NEW i \in F \cup {next}
                 PROVE /\ i + 1 \in values => i + 1 \in F \cup {next}
                       /\ i \in values => i - 1 \in F \cup {next}
                       /\ i \notin values =>
                            /\ argv[i].kind # "word"
                            /\ argv[i].kind = "end" => next' > Len(argv) /\ \A j \in F \cup {next} : j <= i
                            /\ argv[i].kind = "flag" /\ i + 1 \notin values => OwnValue(i) \/ i = Len(argv)
      BY <1>1, <1>c, <2>1 DEF Grouped, OwnValue
    <3>1. CASE i \in F
      BY <3>1, <1>d, <1>g DEF Grouped
    <3>2. CASE i = next
      <4>1. \A j \in F \cup {next} : j <= next
        BY <1>a, <1>e
      <4> QED BY <3>2, <4>1, <1>1, <1>f
    <3> QED BY <3>1, <3>2
  <2> QED BY <2>1, <2>3, <2>4
\* Nothing is set aside.
<1>2. ASSUME UNCHANGED <<flagTokens, values>> PROVE Increasing(flagTokens)' /\ Grouped'
  <2>1. \A i \in F : argv'[i] = argv[i] /\ (OwnValue(i)' <=> OwnValue(i))
    BY <1>c DEF OwnValue
  <2> QED BY <1>2, <2>1, <1>c, <1>d, <1>g DEF Grouped, Increasing
<1>3. CASE WalkTerminator
  <2> DEFINE n == Len(argv) - next
             r == [k \in 1 .. n |-> next + k]
  <2>1. argv[next].kind = "end" /\ n \in Nat /\ next + n = Len(argv)
    BY <1>3, <1>a, <1>c DEF WalkTerminator, Walking
  <2>2. /\ flagTokens' = Append(flagTokens, next) /\ args' = args \o r
        /\ next' = Len(argv) + 1 /\ UNCHANGED <<values, verbs, path, leaf>>
    BY <1>3 DEF WalkTerminator
  <2>3. next' \in Nat /\ next < next' /\ next' > Len(argv)
    BY <2>2, <1>a, <1>c
  <2>4. Guessed' /\ Increasing(flagTokens)' /\ Grouped'
    BY <2>1, <2>2, <2>3, <1>1
  <2>5. r \in Seq(Places) /\ Elements(r) = (next + 1) .. Len(argv) /\ Increasing(r)
    <3>1. r \in Seq((next + 1) .. (next + n)) /\ Elements(r) = (next + 1) .. (next + n)
      BY <2>1, <1>a, RunFacts
    <3>2. Increasing(r)
      BY <2>1, <1>a, RunIncreases
    <3>3. (next + 1) .. Len(argv) \subseteq Places
      BY <1>a
    <3> HIDE DEF r
    <3>4. r \in Seq((next + 1) .. Len(argv))
      BY <2>1, <3>1
    <3>5. r \in Seq(Places)
      BY ONLY <3>3, <3>4, WiderSeq
    <3> QED BY <2>1, <3>1, <3>2, <3>5
  <2> HIDE DEF r
  <2>6. \A y \in A, z \in Elements(r) : y < z
    BY <2>5, <1>a, <1>e
  <2>7. Increasing(args \o r)
    BY <2>5, <2>6, <1>a, <1>d, ConcatIncreases
  <2> QED BY <2>2, <2>4, <2>7, <1>h DEF InOrder
<1>4. CASE WalkHelp
  <2>1. /\ argv[next].kind = "help" /\ flagTokens' = Append(flagTokens, next)
        /\ next' = next + 1 /\ UNCHANGED <<values, verbs, path, leaf, args>>
    BY <1>4 DEF WalkHelp, Walking
  <2>2. next' \in Nat /\ next < next'
    BY <2>1, <1>a
  <2>3. Guessed' /\ Increasing(flagTokens)' /\ Grouped'
    BY <2>1, <2>2, <1>1
  <2> QED BY <2>1, <2>3, <1>d, <1>h DEF InOrder
<1>5. CASE WalkPositional
  <2>1. args' = Append(args, next) /\ next' = next + 1
        /\ UNCHANGED <<values, verbs, path, leaf, flagTokens>>
    BY <1>5 DEF WalkPositional
  <2>2. Increasing(args')
    BY <2>1, <1>a, <1>d, <1>e, <1>i, AppendIncreases
  <2>3. Passed \subseteq Passed'
    <3>1. next' \in Nat /\ next < next'
      BY ONLY <2>1, <1>n
    <3> QED BY ONLY <3>1, <1>n, PassedGrows
  <2>4. Guessed'
    BY <2>1, <2>3, <1>c, <1>d DEF Guessed, Node
  <2> QED BY <2>1, <2>2, <2>4, <1>2, <1>h DEF InOrder
<1>6. CASE WalkDescend
  <2>1. /\ verbs' = Append(verbs, next) /\ next' = next + 1
        /\ UNCHANGED <<values, flagTokens, args>>
    BY <1>6 DEF WalkDescend
  <2>2. verbs \in Seq(Places) /\ Len(verbs) \in Nat
    BY DEF TypeInv, TypeOK
  <2>3. /\ Len(verbs') = Len(verbs) + 1 /\ verbs'[Len(verbs) + 1] = next
        /\ \A k \in 1 .. Len(verbs) : verbs'[k] = verbs[k]
    BY <2>1, <2>2
  <2>4. Passed \subseteq Passed'
    <3>1. next' \in Nat /\ next < next'
      BY ONLY <2>1, <1>n
    <3> QED BY ONLY <3>1, <1>n, PassedGrows
  <2>5. ASSUME NEW v \in values, KindOf[argv[v - 1].name] = "bool", NEW k \in 0 .. Len(verbs'),
               argv[v - 1].name \in FlagsOf[Node(k)']
        PROVE  k > 0 /\ verbs'[k] > v - 1
    <3>1. CASE k \in 0 .. Len(verbs)
      <4>1. Node(k)' = Node(k)
        BY <1>6, <3>1, NodeOfLonger
      <4>2. k > 0 /\ verbs[k] > v - 1
        BY <2>5, <3>1, <4>1, <1>d DEF Guessed
      <4>3. k \in 1 .. Len(verbs)
        BY <2>2, <3>1, <4>2
      <4> QED BY <2>3, <4>2, <4>3
    <3>2. CASE k \notin 0 .. Len(verbs)
      <4>1. k = Len(verbs) + 1
        BY <2>2, <2>3, <3>2
      <4>2. k > 0 /\ verbs'[k] = next
        BY <2>2, <2>3, <4>1
      <4> QED BY <4>2, <1>a, <1>e
    <3> QED BY <3>1, <3>2
  <2>6. Guessed'
    BY <2>1, <2>4, <2>5, <1>c, <1>d DEF Guessed
  <2> QED BY <2>1, <2>6, <1>2, <1>d, <1>h DEF InOrder
<1>7. CASE WalkFlag
  <2> DEFINE n == IF TakesNext(next) THEN 2 ELSE 1
             r == [k \in 1 .. n |-> (next - 1) + k]
  <2>1. /\ argv[next].kind = "flag" /\ n \in {1, 2}
        /\ UNCHANGED <<path, leaf, verbs, args>>
        /\ next' = next + n
        /\ values' = IF n = 2 THEN values \cup {next + 1} ELSE values
        /\ flagTokens' = flagTokens \o [k \in 1 .. n |-> next + k - 1]
    BY <1>7 DEF WalkFlag, Walking
  <2>2. n = 2 => /\ next + 1 \in Places /\ ~argv[next].eq
                 /\ FlagTakesValue(argv[next].name)
    <3>1. TakesNext(next) => next < Len(argv)
      BY DEF TakesNext
    <3> QED BY <3>1, <1>a, <1>c DEF TakesNext
  <2>3. n = 1 => OwnValue(next) \/ next = Len(argv)
    <3>1. ~(next < Len(argv)) => next = Len(argv)
      BY <1>a, <1>c
    <3> QED BY <3>1 DEF TakesNext, FlagTakesValue, OwnValue
  <2> HIDE DEF n
  <2>4. flagTokens' = flagTokens \o r
    <3>1. \A k \in 1 .. n : next + k - 1 = (next - 1) + k
      BY <2>1, <1>a
    <3>2. [k \in 1 .. n |-> next + k - 1] = r
      BY <3>1
    <3> QED BY <2>1, <3>2
  <2>5. r \in Seq(Places) /\ Elements(r) = next .. (next + n - 1) /\ Increasing(r)
    <3>1. next - 1 \in Nat /\ n \in Nat
      BY ONLY <2>1, <1>a
    <3>2. /\ r \in Seq(((next - 1) + 1) .. ((next - 1) + n))
          /\ Elements(r) = ((next - 1) + 1) .. ((next - 1) + n) /\ Increasing(r)
      BY <3>1, RunFacts, RunIncreases
    <3> HIDE DEF r
    <3>3. (next - 1) + 1 = next /\ (next - 1) + n = next + n - 1
      BY ONLY <2>1, <1>a
    <3>4. next .. (next + n - 1) \subseteq Places
      BY ONLY <2>1, <2>2, <1>a, <1>i
    <3>5. r \in Seq(next .. (next + n - 1))
      BY <3>2, <3>3
    <3>6. r \in Seq(Places)
      BY ONLY <3>4, <3>5, WiderSeq
    <3> QED BY <3>2, <3>3, <3>6
  <2> HIDE DEF r
  <2>6. Increasing(flagTokens') /\ Elements(flagTokens') = F \cup Elements(r)
    <3>1. \A y \in F, z \in Elements(r) : y < z
      BY <2>1, <2>5, <1>a, <1>e
    <3>2. Increasing(flagTokens \o r)
      BY <2>5, <3>1, <1>a, <1>d, ConcatIncreases
    <3>3. Elements(flagTokens \o r) = F \cup Elements(r)
      <4>1. flagTokens \in Seq(Places) /\ r \in Seq(Places)
        BY <2>5, <1>a
      <4> QED BY ONLY <4>1, ConcatFacts
    <3> QED BY <2>4, <3>2, <3>3
  <2>7. Passed \subseteq Passed' /\ next \in Passed' /\ (n = 2 => next + 1 \in Passed')
    BY <2>1, <1>a, <1>b DEF Passed
  <2>8. Guessed'
    <3> SUFFICES ASSUME NEW v \in values'
                 PROVE  /\ v - 1 \in Passed' /\ v \in Passed' /\ v - 1 \notin values'
                        /\ argv[v - 1].kind = "flag" /\ ~argv[v - 1].eq
                        /\ KindOf[argv[v - 1].name] = "bool" =>
                             \A k \in 0 .. Len(verbs) :
                               argv[v - 1].name \in FlagsOf[Node(k)] => k > 0 /\ verbs[k] > v - 1
      BY <2>1, <1>c DEF Guessed, Node
    <3>1. CASE v \in values
      <4>1. v - 1 # next + 1
        BY <3>1, <1>a, <1>e
      <4> QED BY <2>1, <2>7, <3>1, <4>1, <1>d DEF Guessed
    <3>2. CASE v \notin values
      <4>1. v = next + 1 /\ n = 2 /\ v - 1 = next /\ next # next + 1
        BY <2>1, <3>2, <1>a
      <4>2. next \notin values'
        BY <2>1, <4>1, <1>f
      <4>3. KindOf[argv[next].name] = "bool" => argv[next].name \notin Shapes
        BY <2>2, <4>1 DEF FlagTakesValue
      <4>4. \A k \in 0 .. Len(verbs) : FlagsOf[Node(k)] \subseteq Shapes
        BY ShapesAreOfNodes
      <4> QED BY <2>1, <2>2, <2>7, <4>1, <4>2, <4>3, <4>4
    <3> QED BY <3>1, <3>2
  <2>9. Grouped'
    <3> DEFINE G == F \cup Elements(r)
    <3> SUFFICES ASSUME NEW i \in G
                 PROVE /\ i + 1 \in values' => i + 1 \in G
                       /\ i \in values' => i - 1 \in G
                       /\ i \notin values' =>
                            /\ argv[i].kind # "word"
                            /\ argv[i].kind # "end"
                            /\ argv[i].kind = "flag" /\ i + 1 \notin values' => OwnValue(i) \/ i = Len(argv)
      BY <1>c, <2>6 DEF Grouped, OwnValue
    <3>1. CASE i \in F
      <4>1. i # next + 1 /\ i + 1 # next + 1
        BY <3>1, <1>a, <1>e
      <4>2. (i \in values' <=> i \in values) /\ (i + 1 \in values' <=> i + 1 \in values)
        BY <2>1, <4>1
      <4> QED BY <3>1, <4>2, <1>d, <1>g DEF Grouped
    <3>2. CASE i = next
      <4>1. next # next + 1
        BY <1>a
      <4>2. i \notin values' /\ (n = 2 <=> i + 1 \in values')
        BY <2>1, <3>2, <4>1, <1>f
      <4>3. n = 2 => i + 1 \in Elements(r)
        BY <2>5, <3>2, <1>a
      <4> QED BY <2>1, <2>3, <3>2, <4>2, <4>3
    <3>3. CASE i \notin F /\ i # next
      <4>1. i = next + 1 /\ n = 2
        <5>1. i \in next .. (next + n - 1)
          BY <2>5, <3>3
        <5> QED BY <2>1, <3>3, <5>1, <1>a
      <4>2. i \in values' /\ i + 1 \notin values' /\ i - 1 = next
        <5>1. i + 1 # next + 1 /\ i + 1 = next + 2 /\ i - 1 = next
          BY <4>1, <1>a
        <5> QED BY <2>1, <4>1, <5>1, <1>f
      <4>3. next \in Elements(r)
        BY <2>5, <4>1, <1>a
      <4> QED BY <4>2, <4>3
    <3> QED BY <3>1, <3>2, <3>3
  <2> QED BY <2>1, <2>6, <2>8, <2>9, <1>d, <1>h DEF InOrder
<1> QED BY <1>3, <1>4, <1>5, <1>6, <1>7

LEMMA AgreeStays ==
  ASSUME UNCHANGED <<argv, next, path, leaf, verbs, values>>
  PROVE  /\ Guessed => Guessed'
         /\ NoSwitchIsEarly' => NoSwitchIsEarly
         /\ UNCHANGED <<flagTokens, args, settings>> /\ InOrder => InOrder'
BY DEF Guessed, NoSwitchIsEarly, EarlySwitch, Merged, Shapes, Places, Passed, Node, InOrder,
   Increasing, Grouped, Agreed, OwnValue

\* The flag that is parsed, and what follows it.
LEMMA FrontOfParse ==
  ASSUME TypeInv, AccountInv, Guessed, NoSwitchIsEarly, InOrder, pc = "parse", flagTokens # << >>
  PROVE  LET i == Head(flagTokens)
             t == Tail(flagTokens)
         IN  /\ i \in Places /\ i \notin values /\ argv[i].kind # "word"
             /\ \A y \in Elements(t) : i < y
             /\ argv[i].kind = "flag" /\ argv[i].name \in Merged /\ OwnValue(i) => i + 1 \notin values
             /\ argv[i].kind = "flag" /\ ~OwnValue(i) /\ Len(flagTokens) # 1 =>
                  i + 1 \in values /\ flagTokens[2] = i + 1
             /\ argv[i].kind = "end" => Len(flagTokens) = 1
<1> DEFINE i == Head(flagTokens)
           t == Tail(flagTokens)
           F == Elements(flagTokens)
<1>a. /\ Places = 1 .. Len(argv) /\ Len(argv) \in Nat /\ Places \in SUBSET Nat
      /\ flagTokens \in Seq(Places)
  BY DEF TypeInv, TypeOK, Places
<1>b. /\ i \in Places /\ t \in Seq(Places) /\ F = {i} \cup Elements(t)
      /\ \A y \in Elements(t) : i < y
  BY <1>a, TailFacts, TailIncreases DEF InOrder
<1>c. Grouped /\ Increasing(flagTokens)
  BY DEF InOrder
<1>d. Elements(t) \subseteq Places
  BY <1>b DEF Elements
<1>e. Len(flagTokens) # 1 =>
        /\ flagTokens[2] \in Elements(t)
        /\ \A y \in Elements(t) : flagTokens[2] <= y
  <2> SUFFICES ASSUME Len(flagTokens) # 1
               PROVE  flagTokens[2] \in Elements(t) /\ \A y \in Elements(t) : flagTokens[2] <= y
    OBVIOUS
  <2>1. t # << >> /\ Head(t) = flagTokens[2] /\ flagTokens[2] \in Places
    BY <1>a, SecondFacts
  <2>2. Increasing(t)
    BY <1>a, <1>c, TailIncreases
  <2> HIDE DEF t
  <2>3. Elements(t) = {Head(t)} \cup Elements(Tail(t)) /\ \A y \in Elements(Tail(t)) : Head(t) < y
    BY ONLY <2>1, <2>2, <1>a, <1>b, TailFacts, TailIncreases
  <2>4. \A y \in Elements(Tail(t)) : y \in Nat
    BY <2>3, <1>a, <1>d
  <2> QED BY <2>1, <2>3, <2>4, <1>a
<1> HIDE DEF i, t
<1>1. i \notin values
  <2>1. i - 1 \in F => i - 1 = i \/ i < i - 1
    BY <1>b
  <2>2. i - 1 \notin F
    BY <2>1, <1>a, <1>b
  <2> QED BY <2>2, <1>b, <1>c DEF Grouped
<1>2. argv[i].kind # "word"
  BY <1>1, <1>b, <1>c DEF Grouped
<1>3. ASSUME argv[i].kind = "flag", argv[i].name \in Merged, OwnValue(i) PROVE i + 1 \notin values
  <2>1. SUFFICES ASSUME i + 1 \in values PROVE FALSE
    OBVIOUS
  <2>2. (i + 1) - 1 = i
    BY <1>a, <1>b
  <2>3. /\ ~argv[i].eq
        /\ KindOf[argv[i].name] = "bool" =>
             \A k \in 0 .. Len(verbs) : argv[i].name \in FlagsOf[Node(k)] => k > 0 /\ verbs[k] > i
    BY <2>1, <2>2 DEF Guessed
  <2>4. EarlySwitch(i)
    BY <1>3, <2>3 DEF EarlySwitch, OwnValue
  <2> QED BY <2>4, <1>b DEF NoSwitchIsEarly
<1>4. ASSUME argv[i].kind = "flag", ~OwnValue(i), Len(flagTokens) # 1
      PROVE  i + 1 \in values /\ flagTokens[2] = i + 1
  <2>1. flagTokens[2] \in Elements(t) /\ i < flagTokens[2] /\ flagTokens[2] \in Places
    BY <1>4, <1>b, <1>d, <1>e
  <2>2. i # Len(argv)
    BY <2>1, <1>a, <1>b
  <2>3. i + 1 \in values
    BY <2>2, <1>1, <1>4, <1>b, <1>c DEF Grouped
  <2>4. i + 1 \in Elements(t)
    <3>1. i + 1 \in F
      BY <2>3, <1>b, <1>c DEF Grouped
    <3> QED BY <3>1, <1>a, <1>b
  <2>5. flagTokens[2] <= i + 1
    BY <2>4, <1>4, <1>e
  <2> QED BY <2>1, <2>3, <2>5, <1>a, <1>b
<1>5. ASSUME argv[i].kind = "end" PROVE Len(flagTokens) = 1
  <2>1. SUFFICES ASSUME Len(flagTokens) # 1 PROVE FALSE
    OBVIOUS
  <2>2. flagTokens[2] \in F /\ i < flagTokens[2] /\ flagTokens[2] \in Places
    BY <2>1, <1>b, <1>d, <1>e
  <2>3. flagTokens[2] <= i
    BY <2>2, <1>1, <1>5, <1>b, <1>c DEF Grouped
  <2> QED BY <2>2, <2>3, <1>a, <1>b
<1> QED BY <1>1, <1>2, <1>3, <1>4, <1>5, <1>b DEF i, t

LEMMA AgreedGrows ==
  ASSUME TypeInv, Agreed, UNCHANGED values, NEW i \in Places, NEW j \in Places,
         settings' = Append(settings, <<i, j>>),
         j = IF i + 1 \in values THEN i + 1 ELSE i
  PROVE  Agreed'
<1>1. settings \in Seq(Places \X Places) /\ <<i, j>> \in Places \X Places
  BY DEF TypeInv, TypeOK
<1>2. /\ Len(settings') = Len(settings) + 1 /\ settings'[Len(settings) + 1] = <<i, j>>
      /\ \A k \in 1 .. Len(settings) : settings'[k] = settings[k]
      /\ Len(settings) \in Nat
      /\ DOMAIN settings = 1 .. Len(settings) /\ DOMAIN settings' = 1 .. (Len(settings) + 1)
  BY <1>1
<1>3. ASSUME NEW k \in DOMAIN settings'
      PROVE  settings'[k][2] =
               IF settings'[k][1] + 1 \in values THEN settings'[k][1] + 1 ELSE settings'[k][1]
  <2>1. CASE k \in DOMAIN settings
    BY <2>1, <1>2 DEF Agreed
  <2>2. CASE k = Len(settings) + 1
    BY <2>2, <1>2
  <2> QED BY <2>1, <2>2, <1>2
<1> QED BY <1>3 DEF Agreed

LEMMA AgreeStep == TypeInv /\ AccountInv /\ AgreeInv /\ [Next]_vars => AgreeInv'
<1> SUFFICES ASSUME TypeInv, AccountInv, AgreeInv, [Next]_vars PROVE AgreeInv'
  OBVIOUS
\* The ways out.
<1>1. ASSUME RunHelp \/ WalkUnknown \/ WalkEndsInHelp \/ ParseFails \/ ExecuteGroup \/ ExecuteLeaf \/ Exit
      PROVE  AgreeInv'
  <2>1. pc' \in {"exit", "done"}
    BY <1>1 DEF RunHelp, WalkUnknown, WalkEndsInHelp, ParseFails, ExecuteGroup, ExecuteLeaf, Exit,
       ShowHelp, ReportUsageError, Goto
  <2> QED BY <2>1 DEF AgreeInv
\* The ways from one stage to the next.
<1>2. ASSUME RunResolve \/ WalkEnds \/ ParseEnds PROVE AgreeInv'
  <2>1. /\ UNCHANGED <<argv, next, path, leaf, verbs, values, flagTokens, args, settings>>
        /\ \/ pc = "start" /\ pc' = "walk"
           \/ pc = "walk" /\ pc' = "parse"
           \/ pc = "parse" /\ pc' = "execute"
    BY <1>2 DEF RunResolve, WalkEnds, ParseEnds, Goto, walk
  <2> QED BY <2>1, AgreeStays DEF AgreeInv
<1>3. ASSUME RunVersion PROVE AgreeInv'
  <2>1. /\ pc' = "walk" /\ values' = {} /\ args' = << >> /\ flagTokens' = << >> /\ settings' = << >>
    BY <1>3 DEF RunVersion, Goto, walk, TypeInv, Fresh
  <2>2. Increasing(<< >>) /\ Elements(<< >>) = {}
    BY EmptyFacts DEF Increasing
  <2>3. Guessed' /\ Grouped' /\ Agreed' /\ Increasing(args)' /\ Increasing(flagTokens)'
    BY <2>1, <2>2 DEF Guessed, Grouped, Agreed
  <2> QED BY <2>1, <2>3 DEF AgreeInv, InOrder
<1>4. ASSUME WalkTerminator \/ WalkHelp \/ WalkFlag \/ WalkDescend \/ WalkPositional
      PROVE  AgreeInv'
  <2>1. pc = "walk" /\ UNCHANGED <<pc, settings>>
    BY <1>4 DEF WalkTerminator, WalkHelp, WalkFlag, WalkDescend, WalkPositional, Walking
  <2> QED BY <1>4, <2>1, AgreeWalk DEF AgreeInv
\* The parse.
<1>5. ASSUME ParseSwitch \/ ParseValue \/ ParseWord \/ ParseTerminator PROVE AgreeInv'
  <2> DEFINE i == Head(flagTokens)
             t == Tail(flagTokens)
  <2>1. /\ pc = "parse" /\ flagTokens # << >>
        /\ UNCHANGED <<argv, pc, next, path, leaf, verbs, values>>
    BY <1>5 DEF ParseSwitch, ParseValue, ParseWord, ParseTerminator, Parsing, walk
  <2>2. Guessed /\ Guessed'
    BY <2>1, AgreeStays DEF AgreeInv
  <2>3. SUFFICES ASSUME NoSwitchIsEarly' PROVE InOrder'
    BY <2>1, <2>2 DEF AgreeInv
  <2>4. NoSwitchIsEarly /\ InOrder
    BY <2>1, <2>3, AgreeStays DEF AgreeInv
  <2>5. /\ i \in Places /\ i \notin values /\ argv[i].kind # "word"
        /\ \A y \in Elements(t) : i < y
        /\ argv[i].kind = "flag" /\ argv[i].name \in Merged /\ OwnValue(i) => i + 1 \notin values
        /\ argv[i].kind = "flag" /\ ~OwnValue(i) /\ Len(flagTokens) # 1 =>
             i + 1 \in values /\ flagTokens[2] = i + 1
        /\ argv[i].kind = "end" => Len(flagTokens) = 1
    BY <2>1, <2>2, <2>4, FrontOfParse
  <2>6. /\ Places = 1 .. Len(argv) /\ Len(argv) \in Nat /\ Places \in SUBSET Nat
        /\ flagTokens \in Seq(Places) /\ t \in Seq(Places) /\ i \in Nat
        /\ Elements(flagTokens) = {i} \cup Elements(t)
        /\ Increasing(t)
    <3>1. /\ Places = 1 .. Len(argv) /\ Len(argv) \in Nat /\ Places \in SUBSET Nat
          /\ flagTokens \in Seq(Places)
      BY DEF TypeInv, TypeOK, Places
    <3>2. flagTokens # << >> /\ Increasing(flagTokens)
      BY <2>1, <2>4 DEF InOrder
    <3>3. t \in Seq(Places) /\ Elements(flagTokens) = {i} \cup Elements(t)
      BY ONLY <3>1, <3>2, TailFacts
    <3>4. Increasing(t)
      BY ONLY <3>1, <3>2, TailIncreases
    <3>5. i \in Nat
      BY <2>5, <3>1
    <3> QED BY <3>1, <3>3, <3>4, <3>5
  <2>7. \A y \in Elements(t) : y \in Nat /\ i < y
    BY <2>5, <2>6 DEF Elements
  <2>8. /\ Grouped /\ Agreed /\ Increasing(args)
        /\ \A y \in Places : argv'[y] = argv[y] /\ (OwnValue(y)' <=> OwnValue(y))
    BY <2>1, <2>4 DEF InOrder, OwnValue
  <2> HIDE DEF i, t
  <2>9. ASSUME ParseSwitch PROVE InOrder'
    <3>1. /\ argv[i].kind = "flag" /\ argv[i].name \in Merged /\ OwnValue(i)
          /\ settings' = Append(settings, <<i, i>>) /\ flagTokens' = t /\ args' = args
      BY <2>9 DEF ParseSwitch, Parsing, i, t
    <3>2. i + 1 \notin values
      BY <2>5, <3>1
    <3>3. Agreed'
      BY <2>1, <2>5, <2>8, <3>1, <3>2, AgreedGrows
    <3>4. Grouped'
      <4> SUFFICES ASSUME NEW j \in Elements(t)
                   PROVE /\ j + 1 \in values => j + 1 \in Elements(t)
                         /\ j \in values => j - 1 \in Elements(t)
                         /\ j \notin values =>
                              /\ argv[j].kind # "word"
                              /\ argv[j].kind = "end" => next > Len(argv) /\ \A k \in Elements(t) : k <= j
                              /\ argv[j].kind = "flag" /\ j + 1 \notin values => OwnValue(j) \/ j = Len(argv)
        BY <2>1, <3>1 DEF Grouped, OwnValue
      <4>1. j + 1 # i /\ (j - 1 = i => j = i + 1)
        BY <2>6, <2>7
      <4> QED BY <4>1, <2>6, <2>8, <3>2 DEF Grouped
    <3> QED BY <2>6, <2>8, <3>1, <3>3, <3>4 DEF InOrder
  <2>10. ASSUME ParseValue PROVE InOrder'
    <3>1. /\ argv[i].kind = "flag" /\ ~OwnValue(i) /\ Len(flagTokens) > 1
          /\ settings' = Append(settings, <<i, flagTokens[2]>>)
          /\ flagTokens' = Tail(t) /\ args' = args
      BY <2>10 DEF ParseValue, Parsing, i, t
    <3>2. Len(flagTokens) # 1
      <4>1. Len(flagTokens) \in Nat
        BY <2>6
      <4> QED BY <3>1, <4>1, AboveOne
    <3>3. i + 1 \in values /\ flagTokens[2] = i + 1
      BY <2>5, <3>1, <3>2
    <3>4. t # << >> /\ Head(t) = i + 1 /\ i + 1 \in Places
      BY <2>1, <2>6, <3>2, <3>3, SecondFacts DEF t
    <3>5. /\ Elements(t) = {i + 1} \cup Elements(Tail(t)) /\ Increasing(Tail(t))
          /\ \A y \in Elements(Tail(t)) : i + 1 < y
      <4>1. /\ t \in Seq(Places) /\ t # << >> /\ Increasing(t) /\ Head(t) = i + 1
            /\ Places \in SUBSET Nat
        BY <2>6, <3>4
      <4>2. Elements(t) = {Head(t)} \cup Elements(Tail(t))
        BY ONLY <4>1, TailFacts
      <4>3. Increasing(Tail(t)) /\ \A y \in Elements(Tail(t)) : Head(t) < y
        BY ONLY <4>1, TailIncreases
      <4> QED BY <4>1, <4>2, <4>3
    <3>6. Agreed'
      BY <2>1, <2>5, <2>8, <3>1, <3>3, <3>4, AgreedGrows
    <3>7. i + 2 \notin values
      <4>1. (i + 2) - 1 = i + 1
        BY <2>6
      <4> QED BY <2>2, <3>3, <4>1 DEF Guessed
    <3>8. Grouped'
      <4> SUFFICES ASSUME NEW j \in Elements(Tail(t))
                   PROVE /\ j + 1 \in values => j + 1 \in Elements(Tail(t))
                         /\ j \in values => j - 1 \in Elements(Tail(t))
                         /\ j \notin values =>
                              /\ argv[j].kind # "word"
                              /\ argv[j].kind = "end" =>
                                   next > Len(argv) /\ \A k \in Elements(Tail(t)) : k <= j
                              /\ argv[j].kind = "flag" /\ j + 1 \notin values => OwnValue(j) \/ j = Len(argv)
        BY <2>1, <3>1 DEF Grouped, OwnValue
      <4>1. j \in Nat /\ i + 1 < j /\ j \in Elements(flagTokens)
        BY <2>6, <2>7, <3>5
      <4>2. j + 1 # i /\ j + 1 # i + 1 /\ j - 1 # i /\ (j - 1 = i + 1 => j = i + 2)
        BY <4>1, <2>6
      <4> QED BY <4>1, <4>2, <2>6, <2>8, <3>5, <3>7 DEF Grouped
    <3> QED BY <2>8, <3>1, <3>5, <3>6, <3>8 DEF InOrder
  <2>11. ASSUME ParseWord PROVE FALSE
    BY <2>5, <2>11 DEF ParseWord, Parsing, i
  <2>12. ASSUME ParseTerminator PROVE InOrder'
    <3>1. Len(flagTokens) = 1
      BY <2>5, <2>12 DEF ParseTerminator, Parsing, i
    <3>2. flagTokens' = << >> /\ UNCHANGED <<args, settings>>
      BY <2>12, <3>1 DEF ParseTerminator
    <3>3. Increasing(flagTokens') /\ Grouped'
      BY <3>2, EmptyFacts DEF Increasing, Grouped
    <3>4. Agreed' /\ Increasing(args)'
      BY <2>1, <2>8, <3>2 DEF Agreed
    <3> QED BY <3>3, <3>4 DEF InOrder
  <2> QED BY <1>5, <2>9, <2>10, <2>11, <2>12
<1>6. CASE UNCHANGED vars
  <2>1. UNCHANGED <<argv, next, path, leaf, verbs, values, flagTokens, args, settings, pc>>
    BY <1>6 DEF vars, walk
  <2> QED BY <2>1, AgreeStays DEF AgreeInv
<1> QED BY <1>1, <1>2, <1>3, <1>4, <1>5, <1>6 DEF Next

(* For every verb tree and every argv without a switch before the verb that *)
(* declares it, ParseFlags takes for values what Resolve did, however the   *)
(* flags and the words are mixed, and the leaf gets its arguments in order. *)
THEOREM WalkAndParseNeverDisagree == Spec => []WalkAndParseAgree
<1>1. TypeInv /\ AgreeInv => WalkAndParseAgree
  <2> SUFFICES ASSUME TypeInv, AgreeInv, pc = "execute", \A i \in Places : ~EarlySwitch(i)
               PROVE  /\ \A j, k \in DOMAIN args : j < k => args[j] < args[k]
                      /\ \A k \in DOMAIN settings :
                           IF settings[k][1] + 1 \in values THEN settings[k][2] = settings[k][1] + 1
                                                             ELSE settings[k][2] = settings[k][1]
    BY DEF WalkAndParseAgree
  <2>1. InOrder
    BY DEF AgreeInv, NoSwitchIsEarly
  <2> QED BY <2>1 DEF InOrder, Increasing, Agreed
<1> QED
  BY <1>1, TypeInit, TypeStep, ReportInit, ReportStep, AccountInit, AccountStep, AgreeInit, AgreeStep,
     PTL DEF Spec

-----------------------------------------------------------------------------
(* firstVerb finds the verb that the walk found.                            *)

\* Induction over the places of argv, by the least counterexample.
LEMMA LeastOne ==
  ASSUME NEW T \in SUBSET Nat, T # {}
  PROVE  \E x \in T : \A y \in T : x <= y
<1> DEFINE R == OpToRel(<, Nat)
<1>1. \E x \in T : \A y \in T : ~(<<y, x>> \in R)
  <2>1. IsWellFoundedOn(R, Nat)
    BY NatLessThanWellFounded
  <2> QED BY ONLY <2>1, T \subseteq Nat, T # {}, WFMin
<1>2. \A x, y \in Nat : <<y, x>> \in R <=> y < x
  BY DEF OpToRel
<1> HIDE DEF R
<1>3. PICK x \in T : \A y \in T : ~(<<y, x>> \in R)
  BY <1>1
<1>4. \A y \in T : x <= y
  <2> SUFFICES ASSUME NEW y \in T PROVE x <= y
    OBVIOUS
  <2>1. ~(y < x) /\ x \in Nat /\ y \in Nat
    BY <1>2, <1>3
  <2> QED BY ONLY <2>1
<1> QED BY <1>4

LEMMA Inducts ==
  ASSUME NEW S \in SUBSET Nat, 0 \in S, \A n \in S : n + 1 \in S
  PROVE  S = Nat
<1> SUFFICES ASSUME Nat \ S # {} PROVE FALSE
  OBVIOUS
<1>1. PICK x \in Nat \ S : \A y \in Nat \ S : x <= y
  BY LeastOne
<1>2. x # 0 /\ x \in Nat /\ x \notin S
  BY <1>1
<1>3. x - 1 \in Nat /\ ~(x <= x - 1) /\ (x - 1) + 1 = x
  BY ONLY <1>2
<1>4. x - 1 \in S
  BY <1>1, <1>3
<1> QED BY <1>2, <1>3, <1>4

\* A recursion towards the end of a list, as that of firstVerb, defines a
\* function: where it stops it is what it stops at.
LEMMA Recursion ==
  ASSUME NEW n \in Nat, NEW Stop, n + 1 \in Stop,
         NEW to, \A i \in 1 .. n : to[i] \in Nat /\ i < to[i] /\ to[i] <= n + 1
  PROVE  \E g : g = [i \in 1 .. n + 1 |-> IF i \in Stop THEN i ELSE g[to[i]]]
<1> DEFINE From(k) == (n + 1 - k) .. (n + 1)
           Good(k) == \E g : g = [i \in From(k) |-> IF i \in Stop THEN i ELSE g[to[i]]]
           S == {k \in Nat : k <= n => Good(k)}
<1>1. 0 \in S
  <2> DEFINE g == [i \in From(0) |-> i]
  <2>1. From(0) = {n + 1}
    OBVIOUS
  <2>2. g = [i \in From(0) |-> IF i \in Stop THEN i ELSE g[to[i]]]
    BY <2>1
  <2> QED BY <2>2
<1>2. ASSUME NEW k \in S PROVE k + 1 \in S
  <2> SUFFICES ASSUME k + 1 <= n PROVE Good(k + 1)
    OBVIOUS
  <2>1. k \in Nat /\ k <= n
    OBVIOUS
  <2>2. PICK g : g = [i \in From(k) |-> IF i \in Stop THEN i ELSE g[to[i]]]
    BY <2>1
  <2> DEFINE j == n - k
             h == [i \in From(k + 1) |-> IF i = j THEN (IF j \in Stop THEN j ELSE g[to[j]]) ELSE g[i]]
  <2>3. /\ From(k + 1) = {j} \cup From(k) /\ j \notin From(k) /\ j \in 1 .. n
        /\ \A i \in From(k) : i \in 1 .. n + 1
    BY <2>1
  <2>4. \A i \in From(k + 1) : i \notin Stop => i \in 1 .. n
    BY <2>3
  <2>5. \A i \in From(k + 1) : i \notin Stop => to[i] \in From(k)
    <3> SUFFICES ASSUME NEW i \in From(k + 1), i \notin Stop PROVE to[i] \in From(k)
      OBVIOUS
    <3>1. to[i] \in Nat /\ i < to[i] /\ to[i] <= n + 1
      BY <2>4
    <3> QED BY <3>1, <2>1
  <2> HIDE DEF From, j
  <2>6. \A i \in From(k) : h[i] = g[i] /\ g[i] = IF i \in Stop THEN i ELSE g[to[i]]
    BY <2>2, <2>3
  <2>7. ASSUME NEW i \in From(k + 1) PROVE h[i] = IF i \in Stop THEN i ELSE h[to[i]]
    <3>1. CASE i = j
      BY <3>1, <2>3, <2>5, <2>6
    <3>2. CASE i \in From(k)
      BY <3>2, <2>3, <2>5, <2>6
    <3> QED BY <3>1, <3>2, <2>3
  <2>8. h = [i \in From(k + 1) |-> IF i \in Stop THEN i ELSE h[to[i]]]
    BY <2>7
  <2> QED BY <2>8
<1>3. n \in S
  <2> HIDE DEF S
  <2>1. S \in SUBSET Nat
    BY DEF S
  <2> QED BY <2>1, <1>1, <1>2, Inducts
<1>4. From(n) = 1 .. n + 1
  OBVIOUS
<1> QED BY <1>3, <1>4

\* Where firstVerb stops, and where it goes on.
Stops    == {i \in 1 .. Len(argv) + 1 : i > Len(argv) \/ ~IsFlagToken(argv[i])}
After(i) == IF SkipsNext(i) THEN i + 2 ELSE i + 1

LEMMA FirstVerbFacts ==
  ASSUME TypeInv
  PROVE  \E g : /\ FirstVerb = g[1]
                /\ \A i \in 1 .. Len(argv) + 1 : g[i] = IF i \in Stops THEN i ELSE g[After(i)]
<1> DEFINE D == 1 .. Len(argv) + 1
           to == [i \in D |-> After(i)]
           F == CHOOSE g : g = [i \in D |-> IF i > Len(argv) \/ ~IsFlagToken(argv[i]) THEN i ELSE g[After(i)]]
<1>1. Len(argv) \in Nat
  BY DEF TypeInv, TypeOK
<1>2. \A i \in 1 .. Len(argv) : to[i] \in Nat /\ i < to[i] /\ to[i] <= Len(argv) + 1
  <2> SUFFICES ASSUME NEW i \in 1 .. Len(argv)
               PROVE  to[i] \in Nat /\ i < to[i] /\ to[i] <= Len(argv) + 1
    OBVIOUS
  <2>1. to[i] = After(i) /\ i \in Nat /\ i <= Len(argv)
    BY <1>1
  <2>2. SkipsNext(i) => i < Len(argv)
    BY DEF SkipsNext
  <2> QED BY <1>1, <2>1, <2>2 DEF After
<1>3. Len(argv) + 1 \in Stops
  BY <1>1 DEF Stops
<1>4. PICK g : g = [i \in D |-> IF i \in Stops THEN i ELSE g[to[i]]]
  <2> HIDE DEF to
  <2> QED BY ONLY <1>1, <1>2, <1>3, Recursion
<1>5. g = [i \in D |-> IF i > Len(argv) \/ ~IsFlagToken(argv[i]) THEN i ELSE g[After(i)]]
  <2>1. \A i \in D : to[i] = After(i) /\ (i \in Stops <=> i > Len(argv) \/ ~IsFlagToken(argv[i]))
    BY DEF Stops
  <2> HIDE DEF to, D
  <2> QED BY <1>4, <2>1
<1>6. F = [i \in D |-> IF i > Len(argv) \/ ~IsFlagToken(argv[i]) THEN i ELSE F[After(i)]]
  BY <1>5
<1>7. FirstVerb = F[1]
  BY DEF FirstVerb, After
<1> HIDE DEF F
<1>8. \A i \in D : F[i] = IF i \in Stops THEN i ELSE F[After(i)]
  BY <1>6 DEF Stops
<1> QED BY <1>7, <1>8

\* The token at i stands before the first verb.
BeforeVerb(i) == \A k \in DOMAIN verbs : i < verbs[k]

\* A flag that the walk set aside is still to be parsed, or has been set.
Pending(i) == i \in Elements(flagTokens) \/ \E k \in DOMAIN settings : settings[k][1] = i

\* What the walk passes before it comes to a verb.
Skipped(i) ==
  /\ argv[i].kind \in {"flag", "help"}
  /\ argv[i].kind = "help" => help
  /\ argv[i].kind = "flag" =>
       /\ i + 1 \in values <=>
            ~argv[i].eq /\ (argv[i].name \in FlagsOf[Root] => KindOf[argv[i].name] # "bool")
       /\ Pending(i)

\* Nothing or `update` has been found.
OnTheWay ==
  /\ pc \in {"start", "walk", "parse", "execute"}
  /\ leaf = Update \/ (leaf = Root /\ next <= Len(argv))

UpdateInv ==
  /\ leaf = Root => verbs = << >> /\ path = <<Root>>
  /\ leaf = Update =>
       /\ path = <<Root>> /\ Len(verbs) = 1
       /\ pc \in {"walk", "parse", "execute"} => argv[verbs[1]].kind = "word" /\ verbs[1] \notin values
  /\ pc \in {"parse", "execute"} =>
       ~help /\ \A k \in DOMAIN settings : argv[settings[k][1]].name \in Merged
  /\ OnTheWay => \A i \in Passed : BeforeVerb(i) /\ i \notin values => Skipped(i)

LEMMA RootAndUpdate ==
  /\ Root # Update /\ Update \notin Group /\ Root \in Group
  /\ \A g \in Group : \A w \in DOMAIN Children[g] :
       Children[g][w] # Root /\ (Children[g][w] = Update => g = Root)
BY TreeAssumption, UpdateAssumption

\* Before a verb is found, and for `update`, the flags known are the root's.
LEMMA ShapesOfUpdate ==
  ASSUME path = <<Root>>, leaf = Root \/ leaf = Update
  PROVE  Shapes = FlagsOf[Root]
<1>1. UNION {FlagsOf[path[i]] : i \in DOMAIN path} = FlagsOf[Root]
  <2>1. DOMAIN path = {1} /\ path[1] = Root
    OBVIOUS
  <2> QED BY <2>1
<1>2. FlagsOf[leaf] \subseteq FlagsOf[Root]
  BY UpdateAssumption
<1> QED BY <1>1, <1>2 DEF Shapes

LEMMA UpdateHasNoEarlySwitch ==
  ASSUME TypeInv, UpdateInv, leaf = Update
  PROVE  NoSwitchIsEarly
<1> SUFFICES ASSUME NEW i \in Places, EarlySwitch(i) PROVE FALSE
  BY DEF NoSwitchIsEarly
<1>1. path = <<Root>> /\ Len(verbs) \in Nat
  BY DEF UpdateInv, TypeInv, TypeOK
<1>2. argv[i].name \in FlagsOf[Root]
  BY <1>1, ShapesOfUpdate DEF EarlySwitch, Merged
<1>3. Node(0) = Root /\ 0 \in 0 .. Len(verbs)
  BY <1>1 DEF Node
<1>4. ~(0 > 0)
  OBVIOUS
<1> QED BY <1>2, <1>3, <1>4 DEF EarlySwitch

LEMMA UpdateInit == Init => UpdateInv
<1> SUFFICES ASSUME Init PROVE UpdateInv
  OBVIOUS
<1>1. leaf = Root /\ verbs = << >> /\ path = <<Root>> /\ pc = "start" /\ next = 1
  BY DEF Init
<1>2. Passed = {}
  BY <1>1 DEF Passed
<1> QED BY <1>1, <1>2, RootAndUpdate DEF UpdateInv

\* What the walk does behind the verb leaves what it has skipped as it is.
LEMMA BehindTheVerb ==
  ASSUME TypeInv, AccountInv, AgreeInv, UpdateInv, pc = "walk", leaf = Update,
         UNCHANGED <<argv, pc, path, leaf, verbs, settings>>, help => help',
         next' \in Nat, next < next', Elements(flagTokens) \subseteq Elements(flagTokens'),
         values \subseteq values', values' \subseteq values \cup {next + 1}
  PROVE  UpdateInv'
<1> DEFINE v == verbs[1]
<1>1. path = <<Root>> /\ Len(verbs) = 1 /\ argv[v].kind = "word" /\ v \notin values
  BY DEF UpdateInv
<1>2. next \in Nat /\ verbs \in Seq(Places) /\ 1 \in DOMAIN verbs
  BY <1>1 DEF TypeInv, TypeOK
<1>3. v \in Nat /\ 1 <= v /\ v < next
  <2>1. v \in Elements(verbs)
    BY <1>2 DEF Elements
  <2>2. v \in 1 .. (next - 1)
    BY <2>1 DEF AccountInv, Accounted, Passed
  <2> QED BY ONLY <2>2, <1>2
<1> HIDE DEF v
<1>4. v # next + 1 /\ v \notin values'
  <2>1. v # next + 1
    BY ONLY <1>2, <1>3
  <2> QED BY <2>1, <1>1
<1>5. ASSUME NEW i \in Passed', BeforeVerb(i)', i \notin values' PROVE Skipped(i)'
  <2>1. i < v /\ i \in Nat /\ 1 <= i
    <3>1. i \in 1 .. (next' - 1)
      BY DEF Passed
    <3>2. i < v
      BY <1>2, <1>5 DEF BeforeVerb, v
    <3> QED BY ONLY <3>1, <3>2, next' \in Nat
  <2>2. i \in Passed /\ i + 1 # next + 1
    <3>1. i \in 1 .. (next - 1) /\ i + 1 # next + 1
      BY ONLY <2>1, <1>2, <1>3
    <3> QED BY <3>1 DEF Passed
  <2>3. Skipped(i)
    BY <2>2, <1>5 DEF UpdateInv, OnTheWay, BeforeVerb
  <2>4. Pending(i) => Pending(i)'
    BY DEF Pending
  <2>5. i + 1 \in values' <=> i + 1 \in values
    BY <2>2
  <2> QED BY <2>3, <2>4, <2>5 DEF Skipped
<1> QED BY <1>1, <1>4, <1>5, RootAndUpdate DEF UpdateInv, v

\* What the walk sets aside of a flag: the flag, and what it takes for its value.
LEMMA FlagSetAside ==
  ASSUME TypeInv, WalkFlag
  PROVE  /\ argv[next].kind = "flag" /\ UNCHANGED <<argv, pc, path, leaf, verbs, help, settings>>
         /\ TakesNext(next) =>
              /\ next' = next + 2 /\ values' = values \cup {next + 1}
              /\ Elements(flagTokens') = Elements(flagTokens) \cup {next, next + 1}
         /\ ~TakesNext(next) =>
              /\ next' = next + 1 /\ values' = values
              /\ Elements(flagTokens') = Elements(flagTokens) \cup {next}
<1> DEFINE n == IF TakesNext(next) THEN 2 ELSE 1
           r == [k \in 1 .. n |-> (next - 1) + k]
<1>1. /\ argv[next].kind = "flag" /\ next <= Len(argv)
      /\ UNCHANGED <<argv, pc, path, leaf, verbs, help, settings>>
      /\ next' = next + n /\ values' = (IF n = 2 THEN values \cup {next + 1} ELSE values)
      /\ flagTokens' = flagTokens \o [k \in 1 .. n |-> next + k - 1]
  BY DEF WalkFlag, Walking
<1>2. /\ Places = 1 .. Len(argv) /\ Len(argv) \in Nat /\ flagTokens \in Seq(Places)
      /\ next \in Nat /\ 1 <= next
  BY DEF TypeInv, TypeOK, Places
<1>3. n \in {1, 2} /\ (n = 2 => next < Len(argv))
  BY DEF TakesNext
<1>4. TakesNext(next) <=> n = 2
  OBVIOUS
<1> HIDE DEF n
<1>5. flagTokens' = flagTokens \o r
  <2>1. \A k \in 1 .. n : next + k - 1 = (next - 1) + k
    BY <1>2, <1>3
  <2>2. [k \in 1 .. n |-> next + k - 1] = r
    BY <2>1
  <2> QED BY <1>1, <2>2
<1>6. r \in Seq(Places) /\ Elements(r) = next .. (next + n - 1)
  <2>1. next - 1 \in Nat /\ n \in Nat
    BY ONLY <1>2, <1>3
  <2>2. /\ r \in Seq(((next - 1) + 1) .. ((next - 1) + n))
        /\ Elements(r) = ((next - 1) + 1) .. ((next - 1) + n)
    BY <2>1, RunFacts
  <2> HIDE DEF r
  <2>3. (next - 1) + 1 = next /\ (next - 1) + n = next + n - 1
    BY ONLY <1>2, <1>3
  <2>4. next .. (next + n - 1) \subseteq Places
    <3>1. next <= Len(argv)
      BY <1>1
    <3> QED BY ONLY <3>1, <1>2, <1>3
  <2>5. r \in Seq(next .. (next + n - 1))
    BY <2>2, <2>3
  <2>6. r \in Seq(Places)
    BY ONLY <2>4, <2>5, WiderSeq
  <2> QED BY <2>2, <2>3, <2>6
<1> HIDE DEF r
<1>7. Elements(flagTokens') = Elements(flagTokens) \cup (next .. (next + n - 1))
  <2>1. Elements(flagTokens \o r) = Elements(flagTokens) \cup Elements(r)
    <3>1. flagTokens \in Seq(Places) /\ r \in Seq(Places)
      BY <1>2, <1>6
    <3> QED BY ONLY <3>1, ConcatFacts
  <2> QED BY <2>1, <1>5, <1>6
<1>8. /\ n = 2 => next .. (next + n - 1) = {next, next + 1}
      /\ n = 1 => next .. (next + n - 1) = {next}
  BY ONLY <1>2
<1> QED BY <1>1, <1>3, <1>4, <1>7, <1>8

\* The walk at the root: what it sets aside it has skipped.
LEMMA BeforeTheVerb ==
  ASSUME TypeInv, AccountInv, AgreeInv, UpdateInv, pc = "walk", next <= Len(argv), leaf = Root,
         UNCHANGED <<argv, pc, path, leaf, verbs, settings>>,
         WalkHelp \/ WalkFlag
  PROVE  UpdateInv'
<1>1. path = <<Root>> /\ verbs = << >>
  BY DEF UpdateInv
<1>2. /\ next \in Nat /\ Len(argv) \in Nat /\ Places = 1 .. Len(argv) /\ next \in Places
      /\ flagTokens \in Seq(Places)
  BY DEF TypeInv, TypeOK, Places
<1>3. \A i \in Passed : i \in Nat /\ i + 1 # next + 1 /\ i # next /\ i # next + 1
  BY ONLY <1>2 DEF Passed
<1>4. values \subseteq Passed /\ next \notin values /\ next + 1 \notin values
  <2>1. values \subseteq Passed
    BY DEF AgreeInv, Guessed
  <2> QED BY ONLY <2>1, <1>2 DEF Passed
<1>5. \A i \in Passed : i \notin values => Skipped(i)
  BY <1>1 DEF UpdateInv, OnTheWay, BeforeVerb
<1> DEFINE NowSkipped ==
             /\ argv[next].kind \in {"flag", "help"} /\ next \in Elements(flagTokens')
             /\ argv[next].kind = "help" => help'
             /\ argv[next].kind = "flag" =>
                  (next + 1 \in values' <=>
                     ~argv[next].eq /\ (argv[next].name \in FlagsOf[Root] => KindOf[argv[next].name] # "bool"))
<1> HIDE DEF NowSkipped
<1>6. ASSUME next' \in Nat, next < next',
             Elements(flagTokens') = Elements(flagTokens) \cup {next} \cup (values' \ values),
             help => help', values \subseteq values', values' \subseteq values \cup {next + 1},
             next + 1 \in values' => next' = next + 2, next + 1 \notin values' => next' = next + 1,
             next' <= Len(argv) => NowSkipped
      PROVE  UpdateInv'
  <2>1. ASSUME NEW i \in Passed', OnTheWay', i \notin values' PROVE Skipped(i)'
    <3>1. next' <= Len(argv)
      BY <1>1, <2>1, RootAndUpdate DEF OnTheWay
    <3>2. i \in Passed \/ i = next
      <4>1. i \in 1 .. (next' - 1) /\ (i # next + 1 \/ next' = next + 1)
        BY <1>6, <2>1 DEF Passed
      <4>2. next' = next + 1 \/ next' = next + 2
        BY <1>6
      <4>3. i \in 1 .. (next - 1) \/ i = next
        BY ONLY <4>1, <4>2, <1>2
      <4> QED BY <4>3 DEF Passed
    <3>3. CASE i = next
      <4>1. NowSkipped
        BY <3>1, <1>6
      <4> QED BY <3>3, <4>1 DEF NowSkipped, Skipped, Pending
    <3>4. CASE i \in Passed
      <4>1. Skipped(i)
        BY <3>4, <2>1, <1>5, <1>6
      <4>2. i + 1 \in values' <=> i + 1 \in values
        BY <3>4, <1>3, <1>6
      <4>3. Pending(i) => Pending(i)'
        BY <1>6 DEF Pending
      <4> QED BY <4>1, <4>2, <4>3, <1>6 DEF Skipped
    <3> QED BY <3>2, <3>3, <3>4
  <2> QED BY <2>1, <1>1, RootAndUpdate DEF UpdateInv
<1>7. CASE WalkHelp
  <2>1. /\ argv[next].kind = "help" /\ help' = TRUE /\ values' = values
        /\ flagTokens' = Append(flagTokens, next) /\ next' = next + 1
    BY <1>7 DEF WalkHelp, Walking
  <2>2. Elements(flagTokens') = Elements(flagTokens) \cup {next}
    BY <2>1, <1>2, AppendFacts
  <2>3. next' \in Nat /\ next < next'
    BY <2>1, <1>2
  <2>4. argv'[next].kind = "help" => help'
    BY <2>1
  <2>5. next + 1 \notin values' /\ values' \ values = {}
    BY <2>1, <1>4
  <2>6. next' <= Len(argv) => NowSkipped
    BY <2>1, <2>2 DEF NowSkipped
  <2> QED BY <2>1, <2>2, <2>3, <2>5, <2>6, <1>6
<1>8. CASE WalkFlag
  <2> DEFINE f == argv[next].name
  <2>1. FlagTakesValue(f) <=> (f \in FlagsOf[Root] => KindOf[f] # "bool")
    BY <1>1, ShapesOfUpdate DEF FlagTakesValue
  <2>2. argv[next].kind = "flag" /\ UNCHANGED <<argv, help, settings>>
    BY <1>8, FlagSetAside
  <2>3. CASE TakesNext(next)
    <3>1. /\ next' = next + 2 /\ values' = values \cup {next + 1}
          /\ Elements(flagTokens') = Elements(flagTokens) \cup {next, next + 1}
      BY <1>8, <2>3, FlagSetAside
    <3>2. next' \in Nat /\ next < next'
      BY ONLY <3>1, <1>2
    <3>3. values' \ values = {next + 1} /\ next + 1 \in values'
      BY <3>1, <1>4
    <3>4. NowSkipped
      BY <2>1, <2>2, <2>3, <3>1 DEF NowSkipped, TakesNext
    <3> QED BY <2>2, <3>1, <3>2, <3>3, <3>4, <1>6
  <2>4. CASE ~TakesNext(next)
    <3>1. /\ next' = next + 1 /\ values' = values
          /\ Elements(flagTokens') = Elements(flagTokens) \cup {next}
      BY <1>8, <2>4, FlagSetAside
    <3>2. next' \in Nat /\ next < next' /\ (next' <= Len(argv) => next < Len(argv))
      BY ONLY <3>1, <1>2
    <3>3. values' \ values = {} /\ next + 1 \notin values'
      BY <3>1, <1>4
    <3>4. next' <= Len(argv) => NowSkipped
      BY <2>1, <2>2, <2>4, <3>1, <3>2, <3>3 DEF NowSkipped, TakesNext
    <3> QED BY <2>2, <3>1, <3>2, <3>3, <3>4, <1>6
  <2> QED BY <2>3, <2>4
<1> QED BY <1>7, <1>8

LEMMA VerbFound ==
  ASSUME TypeInv, AccountInv, AgreeInv, UpdateInv, WalkDescend
  PROVE  UpdateInv'
<1>1. /\ pc = "walk" /\ next <= Len(argv) /\ argv[next].kind = "word" /\ leaf \in Group
      /\ argv[next].name \in DOMAIN Children[leaf] /\ leaf' = Children[leaf][argv[next].name]
      /\ path' = (IF leaf' \in Group THEN Append(path, leaf') ELSE path)
      /\ verbs' = Append(verbs, next) /\ next' = next + 1
      /\ UNCHANGED <<argv, pc, help, values, flagTokens, settings>>
  BY DEF WalkDescend, Walking, AtGroup
<1>2. leaf' # Root /\ (leaf' = Update => leaf = Root)
  BY <1>1, RootAndUpdate
<1>3. CASE leaf' # Update
  BY <1>1, <1>2, <1>3 DEF UpdateInv, OnTheWay
<1>4. CASE leaf' = Update
  <2>1. leaf = Root /\ verbs = << >> /\ path = <<Root>> /\ path' = path
    BY <1>1, <1>2, <1>4, RootAndUpdate DEF UpdateInv
  <2>2. next \in Nat /\ verbs' = <<next>>
    BY <1>1, <2>1 DEF TypeInv, TypeOK
  <2>3. values \subseteq Passed /\ next \notin Passed
    <3>1. next \notin Passed
      BY ONLY <2>2 DEF Passed
    <3> QED BY <1>1, <3>1 DEF AgreeInv, Guessed
  <2>4. ASSUME NEW i \in Passed', BeforeVerb(i)', i \notin values' PROVE Skipped(i)'
    <3>1. i < next
      BY <2>2, <2>4 DEF BeforeVerb
    <3>2. i \in Passed
      <4>1. i \in 1 .. ((next + 1) - 1)
        BY <1>1 DEF Passed
      <4>2. i \in 1 .. (next - 1)
        BY ONLY <3>1, <4>1, <2>2
      <4> QED BY <4>2 DEF Passed
    <3>3. Skipped(i)
      BY <1>1, <2>1, <2>4, <3>2 DEF UpdateInv, OnTheWay, BeforeVerb
    <3> QED BY <1>1, <3>3 DEF Skipped, Pending
  <2>5. verbs'[1] = next /\ Len(verbs') = 1
    BY <2>2
  <2> QED BY <1>1, <1>4, <2>1, <2>3, <2>4, <2>5, RootAndUpdate DEF UpdateInv
<1> QED BY <1>3, <1>4

LEMMA OneElement ==
  ASSUME NEW S, NEW s \in Seq(S), Len(s) = 1
  PROVE  s = <<s[1]>> /\ s[1] \in S /\ DOMAIN s = {1}
<1>1. 1 \in 1 .. Len(s) /\ s[1] \in S
  OBVIOUS
<1>2. s = <<s[1]>>
  <2>1. <<s[1]>> \in Seq(S) /\ Len(<<s[1]>>) = 1 /\ <<s[1]>>[1] = s[1]
    BY <1>1
  <2>2. \A t, u \in Seq(S) : Len(t) = 1 /\ Len(u) = 1 /\ t[1] = u[1] => t = u
    OBVIOUS
  <2> QED BY <2>1, <2>2
<1>3. DOMAIN s = {1}
  BY <1>2
<1> QED BY <1>1, <1>2, <1>3

LEMMA TailOfOne ==
  ASSUME NEW S, NEW s \in Seq(S), Len(s) = 1
  PROVE  Tail(s) = << >>
<1>1. Tail(s) \in Seq(S) /\ Len(Tail(s)) = 0
  OBVIOUS
<1>2. \A u \in Seq(S) : Len(u) = 0 => u = << >>
  OBVIOUS
<1> QED BY ONLY <1>1, <1>2

\* The parse sets every flag it takes from what the walk set aside.
LEMMA PendingParsed ==
  ASSUME TypeInv, AccountInv, AgreeInv, UpdateInv,
         ParseSwitch \/ ParseValue \/ ParseWord \/ ParseTerminator
  PROVE  UpdateInv'
<1> DEFINE h == Head(flagTokens)
<1>1. /\ pc = "parse" /\ flagTokens # << >>
      /\ UNCHANGED <<argv, pc, next, path, leaf, verbs, help, values>>
  BY DEF ParseSwitch, ParseValue, ParseWord, ParseTerminator, Parsing, walk
<1>2. /\ flagTokens \in Seq(Places) /\ settings \in Seq(Places \X Places) /\ Len(settings) \in Nat
      /\ Places = 1 .. Len(argv) /\ Len(argv) \in Nat /\ h \in Places
      /\ Elements(flagTokens) = {h} \cup Elements(Tail(flagTokens))
  <2>1. flagTokens \in Seq(Places) /\ settings \in Seq(Places \X Places) /\ argv \in Seq(Token)
    BY DEF TypeInv, TypeOK
  <2>2. h \in Places /\ Elements(flagTokens) = {h} \cup Elements(Tail(flagTokens))
    BY ONLY <1>1, <2>1, TailFacts
  <2>3. Len(settings) \in Nat /\ Len(argv) \in Nat /\ Places = 1 .. Len(argv)
    BY <2>1 DEF Places
  <2> QED BY <2>1, <2>2, <2>3
<1>3. next = Len(argv) + 1 /\ ~(next <= Len(argv))
  <2>1. next = Len(argv) + 1
    BY <1>1 DEF AccountInv, Staged
  <2> QED BY ONLY <2>1, <1>2
<1> HIDE DEF h
\* What one flag set adds.
<1>4. ASSUME NEW j \in Places, settings' = Append(settings, <<h, j>>)
      PROVE  /\ \E k \in DOMAIN settings' : settings'[k][1] = h
             /\ \A i : (\E k \in DOMAIN settings : settings[k][1] = i) =>
                  \E k \in DOMAIN settings' : settings'[k][1] = i
             /\ \A k \in DOMAIN settings' :
                  \/ k \in DOMAIN settings /\ settings'[k] = settings[k]
                  \/ settings'[k][1] = h
  <2>1. <<h, j>> \in Places \X Places
    BY <1>2
  <2>2. /\ Len(settings') = Len(settings) + 1 /\ settings'[Len(settings) + 1] = <<h, j>>
        /\ \A k \in 1 .. Len(settings) : settings'[k] = settings[k]
        /\ DOMAIN settings = 1 .. Len(settings) /\ DOMAIN settings' = 1 .. (Len(settings) + 1)
    BY <1>2, <1>4, <2>1
  <2>3. /\ Len(settings) + 1 \in DOMAIN settings'
        /\ \A k \in DOMAIN settings : k \in DOMAIN settings'
        /\ \A k \in DOMAIN settings' : k \in DOMAIN settings \/ k = Len(settings) + 1
    BY ONLY <1>2, <2>2
  <2> QED BY <2>2, <2>3
<1>5. ASSUME \A k \in DOMAIN settings' : argv[settings'[k][1]].name \in Merged,
             leaf = Update =>
               \A i \in Places : argv[i].kind = "flag" /\ i \notin values /\ Pending(i) => Pending(i)'
      PROVE  UpdateInv'
  <2>1. ASSUME NEW i \in Passed', OnTheWay', BeforeVerb(i)', i \notin values' PROVE Skipped(i)'
    <3>1. leaf = Update /\ i \in Passed /\ i \in Places
      <4>1. leaf = Update
        BY <1>1, <1>3, <2>1 DEF OnTheWay
      <4>2. i \in 1 .. (next - 1)
        BY <1>1, <2>1 DEF Passed
      <4>3. i \in Places
        BY ONLY <4>2, <1>2, <1>3
      <4> QED BY <4>1, <4>2, <4>3 DEF Passed
    <3>2. Skipped(i)
      BY <1>1, <2>1, <3>1 DEF UpdateInv, OnTheWay, BeforeVerb
    <3> QED BY <1>1, <1>5, <2>1, <3>1, <3>2 DEF Skipped
  <2>2. \A k \in DOMAIN settings' : argv'[settings'[k][1]].name \in Merged'
    BY <1>1, <1>5 DEF Merged, Shapes
  <2> QED BY <1>1, <2>1, <2>2 DEF UpdateInv
<1>6. \A k \in DOMAIN settings : argv[settings[k][1]].name \in Merged
  BY <1>1 DEF UpdateInv
<1>7. leaf = Update =>
        /\ h \notin values /\ argv[h].kind # "word"
        /\ argv[h].kind = "flag" /\ ~OwnValue(h) /\ Len(flagTokens) # 1 =>
             h + 1 \in values /\ flagTokens[2] = h + 1
        /\ argv[h].kind = "end" => Len(flagTokens) = 1
  <2> SUFFICES ASSUME leaf = Update
               PROVE  /\ h \notin values /\ argv[h].kind # "word"
                      /\ argv[h].kind = "flag" /\ ~OwnValue(h) /\ Len(flagTokens) # 1 =>
                           h + 1 \in values /\ flagTokens[2] = h + 1
                      /\ argv[h].kind = "end" => Len(flagTokens) = 1
    OBVIOUS
  <2>1. NoSwitchIsEarly
    BY UpdateHasNoEarlySwitch
  <2>2. Guessed /\ InOrder
    BY <1>1, <2>1 DEF AgreeInv
  <2> QED BY <1>1, <2>1, <2>2, FrontOfParse DEF h
<1>8. CASE ParseSwitch
  <2>1. /\ argv[h].name \in Merged /\ settings' = Append(settings, <<h, h>>)
        /\ flagTokens' = Tail(flagTokens)
    BY <1>8 DEF ParseSwitch, h
  <2>2. \A i : Pending(i) => Pending(i)'
    BY <2>1, <1>2, <1>4 DEF Pending
  <2>3. \A k \in DOMAIN settings' : argv[settings'[k][1]].name \in Merged
    BY <2>1, <1>2, <1>4, <1>6
  <2> QED BY <2>2, <2>3, <1>5
<1>9. CASE ParseValue
  <2>1. /\ argv[h].name \in Merged /\ ~OwnValue(h) /\ Len(flagTokens) > 1 /\ argv[h].kind = "flag"
        /\ settings' = Append(settings, <<h, flagTokens[2]>>)
        /\ flagTokens' = Tail(Tail(flagTokens))
    BY <1>9 DEF ParseValue, Parsing, h
  <2>2. Len(flagTokens) # 1
    BY <2>1, <1>2
  <2>3. /\ flagTokens[2] \in Places
        /\ Elements(Tail(flagTokens)) = {flagTokens[2]} \cup Elements(flagTokens')
    <3>1. /\ Tail(flagTokens) # << >> /\ flagTokens[2] \in Places
          /\ Head(Tail(flagTokens)) = flagTokens[2] /\ Tail(flagTokens) \in Seq(Places)
      BY ONLY <1>1, <1>2, <2>2, SecondFacts, TailFacts
    <3> QED BY ONLY <3>1, <2>1, TailFacts
  <2>4. leaf = Update =>
          \A i \in Places : argv[i].kind = "flag" /\ i \notin values /\ Pending(i) => Pending(i)'
    BY <2>1, <2>2, <2>3, <1>2, <1>4, <1>7 DEF Pending
  <2>5. \A k \in DOMAIN settings' : argv[settings'[k][1]].name \in Merged
    BY <2>1, <2>3, <1>4, <1>6
  <2> QED BY <2>4, <2>5, <1>5
<1>10. CASE ParseWord
  <2>1. argv[h].kind = "word" /\ settings' = settings
    BY <1>10 DEF ParseWord, Parsing, h
  <2> QED BY <2>1, <1>5, <1>6, <1>7
<1>11. CASE ParseTerminator
  <2>1. /\ argv[h].kind = "end" /\ settings' = settings
        /\ Len(flagTokens) = 1 => flagTokens' = << >>
    BY <1>11 DEF ParseTerminator, Parsing, h
  <2>2. Len(flagTokens) = 1 => Elements(Tail(flagTokens)) = {}
    <3>1. Len(flagTokens) = 1 => Tail(flagTokens) = << >>
      <4>1. flagTokens \in Seq(Places)
        BY <1>2
      <4> QED BY ONLY <4>1, TailOfOne
    <3> QED BY <3>1, EmptyFacts
  <2>3. leaf = Update => \A i \in Places : argv[i].kind = "flag" /\ Pending(i) => Pending(i)'
    BY <2>1, <2>2, <1>2, <1>7 DEF Pending
  <2> QED BY <2>1, <2>3, <1>5, <1>6
<1> QED BY <1>8, <1>9, <1>10, <1>11

LEMMA UpdateStep ==
  TypeInv /\ AccountInv /\ AgreeInv /\ UpdateInv /\ [Next]_vars => UpdateInv'
<1> SUFFICES ASSUME TypeInv, AccountInv, AgreeInv, UpdateInv, [Next]_vars PROVE UpdateInv'
  OBVIOUS
<1>a. /\ next \in Nat /\ Len(argv) \in Nat /\ Places = 1 .. Len(argv)
      /\ args \in Seq(Places) /\ flagTokens \in Seq(Places)
  BY DEF TypeInv, TypeOK, Places
\* The ways out.
<1>1. ASSUME RunHelp \/ WalkUnknown \/ WalkEndsInHelp \/ ParseFails \/ ExecuteGroup \/ ExecuteLeaf \/ Exit
      PROVE  UpdateInv'
  <2>1. pc' \in {"exit", "done"} /\ UNCHANGED <<path, leaf, verbs>>
    BY <1>1 DEF RunHelp, WalkUnknown, WalkEndsInHelp, ParseFails, ExecuteGroup, ExecuteLeaf, Exit,
       ShowHelp, ReportUsageError, Goto, walk
  <2> QED BY <2>1 DEF UpdateInv, OnTheWay
\* The ways from one stage to the next.
<1>2. CASE RunVersion
  <2>1. pc = "start" /\ pc' = "walk" /\ UNCHANGED <<next, path, leaf, verbs>>
    BY <1>2 DEF RunVersion, Goto, walk
  <2>2. next = 1 /\ leaf = Root /\ verbs = << >> /\ path = <<Root>>
    BY <2>1 DEF TypeInv, Fresh
  <2>3. Passed' = {}
    BY <2>1, <2>2 DEF Passed
  <2> QED BY <2>1, <2>2, <2>3, RootAndUpdate DEF UpdateInv
<1>3. ASSUME RunResolve \/ WalkEnds \/ ParseEnds PROVE UpdateInv'
  <2>1. /\ UNCHANGED <<argv, next, path, leaf, verbs, help, values, flagTokens, settings>>
        /\ \/ pc = "start" /\ pc' = "walk"
           \/ pc = "walk" /\ pc' = "parse" /\ ~help
           \/ pc = "parse" /\ pc' = "execute"
    BY <1>3 DEF RunResolve, WalkEnds, ParseEnds, Goto, walk
  <2>2. pc = "start" => leaf # Update
    BY RootAndUpdate DEF TypeInv, Fresh
  <2>3. pc = "walk" => settings = << >>
    BY DEF AgreeInv
  <2>4. pc' \in {"parse", "execute"} =>
          ~help /\ \A k \in DOMAIN settings : argv[settings[k][1]].name \in Merged
    BY <2>1, <2>3 DEF UpdateInv
  <2>5. \A i : Skipped(i)' <=> Skipped(i)
    BY <2>1 DEF Skipped, Pending
  <2>6. (OnTheWay' => OnTheWay) /\ Passed' = Passed /\ \A i : BeforeVerb(i)' <=> BeforeVerb(i)
    BY <2>1 DEF OnTheWay, Passed, BeforeVerb
  <2>7. OnTheWay' => \A i \in Passed' : BeforeVerb(i)' /\ i \notin values' => Skipped(i)'
    BY <2>1, <2>5, <2>6 DEF UpdateInv
  <2>8. Merged' = Merged
    BY <2>1 DEF Merged, Shapes
  <2> QED BY <2>1, <2>2, <2>4, <2>7, <2>8 DEF UpdateInv
\* The walk.
<1>4. ASSUME WalkTerminator \/ WalkHelp \/ WalkFlag \/ WalkPositional PROVE UpdateInv'
  <2>1. /\ pc = "walk" /\ next <= Len(argv) /\ UNCHANGED <<argv, pc, path, leaf, verbs, settings>>
        /\ leaf \in Group => ~WalkPositional
    BY <1>4 DEF WalkTerminator, WalkHelp, WalkFlag, WalkPositional, Walking, AtGroup
  <2>2. /\ help => help'
        /\ next' \in Nat /\ next < next' /\ Elements(flagTokens) \subseteq Elements(flagTokens')
        /\ values \subseteq values' /\ values' \subseteq values \cup {next + 1}
        /\ WalkTerminator => ~(next' <= Len(argv))
    <3>1. next \in Places
      BY <2>1, <1>a DEF TypeInv, TypeOK
    <3>2. CASE WalkTerminator
      <4>1. flagTokens' = Append(flagTokens, next) /\ next' = Len(argv) + 1 /\ UNCHANGED <<help, values>>
        BY <3>2 DEF WalkTerminator
      <4>2. Elements(Append(flagTokens, next)) = Elements(flagTokens) \cup {next}
        BY ONLY <3>1, <1>a, AppendFacts
      <4>3. next' \in Nat /\ next < next' /\ ~(next' <= Len(argv))
        BY ONLY <2>1, <4>1, <1>a
      <4> QED BY <4>1, <4>2, <4>3
    <3>3. CASE WalkHelp
      <4>1. flagTokens' = Append(flagTokens, next) /\ next' = next + 1 /\ help' = TRUE /\ values' = values
            /\ ~WalkTerminator
        BY <3>3 DEF WalkHelp, WalkTerminator, Walking
      <4>2. Elements(Append(flagTokens, next)) = Elements(flagTokens) \cup {next}
        BY ONLY <3>1, <1>a, AppendFacts
      <4>3. next' \in Nat /\ next < next'
        BY ONLY <4>1, <1>a
      <4> QED BY <4>1, <4>2, <4>3
    <3>4. CASE WalkFlag
      <4>1. help' = help /\ ~WalkTerminator
        BY <3>4 DEF WalkFlag, WalkTerminator, Walking
      <4>2. /\ next' = next + 2 \/ next' = next + 1
            /\ values \subseteq values' /\ values' \subseteq values \cup {next + 1}
            /\ Elements(flagTokens) \subseteq Elements(flagTokens')
        BY <3>4, FlagSetAside
      <4>3. next' \in Nat /\ next < next'
        BY ONLY <4>2, <1>a
      <4> QED BY <4>1, <4>2, <4>3
    <3>5. CASE WalkPositional
      <4>1. next' = next + 1 /\ UNCHANGED <<help, values, flagTokens>> /\ ~WalkTerminator
        BY <3>5 DEF WalkPositional, WalkTerminator, Walking
      <4>2. next' \in Nat /\ next < next'
        BY ONLY <4>1, <1>a
      <4> QED BY <4>1, <4>2
    <3> QED BY <1>4, <3>2, <3>3, <3>4, <3>5
  <2>3. CASE leaf = Update
    BY <2>1, <2>2, <2>3, BehindTheVerb
  <2>4. CASE leaf = Root /\ (WalkHelp \/ WalkFlag)
    BY <2>1, <2>4, BeforeTheVerb
  <2>5. CASE leaf = Root /\ WalkTerminator
    BY <2>1, <2>2, <2>5, RootAndUpdate DEF UpdateInv, OnTheWay
  <2>6. CASE leaf # Root /\ leaf # Update
    BY <2>1, <2>6 DEF UpdateInv, OnTheWay
  <2> QED BY <1>4, <2>1, <2>3, <2>4, <2>5, <2>6, RootAndUpdate
<1>5. CASE UNCHANGED vars
  <2>1. UNCHANGED <<argv, next, path, leaf, verbs, help, values, flagTokens, settings, pc>>
    BY <1>5 DEF vars, walk
  <2> QED BY <2>1 DEF UpdateInv, OnTheWay, Passed, BeforeVerb, Skipped, Pending, Merged, Shapes
<1> QED BY <1>1, <1>2, <1>3, <1>4, <1>5, VerbFound, PendingParsed DEF Next

(* If no value begins with a dash, firstVerb passes exactly what the walk   *)
(* passed before the verb.                                                  *)
LEMMA FirstVerbIsTheVerb ==
  ASSUME TypeInv, AccountInv, AgreeInv, UpdateInv, pc = "execute", leaf = Update,
         \A k \in DOMAIN settings : settings[k][2] # settings[k][1] => ~StartsWithDash(argv[settings[k][2]])
  PROVE  verbs = <<FirstVerb>>
<1> DEFINE v == verbs[1]
<1>1. /\ path = <<Root>> /\ Len(verbs) = 1 /\ argv[v].kind = "word" /\ v \notin values /\ ~help
      /\ \A k \in DOMAIN settings : argv[settings[k][1]].name \in FlagsOf[Root]
  <2>1. Merged = FlagsOf[Root]
    BY ShapesOfUpdate DEF UpdateInv, Merged
  <2> QED BY <2>1 DEF UpdateInv
<1>2. Len(argv) \in Nat /\ verbs \in Seq(Places) /\ Places = 1 .. Len(argv)
  BY DEF TypeInv, TypeOK, Places
<1>3. v \in 1 .. Len(argv) /\ verbs = <<v>> /\ DOMAIN verbs = {1}
  <2>1. Len(verbs) = 1 /\ verbs \in Seq(Places)
    BY <1>1, <1>2
  <2>2. verbs[1] \in Places /\ verbs = <<verbs[1]>> /\ DOMAIN verbs = {1}
    BY ONLY <2>1, OneElement
  <2> QED BY <2>2, <1>2
<1>4. flagTokens = << >> /\ Passed = 1 .. Len(argv)
  BY <1>2 DEF AccountInv, Staged, Passed
<1>5. Guessed /\ Agreed
  BY UpdateHasNoEarlySwitch DEF AgreeInv, InOrder
<1> HIDE DEF v
<1>6. PICK g : /\ FirstVerb = g[1]
               /\ \A i \in 1 .. Len(argv) + 1 : g[i] = IF i \in Stops THEN i ELSE g[After(i)]
  BY FirstVerbFacts
<1>7. \A i \in 1 .. Len(argv) : i \in 1 .. Len(argv) + 1 /\ (i \in Stops <=> argv[i].kind = "word")
  BY <1>2 DEF Stops, IsFlagToken
\* One step of firstVerb, if it is where the walk read a token.
<1>8. ASSUME NEW i \in 1 .. Len(argv), i < v, i \notin values
      PROVE  /\ g[i] = g[After(i)] /\ After(i) \in Nat /\ After(i) <= v /\ i < After(i)
             /\ After(i) \notin values
  <2>1. Skipped(i)
    <3>1. OnTheWay /\ BeforeVerb(i)
      BY <1>3, <1>8 DEF OnTheWay, BeforeVerb, v
    <3> QED BY <3>1, <1>4, <1>8 DEF UpdateInv
  <2>2. argv[i].kind = "flag"
    BY <2>1, <1>1 DEF Skipped
  <2>3. PICK k \in DOMAIN settings : settings[k][1] = i
    BY <2>1, <2>2, <1>4, EmptyFacts DEF Skipped, Pending
  <2>4. argv[i].name \in FlagsOf[Root]
    BY <2>3, <1>1
  <2>5. argv[i].name \in ValueGlobal <=> KindOf[argv[i].name] # "bool"
    BY <2>4, UpdateAssumption
  <2>6. i + 1 \in values <=> ~argv[i].eq /\ argv[i].name \in ValueGlobal
    BY <2>1, <2>2, <2>4, <2>5 DEF Skipped
  <2>7. g[i] = g[After(i)]
    BY <2>2, <1>6, <1>7
  <2>8. i \in Nat /\ i < Len(argv) /\ v \in Nat
    BY <1>2, <1>3, <1>8
  <2>9. CASE i + 1 \in values
    <3>1. settings[k][2] = i + 1 /\ i + 1 # i
      BY <2>3, <2>8, <2>9, <1>5 DEF Agreed
    <3>2. ~StartsWithDash(argv[i + 1])
      BY <2>3, <3>1
    <3>3. After(i) = i + 2
      BY <2>2, <2>6, <2>8, <2>9, <3>2 DEF After, SkipsNext
    <3>4. i + 1 # v
      BY <2>9, <1>1 DEF v
    <3>5. (i + 2) - 1 = i + 1
      BY ONLY <2>8
    <3>6. i + 2 \notin values
      BY <2>9, <3>5, <1>5 DEF Guessed
    <3>7. i + 2 \in Nat /\ i + 2 <= v /\ i < i + 2
      BY ONLY <2>8, <3>4, i < v
    <3> QED BY <2>7, <3>3, <3>6, <3>7
  <2>10. CASE i + 1 \notin values
    <3>1. After(i) = i + 1
      BY <2>6, <2>10 DEF After, SkipsNext
    <3>2. i + 1 \in Nat /\ i + 1 <= v /\ i < i + 1
      BY ONLY <2>8, i < v
    <3> QED BY <2>7, <2>10, <3>1, <3>2
  <2> QED BY <2>9, <2>10
<1>9. g[v] = v /\ v \in Nat /\ 1 <= v
  <2>1. argv[v].kind = "word"
    BY <1>1 DEF v
  <2> QED BY <2>1, <1>2, <1>3, <1>6, <1>7
\* By induction on the distance from the verb.
<1>10. \A i \in 1 .. v : i \notin values => g[i] = v
  <2> DEFINE T == {m \in Nat : m < v /\ v - m \notin values /\ g[v - m] # v}
  <2>1. T = {}
    <3> SUFFICES ASSUME T # {} PROVE FALSE
      OBVIOUS
    <3>1. PICK m \in T : \A y \in T : m <= y
      BY LeastOne
    <3>2. m \in Nat /\ m < v /\ v - m \notin values /\ g[v - m] # v
      OBVIOUS
    <3>3. v - 0 = v /\ m # 0
      BY <3>2, <1>9
    <3>4. v - m \in 1 .. Len(argv) /\ v - m < v
      BY ONLY <3>2, <3>3, <1>2, <1>3, <1>9
    <3> DEFINE a == After(v - m)
    <3>5. g[v - m] = g[a] /\ a \in Nat /\ a <= v /\ v - m < a /\ a \notin values
      BY <3>2, <3>4, <1>8
    <3> HIDE DEF a, T
    <3>6. v - a \in Nat /\ v - (v - a) = a /\ v - a < v /\ ~(m <= v - a)
      BY ONLY <3>2, <3>5, <1>9
    <3>7. v - a \in T
      BY <3>2, <3>5, <3>6 DEF T
    <3> QED BY <3>1, <3>6, <3>7
  <2>2. ASSUME NEW i \in 1 .. v, i \notin values, g[i] # v PROVE FALSE
    <3>1. v - i \in Nat /\ v - i < v /\ v - (v - i) = i
      BY ONLY <1>9, i \in 1 .. v
    <3>2. v - i \in T
      BY <2>2, <3>1
    <3> QED BY <2>1, <3>2
  <2> QED BY <2>2
<1>11. 1 \notin values
  <2>1. 1 - 1 \notin Passed
    BY <1>2, <1>4
  <2> QED BY <2>1, <1>5 DEF Guessed
<1>12. FirstVerb = v
  BY <1>6, <1>9, <1>10, <1>11
<1> QED BY <1>3, <1>12

(* For every argv, and every verb tree with update at its root: after       *)
(* `ana update` drainNudge finds the name of the verb, unless the value of  *)
(* some flag begins with a dash.                                            *)
THEOREM UpdateIsAlwaysRecognized == Spec => []UpdateIsRecognized
<1>1. TypeInv /\ AccountInv /\ AgreeInv /\ UpdateInv => UpdateIsRecognized
  BY FirstVerbIsTheVerb DEF UpdateIsRecognized
<1> QED
  BY <1>1, TypeInit, TypeStep, ReportInit, ReportStep, AccountInit, AccountStep, AgreeInit, AgreeStep,
     UpdateInit, UpdateStep, PTL DEF Spec

=============================================================================
