------------------------------ MODULE Resolver ------------------------------
(***************************************************************************)
(* One invocation of ana, from argv to the exit code.  argv is read three  *)
(* times: by the walk of Resolve, which looks for the verb and has to tell *)
(* the values of flags from words before it knows which flags there are;   *)
(* by the parse of what the walk set aside, with the flags of the leaf;    *)
(* and by firstVerb, which knows neither.                                  *)
(*                                                                         *)
(* A token is a word, a flag (with "=value" or without), a help flag or    *)
(* the terminator "--".  Tokens are referred to by their places in argv,   *)
(* so that none is mistaken for an equal one.                              *)
(***************************************************************************)
EXTENDS CliErrors

CONSTANTS
  Group, Leaf, Root,   \* the verb tree,
  Children,            \* for each group its children by name,
  FlagsOf,             \* for each node the flags it declares
  Update,              \* the leaf `ana update`
  Word, Flag, KindOf,  \* what may be written in argv, and the kinds of flags
  Dash, HelpWord, VersionWord, VersionFlag,  \* "-", help, version, --version
  ValueGlobal,         \* the flags isKnownValueGlobal knows
  MaxArgs              \* bound on the length of argv

\* A "checked" value may be refused, a "text" may not.
Kind == {"bool", "text", "checked"}

Token ==
  [kind : {"word"}, name : Word, eq : {FALSE}]
    \cup [kind : {"flag"}, name : Flag, eq : BOOLEAN]
    \cup [kind : {"help"}, name : {Dash}, eq : BOOLEAN]
    \cup [kind : {"end"}, name : {Dash}, eq : {FALSE}]

ASSUME TreeAssumption ==
  /\ Root \in Group /\ Group \cap Leaf = {} /\ Update \in Leaf
  /\ \A g \in Group : \A w \in DOMAIN Children[g] : Children[g][w] \in Group \cup Leaf

\* `ana update` is registered once, at the root, and has no flags of its own;
\* isKnownValueGlobal knows those of the root's flags that take a value.
ASSUME UpdateAssumption ==
  /\ \A g \in Group : \A w \in DOMAIN Children[g] :
       Children[g][w] # Root /\ (Children[g][w] = Update => g = Root)
  /\ FlagsOf[Update] \subseteq FlagsOf[Root]
  /\ \A f \in FlagsOf[Root] : f \in ValueGlobal <=> KindOf[f] # "bool"

ASSUME ArgvAssumption ==
  /\ {Dash, HelpWord, VersionWord} \subseteq Word
  /\ KindOf \in [Flag -> Kind] /\ MaxArgs \in Nat

VARIABLES
  argv,
  pc,          \* "start", "walk", "parse", "execute", "exit" or "done"
  next,        \* i of Resolve
  path, leaf,  \* the groups descended through; the last of them, or a leaf
  verbs,       \* history: where their names are
  help,        \* helpRequested
  values,      \* history: what the walk took for the values of flags
  flagTokens,  \* what is left to parse
  args,        \* the arguments of the leaf
  settings,    \* history: the flags set, each with its value, itself or the next
  err,         \* what run returns, see CliErrors
  printed,     \* how many error messages are on stderr
  code         \* the exit code

walk   == <<next, path, leaf, verbs, help, values>>
report == <<err, printed, code>>
vars   == <<argv, pc, walk, flagTokens, args, settings, report>>

Init ==
  /\ argv \in UNION {[1 .. n -> Token] : n \in 0 .. MaxArgs}
  /\ pc = "start" /\ next = 1
  /\ path = <<Root>> /\ leaf = Root /\ verbs = << >>
  /\ help = FALSE /\ values = {}
  /\ flagTokens = << >> /\ args = << >> /\ settings = << >>
  /\ err = Nil /\ printed = 0 /\ code = 0

Goto(from, to) == pc = from /\ pc' = to

\* Ends run with an error that was reported here, or with help.
ReportUsageError(from) ==
  /\ Goto(from, "exit")
  /\ err' = <<"usage", "reported">>
  /\ printed' = printed + 1
  /\ UNCHANGED <<argv, path, leaf, verbs, help, values, code>>

ShowHelp(from) ==
  /\ Goto(from, "exit")
  /\ err' = <<"help">>
  /\ UNCHANGED <<argv, walk, flagTokens, args, settings, printed, code>>

-----------------------------------------------------------------------------
(* run, before Resolve.                                                    *)

\* IsHelpArg knows -h and --help, the walk also -help and --help=x.
IsHelpArg(t) == (t.kind = "help" /\ ~t.eq) \/ (t.kind = "word" /\ t.name = HelpWord)

HelpFirst == argv # << >> => IsHelpArg(argv[1])

VersionAsked == \E i \in DOMAIN argv :
  argv[i].kind = "flag" /\ argv[i].name = VersionFlag /\ ~argv[i].eq

RunVersion ==
  /\ Goto("start", "walk")
  /\ VersionAsked
  /\ argv' = <<[kind |-> "word", name |-> VersionWord, eq |-> FALSE]>>
  /\ UNCHANGED <<walk, flagTokens, args, settings, report>>

RunHelp ==
  /\ ~VersionAsked
  /\ HelpFirst
  /\ ShowHelp("start")

RunResolve ==
  /\ Goto("start", "walk")
  /\ ~VersionAsked
  /\ ~HelpFirst
  /\ UNCHANGED <<argv, walk, flagTokens, args, settings, report>>

-----------------------------------------------------------------------------
(* The walk of Resolve.                                                    *)

AtGroup == leaf \in Group

\* The names on the shapes flag set.
Shapes == FlagsOf[leaf] \cup UNION {FlagsOf[path[i]] : i \in DOMAIN path}

\* Defect: the flags of the leaf are not added to the shapes.
FlagTakesValueKnowingGroups(f) ==
  f \in UNION {FlagsOf[path[i]] : i \in DOMAIN path} => KindOf[f] # "bool"

\* A flag not known yet is taken for one with a value.
FlagTakesValue(f) == f \in Shapes => KindOf[f] # "bool"

Walking(kind) == pc = "walk" /\ next <= Len(argv) /\ argv[next].kind = kind

\* Defect: what follows the terminator loses its first token.
WalkPastTerminator ==
  /\ Walking("end")
  /\ flagTokens' = Append(flagTokens, next)
  /\ args' = args \o [k \in 1 .. Len(argv) - next - 1 |-> next + k + 1]
  /\ next' = Len(argv) + 1
  /\ UNCHANGED <<argv, pc, path, leaf, verbs, help, values, settings, report>>

WalkTerminator ==
  /\ Walking("end")
  /\ flagTokens' = Append(flagTokens, next)
  /\ args' = args \o [k \in 1 .. Len(argv) - next |-> next + k]
  /\ next' = Len(argv) + 1
  /\ UNCHANGED <<argv, pc, path, leaf, verbs, help, values, settings, report>>

WalkHelp ==
  /\ Walking("help")
  /\ help' = TRUE
  /\ flagTokens' = Append(flagTokens, next)
  /\ next' = next + 1
  /\ UNCHANGED <<argv, pc, path, leaf, verbs, values, args, settings, report>>

TakesNext(i) == ~argv[i].eq /\ FlagTakesValue(argv[i].name) /\ i < Len(argv)

WalkFlag ==
  /\ Walking("flag")
  /\ LET n == IF TakesNext(next) THEN 2 ELSE 1
     IN  /\ flagTokens' = flagTokens \o [k \in 1 .. n |-> next + k - 1]
         /\ next' = next + n
         /\ values' = IF n = 2 THEN values \cup {next + 1} ELSE values
  /\ UNCHANGED <<argv, pc, path, leaf, verbs, help, args, settings, report>>

WalkDescend ==
  /\ Walking("word") /\ AtGroup
  /\ argv[next].name \in DOMAIN Children[leaf]
  /\ leaf' = Children[leaf][argv[next].name]
  /\ path' = IF leaf' \in Group THEN Append(path, leaf') ELSE path
  /\ verbs' = Append(verbs, next)
  /\ next' = next + 1
  /\ UNCHANGED <<argv, pc, help, values, flagTokens, args, settings, report>>

WalkUnknown ==
  /\ Walking("word") /\ AtGroup
  /\ argv[next].name \notin DOMAIN Children[leaf]
  /\ ReportUsageError("walk")
  /\ UNCHANGED <<next, flagTokens, args, settings>>

WalkPositional ==
  /\ Walking("word") /\ ~AtGroup
  /\ args' = Append(args, next)
  /\ next' = next + 1
  /\ UNCHANGED <<argv, pc, path, leaf, verbs, help, values, flagTokens, settings, report>>

WalkEnds ==
  /\ next > Len(argv) /\ ~help
  /\ Goto("walk", "parse")
  /\ UNCHANGED <<argv, walk, flagTokens, args, settings, report>>

WalkEndsInHelp ==
  /\ next > Len(argv) /\ help
  /\ ShowHelp("walk")

-----------------------------------------------------------------------------
(* ParseFlags, on the merged flag set; the standard library's Parse stops  *)
(* at a word, which ParseFlags sets aside, and at "--".                    *)

Merged == Shapes

Parsing(kind) == pc = "parse" /\ flagTokens # << >> /\ argv[Head(flagTokens)].kind = kind

\* The token that Parse takes for the value of the flag at i, or i itself.
OwnValue(i) == KindOf[argv[i].name] = "bool" \/ argv[i].eq

ParseSwitch ==
  /\ Parsing("flag")
  /\ LET i == Head(flagTokens)
     IN  /\ argv[i].name \in Merged /\ OwnValue(i)
         /\ settings' = Append(settings, <<i, i>>)
  /\ flagTokens' = Tail(flagTokens)
  /\ UNCHANGED <<argv, pc, walk, args, report>>

ParseValue ==
  /\ Parsing("flag")
  /\ LET i == Head(flagTokens)
     IN  /\ argv[i].name \in Merged /\ ~OwnValue(i)
         /\ Len(flagTokens) > 1
         /\ settings' = Append(settings, <<i, flagTokens[2]>>)
  /\ flagTokens' = Tail(Tail(flagTokens))
  /\ UNCHANGED <<argv, pc, walk, args, report>>

\* -h is not on the set; a value may be missing, or refused.
Refused(i) ==
  \/ argv[i].kind = "help"
  \/ /\ argv[i].kind = "flag"
     /\ \/ argv[i].name \notin Merged
        \/ ~OwnValue(i) /\ Len(flagTokens) = 1
        \/ ~OwnValue(i) /\ KindOf[argv[i].name] = "checked"
        \/ argv[i].eq /\ KindOf[argv[i].name] # "text"

ParseFails ==
  /\ flagTokens # << >> /\ Refused(Head(flagTokens))
  /\ ReportUsageError("parse")
  /\ UNCHANGED <<next, flagTokens, args, settings>>

ParseWord ==
  /\ Parsing("word")
  /\ args' = Append(args, Head(flagTokens))
  /\ flagTokens' = Tail(flagTokens)
  /\ UNCHANGED <<argv, pc, walk, settings, report>>

\* The word after "--" is set aside, and Parse called again behind it.
ParseTerminator ==
  /\ Parsing("end")
  /\ IF Len(flagTokens) = 1
     THEN flagTokens' = << >> /\ UNCHANGED args
     ELSE /\ args' = Append(args, flagTokens[2])
          /\ flagTokens' = Tail(Tail(flagTokens))
  /\ UNCHANGED <<argv, pc, walk, settings, report>>

ParseEnds ==
  /\ flagTokens = << >>
  /\ Goto("parse", "execute")
  /\ UNCHANGED <<argv, walk, flagTokens, args, settings, report>>

-----------------------------------------------------------------------------
(* Resolved.Execute and main.                                              *)

\* What Run of a leaf returns, after it printed the reported ones itself.
LeafError == {Nil, <<"help">>, <<"usage">>, <<"usage", "reported">>,
              <<"plain">>, <<"plain", "reported">>, <<"rpc">>, <<"auth">>}

ShouldAttachUsageHelp(e) == ~Is(e, "help") /\ ~Is(e, "reported") /\ Is(e, "usage")

ExecuteGroup ==
  /\ AtGroup
  /\ ShowHelp("execute")

ExecuteLeaf ==
  /\ ~AtGroup
  /\ Goto("execute", "exit")
  /\ \E e \in LeafError :
       LET byLeaf == IF Is(e, "reported") THEN 1 ELSE 0
       IN  IF ShouldAttachUsageHelp(e)
           THEN err' = Join(e, <<"reported">>) /\ printed' = byLeaf + 1
           ELSE err' = e /\ printed' = byLeaf
  /\ UNCHANGED <<argv, walk, flagTokens, args, settings, code>>

\* Defect: errors that were reported are printed once more.
PrintedByMainUnlessHelp(e) == e # Nil /\ ~Is(e, "help")

PrintedByMain(e) == e # Nil /\ ~Is(e, "help") /\ ~Is(e, "reported")

Exit ==
  /\ Goto("exit", "done")
  /\ printed' = IF PrintedByMain(err) THEN printed + 1 ELSE printed
  /\ code' = ExitCode(err)
  /\ UNCHANGED <<argv, walk, flagTokens, args, settings, err>>

Next ==
  \/ RunVersion \/ RunHelp \/ RunResolve
  \/ WalkTerminator \/ WalkHelp \/ WalkFlag \/ WalkDescend \/ WalkUnknown
  \/ WalkPositional \/ WalkEnds \/ WalkEndsInHelp
  \/ ParseSwitch \/ ParseValue \/ ParseFails \/ ParseWord \/ ParseTerminator
  \/ ParseEnds
  \/ ExecuteGroup \/ ExecuteLeaf \/ Exit

Spec == Init /\ [][Next]_vars

-----------------------------------------------------------------------------
(* firstVerb.                                                              *)

IsFlagToken(t) == t.kind # "word"   \* starts with "-" and is longer
StartsWithDash(t) == t.kind # "word" \/ t.name = Dash

\* Defect: a flag with a value is not told from a switch.
SkipsNone(i) == FALSE

SkipsNext(i) ==
  /\ i < Len(argv) /\ ~StartsWithDash(argv[i + 1])
  /\ argv[i].kind = "flag" /\ ~argv[i].eq /\ argv[i].name \in ValueGlobal

\* The place of the first verb, or one past the end.
FirstVerb ==
  LET from[i \in 1 .. Len(argv) + 1] ==
        IF i > Len(argv) \/ ~IsFlagToken(argv[i]) THEN i
        ELSE from[IF SkipsNext(i) THEN i + 2 ELSE i + 1]
  IN  from[1]

-----------------------------------------------------------------------------
(* Properties.                                                             *)

Places == DOMAIN argv

TypeOK ==
  /\ argv \in Seq(Token)
  /\ pc \in {"start", "walk", "parse", "execute", "exit", "done"}
  /\ next \in 1 .. Len(argv) + 1
  /\ path \in Seq(Group) /\ path # << >> /\ leaf \in Group \cup Leaf
  /\ AtGroup => leaf = path[Len(path)] /\ Len(verbs) = Len(path) - 1
  /\ ~AtGroup => Len(verbs) = Len(path)
  /\ help \in BOOLEAN /\ values \subseteq Places
  /\ {flagTokens, args, verbs} \subseteq Seq(Places)
  /\ settings \in Seq(Places \X Places)
  /\ err \in Seq(Mark) /\ printed \in 0 .. 2 /\ code \in 0 .. 3

Elements(s) == {s[k] : k \in DOMAIN s}
Distinct(s) == \A j, k \in DOMAIN s : s[j] = s[k] => j = k

\* What the flags took, themselves included.
TakenByFlags == UNION {Elements(settings[k]) : k \in DOMAIN settings}

(* However the three readers disagree, when a leaf runs every token of     *)
(* argv has been used, and used once: as a verb, an argument, a flag or    *)
(* the value of one flag.  Only the terminator may vanish.                 *)
EveryTokenUsedOnce ==
  pc = "execute" =>
    /\ Distinct(verbs) /\ Distinct(args)
    /\ \A j, k \in DOMAIN settings :
         Elements(settings[j]) \cap Elements(settings[k]) # {} => j = k
    /\ Elements(verbs) \cap Elements(args) = {}
    /\ TakenByFlags \cap (Elements(verbs) \cup Elements(args)) = {}
    /\ \A i \in Places : i \in Elements(verbs) \cup Elements(args) \cup TakenByFlags
                         \/ argv[i].kind = "end"

\* The k-th node below the root, whose name is at verbs[k].
Node(k) == IF k < Len(path) THEN path[k + 1] ELSE leaf

\* A switch written before the verb, or the group, that declares it.
EarlySwitch(i) ==
  /\ argv[i].kind = "flag" /\ ~argv[i].eq /\ KindOf[argv[i].name] = "bool"
  /\ argv[i].name \in Merged
  /\ \A k \in 0 .. Len(verbs) : argv[i].name \in FlagsOf[Node(k)] => k > 0 /\ verbs[k] > i

(* Unless a switch is written before the verb that declares it, the parse  *)
(* takes for values what the walk did, wherever the flags stand among the  *)
(* words, and the leaf gets its arguments in order.                        *)
WalkAndParseAgree ==
  pc = "execute" /\ (\A i \in Places : ~EarlySwitch(i)) =>
    /\ \A j, k \in DOMAIN args : j < k => args[j] < args[k]
    /\ \A k \in DOMAIN settings : LET i == settings[k][1]
                                   j == settings[k][2]
                               IN  IF i + 1 \in values THEN j = i + 1 ELSE j = i

(* main.go:260 suppresses the announcement of a release after a successful *)
(* update, which it recognizes by firstVerb: it does, unless the value of  *)
(* some flag begins with a dash.                                           *)
UpdateIsRecognized ==
  pc = "execute" /\ leaf = Update =>
    \/ verbs = <<FirstVerb>>
    \/ \E k \in DOMAIN settings : /\ settings[k][2] # settings[k][1]
                                  /\ StartsWithDash(argv[settings[k][2]])

(* Whatever fails, and wherever it is reported, the user reads one error   *)
(* message if the exit code is not zero, and none if it is.                *)
OneMessagePerFailure ==
  pc = "done" => printed = (IF code = 0 THEN 0 ELSE 1)
=============================================================================
