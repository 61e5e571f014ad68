-------------------------- MODULE InvocationProofs --------------------------
(***************************************************************************)
(* Proofs about Invocation, for any number of processes, whatever verbs,   *)
(* targets and tokens their users may call with, any number of faults and  *)
(* of logins.                                                              *)
(***************************************************************************)
EXTENDS Invocation, FiniteSetTheorems, TLAPS

-----------------------------------------------------------------------------
(* What all verbs have in common.                                          *)

OfKeys   == {"create key", "rotate key"}
Mutating == Request \ {"read", "any"}

\* Two calls are two reads.  Only reads may give up over an answer that
\* lacks something, and an answer with the secret of a key is not looked at.
Regular(r) ==
  /\ DOMAIN r.calls \in {{1}, {1, 2}}
  /\ \A s \in DOMAIN r.calls : r.calls[s] \in Call
  /\ 2 \in DOMAIN r.calls => r.calls[1].does = "read" /\ r.calls[2].does = "read"
  /\ \A s \in DOMAIN r.calls : r.calls[s].sparse \in {"fail", "usage"} => r.calls[s].does = "read"
  /\ r.calls[1].does \in OfKeys => r.view = "none"

LEMMA OneCall ==
  ASSUME NEW c \in Call, NEW r, r.calls = <<c>>,
         c.sparse \in {"fail", "usage"} => c.does = "read",
         c.does \in OfKeys => r.view = "none"
  PROVE  Regular(r) /\ r.calls \in Seq(Call)
<1>1. /\ DOMAIN r.calls = {1} /\ r.calls[1] = c
      /\ r.calls \in Seq(Call)
  OBVIOUS
<1> QED
  BY <1>1 DEF Regular

LEMMA TwoReads ==
  ASSUME NEW c \in Call, NEW d \in Call, NEW r, r.calls = <<c, d>>,
         c.does = "read", d.does = "read"
  PROVE  Regular(r) /\ r.calls \in Seq(Call)
<1>1. /\ DOMAIN r.calls = {1, 2} /\ r.calls[1] = c /\ r.calls[2] = d
      /\ r.calls \in Seq(Call)
  OBVIOUS
<1> QED
  BY <1>1 DEF Regular, OfKeys

LEMMA AsksACall ==
  ASSUME NEW does \in Request, NEW into \in Into,
         NEW sparse \in OnLack
  PROVE  /\ Asks(does, into, sparse) \in Call
         /\ Asks(does, into, sparse).does = does /\ Asks(does, into, sparse).sparse = sparse
BY DEF Asks, Call, OnLack

LEMMA Shapes ==
  ASSUME NEW does \in Request, NEW into \in Into,
         NEW sparse \in OnLack,
         sparse \in {"fail", "usage"} => does = "read"
  PROVE  /\ does \notin OfKeys =>
              /\ Renders(does, sparse) \in Program
              /\ Regular(Renders(does, sparse))
              /\ Regular([Renders(does, sparse) EXCEPT !.view = "none"])
         /\ Prints(does, into, sparse) \in Program
         /\ Regular(Prints(does, into, sparse))
<1>1. /\ Renders(does, sparse).calls = <<Asks(does, "raw", sparse)>>
      /\ [Renders(does, sparse) EXCEPT !.view = "none"].calls = <<Asks(does, "raw", sparse)>>
      /\ Prints(does, into, sparse).calls = <<Asks(does, into, sparse)>>
      /\ Prints(does, into, sparse).view = "none"
  BY DEF Renders, Prints
<1>2. "raw" \in Into
  BY DEF Into
<1>3. does \notin OfKeys =>
        /\ Regular(Renders(does, sparse)) /\ Renders(does, sparse).calls \in Seq(Call)
        /\ Regular([Renders(does, sparse) EXCEPT !.view = "none"])
  <2>1. /\ Asks(does, "raw", sparse) \in Call
        /\ Asks(does, "raw", sparse).does = does /\ Asks(does, "raw", sparse).sparse = sparse
    BY <1>2, AsksACall
  <2>2. ASSUME does \notin OfKeys, NEW r, r.calls = <<Asks(does, "raw", sparse)>>
        PROVE  Regular(r) /\ r.calls \in Seq(Call)
    BY <2>1, <2>2, OneCall
  <2> QED
    BY <1>1, <2>2
<1>4. Regular(Prints(does, into, sparse)) /\ Prints(does, into, sparse).calls \in Seq(Call)
  BY <1>1, <1>2, OneCall, AsksACall
<1>5. /\ Renders(does, sparse).calls \in Seq(Call) => Renders(does, sparse) \in Program
      /\ Prints(does, into, sparse).calls \in Seq(Call) => Prints(does, into, sparse) \in Program
  BY DEF Renders, Prints, Program
<1> QED
  BY <1>3, <1>4, <1>5

(* What is proved of programs holds of every verb.                         *)
LEMMA VerbsAreRegular == \A v \in Verbs : v.runs \in Program /\ Regular(v.runs)
<1> DEFINE Fine(r) == r \in Program /\ Regular(r)
           Plain == {Renders("read", "print"), Renders("read", "dump"),
                     Renders("write", "print"), Renders("write", "dump"),
                     [Renders("write", "print") EXCEPT !.view = "none"]}
           Bare  == {Prints("create key", "typed", "blank"), Prints("rotate key", "typed", "blank"),
                     Prints("revoke key", "nothing", "print"), Prints("create account", "typed", "print"),
                     Prints("delete account", "nothing", "print")}
<1>1. /\ {"read", "write", "any", "create account", "create key", "rotate key", "revoke key",
          "delete account"} = Request
      /\ {"read", "write", "any"} \cap OfKeys = {}
      /\ {"raw", "typed", "nothing"} = Into
      /\ {"print", "blank", "dump", "note", "usage", "fail"} = OnLack
  BY DEF Request, OfKeys, Into, OnLack
<1>2. \A r \in Plain : Fine(r)
  <2>1. \A does \in {"read", "write"}, sparse \in {"print", "dump"} :
          Fine(Renders(does, sparse)) /\ Regular([Renders(does, sparse) EXCEPT !.view = "none"])
    BY <1>1, Shapes
  <2>2. [Renders("write", "print") EXCEPT !.view = "none"] \in Program
    BY <2>1 DEF Program
  <2> QED
    BY <2>1, <2>2
<1>3. \A r \in Bare : Fine(r)
  BY <1>1, Shapes
<1>4. \A v \in {KeysCreate, KeysRotate, KeysRevoke, ServiceAccountsCreate,
               ServiceAccountsDelete} : v.runs \in Bare
  <2>1. /\ KeysCreate.runs = Prints("create key", "typed", "blank")
        /\ KeysRotate.runs = Prints("rotate key", "typed", "blank")
        /\ KeysRevoke.runs = Prints("revoke key", "nothing", "print")
    BY DEF KeysCreate, KeysRotate, KeysRevoke, Verb
  <2>2. /\ ServiceAccountsCreate.runs = Prints("create account", "typed", "print")
        /\ ServiceAccountsDelete.runs = Prints("delete account", "nothing", "print")
    BY DEF ServiceAccountsCreate, ServiceAccountsDelete, Verb
  <2> QED
    BY <2>1, <2>2
<1>5. \A v \in {ChatList, ChatNew, ChatShow, ChatHistory, ChatShare, ChatRename, SimpleAck,
               ChatDelete, ChatDuplicate} : v.runs \in Plain
  BY DEF ChatList, ChatNew, ChatShow, ChatHistory, ChatShare, ChatRename, SimpleAck,
         ChatDelete, ChatDuplicate, Verb, Reads, Dumps, Acknowledges
<1>6. \A v \in {OrgList, OrgShow, OrgRoles, OrgPermissions, ConnectorList, ConnectorGet,
               ConnectorTables, ConnectorExamples, DashboardList, DashboardFolders,
               DashboardGet, DashboardSpawn} : v.runs \in Plain
  BY DEF OrgList, OrgShow, OrgRoles, OrgPermissions, ConnectorList, ConnectorGet,
         ConnectorTables, ConnectorExamples, DashboardList, DashboardFolders,
         DashboardGet, DashboardSpawn, Verb, Reads, Dumps
<1>7. \A v \in {PlaybookList, PlaybookGet, PlaybookReports, OntologyList, OntologyGet,
               FeedShow, FeedStats} : v.runs \in Plain
  BY DEF PlaybookList, PlaybookGet, PlaybookReports, OntologyList, OntologyGet,
         FeedShow, FeedStats, Verb, Reads, Dumps
<1>8. /\ \A c \in {Asks("read", "raw", "print"), Asks("read", "raw", "fail"),
                 Asks("read", "raw", "usage"), Asks("read", "raw", "note"),
                 Asks("read", "typed", "print")} : c \in Call /\ c.does = "read"
      /\ Asks("any", "nothing", "print") \in Call /\ Asks("any", "nothing", "print").does = "any"
      /\ Asks("any", "nothing", "print").sparse = "print"
  BY DEF Asks, Call, Request, Into, OnLack
<1>9. Fine(KeysList.runs)
  <2>1. /\ KeysList.runs.calls = <<Asks("read", "raw", "print")>>
        /\ KeysList.runs.calls \in Seq(Call) => KeysList.runs \in Program
    BY DEF KeysList, Verb, Renders, Program
  <2> QED
    BY <2>1, <1>1, <1>8, OneCall
<1>10. Fine(DashboardHealth.runs)
  <2>1. /\ DashboardHealth.runs.calls = <<Asks("read", "raw", "usage")>>
        /\ DashboardHealth.runs.calls \in Seq(Call) => DashboardHealth.runs \in Program
    BY DEF DashboardHealth, Verb, Renders, Program
  <2> QED
    BY <2>1, <1>1, <1>8, OneCall
<1>11. Fine(PlaybookLineage.runs)
  <2>1. /\ PlaybookLineage.runs.calls = <<Asks("read", "raw", "note")>>
        /\ PlaybookLineage.runs.calls \in Seq(Call) => PlaybookLineage.runs \in Program
    BY DEF PlaybookLineage, Verb, Renders, Program
  <2> QED
    BY <2>1, <1>1, <1>8, OneCall
<1>12. Fine(AuditTail.runs)
  <2>1. /\ AuditTail.runs.calls = <<Asks("read", "raw", "print")>>
        /\ AuditTail.runs.calls \in Seq(Call) => AuditTail.runs \in Program
    BY DEF AuditTail, Verb, Renders, Program
  <2> QED
    BY <2>1, <1>1, <1>8, OneCall
<1>13. Fine(Api.runs)
  <2>1. /\ Api.runs.calls = <<Asks("any", "nothing", "print")>>
        /\ Api.runs.calls \in Seq(Call) => Api.runs \in Program
    BY DEF Api, Verb, Renders, Program
  <2> QED
    BY <2>1, <1>1, <1>8, OneCall
<1>14. Fine(Whoami.runs)
  <2>1. /\ Whoami.runs.calls = <<Asks("read", "raw", "fail"), Asks("read", "raw", "print")>>
        /\ Whoami.runs.calls \in Seq(Call) => Whoami.runs \in Program
    BY DEF Whoami, Verb, Renders, Program
  <2> QED
    BY <2>1, <1>8, TwoReads
<1>15. Fine(OrgMembers.runs)
  <2>1. /\ OrgMembers.runs.calls = <<Asks("read", "typed", "print"), Asks("read", "raw", "print")>>
        /\ OrgMembers.runs.calls \in Seq(Call) => OrgMembers.runs \in Program
    BY DEF OrgMembers, Verb, Renders, Program
  <2> QED
    BY <2>1, <1>8, TwoReads
<1> HIDE DEF Fine, Plain, Bare
<1>16. ASSUME NEW v \in Verbs PROVE Fine(v.runs)
  <2>1. CASE v.runs \in Plain \union Bare
    BY <2>1, <1>2, <1>3
  <2>2. CASE v \in {KeysList, ServiceAccountsList, Whoami, OrgMembers, DashboardHealth,
                   PlaybookLineage, AuditTail, Api}
    BY <2>2, <1>9, <1>10, <1>11, <1>12, <1>13, <1>14, <1>15 DEF ServiceAccountsList
  <2> QED
    BY <2>1, <2>2, <1>4, <1>5, <1>6, <1>7 DEF Verbs
<1> QED
  BY <1>16 DEF Fine
-----------------------------------------------------------------------------
(* The inductive invariant.                                                *)

Refusal == {"auth", "mention", "rpc"}

\* A key that does not exist yet cannot be in anybody's hands: a request
\* that was turned down because of its token would look unjustified once the
\* key exists.
Known == {NoToken} \union DOMAIN keys

TokensKnown ==
  /\ stored \in Known
  /\ \A p \in Process : cmd[p].env \in Known /\ resolved[p] \in Known

\* The life of a call: the request carries the one token that was resolved,
\* and the service, the client and the process agree on how far it is.
CallOK(p, s) ==
  /\ sent[p][s] = {} \/ sent[p][s] = {resolved[p]}
  /\ call[p][s] # "none" => s \in Calls(p) /\ pc[p] \in {"wait", "exited"}
  /\ call[p][s] = "none" => sent[p][s] = {}
  /\ call[p][s] = "sent" => pc[p] = "wait"
  /\ call[p][s] \notin {"none", "aborted"} => sent[p][s] # {}
  /\ sent[p][s] = {} => reply[p][s] = "none"
  /\ reply[p][s] \in {"none", "done"} \union Refusal
  /\ call[p][s] \in Decoded \union {"decode"} => reply[p][s] = "done"
  /\ call[p][s] \in Refusal => reply[p][s] = call[p][s]
  /\ call[p][s] = "odd" => Runs(p).view # "none"
  /\ call[p][s] = "sparse" => Runs(p).calls[s].sparse # "print"

\* Only a dead token is turned down as a token.
DeadToken(p, s) == reply[p][s] \in {"auth", "mention"} => sent[p][s] \cap live = {}

\* What a process has brought about goes with the answer to its first call.
EffectOK(p) ==
  /\ effects[p] \in {0, 1}
  /\ reply[p][1] # "done" => effects[p] = 0 /\ made[p] = {}
  /\ Asked(p, 1) = "read" => effects[p] = 0
  /\ Asked(p, 1) \notin OfKeys => made[p] = {}
  /\ reply[p][1] = "done" /\ Asked(p, 1) \in Mutating => effects[p] = 1

RootOK(p) ==
  (\E s \in Calls(p) : Failed(p, s)) =>
    interrupted[p] \/ \E s \in Calls(p) : Failed(p, s) /\ call[p][s] # "aborted"

\* What an exit code was given for, in terms that no later step changes but
\* for the service doing what it was asked too late.
ExitOK(p) ==
  /\ exit[p] # 9 <=> pc[p] = "exited"
  /\ exit[p] = 0 => /\ \A s \in Calls(p) : reply[p][s] = "done"
                    /\ ~OnSparse(p, "fail")
                    /\ \/ made[p] \subseteq shown[p] \/ ~stdout[p]
                       \/ \E s \in Calls(p) : call[p][s] = "sparse"
  /\ exit[p] = 1 => (\A s \in Slot : sent[p][s] = {}) \/ OnSparse(p, "usage")
  /\ exit[p] = 2 => \/ effects[p] = 0
                    \/ \E s \in Calls(p) : call[p][s] \in {"network", "aborted", "decode", "odd"}
                    \/ ~stdout[p]
  /\ exit[p] = 3 => \E s \in Calls(p) : reply[p][s] \in {"auth", "mention"}
  /\ pc[p] = "exited" /\ call[p][1] = "auth" /\ Calls(p) = {1} /\ Runs(p).via = "Unary"
       => exit[p] = 3

Proper(p) ==
  /\ Regular(Runs(p))
  /\ \A s \in Slot : CallOK(p, s) /\ DeadToken(p, s)
  /\ EffectOK(p) /\ RootOK(p) /\ ExitOK(p)

Inv == TypeOK /\ TokensKnown /\ \A p \in Process : Proper(p)

State(p) == <<pc[p], cmd[p], resolved[p], sent[p], reply[p], call[p], interrupted[p],
              stdout[p], shown[p], made[p], effects[p], exit[p]>>

\* A process that takes no part in a step stays as it should be.
LEMMA Others ==
  ASSUME Inv, NEW q \in Process, State(q)' = State(q), live' \cap Known \subseteq live
  PROVE  Proper(q)'
<1>1. /\ pc'[q] = pc[q] /\ cmd'[q] = cmd[q] /\ resolved'[q] = resolved[q]
      /\ sent'[q] = sent[q] /\ reply'[q] = reply[q] /\ call'[q] = call[q]
      /\ interrupted'[q] = interrupted[q] /\ stdout'[q] = stdout[q] /\ shown'[q] = shown[q]
      /\ made'[q] = made[q] /\ effects'[q] = effects[q] /\ exit'[q] = exit[q]
  BY DEF State
<1>2. Proper(q) /\ resolved[q] \in Known
  BY DEF Inv, TokensKnown
<1>3. Regular(Runs(q))' /\ EffectOK(q)' /\ RootOK(q)' /\ ExitOK(q)'
  <2>1. Regular(Runs(q))' /\ EffectOK(q)'
    BY <1>1, <1>2 DEF Proper, EffectOK, Asked, Runs
  <2>2. RootOK(q)'
    BY <1>1, <1>2 DEF Proper, RootOK, Failed, Calls, Runs
  <2>3. ExitOK(q)'
    BY <1>1, <1>2 DEF Proper, ExitOK, OnSparse, Calls, Runs
  <2> QED
    BY <2>1, <2>2, <2>3
<1>4. ASSUME NEW s \in Slot PROVE CallOK(q, s)' /\ DeadToken(q, s)'
  BY <1>1, <1>2 DEF Proper, CallOK, DeadToken, Calls, Runs
<1> QED
  BY <1>3, <1>4 DEF Proper

LEMMA NothingSentYet ==
  ASSUME Inv, NEW p \in Process, pc[p] \notin {"wait", "exited"}
  PROVE  /\ \A s \in Slot : call[p][s] = "none" /\ sent[p][s] = {} /\ reply[p][s] = "none"
         /\ effects[p] = 0 /\ made[p] = {} /\ exit[p] = 9
<1>1. Proper(p)
  BY DEF Inv
<1>2. ASSUME NEW s \in Slot
      PROVE  call[p][s] = "none" /\ sent[p][s] = {} /\ reply[p][s] = "none"
  BY <1>1 DEF Proper, CallOK
<1> QED
  BY <1>1, <1>2 DEF Proper, EffectOK, ExitOK, Slot

LEMMA SlotsOfCalls ==
  ASSUME NEW p, Regular(Runs(p))
  PROVE  Calls(p) \subseteq Slot /\ 1 \in Calls(p)
BY DEF Regular, Calls, Slot

\* Before the calls nothing can go wrong but the invocation itself.
LEMMA BeforeCalls ==
  ASSUME Inv, NEW p \in Process, pc[p] \notin {"wait", "exited"},
         UNCHANGED <<call, sent, reply, effects, made>>, Regular(Runs(p))',
         \/ pc'[p] = "exited" /\ exit'[p] \in {1, 2}
         \/ pc'[p] # "exited" /\ exit'[p] = 9
  PROVE  Proper(p)'
<1>1. /\ \A s \in Slot : call'[p][s] = "none" /\ sent'[p][s] = {} /\ reply'[p][s] = "none"
      /\ effects'[p] = 0 /\ made'[p] = {}
  BY NothingSentYet
<1>2. ASSUME NEW s \in Slot PROVE CallOK(p, s)' /\ DeadToken(p, s)'
  BY <1>1 DEF CallOK, DeadToken, Decoded, Answer, Refusal
<1>3. EffectOK(p)'
  BY <1>1 DEF EffectOK, Slot
<1>4. (Calls(p) \subseteq Slot)'
  BY DEF Regular, Calls, Slot
<1>5. RootOK(p)'
  BY <1>1, <1>4 DEF RootOK, Failed, Failure, UnaryFailure
<1>6. ExitOK(p)'
  BY <1>1, <1>4 DEF ExitOK, Slot
<1> QED
  BY <1>2, <1>3, <1>5, <1>6 DEF Proper

-----------------------------------------------------------------------------
(* Exit codes.                                                             *)

LEMMA Codes ==
  /\ ExitCode(Nil) = 0 /\ ExitCode(<<"plain">>) = 2
  /\ ExitCode(<<"usage">>) = 1 /\ ExitCode(<<"usage", "reported">>) = 1
BY DEF ExitCode, Nil, Is, IsAuth

\* What a call can leave behind names neither usage nor help.
FailureMark == {"auth", "rpc", "plain"}

LEMMA JoinedCode ==
  ASSUME NEW a \in Seq(FailureMark), NEW b \in Seq(FailureMark)
  PROVE  /\ Join(a, b) = Nil <=> a = Nil /\ b = Nil
         /\ Join(a, b) # Nil => ExitCode(Join(a, b)) \in {2, 3}
         /\ Join(a, b) # Nil /\ ExitCode(Join(a, b)) = 3 =>
              (\E i \in DOMAIN a : a[i] = "auth") \/ (\E i \in DOMAIN b : b[i] = "auth")
         /\ a # Nil /\ a[1] = "auth" => ExitCode(Join(a, b)) = 3
<1> DEFINE e == Join(a, b)
<1>1. /\ e \in Seq(FailureMark) /\ Len(e) = Len(a) + Len(b)
      /\ \A i \in DOMAIN e : IF i <= Len(a) THEN i \in DOMAIN a /\ e[i] = a[i]
                             ELSE i - Len(a) \in DOMAIN b /\ e[i] = b[i - Len(a)]
  BY DEF Join
<1>2. e = Nil <=> a = Nil /\ b = Nil
  BY <1>1 DEF Nil
<1>3. ~Is(e, "help") /\ ~Is(e, "usage")
  <2> HIDE DEF e
  <2>1. \A i \in DOMAIN e : e[i] \in FailureMark
    BY <1>1
  <2> QED
    BY <2>1 DEF Is, FailureMark
<1>4. IsAuth(e) => \/ \E i \in DOMAIN a : a[i] = "auth"
                   \/ \E i \in DOMAIN b : b[i] = "auth"
  BY <1>1 DEF IsAuth
<1>5. a # Nil /\ a[1] = "auth" => IsAuth(e)
  <2> SUFFICES ASSUME a # Nil, a[1] = "auth" PROVE IsAuth(e)
    OBVIOUS
  <2>1. 1 \in DOMAIN e /\ 1 <= Len(a)
    BY <1>1 DEF Nil
  <2>2. e[1] = "auth" /\ \A j \in 1 .. 1 - 1 : e[j] # "rpc"
    BY <1>1, <2>1
  <2> QED
    BY <2>1, <2>2 DEF IsAuth
<1> HIDE DEF e
<1>6. e # Nil => (IsAuth(e) => ExitCode(e) = 3) /\ (~IsAuth(e) => ExitCode(e) = 2)
  BY <1>3 DEF ExitCode, IsAuth, Is
<1> QED
  BY <1>2, <1>4, <1>5, <1>6 DEF e

LEMMA ErrorOfCall ==
  ASSUME NEW p, NEW s, s \in Calls(p) => call[p][s] \in CallState
  PROVE  /\ ErrorOf(p, s) \in Seq(FailureMark)
         /\ ErrorOf(p, s) = Nil <=> ~(s \in Calls(p) /\ Failed(p, s))
         /\ (\E i \in DOMAIN ErrorOf(p, s) : ErrorOf(p, s)[i] = "auth") =>
              s \in Calls(p) /\ call[p][s] \in {"auth", "mention"}
         /\ s \in Calls(p) /\ call[p][s] = "auth" /\ Runs(p).via = "Unary" =>
              ErrorOf(p, s) # Nil /\ ErrorOf(p, s)[1] = "auth"
<1>1. /\ Nil \in Seq(FailureMark) /\ DOMAIN Nil = {}
      /\ \A mark \in FailureMark :
           /\ <<mark>> \in Seq(FailureMark) /\ <<mark>> # Nil
           /\ DOMAIN <<mark>> = {1} /\ <<mark>>[1] = mark
  BY DEF Nil
<1>2. \A mark \in FailureMark :
        /\ <<"auth">> \o <<mark>> \in Seq(FailureMark) /\ <<"auth">> \o <<mark>> # Nil
        /\ (<<"auth">> \o <<mark>>)[1] = "auth"
  BY DEF Nil, FailureMark
<1>3. "plain" \in FailureMark /\ "auth" \in FailureMark /\ "rpc" \in FailureMark
  BY DEF FailureMark
<1>4. CASE ~(s \in Calls(p) /\ Failed(p, s))
  BY <1>1, <1>4 DEF ErrorOf, Failed, Failure, UnaryFailure
<1>5. CASE s \in Calls(p) /\ Failed(p, s)
  <2>1. CASE call[p][s] = "decode" \/ Runs(p).via = "DoRaw"
    BY <1>1, <1>3, <1>5, <2>1 DEF ErrorOf
  <2>2. CASE ~(call[p][s] = "decode" \/ Runs(p).via = "DoRaw")
    <3>1. call[p][s] \in UnaryFailure
      BY <1>5, <2>2 DEF Failed, Failure
    <3>2. CASE Runs(p).auth
      <4>1. ErrorOf(p, s) = TranslateErr(call[p][s])
        BY <1>5, <2>2, <3>2 DEF ErrorOf
      <4> QED
        BY <1>1, <1>2, <1>3, <1>5, <3>1, <4>1 DEF TranslateErr, UnaryError, UnaryFailure
    <3>3. CASE ~Runs(p).auth
      <4>1. ErrorOf(p, s) = UnaryError(call[p][s])
        BY <1>5, <2>2, <3>3 DEF ErrorOf
      <4> QED
        BY <1>1, <1>3, <1>5, <3>1, <4>1 DEF UnaryError, UnaryFailure
    <3> QED
      BY <3>2, <3>3
  <2> QED
    BY <2>1, <2>2
<1> QED
  BY <1>4, <1>5

-----------------------------------------------------------------------------
(* The steps before the calls.                                             *)

LEMMA InitInv == Init => Inv
<1> SUFFICES ASSUME Init PROVE Inv
  OBVIOUS
<1>1. Renders("read", "print") \in Program /\ Regular(Renders("read", "print"))
  <2>1. "read" \in Request /\ "read" \notin OfKeys /\ "raw" \in Into
    BY DEF Request, OfKeys, Into
  <2>2. "print" \in OnLack
    BY DEF OnLack
  <2> QED
    BY <2>1, <2>2, Shapes
<1>2. NoCommand \in Command
  BY <1>1 DEF NoCommand, Command, NoToken
<1>3. /\ keys \in Seq([org : Org, owner : Nat]) /\ DOMAIN keys = 1 .. 3
      /\ accounts \in Seq(Org)
  BY DEF Init, Org, Person
<1>4. TypeOK
  BY <1>2, <1>3 DEF Init, TypeOK, NoToken, Location, CallState, Slot
<1>5. TokensKnown
  BY <1>3 DEF Init, TokensKnown, Known, NoCommand
<1>6. ASSUME NEW p \in Process PROVE Proper(p)
  <2>1. Runs(p) = Renders("read", "print")
    BY DEF Init, Runs, NoCommand
  <2>2. Calls(p) \subseteq Slot
    BY <1>1, <2>1, SlotsOfCalls
  <2>3. ASSUME NEW s \in Slot PROVE CallOK(p, s) /\ DeadToken(p, s)
    BY DEF Init, CallOK, DeadToken, Decoded, Answer, Refusal
  <2>4. EffectOK(p)
    BY DEF Init, EffectOK, Slot
  <2>5. RootOK(p)
    BY <2>2 DEF Init, RootOK, Failed, Failure, UnaryFailure
  <2>6. ExitOK(p)
    BY DEF Init, ExitOK
  <2> QED
    BY <1>1, <2>1, <2>3, <2>4, <2>5, <2>6 DEF Proper
<1> QED
  BY <1>4, <1>5, <1>6 DEF Inv

\* Steps that only move on, or exit before the calls.
LEMMA MovesOn ==
  ASSUME Inv, NEW p \in Process, pc[p] \notin {"wait", "exited"},
         UNCHANGED <<service, login, reply, cmd, resolved, sent, call, interrupted, stdout, shown>>,
         faults' \in Nat,
         NEW to \in Location, pc' = [pc EXCEPT ![p] = to],
         \/ to = "exited" /\ \E code \in {1, 2} : exit' = [exit EXCEPT ![p] = code]
         \/ to # "exited" /\ exit' = exit
  PROVE  Inv'
<1>1. /\ TypeOK /\ TokensKnown /\ \A q \in Process : Proper(q)
      /\ pc \in [Process -> Location] /\ exit \in [Process -> {0, 1, 2, 3, 9}]
      /\ exit[p] = 9
  BY NothingSentYet DEF Inv, TypeOK
<1>2. TypeOK'
  BY <1>1 DEF TypeOK, service, login
<1>3. TokensKnown'
  BY <1>1 DEF TokensKnown, Known, service, login
<1>4. Proper(p)'
  BY <1>1, BeforeCalls DEF Proper, Runs, service
<1>5. ASSUME NEW q \in Process, q # p PROVE Proper(q)'
  <2>1. State(q)' = State(q) /\ live' = live
    BY <1>1, <1>5 DEF State, service
  <2> QED
    BY <2>1, Others
<1> QED
  BY <1>2, <1>3, <1>4, <1>5 DEF Inv

LEMMA RefuseStep == ASSUME Inv, NEW p \in Process, Refuse(p) PROVE Inv'
<1>1. TypeOK
  BY DEF Inv
<1> QED
  BY <1>1, MovesOn, Codes DEF Refuse, Exit, Goto, Location, TypeOK

LEMMA ReadStdinStep == ASSUME Inv, NEW p \in Process, ReadStdin(p) PROVE Inv'
<1>1. TypeOK
  BY DEF Inv
<1>2. CASE Goto(p, "start") /\ UNCHANGED exit
  BY <1>1, <1>2, MovesOn DEF ReadStdin, Goto, Location, TypeOK
<1>3. CASE Exit(p, <<"plain">>)
  BY <1>1, <1>3, MovesOn, Codes DEF ReadStdin, Exit, Goto, Location, TypeOK
<1> QED
  BY <1>2, <1>3 DEF ReadStdin

LEMMA InitConfigFailsStep == ASSUME Inv, NEW p \in Process, InitConfigFails(p) PROVE Inv'
<1>1. TypeOK
  BY DEF Inv
<1> QED
  BY <1>1, MovesOn, Codes DEF InitConfigFails, Exit, Goto, Location, TypeOK

LEMMA CheckLoggedInStep == ASSUME Inv, NEW p \in Process, CheckLoggedIn(p) PROVE Inv'
<1>1. TypeOK
  BY DEF Inv
<1>2. CASE Goto(p, "wait") /\ stored # NoToken /\ UNCHANGED exit
  BY <1>1, <1>2, MovesOn DEF CheckLoggedIn, Goto, Location, TypeOK
<1>3. CASE Exit(p, <<"plain">>)
  BY <1>1, <1>3, MovesOn, Codes DEF CheckLoggedIn, Exit, Goto, Location, TypeOK
<1> QED
  BY <1>2, <1>3 DEF CheckLoggedIn

LEMMA InvokeStep == ASSUME Inv, NEW p \in Process, Invoke(p) PROVE Inv'
<1>1. /\ TypeOK /\ TokensKnown /\ \A q \in Process : Proper(q)
      /\ pc[p] = "idle" /\ exit[p] = 9
      /\ UNCHANGED <<service, login, faults, reply, resolved, sent, call, interrupted, stdout,
                     shown, exit>>
  BY NothingSentYet DEF Inv, Invoke
<1>2. PICK v \in User[p].verbs, json \in User[p].json,
           env \in User[p].env \cap ({NoToken} \union DOMAIN keys),
           t \in User[p].targets, to \in {"stdin", "start"} :
        /\ pc' = [pc EXCEPT ![p] = to]
        /\ cmd' = [cmd EXCEPT ![p] = [runs |-> v.runs, json |-> json, target |-> t, env |-> env]]
  <2>1. PICK v \in User[p].verbs, json \in User[p].json,
             env \in User[p].env \cap ({NoToken} \union DOMAIN keys) :
          /\ \E reads \in {i.stdin : i \in v.takes} :
               Goto(p, IF reads /\ v.runs.via = "DoRaw" THEN "stdin" ELSE "start")
          /\ \E t \in TargetsOf(v.runs.calls[1].does) \cap User[p].targets :
               cmd' = [cmd EXCEPT ![p] = [runs |-> v.runs, json |-> json, target |-> t, env |-> env]]
    BY DEF Invoke
  <2>2. PICK t \in User[p].targets :
          cmd' = [cmd EXCEPT ![p] = [runs |-> v.runs, json |-> json, target |-> t, env |-> env]]
    BY <2>1
  <2>3. PICK to \in {"stdin", "start"} : pc' = [pc EXCEPT ![p] = to]
    BY <2>1 DEF Goto
  <2> QED
    BY <2>1, <2>2, <2>3
<1>3. /\ v \in Verbs /\ json \in BOOLEAN /\ env \in Nat /\ t \in Nat /\ env \in Known
  BY <1>2, InvocationAssumption DEF Known
<1>4. v.runs \in Program /\ Regular(v.runs)
  BY <1>3, VerbsAreRegular
<1>5. [runs |-> v.runs, json |-> json, target |-> t, env |-> env] \in Command
  BY <1>3, <1>4 DEF Command
<1>6. TypeOK'
  BY <1>1, <1>2, <1>5 DEF TypeOK, service, login, Location
<1>7. TokensKnown'
  BY <1>1, <1>2, <1>3 DEF TokensKnown, Known, service, login, TypeOK
<1>8. cmd'[p].runs = v.runs /\ pc'[p] \in {"stdin", "start"}
  BY <1>1, <1>2 DEF TypeOK
<1>9. Proper(p)'
  BY <1>1, <1>4, <1>8, BeforeCalls DEF Runs, service
<1>10. ASSUME NEW q \in Process, q # p PROVE Proper(q)'
  <2>1. State(q)' = State(q) /\ live' = live
    BY <1>1, <1>2, <1>10 DEF State, service, TypeOK
  <2> QED
    BY <2>1, Others
<1> QED
  BY <1>6, <1>7, <1>9, <1>10 DEF Inv

LEMMA InitConfigStep == ASSUME Inv, NEW p \in Process, InitConfig(p) PROVE Inv'
<1>1. /\ TypeOK /\ TokensKnown /\ \A q \in Process : Proper(q)
      /\ pc[p] = "start" /\ exit[p] = 9
      /\ UNCHANGED <<service, login, faults, reply, cmd, sent, call, interrupted, stdout,
                     shown, exit>>
      /\ resolved' = [resolved EXCEPT ![p] = Current(p)]
  BY NothingSentYet DEF Inv, InitConfig
<1>2. PICK to \in {"check", "wait"} : pc' = [pc EXCEPT ![p] = to]
  BY DEF InitConfig, Goto
<1>3. Current(p) \in Known /\ Current(p) \in Nat
  BY <1>1 DEF Current, TokensKnown, TypeOK, Command
<1>4. TypeOK'
  BY <1>1, <1>2, <1>3 DEF TypeOK, service, login, Location
<1>5. TokensKnown'
  BY <1>1, <1>3 DEF TokensKnown, Known, service, login, TypeOK
<1>6. pc'[p] # "exited"
  BY <1>1, <1>2 DEF TypeOK
<1>7. Proper(p)'
  BY <1>1, <1>6, BeforeCalls DEF Proper, Runs, service
<1>8. ASSUME NEW q \in Process, q # p PROVE Proper(q)'
  <2>1. State(q)' = State(q) /\ live' = live
    BY <1>1, <1>2, <1>8 DEF State, service, TypeOK
  <2> QED
    BY <2>1, Others
<1> QED
  BY <1>4, <1>5, <1>7, <1>8 DEF Inv

LEMMA InterruptStep == ASSUME Inv, NEW p \in Process, Interrupt(p) PROVE Inv'
<1>1. /\ TypeOK /\ TokensKnown /\ \A q \in Process : Proper(q)
      /\ UNCHANGED <<service, login, faults, reply, pc, cmd, resolved, sent, call, stdout,
                     shown, exit>>
      /\ interrupted' = [interrupted EXCEPT ![p] = TRUE]
  BY DEF Inv, Interrupt
<1>2. TypeOK'
  BY <1>1 DEF TypeOK, service, login
<1>3. TokensKnown'
  BY <1>1 DEF TokensKnown, Known, service, login
<1>4. Proper(p)'
  <2>1. interrupted'[p]
    BY <1>1 DEF TypeOK
  <2>2. Regular(Runs(p))' /\ EffectOK(p)' /\ RootOK(p)'
    BY <1>1, <2>1 DEF Proper, EffectOK, RootOK, Asked, Runs, service
  <2>3. ExitOK(p)'
    BY <1>1 DEF Proper, ExitOK, OnSparse, Calls, Runs, service
  <2>4. \A s \in Slot : CallOK(p, s)' /\ DeadToken(p, s)'
    BY <1>1 DEF Proper, CallOK, DeadToken, Calls, Runs, service
  <2> QED
    BY <2>2, <2>3, <2>4 DEF Proper
<1>5. ASSUME NEW q \in Process, q # p PROVE Proper(q)'
  <2>1. State(q)' = State(q) /\ live' = live
    BY <1>1, <1>5 DEF State, service, TypeOK
  <2> QED
    BY <2>1, Others
<1> QED
  BY <1>2, <1>3, <1>4, <1>5 DEF Inv

LEMMA LoginStep == ASSUME Inv, Login PROVE Inv'
<1>1. /\ TypeOK /\ TokensKnown /\ UNCHANGED <<service, faults, reply, process>>
      /\ logins' = logins + 1 /\ stored' \in Nat /\ stored' \in Known
  BY InvocationAssumption DEF Inv, Login, Known
<1>2. TypeOK'
  BY <1>1 DEF TypeOK, service, process
<1>3. TokensKnown'
  BY <1>1 DEF TokensKnown, Known, service, process
<1>4. ASSUME NEW q \in Process PROVE Proper(q)'
  <2>1. State(q)' = State(q) /\ live' = live
    BY <1>1 DEF State, service, process
  <2> QED
    BY <2>1, Others
<1> QED
  BY <1>2, <1>3, <1>4 DEF Inv

-----------------------------------------------------------------------------
(* The calls.                                                              *)

LEMMA States ==
  /\ CallState = {"none", "sent", "whole", "sparse", "odd", "auth", "mention", "rpc",
                  "network", "aborted", "decode"}
  /\ Failure = {"auth", "mention", "rpc", "network", "aborted", "decode"}
  /\ Decoded = {"whole", "sparse", "odd"}
BY DEF CallState, Decoded, Answer, Failure, UnaryFailure

\* One call goes on.
LEMMA CallMoves ==
  ASSUME Inv, NEW p \in Process, NEW s \in Slot, s \in Calls(p), pc[p] = "wait",
         UNCHANGED <<service, login, reply, pc, cmd, resolved, interrupted, stdout, shown, exit>>,
         faults' \in Nat,
         NEW state \in CallState \ {"none"}, call' = [call EXCEPT ![p][s] = state],
         call[p][s] \in {"none", "sent"}, state = "aborted" => Cancelled(p),
         \/ sent' = sent
         \/ /\ call[p][s] = "none" /\ state = "sent"
            /\ sent' = [sent EXCEPT ![p][s] = {resolved[p]}],
         CallOK(p, s)'
  PROVE  Inv'
<1>1. /\ TypeOK /\ TokensKnown /\ Proper(p) /\ exit[p] = 9 /\ Calls(p) \subseteq Slot
      /\ call \in [Process -> [Slot -> CallState]] /\ sent \in [Process -> [Slot -> SUBSET Nat]]
      /\ resolved[p] \in Nat
  BY SlotsOfCalls DEF Inv, TypeOK, Proper, ExitOK
<1>2. /\ call'[p][s] = state
      /\ \A t \in Slot : t # s => call'[p][t] = call[p][t] /\ sent'[p][t] = sent[p][t]
      /\ \A q \in Process : q # p => call'[q] = call[q] /\ sent'[q] = sent[q]
      /\ call' \in [Process -> [Slot -> CallState]] /\ sent' \in [Process -> [Slot -> SUBSET Nat]]
  <2>1. /\ call'[p] = [call[p] EXCEPT ![s] = state]
        /\ \A q \in Process : q # p => call'[q] = call[q]
    BY <1>1
  <2>2. /\ sent'[p] = sent[p] \/ sent'[p] = [sent[p] EXCEPT ![s] = {resolved[p]}]
        /\ \A q \in Process : q # p => sent'[q] = sent[q]
    BY <1>1
  <2>3. call[p] \in [Slot -> CallState] /\ sent[p] \in [Slot -> SUBSET Nat]
    BY <1>1
  <2>4. call'[p] \in [Slot -> CallState] /\ sent'[p] \in [Slot -> SUBSET Nat]
    BY <1>1, <2>1, <2>2, <2>3
  <2>5. call' \in [Process -> [Slot -> CallState]]
    BY <1>1, <2>1, <2>3, <2>4
  <2>6. sent' \in [Process -> [Slot -> SUBSET Nat]]
    BY <1>1, <2>2, <2>3, <2>4
  <2>7. /\ call'[p][s] = state
        /\ \A t \in Slot : t # s => call'[p][t] = call[p][t] /\ sent'[p][t] = sent[p][t]
    BY <2>1, <2>2, <2>3
  <2> QED
    BY <2>1, <2>2, <2>5, <2>6, <2>7
<1>3. TypeOK'
  BY <1>1, <1>2 DEF TypeOK, service, login
<1>4. TokensKnown'
  BY <1>1 DEF TokensKnown, Known, service, login
<1>5. Calls(p)' = Calls(p) /\ Runs(p)' = Runs(p)
  BY DEF Calls, Runs
<1>6. Proper(p)'
  <2>1. ASSUME NEW t \in Slot, t # s PROVE CallOK(p, t)' /\ DeadToken(p, t)'
    <3>1. CallOK(p, t) /\ DeadToken(p, t)
      BY <1>1 DEF Proper
    <3> QED
      BY <1>2, <1>5, <2>1, <3>1 DEF CallOK, DeadToken, service
  <2>2. DeadToken(p, s)'
    <3>1. CallOK(p, s) /\ DeadToken(p, s)
      BY <1>1 DEF Proper
    <3> QED
      BY <3>1 DEF CallOK, DeadToken, service
  <2>3. EffectOK(p)'
    BY <1>1 DEF Proper, EffectOK, Asked, Runs, service
  <2>4. RootOK(p)'
    <3> SUFFICES ASSUME NEW t \in Calls(p), Failed(p, t)', ~interrupted[p]
                 PROVE  \E u \in Calls(p) : Failed(p, u)' /\ call'[p][u] # "aborted"
      BY <1>5 DEF RootOK
    <3>1. CASE t = s /\ state # "aborted"
      BY <1>2, <3>1
    <3>2. CASE t # s \/ state = "aborted"
      <4>1. \E u \in Calls(p) : Failed(p, u)
        BY <1>1, <1>2, <3>2 DEF Failed, Cancelled
      <4>2. PICK u \in Calls(p) : Failed(p, u) /\ call[p][u] # "aborted"
        BY <1>1, <4>1 DEF Proper, RootOK
      <4>3. u # s
        BY <4>2, States DEF Failed
      <4> QED
        BY <1>1, <1>2, <4>2, <4>3 DEF Failed
    <3> QED
      BY <3>1, <3>2
  <2>5. ExitOK(p)'
    BY <1>1, States DEF Proper, ExitOK
  <2> QED
    BY <1>1, <1>5, <2>1, <2>2, <2>3, <2>4, <2>5 DEF Proper
<1>7. ASSUME NEW q \in Process, q # p PROVE Proper(q)'
  <2>1. State(q)' = State(q) /\ live' = live
    BY <1>2, <1>7 DEF State, service
  <2> QED
    BY <2>1, Others
<1> QED
  BY <1>3, <1>4, <1>6, <1>7 DEF Inv

LEMMA ACall ==
  ASSUME Inv, NEW p \in Process, NEW s \in Slot
  PROVE  /\ TypeOK /\ CallOK(p, s) /\ faults \in Nat
         /\ Fault => faults' \in Nat
         /\ call[p][s] = "sent" =>
              s \in Calls(p) /\ pc[p] = "wait" /\ sent[p][s] = {resolved[p]}
<1>1. TypeOK /\ CallOK(p, s)
  BY DEF Inv, Proper
<1>2. faults \in Nat /\ (Fault => faults' \in Nat)
  BY <1>1 DEF TypeOK, Fault
<1> QED
  BY <1>1, <1>2 DEF CallOK

LEMMA SendStep == ASSUME Inv, NEW p \in Process, NEW s \in Slot, Send(p, s) PROVE Inv'
<1>1. /\ TypeOK /\ CallOK(p, s)
      /\ pc[p] = "wait" /\ s \in Calls(p) /\ call[p][s] = "none"
      /\ UNCHANGED <<service, login, faults, reply, pc, cmd, resolved, interrupted, stdout,
                     shown, exit>>
      /\ call \in [Process -> [Slot -> CallState]] /\ sent \in [Process -> [Slot -> SUBSET Nat]]
      /\ Calls(p)' = Calls(p)
  BY ACall DEF Send, Due, TypeOK, Calls, Runs
<1>2. CASE Cancelled(p)
  <2>1. /\ call' = [call EXCEPT ![p][s] = "aborted"] /\ sent' = sent
        /\ call'[p][s] = "aborted"
    BY <1>1, <1>2 DEF Send, Become
  <2>2. CallOK(p, s)'
    BY <1>1, <2>1, States DEF CallOK, Refusal
  <2> QED
    BY <1>1, <1>2, <2>1, <2>2, ACall, CallMoves, States
<1>3. CASE ~Cancelled(p)
  <2>1. /\ call' = [call EXCEPT ![p][s] = "sent"] /\ call'[p][s] = "sent"
        /\ sent' = [sent EXCEPT ![p][s] = {resolved[p]}] /\ sent'[p][s] = {resolved[p]}
    BY <1>1, <1>3 DEF Send, Become, TokenOf
  <2>2. CallOK(p, s)'
    BY <1>1, <2>1, States DEF CallOK, Refusal
  <2> QED
    BY <1>1, <2>1, <2>2, ACall, CallMoves, States
<1> QED
  BY <1>2, <1>3

LEMMA ReceiveStep == ASSUME Inv, NEW p \in Process, NEW s \in Slot, Receive(p, s) PROVE Inv'
<1>1. /\ TypeOK /\ CallOK(p, s) /\ faults \in Nat
      /\ call[p][s] = "sent" /\ reply[p][s] = "done" /\ pc[p] = "wait" /\ s \in Calls(p)
      /\ sent[p][s] = {resolved[p]}
      /\ UNCHANGED <<service, login, reply, pc, cmd, resolved, sent, interrupted, stdout, shown,
                     exit>>
      /\ call \in [Process -> [Slot -> CallState]]
      /\ Calls(p)' = Calls(p) /\ Runs(p)' = Runs(p)
  BY ACall DEF Receive, TypeOK, Calls, Runs
<1>2. PICK answer \in Answer :
        /\ IF answer \in {"odd", "junk"} THEN Fault ELSE UNCHANGED faults
        /\ answer = "sparse" => Runs(p).calls[s].sparse # "print"
        /\ Become(p, s, IF DecodeFails(Runs(p).calls[s].into, answer)
                        THEN "decode" ELSE Seen(p, s, answer))
  BY DEF Receive
<1>3. PICK state \in Decoded \union {"decode"} :
        /\ call' = [call EXCEPT ![p][s] = state]
        /\ state = "odd" => Runs(p).view # "none"
        /\ state = "sparse" => Runs(p).calls[s].sparse # "print"
  <2>1. CASE DecodeFails(Runs(p).calls[s].into, answer)
    BY <1>2, <2>1 DEF Become
  <2>2. CASE ~DecodeFails(Runs(p).calls[s].into, answer)
    <3>1. Become(p, s, Seen(p, s, answer))
      BY <1>2, <2>2
    <3> QED
      BY <1>2, <3>1, States DEF Become, Seen, Answer
  <2> QED
    BY <2>1, <2>2
<1>4. call'[p][s] = state
  BY <1>1, <1>3
<1>5. CallOK(p, s)'
  BY <1>1, <1>3, <1>4, States DEF CallOK, Refusal
<1>6. faults' \in Nat
  BY <1>1, <1>2, ACall
<1> QED
  BY <1>1, <1>3, <1>5, <1>6, CallMoves, States

LEMMA ReceiveRefusalStep ==
  ASSUME Inv, NEW p \in Process, NEW s \in Slot, ReceiveRefusal(p, s) PROVE Inv'
<1>1. /\ TypeOK /\ CallOK(p, s) /\ faults \in Nat
      /\ call[p][s] = "sent" /\ pc[p] = "wait" /\ s \in Calls(p)
      /\ sent[p][s] = {resolved[p]}
      /\ UNCHANGED <<service, login, faults, reply, pc, cmd, resolved, sent, interrupted, stdout,
                     shown, exit>>
      /\ call \in [Process -> [Slot -> CallState]]
      /\ call' = [call EXCEPT ![p][s] = reply[p][s]]
      /\ Calls(p)' = Calls(p) /\ Runs(p)' = Runs(p)
  BY ACall DEF ReceiveRefusal, Become, TypeOK, Calls, Runs
<1>2. reply[p][s] \in Refusal
  BY <1>1 DEF CallOK, ReceiveRefusal, UnaryFailure, Refusal
<1>3. call'[p][s] = reply[p][s]
  BY <1>1
<1>4. CallOK(p, s)'
  BY <1>1, <1>2, <1>3, States DEF CallOK, Refusal
<1>5. reply[p][s] \in CallState \ {"none", "aborted"}
  BY <1>2, States DEF Refusal
<1> QED
  BY <1>1, <1>4, <1>5, CallMoves

LEMMA BreakStep == ASSUME Inv, NEW p \in Process, NEW s \in Slot, Break(p, s) PROVE Inv'
<1>1. /\ TypeOK /\ CallOK(p, s) /\ faults' \in Nat
      /\ call[p][s] = "sent" /\ pc[p] = "wait" /\ s \in Calls(p)
      /\ sent[p][s] = {resolved[p]}
      /\ UNCHANGED <<service, login, reply, pc, cmd, resolved, sent, interrupted, stdout,
                     shown, exit>>
      /\ call \in [Process -> [Slot -> CallState]]
      /\ call' = [call EXCEPT ![p][s] = "network"]
      /\ Calls(p)' = Calls(p) /\ Runs(p)' = Runs(p)
  BY ACall DEF Break, Become, TypeOK, Calls, Runs
<1>2. call'[p][s] = "network"
  BY <1>1
<1>3. CallOK(p, s)'
  BY <1>1, <1>2, States DEF CallOK, Refusal
<1>4. "network" \in CallState \ {"none"} /\ "network" # "aborted"
  BY States
<1> QED
  BY <1>1, <1>3, <1>4, CallMoves

LEMMA AbortStep == ASSUME Inv, NEW p \in Process, NEW s \in Slot, Abort(p, s) PROVE Inv'
<1>1. /\ TypeOK /\ CallOK(p, s) /\ faults' \in Nat
      /\ call[p][s] = "sent" /\ pc[p] = "wait" /\ s \in Calls(p) /\ Cancelled(p)
      /\ sent[p][s] = {resolved[p]}
      /\ UNCHANGED <<service, login, reply, pc, cmd, resolved, sent, interrupted, stdout,
                     shown, exit>>
      /\ call \in [Process -> [Slot -> CallState]]
      /\ call' = [call EXCEPT ![p][s] = "aborted"]
      /\ Calls(p)' = Calls(p) /\ Runs(p)' = Runs(p)
  BY ACall DEF Abort, Become, TypeOK, Calls, Runs
<1>2. call'[p][s] = "aborted"
  BY <1>1
<1>3. CallOK(p, s)'
  BY <1>1, <1>2, States DEF CallOK, Refusal
<1> QED
  BY <1>1, <1>3, CallMoves, States

-----------------------------------------------------------------------------
(* The end of a command.                                                   *)

LEMMA ReportStep == ASSUME Inv, NEW p \in Process, Report(p) PROVE Inv'
<1>1. /\ TypeOK /\ TokensKnown /\ Proper(p) /\ exit[p] = 9 /\ pc[p] = "wait" /\ Finished(p)
      /\ UNCHANGED <<service, login, faults, reply, cmd, resolved, sent, call, interrupted>>
      /\ \A s \in Slot : CallOK(p, s)
      /\ \A s \in Calls(p) : s \in Slot /\ call[p][s] \in CallState
      /\ 1 \in Calls(p) /\ Calls(p) \in {{1}, {1, 2}}
      /\ 2 \in Calls(p) => Asked(p, 1) = "read"
      /\ Calls(p)' = Calls(p) /\ Runs(p)' = Runs(p)
  <2>1. /\ TypeOK /\ TokensKnown /\ Proper(p) /\ pc[p] = "wait" /\ Finished(p)
        /\ UNCHANGED <<service, login, faults, reply, cmd, resolved, sent, call, interrupted>>
    BY DEF Inv, Report
  <2>2. /\ exit[p] = 9 /\ Regular(Runs(p)) /\ \A s \in Slot : CallOK(p, s)
    BY <2>1 DEF Proper, ExitOK
  <2>3. Calls(p) \subseteq Slot /\ 1 \in Calls(p)
    BY <2>2, SlotsOfCalls
  <2>4. \A s \in Slot : call[p][s] \in CallState
    BY <2>1 DEF TypeOK
  <2>5. /\ Calls(p) \in {{1}, {1, 2}}
        /\ 2 \in Calls(p) => Asked(p, 1) = "read"
    BY <2>2 DEF Regular, Calls, Asked
  <2>6. Calls(p)' = Calls(p) /\ Runs(p)' = Runs(p)
    BY <2>1 DEF Calls, Runs
  <2> QED
    BY <2>1, <2>2, <2>3, <2>4, <2>5, <2>6
<1>2. PICK code \in {0, 1, 2, 3} :
        /\ exit' = [exit EXCEPT ![p] = code]
        /\ pc' = [pc EXCEPT ![p] = "exited"]
        /\ Joined(p) # Nil => code = ExitCode(Joined(p))
  BY DEF Report, Exit, Goto, ExitCode
<1>3. /\ exit'[p] = code /\ pc'[p] = "exited"
      /\ \A q \in Process : q # p => exit'[q] = exit[q] /\ pc'[q] = pc[q]
      /\ pc' \in [Process -> Location] /\ exit' \in [Process -> {0, 1, 2, 3, 9}]
  <2>1. /\ pc \in [Process -> Location] /\ exit \in [Process -> {0, 1, 2, 3, 9}]
        /\ "exited" \in Location /\ code \in {0, 1, 2, 3, 9}
    BY <1>1, <1>2 DEF TypeOK, Location
  <2>2. exit'[p] = code /\ \A q \in Process : q # p => exit'[q] = exit[q]
    BY <1>2, <2>1
  <2>3. pc'[p] = "exited" /\ \A q \in Process : q # p => pc'[q] = pc[q]
    BY <1>2, <2>1
  <2>4. pc' \in [Process -> Location]
    BY <1>2, <2>1
  <2>5. exit' \in [Process -> {0, 1, 2, 3, 9}]
    BY <1>2, <2>1
  <2> QED
    BY <2>2, <2>3, <2>4, <2>5
<1>4. /\ stdout' \in [Process -> BOOLEAN] /\ shown' \in [Process -> SUBSET Nat]
      /\ \A q \in Process : q # p => stdout'[q] = stdout[q] /\ shown'[q] = shown[q]
  <2>1. /\ stdout \in [Process -> BOOLEAN] /\ shown \in [Process -> SUBSET Nat]
        /\ made[p] \in SUBSET Nat
    BY <1>1 DEF TypeOK
  <2>2. /\ stdout' = stdout \/ \E works \in BOOLEAN : stdout' = [stdout EXCEPT ![p] = works]
        /\ shown' = shown \/ shown' = [shown EXCEPT ![p] = made[p]]
    BY DEF Report
  <2>3. stdout' \in [Process -> BOOLEAN] /\ \A q \in Process : q # p => stdout'[q] = stdout[q]
    BY <2>1, <2>2
  <2> QED
    BY <2>1, <2>2, <2>3
<1>5. ASSUME NEW s \in Calls(p), Asked(p, s) = "read" PROVE effects[p] = 0
  <2>1. Asked(p, 1) = "read"
    BY <1>1, <1>5
  <2> QED
    BY <1>1, <2>1 DEF Proper, EffectOK
<1>6. ASSUME NEW s \in Calls(p), reply[p][s] \in Refusal PROVE effects[p] = 0
  BY <1>1, <1>6 DEF Proper, EffectOK, Refusal
<1>7. ASSUME NEW s \in {1, 2}
      PROVE  /\ ErrorOf(p, s) \in Seq(FailureMark)
             /\ ErrorOf(p, s) = Nil <=> ~(s \in Calls(p) /\ Failed(p, s))
             /\ (\E i \in DOMAIN ErrorOf(p, s) : ErrorOf(p, s)[i] = "auth") =>
                  s \in Calls(p) /\ call[p][s] \in {"auth", "mention"}
             /\ s \in Calls(p) /\ call[p][s] = "auth" /\ Runs(p).via = "Unary" =>
                  ErrorOf(p, s) # Nil /\ ErrorOf(p, s)[1] = "auth"
  BY <1>1, ErrorOfCall
<1>8. /\ Joined(p) = Nil <=> ErrorOf(p, 1) = Nil /\ ErrorOf(p, 2) = Nil
      /\ Joined(p) # Nil => code \in {2, 3}
      /\ Joined(p) # Nil /\ code = 3 =>
           \/ \E i \in DOMAIN ErrorOf(p, 1) : ErrorOf(p, 1)[i] = "auth"
           \/ \E i \in DOMAIN ErrorOf(p, 2) : ErrorOf(p, 2)[i] = "auth"
      /\ ErrorOf(p, 1) # Nil /\ ErrorOf(p, 1)[1] = "auth" => code = 3
  <2>1. ErrorOf(p, 1) \in Seq(FailureMark) /\ ErrorOf(p, 2) \in Seq(FailureMark)
    BY <1>7
  <2>2. Joined(p) = Join(ErrorOf(p, 1), ErrorOf(p, 2))
    BY DEF Joined
  <2>3. /\ Joined(p) = Nil <=> ErrorOf(p, 1) = Nil /\ ErrorOf(p, 2) = Nil
        /\ Joined(p) # Nil => ExitCode(Joined(p)) \in {2, 3}
        /\ Joined(p) # Nil /\ ExitCode(Joined(p)) = 3 =>
             \/ \E i \in DOMAIN ErrorOf(p, 1) : ErrorOf(p, 1)[i] = "auth"
             \/ \E i \in DOMAIN ErrorOf(p, 2) : ErrorOf(p, 2)[i] = "auth"
        /\ ErrorOf(p, 1) # Nil /\ ErrorOf(p, 1)[1] = "auth" => ExitCode(Joined(p)) = 3
    BY <2>1, <2>2, JoinedCode
  <2> QED
    BY <1>2, <2>3
<1>9. ExitOK(p)'
  <2>1. CASE Joined(p) # Nil
    <3>1. code \in {2, 3}
      BY <1>8, <2>1
    <3>2. code = 3 => \E s \in Calls(p) : reply[p][s] \in {"auth", "mention"}
      <4> SUFFICES ASSUME code = 3 PROVE \E s \in Calls(p) : reply[p][s] \in {"auth", "mention"}
        OBVIOUS
      <4>1. PICK s \in {1, 2} : s \in Calls(p) /\ call[p][s] \in {"auth", "mention"}
        <5>1. \/ \E i \in DOMAIN ErrorOf(p, 1) : ErrorOf(p, 1)[i] = "auth"
              \/ \E i \in DOMAIN ErrorOf(p, 2) : ErrorOf(p, 2)[i] = "auth"
          BY <1>8, <2>1
        <5> QED
          BY <1>7, <5>1
      <4> QED
        BY <1>1, <4>1 DEF CallOK, Refusal
    <3>3. code = 2 => \/ effects[p] = 0
                      \/ \E s \in Calls(p) : call[p][s] \in {"network", "aborted", "decode", "odd"}
      <4>1. PICK s \in {1, 2} : s \in Calls(p) /\ Failed(p, s)
        BY <1>7, <1>8, <2>1
      <4>2. call[p][s] \in Refusal \/ call[p][s] \in {"network", "aborted", "decode"}
        BY <4>1, States DEF Failed, Refusal
      <4>3. CASE call[p][s] \in Refusal
        BY <1>1, <1>6, <4>1, <4>3 DEF CallOK
      <4> QED
        BY <4>1, <4>2, <4>3
    <3>4. call[p][1] = "auth" /\ Runs(p).via = "Unary" => code = 3
      BY <1>1, <1>7, <1>8
    <3> QED
      BY <1>1, <1>3, <3>1, <3>2, <3>3, <3>4 DEF ExitOK, service
  <2>2. CASE Joined(p) = Nil
    <3>1. ASSUME NEW s \in Calls(p) PROVE ~Failed(p, s)
      <4>1. ErrorOf(p, 1) = Nil /\ ErrorOf(p, 2) = Nil
        BY <1>8, <2>2
      <4> QED
        BY <1>1, <1>7, <4>1
    <3>2. ASSUME NEW s \in Calls(p) PROVE call[p][s] \in Decoded /\ reply[p][s] = "done"
      <4>1. call[p][s] # "sent" /\ call[p][s] # "none"
        BY <1>1, <3>1 DEF Finished
      <4>2. call[p][s] \in Decoded
        BY <1>1, <3>1, <4>1, States DEF Failed
      <4> QED
        BY <1>1, <4>2 DEF CallOK
    <3>3. PICK works \in BOOLEAN :
            /\ stdout' = [stdout EXCEPT ![p] = works]
            /\ code = ExitCode(RenderError(p, works))
            /\ shown' = IF works /\ Got(p, "whole")
                        THEN [shown EXCEPT ![p] = made[p]] ELSE shown
      <4>1. PICK works \in BOOLEAN :
              /\ stdout' = [stdout EXCEPT ![p] = works]
              /\ Exit(p, RenderError(p, works))
              /\ shown' = IF works /\ Got(p, "whole")
                          THEN [shown EXCEPT ![p] = made[p]] ELSE shown
        BY <2>2 DEF Report
      <4>2. exit'[p] = ExitCode(RenderError(p, works))
        BY <1>1, <4>1 DEF Exit, TypeOK
      <4> QED
        BY <1>3, <4>1, <4>2
    <3>4. stdout'[p] = works /\ (works /\ Got(p, "whole") => shown'[p] = made[p])
      BY <1>1, <3>3 DEF TypeOK
    <3>5. RenderError(p, works) \in {Nil, <<"plain">>, <<"usage">>} /\ code \in {0, 1, 2}
      BY <3>3, Codes DEF RenderError
    <3>6. code = 0 => /\ ~OnSparse(p, "fail")
                      /\ made[p] \subseteq shown'[p] \/ ~stdout'[p] \/ Got(p, "sparse")
      <4> SUFFICES ASSUME code = 0
                   PROVE  /\ ~OnSparse(p, "fail")
                          /\ made[p] \subseteq shown'[p] \/ ~stdout'[p] \/ Got(p, "sparse")
        OBVIOUS
      <4>1. RenderError(p, works) = Nil
        BY <3>3, <3>5, Codes
      <4>2. ~OnSparse(p, "fail")
        BY <4>1 DEF RenderError, Nil
      <4>3. ASSUME Asked(p, 1) \in OfKeys PROVE call[p][1] \in {"whole", "sparse"}
        <5>1. Runs(p).view = "none"
          BY <1>1, <4>3 DEF Proper, Regular, Asked
        <5> QED
          BY <1>1, <3>2, <5>1, States DEF CallOK
      <4>4. made[p] # {} => Got(p, "whole") \/ Got(p, "sparse")
        BY <1>1, <4>3 DEF Proper, EffectOK, Got
      <4> QED
        BY <3>4, <4>2, <4>4
    <3>7. code = 1 => OnSparse(p, "usage")
      BY <3>3, <3>5, Codes DEF RenderError
    <3>8. code = 2 => \/ effects[p] = 0
                      \/ \E s \in Calls(p) : call[p][s] = "odd"
                      \/ ~stdout'[p]
      <4> SUFFICES ASSUME code = 2, stdout'[p]
                   PROVE  effects[p] = 0 \/ \E s \in Calls(p) : call[p][s] = "odd"
        OBVIOUS
      <4>1. RenderError(p, works) = <<"plain">>
        BY <3>3, <3>5, Codes
      <4>2. Got(p, "odd") \/ OnSparse(p, "fail")
        BY <3>4, <4>1 DEF RenderError, Nil
      <4>3. ASSUME OnSparse(p, "fail") PROVE effects[p] = 0
        <5>1. PICK s \in Calls(p) : Runs(p).calls[s].sparse = "fail"
          BY <4>3 DEF OnSparse
        <5>2. Asked(p, s) = "read"
          BY <1>1, <5>1 DEF Proper, Regular, Asked, Calls
        <5> QED
          BY <1>5, <5>2
      <4> QED
        BY <4>2, <4>3 DEF Got
    <3>9. ~(call[p][1] = "auth")
      BY <1>1, <3>2, States
    <3>10. \A what \in {"fail", "usage"} : OnSparse(p, what)' <=> OnSparse(p, what)
      BY <1>1 DEF OnSparse
    <3> QED
      BY <1>1, <1>3, <3>2, <3>5, <3>6, <3>7, <3>8, <3>9, <3>10 DEF ExitOK, Got, service
  <2> QED
    BY <2>1, <2>2
<1>10. TypeOK'
  BY <1>1, <1>3, <1>4 DEF TypeOK, service, login
<1>11. TokensKnown'
  BY <1>1 DEF TokensKnown, Known, service, login
<1>12. Proper(p)'
  <2>1. ASSUME NEW s \in Slot PROVE CallOK(p, s)' /\ DeadToken(p, s)'
    <3>1. CallOK(p, s) /\ DeadToken(p, s)
      BY <1>1 DEF Proper
    <3>2. call[p][s] # "sent"
      BY <1>1, <3>1 DEF Finished, CallOK
    <3> QED
      BY <1>1, <1>3, <3>1, <3>2 DEF CallOK, DeadToken, service
  <2>2. EffectOK(p)' /\ RootOK(p)'
    BY <1>1 DEF Proper, EffectOK, RootOK, Asked, Failed, service
  <2> QED
    BY <1>1, <1>9, <2>1, <2>2 DEF Proper
<1>13. ASSUME NEW q \in Process, q # p PROVE Proper(q)'
  <2>1. State(q)' = State(q) /\ live' = live
    BY <1>1, <1>3, <1>4, <1>13 DEF State, service
  <2> QED
    BY <2>1, Others
<1> QED
  BY <1>10, <1>11, <1>12, <1>13 DEF Inv

-----------------------------------------------------------------------------
(* The service.                                                            *)

\* Whatever the service says of a request that is not about its token is no
\* reason to log in again.
LEMMA Refusals ==
  /\ TokenRefusals \subseteq Refusal
  /\ OtherRefusals \subseteq {"rpc"}
<1>1. ASSUME NEW http \in Http, NEW body \in ErrorBody
      PROVE  UnaryRefusal(http, body) \in Refusal
  BY DEF UnaryRefusal, Refusal
<1>2. ASSUME NEW http \in Http, NEW body \in ErrorBody, ~IsAboutToken(http, body)
      PROVE  UnaryRefusal(http, body) = "rpc"
  <2> DEFINE error == ParseErrorBody(http, body)
  <2>1. http # 401 /\ body.code \notin Word /\ body.status \notin Word /\ ~body.says
    BY <1>2 DEF IsAboutToken
  <2>2. error.http # 401 /\ error.code \notin Word /\ ~error.says
    BY <2>1 DEF ParseErrorBody, Word
  <2> HIDE DEF error
  <2>3. ~IsAuthError(error) /\ ~Mentions(error)
    BY <2>2 DEF IsAuthError, Mentions, Word
  <2> QED
    BY <2>3 DEF UnaryRefusal, error
<1> QED
  BY <1>1, <1>2 DEF TokenRefusals, OtherRefusals, RefusalsFor

\* A request is answered: refused, or done with at most one change.
Served(p, s, r) ==
  \/ r \in Refusal /\ UNCHANGED <<made, effects>>
  \/ /\ r = "done"
     /\ \E n \in {0, 1} : /\ effects' = [effects EXCEPT ![p] = @ + n]
                          /\ Asked(p, s) = "read" => n = 0
                          /\ Asked(p, s) \in Mutating => n = 1
     /\ \/ made' = made
        \/ /\ Asked(p, s) \in OfKeys
           /\ \E k \in Nat : made' = [made EXCEPT ![p] = @ \union {k}]

LEMMA ServiceMoves ==
  ASSUME Inv, NEW p \in Process, NEW s \in Slot, Pending(p, s),
         UNCHANGED <<login, process>>, faults' \in Nat,
         NEW r \in {"done"} \union Refusal, reply' = [reply EXCEPT ![p][s] = r],
         r \in {"auth", "mention"} => sent[p][s] \cap live = {},
         Served(p, s, r),
         keys' \in Seq([org : Org, owner : Nat]), DOMAIN keys \subseteq DOMAIN keys',
         live' \subseteq DOMAIN keys', live' \cap Known \subseteq live,
         accounts' \in Seq(Org), deleted' \subseteq Nat
  PROVE  Inv'
<1>1. /\ TypeOK /\ TokensKnown /\ Proper(p) /\ CallOK(p, s)
      /\ UNCHANGED <<stored, logins, pc, cmd, resolved, sent, call, interrupted, stdout, shown, exit>>
      /\ Calls(p)' = Calls(p) /\ Runs(p)' = Runs(p)
  BY DEF Inv, Proper, login, process, Calls, Runs
<1>2. /\ s \in Calls(p) /\ pc[p] \in {"wait", "exited"} /\ reply[p][s] = "none"
      /\ sent[p][s] # {} /\ call[p][s] \in {"sent", "network", "aborted"}
  BY <1>1, States DEF Pending, CallOK, Refusal, TypeOK
<1>3. s = 2 => Asked(p, 1) = "read" /\ Asked(p, s) = "read"
  BY <1>1, <1>2 DEF Proper, Regular, Asked, Calls
<1>4. /\ reply'[p][s] = r
      /\ \A t \in Slot : t # s => reply'[p][t] = reply[p][t]
      /\ \A q \in Process : q # p => reply'[q] = reply[q]
      /\ reply' \in [Process -> [Slot -> {"none", "done"} \union UnaryFailure]]
  <2>1. /\ reply \in [Process -> [Slot -> {"none", "done"} \union UnaryFailure]]
        /\ r \in {"none", "done"} \union UnaryFailure
    BY <1>1 DEF TypeOK, Refusal, UnaryFailure
  <2>2. /\ reply'[p] = [reply[p] EXCEPT ![s] = r]
        /\ reply[p] \in [Slot -> {"none", "done"} \union UnaryFailure]
        /\ \A q \in Process : q # p => reply'[q] = reply[q]
    BY <2>1
  <2>3. reply'[p] \in [Slot -> {"none", "done"} \union UnaryFailure]
    BY <2>1, <2>2
  <2>4. reply'[p][s] = r /\ \A t \in Slot : t # s => reply'[p][t] = reply[p][t]
    BY <2>2
  <2> QED
    BY <2>1, <2>2, <2>3, <2>4
<1>5. /\ \A q \in Process : q # p => made'[q] = made[q] /\ effects'[q] = effects[q]
      /\ made' \in [Process -> SUBSET Nat] /\ effects' \in [Process -> Nat]
      /\ r \in Refusal => made'[p] = made[p] /\ effects'[p] = effects[p]
      /\ r = "done" => \E n \in {0, 1} : /\ effects'[p] = effects[p] + n
                                         /\ Asked(p, s) = "read" => n = 0
                                         /\ Asked(p, s) \in Mutating => n = 1
      /\ Asked(p, s) \notin OfKeys => made'[p] = made[p]
  <2>1. made \in [Process -> SUBSET Nat] /\ effects \in [Process -> Nat]
    BY <1>1 DEF TypeOK
  <2>2. "done" \notin Refusal
    BY DEF Refusal
  <2>3. CASE r \in Refusal
    BY <2>1, <2>2, <2>3 DEF Served
  <2>4. CASE r = "done"
    <3>1. /\ \A q \in Process : q # p => effects'[q] = effects[q]
          /\ effects' \in [Process -> Nat]
          /\ \E n \in {0, 1} : /\ effects'[p] = effects[p] + n
                               /\ Asked(p, s) = "read" => n = 0
                               /\ Asked(p, s) \in Mutating => n = 1
      <4>1. PICK n \in {0, 1} : /\ effects' = [effects EXCEPT ![p] = @ + n]
                                /\ Asked(p, s) = "read" => n = 0
                                /\ Asked(p, s) \in Mutating => n = 1
        BY <2>2, <2>4 DEF Served
      <4>2. effects[p] + n \in Nat
        BY <2>1
      <4>3. /\ effects'[p] = effects[p] + n
            /\ \A q \in Process : q # p => effects'[q] = effects[q]
        BY <2>1, <4>1
      <4>4. effects' \in [Process -> Nat]
        BY <2>1, <4>1, <4>2
      <4> QED
        BY <4>1, <4>3, <4>4
    <3>2. /\ \A q \in Process : q # p => made'[q] = made[q]
          /\ made' \in [Process -> SUBSET Nat]
          /\ Asked(p, s) \notin OfKeys => made'[p] = made[p]
      BY <2>1, <2>2, <2>4 DEF Served
    <3> QED
      BY <2>2, <2>4, <3>1, <3>2
  <2> QED
    BY <2>3, <2>4
<1>6. TypeOK'
  BY <1>1, <1>4, <1>5 DEF TypeOK
<1>7. TokensKnown'
  BY <1>1 DEF TokensKnown, Known
<1>8. EffectOK(p)'
  <2>1. EffectOK(p)
    BY <1>1 DEF Proper
  <2>2. CASE s = 1
    <3>1. effects[p] = 0 /\ made[p] = {}
      BY <1>2, <2>1, <2>2 DEF EffectOK
    <3>2. Asked(p, 1)' = Asked(p, 1)
      BY <1>1 DEF Asked
    <3>3. "done" \notin Refusal
      BY DEF Refusal
    <3>4. r = "done" => \/ effects'[p] = 0 /\ Asked(p, s) \notin Mutating
                        \/ effects'[p] = 1 /\ Asked(p, s) # "read"
      BY <1>5, <3>1
    <3>5. r # "done" => effects'[p] = 0 /\ made'[p] = {}
      BY <1>5, <3>1
    <3>6. Asked(p, 1) \notin OfKeys => made'[p] = {}
      BY <1>5, <2>2, <3>1
    <3>7. Asked(p, 1) = "read" => Asked(p, 1) \notin Mutating
      BY DEF Mutating
    <3> QED
      BY <1>4, <2>2, <3>2, <3>4, <3>5, <3>6, <3>7 DEF EffectOK
  <2>3. CASE s = 2
    <3>1. effects'[p] = effects[p] /\ made'[p] = made[p]
      <4>1. "read" \notin OfKeys /\ effects[p] \in {0, 1}
        BY <2>1 DEF OfKeys, EffectOK
      <4> QED
        BY <1>3, <1>5, <2>3, <4>1
    <3>2. reply'[p][1] = reply[p][1] /\ Asked(p, 1)' = Asked(p, 1)
      BY <1>1, <1>4, <2>3 DEF Slot, Asked
    <3> QED
      BY <2>1, <3>1, <3>2 DEF EffectOK
  <2> QED
    BY <2>2, <2>3 DEF Slot
<1>9. ExitOK(p)'
  <2>1. ExitOK(p) /\ exit'[p] = exit[p] /\ exit[p] # 0
    BY <1>1, <1>2 DEF Proper, ExitOK
  <2>2. \A what \in {"fail", "usage"} : OnSparse(p, what)' <=> OnSparse(p, what)
    BY <1>1 DEF OnSparse
  <2>3. exit[p] = 3 => \E t \in Calls(p)' : reply'[p][t] \in {"auth", "mention"}
    <3> SUFFICES ASSUME exit[p] = 3
                 PROVE  \E t \in Calls(p)' : reply'[p][t] \in {"auth", "mention"}
      OBVIOUS
    <3>1. PICK t \in Calls(p) : reply[p][t] \in {"auth", "mention"}
      BY <2>1 DEF ExitOK
    <3>2. t \in Slot
      BY <1>1, SlotsOfCalls DEF Proper
    <3> QED
      BY <1>1, <1>2, <1>4, <3>1, <3>2
  <2>4. exit[p] = 2 => \E t \in Calls(p)' : call'[p][t] \in {"network", "aborted", "decode", "odd"}
    <3>1. exit[p] = 2 => call[p][s] # "sent"
      BY <1>1, <2>1 DEF ExitOK, CallOK
    <3> QED
      BY <1>1, <1>2, <3>1
  <2>5. exit[p] = 1 => OnSparse(p, "usage")
    BY <1>2, <2>1 DEF ExitOK
  <2> QED
    BY <1>1, <2>1, <2>2, <2>3, <2>4, <2>5 DEF ExitOK
<1>10. Proper(p)'
  <2>1. ASSUME NEW t \in Slot PROVE CallOK(p, t)' /\ DeadToken(p, t)'
    <3>1. CallOK(p, t) /\ DeadToken(p, t) /\ resolved[p] \in Known
      BY <1>1 DEF Proper, TokensKnown
    <3>2. CASE t = s
      <4>1. CallOK(p, s)'
        BY <1>1, <1>2, <1>4, States DEF CallOK, Refusal
      <4>2. DeadToken(p, s)'
        BY <1>1, <1>4, <3>1, <3>2 DEF DeadToken, CallOK
      <4> QED
        BY <3>2, <4>1, <4>2
    <3>3. CASE t # s
      <4>1. reply'[p][t] = reply[p][t]
        BY <1>4, <3>3
      <4>2. CallOK(p, t)'
        BY <1>1, <3>1, <4>1 DEF CallOK
      <4>3. DeadToken(p, t)'
        BY <1>1, <3>1, <4>1 DEF DeadToken, CallOK
      <4> QED
        BY <4>2, <4>3
    <3> QED
      BY <3>2, <3>3
  <2>2. RootOK(p)'
    BY <1>1 DEF Proper, RootOK, Failed
  <2> QED
    BY <1>1, <1>8, <1>9, <2>1, <2>2 DEF Proper
<1>11. ASSUME NEW q \in Process, q # p PROVE Proper(q)'
  <2>1. State(q)' = State(q)
    BY <1>1, <1>4, <1>5, <1>11 DEF State
  <2> QED
    BY <2>1, Others
<1> QED
  BY <1>6, <1>7, <1>10, <1>11 DEF Inv

LEMMA InSeq ==
  ASSUME NEW S, NEW q \in Seq(S)
  PROVE  /\ \A k \in DOMAIN q : q[k] \in S
         /\ \A e \in S : Append(q, e) \in Seq(S)
OBVIOUS

LEMMA AtService ==
  ASSUME Inv
  PROVE  /\ keys \in Seq([org : Org, owner : Nat]) /\ live \subseteq DOMAIN keys
         /\ accounts \in Seq(Org) /\ deleted \subseteq Nat /\ faults \in Nat
         /\ Fault => faults' \in Nat
         /\ \A p \in Process : cmd[p].target \in Nat
         /\ \A k \in DOMAIN keys : keys[k] \in [org : Org, owner : Nat]
<1>1. TypeOK
  BY DEF Inv
<1>2. ASSUME NEW p \in Process PROVE cmd[p].target \in Nat
  <2>1. cmd[p] \in Command
    BY <1>1 DEF TypeOK
  <2> QED
    BY <2>1 DEF Command
<1>3. /\ keys \in Seq([org : Org, owner : Nat]) /\ live \subseteq DOMAIN keys
      /\ accounts \in Seq(Org) /\ deleted \subseteq Nat /\ faults \in Nat
  BY <1>1 DEF TypeOK
<1>4. \A k \in DOMAIN keys : keys[k] \in [org : Org, owner : Nat]
  BY <1>3, InSeq
<1>5. Fault => faults' \in Nat
  BY <1>3 DEF Fault
<1> QED
  BY <1>2, <1>3, <1>4, <1>5

LEMMA DeclineStep ==
  ASSUME Inv, NEW p \in Process, NEW s \in Slot, Pending(p, s), Decline(p, s), faults' \in Nat
  PROVE  Inv'
<1>1. /\ reply' = [reply EXCEPT ![p][s] = "rpc"]
      /\ UNCHANGED <<login, process>> /\ UNCHANGED service
  BY Refusals DEF Decline, Answers
<1>2. Served(p, s, "rpc") /\ "rpc" \in {"done"} \union Refusal
  BY <1>1 DEF Served, Refusal, service
<1>3. /\ keys' \in Seq([org : Org, owner : Nat]) /\ DOMAIN keys \subseteq DOMAIN keys'
      /\ live' \subseteq DOMAIN keys' /\ live' \cap Known \subseteq live
      /\ accounts' \in Seq(Org) /\ deleted' \subseteq Nat
  BY <1>1, AtService DEF service
<1> QED
  BY <1>1, <1>2, <1>3, ServiceMoves

LEMMA RefuseTokenStep ==
  ASSUME Inv, NEW p \in Process, NEW s \in Slot, RefuseToken(p, s) PROVE Inv'
<1>1. PICK r \in Refusal : reply' = [reply EXCEPT ![p][s] = r]
  BY Refusals DEF RefuseToken, Answers
<1>2. /\ UNCHANGED <<login, process>> /\ UNCHANGED <<service, faults>>
      /\ Pending(p, s) /\ Bearer(p, s) \notin live
  BY DEF RefuseToken, Answers
<1>3. sent[p][s] \cap live = {}
  <2>1. sent[p][s] = {resolved[p]}
    BY <1>2 DEF Inv, Proper, CallOK, Pending
  <2>2. Bearer(p, s) = resolved[p]
    BY <2>1 DEF Bearer
  <2> QED
    BY <1>2, <2>1, <2>2
<1>4. Served(p, s, r) /\ r \in {"done"} \union Refusal /\ faults' \in Nat
  BY <1>1, <1>2, AtService DEF Served, service
<1>5. /\ keys' \in Seq([org : Org, owner : Nat]) /\ DOMAIN keys \subseteq DOMAIN keys'
      /\ live' \subseteq DOMAIN keys' /\ live' \cap Known \subseteq live
      /\ accounts' \in Seq(Org) /\ deleted' \subseteq Nat
  BY <1>2, AtService DEF service
<1> QED
  BY <1>1, <1>2, <1>3, <1>4, <1>5, ServiceMoves

LEMMA ServiceFailsStep ==
  ASSUME Inv, NEW p \in Process, NEW s \in Slot, ServiceFails(p, s) PROVE Inv'
BY AtService, DeclineStep DEF ServiceFails

\* The work is done.
LEMMA DoneStep ==
  ASSUME Inv, NEW p \in Process, NEW s \in Slot, Pending(p, s), Answers(p, s, "done"),
         faults' = faults, NEW n \in {0, 1}, Counts(p, n),
         Asked(p, s) = "read" => n = 0, Asked(p, s) \in Mutating => n = 1,
         \/ made' = made
         \/ Asked(p, s) \in OfKeys /\ \E k \in Nat : made' = [made EXCEPT ![p] = @ \union {k}],
         keys' \in Seq([org : Org, owner : Nat]), DOMAIN keys \subseteq DOMAIN keys',
         live' \subseteq DOMAIN keys', live' \cap Known \subseteq live,
         accounts' \in Seq(Org), deleted' \subseteq Nat
  PROVE  Inv'
<1>1. Served(p, s, "done") /\ "done" \in {"done"} \union Refusal /\ faults' \in Nat
  BY AtService DEF Served, Counts
<1>2. reply' = [reply EXCEPT ![p][s] = "done"] /\ UNCHANGED <<login, process>>
  BY DEF Answers
<1> QED
  BY <1>1, <1>2, ServiceMoves

LEMMA ServeOtherStep ==
  ASSUME Inv, NEW p \in Process, NEW s \in Slot, ServeOther(p, s) PROVE Inv'
<1>1. /\ Pending(p, s) /\ Asked(p, s) \in {"read", "write", "any"} /\ Answers(p, s, "done")
      /\ UNCHANGED <<keys, live, accounts, deleted, made, faults>>
  BY DEF ServeOther, Admitted
<1>2. PICK n \in {0, 1} : /\ Asked(p, s) = "read" => n = 0
                          /\ Asked(p, s) = "write" => n = 1
                          /\ Counts(p, n)
  BY DEF ServeOther
<1>3. Asked(p, s) \in Mutating => n = 1
  BY <1>1, <1>2 DEF Mutating
<1>4. /\ keys' \in Seq([org : Org, owner : Nat]) /\ DOMAIN keys \subseteq DOMAIN keys'
      /\ live' \subseteq DOMAIN keys' /\ live' \cap Known \subseteq live
      /\ accounts' \in Seq(Org) /\ deleted' \subseteq Nat
      /\ made' = made /\ faults' = faults
  BY <1>1, AtService
<1>5. Served(p, s, "done") /\ "done" \in {"done"} \union Refusal
  BY <1>1, <1>2, <1>3, <1>4 DEF Served, Counts
<1>6. faults' \in Nat /\ Pending(p, s)
  BY <1>1, AtService
<1>7. reply' = [reply EXCEPT ![p][s] = "done"] /\ UNCHANGED <<login, process>>
  BY <1>1 DEF Answers
<1> QED
  BY <1>4, <1>5, <1>6, <1>7, ServiceMoves

LEMMA Minting ==
  ASSUME Inv, NEW p \in Process, NEW org \in Org, NEW owner \in Nat, NEW old,
         Mint(p, org, owner, old)
  PROVE  /\ keys' \in Seq([org : Org, owner : Nat]) /\ DOMAIN keys \subseteq DOMAIN keys'
         /\ live' \subseteq DOMAIN keys' /\ live' \cap Known \subseteq live
         /\ \E k \in Nat : made' = [made EXCEPT ![p] = @ \union {k}]
         /\ Counts(p, 1) /\ UNCHANGED <<accounts, deleted>>
<1>1. /\ keys' = Append(keys, [org |-> org, owner |-> owner])
      /\ live' = (live \ old) \union {Len(keys) + 1}
      /\ made' = [made EXCEPT ![p] = @ \union {Len(keys) + 1}]
      /\ Counts(p, 1) /\ UNCHANGED <<accounts, deleted>>
  BY DEF Mint
<1>2. /\ keys \in Seq([org : Org, owner : Nat]) /\ live \subseteq DOMAIN keys
      /\ [org |-> org, owner |-> owner] \in [org : Org, owner : Nat]
  BY AtService
<1>3. /\ DOMAIN keys = 1 .. Len(keys) /\ Len(keys) \in Nat
      /\ keys' \in Seq([org : Org, owner : Nat]) /\ DOMAIN keys' = 1 .. Len(keys) + 1
  BY <1>1, <1>2
<1>4. \E k \in Nat : made' = [made EXCEPT ![p] = @ \union {k}]
  <2>1. Len(keys) + 1 \in Nat
    BY <1>3
  <2> QED
    BY <1>1, <2>1
<1>5. DOMAIN keys \subseteq DOMAIN keys' /\ live' \subseteq DOMAIN keys'
  <2>1. Len(keys) + 1 \in DOMAIN keys'
    BY <1>3
  <2>2. DOMAIN keys \subseteq DOMAIN keys'
    BY <1>3
  <2> QED
    BY <1>1, <1>2, <2>1, <2>2
<1>6. live' \cap Known \subseteq live
  <2>1. Len(keys) + 1 \notin Known
    BY <1>3 DEF Known, NoToken
  <2> QED
    BY <1>1, <2>1
<1> QED
  BY <1>1, <1>3, <1>4, <1>5, <1>6

LEMMA AdmittedKey ==
  ASSUME Inv, NEW p \in Process, NEW s \in Slot, NEW request, Admitted(p, s, request)
  PROVE  /\ Pending(p, s) /\ Asked(p, s) = request
         /\ Home(p, s) \in Org /\ keys[Bearer(p, s)].owner \in Nat
<1>1. keys[Bearer(p, s)] \in [org : Org, owner : Nat]
  BY AtService DEF Admitted
<1> QED
  BY <1>1 DEF Admitted, Home

LEMMA ServeCreateKeyStep ==
  ASSUME Inv, NEW p \in Process, NEW s \in Slot, ServeCreateKey(p, s) PROVE Inv'
<1>1. /\ Pending(p, s) /\ Asked(p, s) = "create key" /\ faults' = faults
      /\ Home(p, s) \in Org /\ keys[Bearer(p, s)].owner \in Nat /\ cmd[p].target \in Nat
  BY AdmittedKey, AtService DEF ServeCreateKey
<1>2. CASE Decline(p, s)
  BY <1>1, <1>2, AtService, DeclineStep
<1>3. CASE \E owner \in Nat : Mint(p, Home(p, s), owner, {}) /\ Answers(p, s, "done")
  <2>1. PICK owner \in Nat : Mint(p, Home(p, s), owner, {}) /\ Answers(p, s, "done")
    BY <1>3
  <2>2. /\ keys' \in Seq([org : Org, owner : Nat]) /\ DOMAIN keys \subseteq DOMAIN keys'
        /\ live' \subseteq DOMAIN keys' /\ live' \cap Known \subseteq live
        /\ \E k \in Nat : made' = [made EXCEPT ![p] = @ \union {k}]
        /\ Counts(p, 1) /\ UNCHANGED <<accounts, deleted>>
    BY <1>1, <2>1, Minting
  <2>3. accounts' \in Seq(Org) /\ deleted' \subseteq Nat
    BY <2>2, AtService
  <2>4. Asked(p, s) \in OfKeys /\ Asked(p, s) # "read"
    BY <1>1 DEF OfKeys
  <2> QED
    BY <1>1, <2>1, <2>2, <2>3, <2>4, DoneStep
<1> QED
  BY <1>1, <1>2, <1>3 DEF ServeCreateKey

LEMMA ServeRotateKeyStep ==
  ASSUME Inv, NEW p \in Process, NEW s \in Slot, ServeRotateKey(p, s) PROVE Inv'
<1>1. /\ Pending(p, s) /\ Asked(p, s) = "rotate key" /\ faults' = faults
      /\ Home(p, s) \in Org
  BY AdmittedKey DEF ServeRotateKey
<1>2. CASE Decline(p, s)
  BY <1>1, <1>2, AtService, DeclineStep
<1>3. CASE ~Decline(p, s)
  <2>1. /\ cmd[p].target \in live
        /\ Mint(p, Home(p, s), keys[cmd[p].target].owner, {cmd[p].target})
        /\ Answers(p, s, "done")
    BY <1>3 DEF ServeRotateKey
  <2>2. keys[cmd[p].target].owner \in Nat
    BY <2>1, AtService
  <2>3. /\ keys' \in Seq([org : Org, owner : Nat]) /\ DOMAIN keys \subseteq DOMAIN keys'
        /\ live' \subseteq DOMAIN keys' /\ live' \cap Known \subseteq live
        /\ \E k \in Nat : made' = [made EXCEPT ![p] = @ \union {k}]
        /\ Counts(p, 1) /\ UNCHANGED <<accounts, deleted>>
    BY <1>1, <2>1, <2>2, Minting
  <2>4. accounts' \in Seq(Org) /\ deleted' \subseteq Nat
    BY <2>3, AtService
  <2>5. Asked(p, s) \in OfKeys /\ Asked(p, s) # "read"
    BY <1>1 DEF OfKeys
  <2> QED
    BY <1>1, <2>1, <2>3, <2>4, <2>5, DoneStep
<1> QED
  BY <1>2, <1>3

LEMMA ServeRevokeKeyStep ==
  ASSUME Inv, NEW p \in Process, NEW s \in Slot, ServeRevokeKey(p, s) PROVE Inv'
<1>1. /\ Pending(p, s) /\ Asked(p, s) = "revoke key" /\ faults' = faults
  BY AdmittedKey DEF ServeRevokeKey
<1>2. CASE Decline(p, s)
  BY <1>1, <1>2, AtService, DeclineStep
<1>3. CASE ~Decline(p, s)
  <2>1. /\ live' = live \ {cmd[p].target}
        /\ Counts(p, 1) /\ Answers(p, s, "done")
        /\ UNCHANGED <<keys, accounts, deleted, made>>
    BY <1>3 DEF ServeRevokeKey
  <2> QED
    BY <1>1, <2>1, AtService, DoneStep
<1> QED
  BY <1>2, <1>3

LEMMA ServeCreateAccountStep ==
  ASSUME Inv, NEW p \in Process, NEW s \in Slot, ServeCreateAccount(p, s) PROVE Inv'
<1>1. /\ Pending(p, s) /\ Asked(p, s) = "create account" /\ faults' = faults
      /\ Home(p, s) \in Org
      /\ accounts' = Append(accounts, Home(p, s))
      /\ Counts(p, 1) /\ Answers(p, s, "done")
      /\ UNCHANGED <<keys, live, deleted, made>>
  BY AdmittedKey DEF ServeCreateAccount
<1>2. accounts' \in Seq(Org)
  <2>1. accounts \in Seq(Org)
    BY AtService
  <2>2. Append(accounts, Home(p, s)) \in Seq(Org)
    BY <1>1, <2>1, InSeq
  <2> QED
    BY <1>1, <2>2
<1>3. /\ keys' \in Seq([org : Org, owner : Nat]) /\ DOMAIN keys \subseteq DOMAIN keys'
      /\ live' \subseteq DOMAIN keys' /\ live' \cap Known \subseteq live
      /\ deleted' \subseteq Nat
  BY <1>1, AtService
<1> QED
  BY <1>1, <1>2, <1>3, DoneStep

LEMMA ServeDeleteAccountStep ==
  ASSUME Inv, NEW p \in Process, NEW s \in Slot, ServeDeleteAccount(p, s) PROVE Inv'
<1>1. /\ Pending(p, s) /\ Asked(p, s) = "delete account" /\ faults' = faults
      /\ cmd[p].target \in Nat
  BY AdmittedKey, AtService DEF ServeDeleteAccount
<1>2. CASE Decline(p, s)
  BY <1>1, <1>2, AtService, DeclineStep
<1>3. CASE ~Decline(p, s)
  <2>1. /\ live' \subseteq live /\ deleted' = deleted \union {cmd[p].target}
        /\ Counts(p, 1) /\ Answers(p, s, "done")
        /\ UNCHANGED <<keys, accounts, made>>
    BY <1>3 DEF ServeDeleteAccount
  <2> QED
    BY <1>1, <2>1, AtService, DoneStep
<1> QED
  BY <1>2, <1>3

-----------------------------------------------------------------------------
(* The theorems.                                                           *)

LEMMA StepInv == Inv /\ [Next]_vars => Inv'
<1> SUFFICES ASSUME Inv, [Next]_vars PROVE Inv'
  OBVIOUS
<1>1. ASSUME NEW p \in Process, Step(p) PROVE Inv'
  BY <1>1, RefuseStep, InvokeStep, ReadStdinStep, InterruptStep, InitConfigStep,
     InitConfigFailsStep, CheckLoggedInStep, ReportStep DEF Step
<1>2. ASSUME NEW p \in Process, NEW s \in Slot, CallStep(p, s) PROVE Inv'
  BY <1>2, SendStep, ReceiveStep, ReceiveRefusalStep, BreakStep, AbortStep DEF CallStep
<1>3. ASSUME NEW p \in Process, NEW s \in Slot, Serve(p, s) PROVE Inv'
  BY <1>3, RefuseTokenStep, ServiceFailsStep, ServeOtherStep, ServeCreateKeyStep,
     ServeRotateKeyStep, ServeRevokeKeyStep, ServeCreateAccountStep, ServeDeleteAccountStep
     DEF Serve
<1>4. CASE UNCHANGED vars
  <2>1. TypeOK' /\ TokensKnown'
    BY <1>4 DEF Inv, TypeOK, TokensKnown, Known, vars, service, login, process
  <2>2. ASSUME NEW q \in Process PROVE Proper(q)'
    <3>1. State(q)' = State(q) /\ live' = live
      BY <1>4 DEF State, vars, service, process
    <3> QED
      BY <3>1, Others
  <2> QED
    BY <2>1, <2>2 DEF Inv
<1> QED
  BY <1>1, <1>2, <1>3, <1>4, LoginStep DEF Next

LEMMA InvHolds == Spec => []Inv
<1>1. Inv /\ [Next]_vars => Inv'
  BY StepInv
<1> QED
  BY <1>1, InitInv, PTL DEF Spec

(* Every variable of the invocations and of the service keeps its type     *)
(* (main.go and the verbs of internal/): in particular a call fails only   *)
(* in one of the six ways that the exit code is derived from.              *)
THEOREM InvocationTypeCorrect == Spec => []TypeOK
<1>1. Inv => TypeOK
  BY DEF Inv
<1> QED
  BY <1>1, InvHolds, PTL

(* lazyState gives all the calls of an invocation one token (main.go:      *)
(* initConfig), whoever logs in meanwhile.                                 *)
THEOREM CallsShareOneIdentity == Spec => []OneIdentity
<1>1. Inv => OneIdentity
  <2> SUFFICES ASSUME Inv, NEW p \in Process
               PROVE  Cardinality(UNION {sent[p][s] : s \in Slot}) <= 1
    BY DEF OneIdentity
  <2> DEFINE all == UNION {sent[p][s] : s \in Slot}
  <2>1. all = {} \/ all = {resolved[p]}
    BY DEF Inv, Proper, CallOK
  <2>2. Cardinality({}) = 0 /\ Cardinality({resolved[p]}) = 1
    BY FS_EmptySet, FS_Singleton
  <2> HIDE DEF all
  <2>3. Cardinality(all) <= 1
    BY <2>1, <2>2
  <2> QED
    BY <2>3 DEF all
<1> QED
  BY <1>1, InvHolds, PTL

(* Behind the joined error of whoami's two calls (whoami.go:53-80) is      *)
(* always one that the command did not bring about itself.                 *)
THEOREM RootCauseIsReported == Spec => []RootCauseReported
<1>1. Inv => RootCauseReported
  BY DEF Inv, Proper, RootOK, RootCauseReported
<1> QED
  BY <1>1, InvHolds, PTL

LEMMA InvImpliesHonest == Inv => ExitCodeIsHonest
<1> SUFFICES ASSUME Inv, NEW p \in Process
             PROVE  /\ exit[p] = 0 /\ pc[p] = "exited" =>
                         (\A s \in Calls(p) : reply[p][s] = "done") /\ ~OnSparse(p, "fail")
                    /\ exit[p] = 1 => (\A s \in Slot : sent[p][s] = {}) \/ OnSparse(p, "usage")
                    /\ exit[p] = 3 => \E s \in Calls(p) : sent[p][s] # {} /\ sent[p][s] \cap live = {}
                    /\ (pc[p] = "exited" /\ call[p][1] = "auth" /\ Calls(p) = {1}
                          /\ Runs(p).via = "Unary") => exit[p] = 3
  BY DEF ExitCodeIsHonest
<1>1. /\ ExitOK(p) /\ Calls(p) \subseteq Slot
      /\ \A s \in Slot : CallOK(p, s) /\ DeadToken(p, s)
  BY SlotsOfCalls DEF Inv, Proper
<1>2. ASSUME exit[p] = 3
      PROVE  \E s \in Calls(p) : sent[p][s] # {} /\ sent[p][s] \cap live = {}
  <2>1. PICK s \in Calls(p) : reply[p][s] \in {"auth", "mention"}
    BY <1>1, <1>2 DEF ExitOK
  <2> QED
    BY <1>1, <2>1 DEF CallOK, DeadToken
<1> QED
  BY <1>1, <1>2 DEF ExitOK

(* The exit code (internal/cli/errors.go) means what scripts take it for,  *)
(* whichever calls fail in whichever order.                                *)
THEOREM ExitCodesAreHonest == Spec => []ExitCodeIsHonest
BY InvHolds, InvImpliesHonest, PTL

LEMMA InvImpliesTold == Inv => EffectIsTold
<1> SUFFICES ASSUME Inv, NEW p \in Process
             PROVE  /\ effects[p] <= 1
                    /\ exit[p] = 0 /\ Asked(p, 1) \notin {"read", "any"} => effects[p] = 1
                    /\ exit[p] \in {1, 3} => effects[p] = 0
                    /\ exit[p] = 2 /\ effects[p] > 0 =>
                         \/ \E s \in Calls(p) :
                              call[p][s] \in {"network", "aborted", "decode", "odd"}
                         \/ ~stdout[p]
  BY DEF EffectIsTold
<1>1. /\ ExitOK(p) /\ EffectOK(p) /\ Regular(Runs(p))
      /\ Calls(p) \subseteq Slot /\ 1 \in Calls(p)
      /\ \A s \in Slot : CallOK(p, s)
  BY SlotsOfCalls DEF Inv, Proper
<1>2. Asked(p, 1) \in Request
  BY <1>1 DEF Regular, Calls, Asked, Call
<1>3. 2 \in Calls(p) => Asked(p, 1) = "read"
  BY <1>1 DEF Regular, Calls, Asked
<1>4. ASSUME exit[p] = 0, Asked(p, 1) \notin {"read", "any"} PROVE effects[p] = 1
  BY <1>1, <1>2, <1>4 DEF ExitOK, EffectOK, Mutating
<1>5. ASSUME exit[p] = 3 PROVE effects[p] = 0
  <2>1. PICK s \in Calls(p) : reply[p][s] \in {"auth", "mention"}
    BY <1>1, <1>5 DEF ExitOK
  <2>2. CASE s = 1
    BY <1>1, <2>1, <2>2 DEF EffectOK
  <2>3. CASE s = 2
    BY <1>1, <1>3, <2>3 DEF EffectOK
  <2> QED
    BY <1>1, <2>2, <2>3 DEF Slot
<1>6. ASSUME exit[p] = 1 PROVE effects[p] = 0
  <2>1. CASE \A s \in Slot : sent[p][s] = {}
    BY <1>1, <2>1 DEF CallOK, EffectOK, Slot
  <2>2. CASE OnSparse(p, "usage")
    <3>1. PICK s \in Calls(p) : Runs(p).calls[s].sparse = "usage"
      BY <2>2 DEF OnSparse
    <3>2. Asked(p, s) = "read"
      BY <1>1, <3>1 DEF Regular, Asked, Calls
    <3>3. Asked(p, 1) = "read"
      BY <1>1, <1>3, <3>2 DEF Slot
    <3> QED
      BY <1>1, <3>3 DEF EffectOK
  <2> QED
    BY <1>1, <1>6, <2>1, <2>2 DEF ExitOK
<1>7. effects[p] <= 1
  BY <1>1 DEF EffectOK
<1> QED
  BY <1>1, <1>4, <1>5, <1>6, <1>7 DEF ExitOK

(* What the exit code tells of a change: made once, not made, or unknown   *)
(* only where the answer is.                                               *)
THEOREM EffectsAreTold == Spec => []EffectIsTold
BY InvHolds, InvImpliesTold, PTL

(* No secret that emitPlaintextToken (keys.go:122-128) should have printed *)
(* is lost in silence, unless standard output is.                          *)
THEOREM SecretsAreShown == Spec => []NoSilentOrphan
<1>1. Inv => NoSilentOrphan
  BY DEF Inv, Proper, ExitOK, NoSilentOrphan
<1> QED
  BY <1>1, InvHolds, PTL
=============================================================================
