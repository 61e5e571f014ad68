----------------------------- MODULE Invocation -----------------------------
(***************************************************************************)
(* Invocations of the verbs of Verbs by several users of one service, the  *)
(* API keys of which they log in with: main.lazyState resolves the         *)
(* configuration once, the verb makes its calls, prints, and exits.        *)
(*                                                                         *)
(* A key is a number; NoToken is the one that is never given out.          *)
(***************************************************************************)
EXTENDS Verbs, FiniteSets

CONSTANTS
  Process,
  Here, There,   \* two organizations
  User,          \* per process: what it may be called with
  LoginTokens,   \* what the profile may be made to hold
  MaxFaults, MaxLogins

NoToken == 0
Person  == 0
Org     == {Here, There}

ASSUME InvocationAssumption ==
  /\ Here # There
  /\ User \in [Process -> [verbs : SUBSET Verbs, targets : SUBSET Nat,
                           json : SUBSET BOOLEAN, env : SUBSET Nat,
                           patient : BOOLEAN]]
  /\ LoginTokens \subseteq Nat
  /\ MaxFaults \in Nat /\ MaxLogins \in Nat

Slot == {1, 2}

\* target is the key or the service account the user names, env ANA_TOKEN.
\* For create key it is --service-account, or Person.
Command == [runs : Program, json : BOOLEAN, target : Nat, env : Nat]

\* Of a call: not made, on its way, the answer as it decoded, or a failure.
Decoded == Answer \ {"junk"}
Failure == UnaryFailure \union {"decode"}
CallState == {"none", "sent"} \union Decoded \union Failure

VARIABLES
  keys,     \* service: each key's organization and owner, in order of creation
  live,     \* service: the keys that are not revoked
  accounts, \* service: the organization of each service account
  deleted,  \* service: the accounts that are deleted
  stored,   \* the token in the profile that the invocations use
  logins,   \* how often somebody has logged in or out
  faults,   \* how many calls have failed for reasons of their own
  pc,
  cmd,
  resolved, \* lazyState.resolved.Token
  sent,     \* the token in the request of each call, in a set
  reply,    \* service: "none", "done", or the refusal it answers with
  call,     \* of each call
  interrupted, \* ctx: Ctrl-C
  stdout,   \* whether standard output could be written to
  shown,    \* the keys whose secrets were printed
  made,     \* service: the keys an invocation has brought about
  effects,  \* service: how many changes an invocation has brought about
  exit      \* the exit code, 9 until there is one

service == <<keys, live, accounts, deleted, made, effects>>
login   == <<stored, logins>>
process == <<pc, cmd, resolved, sent, call, interrupted, stdout, shown, exit>>
vars == <<service, login, faults, reply, process>>

Location == {"idle", "stdin", "start", "check", "wait", "exited"}

NoCommand == [runs |-> Renders("read", "print"), json |-> FALSE, target |-> 0, env |-> NoToken]

\* A person's key and a service account's in one organization, and a person's
\* key in another.
Init ==
  /\ keys = <<[org |-> Here, owner |-> Person], [org |-> Here, owner |-> 1],
              [org |-> There, owner |-> Person]>>
  /\ accounts = <<Here>>
  /\ live = {1, 2, 3} /\ deleted = {}
  /\ stored = 1 /\ logins = 0 /\ faults = 0
  /\ pc = [p \in Process |-> "idle"]
  /\ cmd = [p \in Process |-> NoCommand]
  /\ resolved = [p \in Process |-> NoToken]
  /\ sent = [p \in Process |-> [s \in Slot |-> {}]]
  /\ reply = [p \in Process |-> [s \in Slot |-> "none"]]
  /\ call = [p \in Process |-> [s \in Slot |-> "none"]]
  /\ interrupted = [p \in Process |-> FALSE]
  /\ stdout = [p \in Process |-> TRUE]
  /\ shown = [p \in Process |-> {}]
  /\ made = [p \in Process |-> {}]
  /\ effects = [p \in Process |-> 0]
  /\ exit = [p \in Process |-> 9]

Runs(p)  == cmd[p].runs
Calls(p) == DOMAIN Runs(p).calls
Failed(p, s) == call[p][s] \in Failure

Goto(p, at) == pc' = [pc EXCEPT ![p] = at]
Exit(p, error) == Goto(p, "exited") /\ exit' = [exit EXCEPT ![p] = ExitCode(error)]

Become(p, s, state) == call' = [call EXCEPT ![p][s] = state]

\* A call that goes wrong for a reason of its own.
Fault == faults < MaxFaults /\ faults' = faults + 1

-----------------------------------------------------------------------------
\* The start of an invocation.

TargetsOf(request) ==
  CASE request \in {"rotate key", "revoke key"} -> DOMAIN keys
    [] request = "create key"     -> {Person} \union DOMAIN accounts
    [] request = "delete account" -> DOMAIN accounts
    [] OTHER -> {0}

\* The leaf refuses its arguments.
Refuse(p) ==
  /\ pc[p] = "idle"
  /\ \E v \in User[p].verbs : Input \ v.takes # {}
  /\ Exit(p, <<"usage">>)
  /\ UNCHANGED <<service, login, faults, reply, cmd, resolved, sent, call, interrupted,
                 stdout, shown>>

Invoke(p) ==
  /\ pc[p] = "idle"
  /\ \E v \in User[p].verbs, json \in User[p].json,
        env \in User[p].env \cap ({NoToken} \union DOMAIN keys) :
       /\ \E reads \in {i.stdin : i \in v.takes} :
            Goto(p, IF reads /\ v.runs.via = "DoRaw" THEN "stdin" ELSE "start")
       /\ \E t \in TargetsOf(v.runs.calls[1].does) \cap User[p].targets :
            cmd' = [cmd EXCEPT ![p] = [runs |-> v.runs, json |-> json, target |-> t, env |-> env]]
  /\ UNCHANGED <<service, login, faults, reply, resolved, sent, call, interrupted, stdout,
                 shown, exit>>

\* api --data-stdin: not ended by Ctrl-C.
ReadStdin(p) ==
  /\ pc[p] = "stdin"
  /\ \/ Goto(p, "start") /\ UNCHANGED exit
     \/ Exit(p, <<"plain">>)
  /\ UNCHANGED <<service, login, faults, reply, cmd, resolved, sent, call, interrupted,
                 stdout, shown>>

Interrupt(p) ==
  /\ pc[p] \notin {"idle", "exited"} /\ ~interrupted[p] /\ ~User[p].patient
  /\ interrupted' = [interrupted EXCEPT ![p] = TRUE]
  /\ UNCHANGED <<service, login, faults, reply, pc, cmd, resolved, sent, call, stdout, shown, exit>>

\* What config.Resolve would return now.
Current(p) == IF cmd[p].env # NoToken THEN cmd[p].env ELSE stored

\* initConfig: on behalf of the first call, or of whoami's LoadCfg.
InitConfig(p) ==
  /\ pc[p] = "start"
  /\ resolved' = [resolved EXCEPT ![p] = Current(p)]
  /\ Goto(p, IF Runs(p).fan THEN "check" ELSE "wait")
  /\ UNCHANGED <<service, login, faults, reply, cmd, sent, call, interrupted, stdout, shown, exit>>

\* The configuration does not load, or has no such profile.
InitConfigFails(p) ==
  /\ pc[p] = "start"
  /\ Exit(p, <<"plain">>) \/ Exit(p, <<"usage", "reported">>)
  /\ UNCHANGED <<service, login, faults, reply, cmd, resolved, sent, call, interrupted,
                 stdout, shown>>

\* whoami loads the file once more and asks whether its profile has a token.
CheckLoggedIn(p) ==
  /\ pc[p] = "check"
  /\ \/ Goto(p, "wait") /\ stored # NoToken /\ UNCHANGED exit
     \/ Exit(p, <<"plain">>)
  /\ UNCHANGED <<service, login, faults, reply, cmd, resolved, sent, call, interrupted,
                 stdout, shown>>

\* Somebody logs in with a key, logs out or switches the profile.
Login ==
  /\ logins < MaxLogins
  /\ logins' = logins + 1
  /\ stored' \in (LoginTokens \cap ({NoToken} \union DOMAIN keys)) \ {stored}
  /\ UNCHANGED <<service, faults, reply, process>>

-----------------------------------------------------------------------------
\* A call, as the client sees it.

\* Defect: each goroutine cancels the shared context when it returns.
CancelledByAnyReturn(p) ==
  interrupted[p] \/ (Runs(p).fan /\ \E s \in Calls(p) : call[p][s] \notin {"none", "sent"})

\* Defect: the calls do not share a context.
CancelledByUserOnly(p) == interrupted[p]

\* Cancelled: ctx, or the context that whoami's calls share, which the first
\* failure cancels.
Cancelled(p) == interrupted[p] \/ (Runs(p).fan /\ \E s \in Calls(p) : Failed(p, s))

\* Defect: the configuration is resolved for each call.
TokenAnew(p) == Current(p)

\* lazyState's tokenFn.
TokenOf(p) == resolved[p]

\* One call after the other, but for whoami's.
Due(p, s) ==
  /\ pc[p] = "wait" /\ s \in Calls(p) /\ call[p][s] = "none"
  /\ Runs(p).fan \/ \A t \in Calls(p) : t < s => call[p][t] \in Decoded

\* With its context cancelled a call does not go out.
Send(p, s) ==
  /\ Due(p, s)
  /\ IF Cancelled(p)
     THEN Become(p, s, "aborted") /\ UNCHANGED sent
     ELSE Become(p, s, "sent") /\ sent' = [sent EXCEPT ![p][s] = {TokenOf(p)}]
  /\ UNCHANGED <<service, login, faults, reply, pc, cmd, resolved, interrupted, stdout, shown, exit>>

\* What the answer is to the verb: it may not look at all of it.
Seen(p, s, answer) ==
  IF answer = "junk" \/ (answer = "odd" /\ Runs(p).view = "none") THEN "whole" ELSE answer

Receive(p, s) ==
  /\ call[p][s] = "sent" /\ reply[p][s] = "done"
  /\ \E answer \in Answer :
       /\ IF answer \in {"odd", "junk"} THEN Fault ELSE UNCHANGED faults
       /\ answer = "sparse" => Runs(p).calls[s].sparse # "print"
       /\ Become(p, s, IF DecodeFails(Runs(p).calls[s].into, answer)
                       THEN "decode" ELSE Seen(p, s, answer))
  /\ UNCHANGED <<service, login, reply, pc, cmd, resolved, sent, interrupted, stdout, shown, exit>>

ReceiveRefusal(p, s) ==
  /\ call[p][s] = "sent" /\ reply[p][s] \in UnaryFailure
  /\ Become(p, s, reply[p][s])
  /\ UNCHANGED <<service, login, faults, reply, pc, cmd, resolved, sent, interrupted, stdout,
                 shown, exit>>

\* Defect: the client tries again.
BreakAndRetry(p, s) ==
  /\ call[p][s] = "sent"
  /\ Fault
  /\ Become(p, s, "none")
  /\ reply' = [reply EXCEPT ![p][s] = "none"]
  /\ UNCHANGED <<service, login, pc, cmd, resolved, sent, interrupted, stdout, shown, exit>>

\* The connection breaks, with the request or the answer under way.
Break(p, s) ==
  /\ call[p][s] = "sent"
  /\ Fault
  /\ Become(p, s, "network")
  /\ UNCHANGED <<service, login, reply, pc, cmd, resolved, sent, interrupted, stdout, shown, exit>>

Abort(p, s) ==
  /\ call[p][s] = "sent" /\ Cancelled(p)
  /\ Become(p, s, "aborted")
  /\ UNCHANGED <<service, login, faults, reply, pc, cmd, resolved, sent, interrupted, stdout,
                 shown, exit>>

-----------------------------------------------------------------------------
\* The end.

\* No call is under way, and none is left to make.
Finished(p) ==
  \A s \in Calls(p) :
    /\ call[p][s] # "sent"
    /\ call[p][s] = "none" => ~Runs(p).fan /\ \E t \in Calls(p) : t < s /\ Failed(p, t)

\* Defect: the error of json.Unmarshal is dropped.
ErrorOfStatusOnly(p, s) ==
  IF s \notin Calls(p) \/ ~Failed(p, s) \/ call[p][s] = "decode" THEN Nil
  ELSE IF Runs(p).via = "DoRaw" THEN <<"plain">>
  ELSE IF Runs(p).auth THEN TranslateErr(call[p][s])
  ELSE UnaryError(call[p][s])

\* DoRaw leaves the status to the verb, which makes a plain error of it.
ErrorOf(p, s) ==
  IF s \notin Calls(p) \/ ~Failed(p, s) THEN Nil
  ELSE IF call[p][s] = "decode" \/ Runs(p).via = "DoRaw" THEN <<"plain">>
  ELSE IF Runs(p).auth THEN TranslateErr(call[p][s])
  ELSE UnaryError(call[p][s])

\* Defect: the error of the second call is dropped.
FirstErrorOnly(p) == ErrorOf(p, 1)

\* In the order of the calls, whichever failed first.
Joined(p) == Join(ErrorOf(p, 1), ErrorOf(p, 2))

Got(p, answer) == \E s \in Calls(p) : call[p][s] = answer

\* What the verb does with an answer that lacks what it looks for.
OnSparse(p, what) ==
  ~cmd[p].json /\ \E s \in Calls(p) : call[p][s] = "sparse" /\ Runs(p).calls[s].sparse = what

\* An error of writing to standard output goes unnoticed.
Careless(p) ==
  \/ Runs(p).careless = "always"
  \/ Runs(p).careless = "text" /\ ~cmd[p].json
  \/ Runs(p).careless = "sparse" /\ OnSparse(p, "note")

\* RenderOutput and what the verbs have in its place.
RenderError(p, works) ==
  IF Got(p, "odd") /\ Runs(p).view = "typed" /\ (~cmd[p].json \/ Runs(p).strict) THEN <<"plain">>
  ELSE IF OnSparse(p, "fail") THEN <<"plain">>
  ELSE IF OnSparse(p, "usage") THEN <<"usage">>
  ELSE IF ~works /\ ~Careless(p) THEN <<"plain">>
  ELSE Nil

\* emitPlaintextToken prints the secret of the key that came with the answer,
\* or an empty line when none did.
Report(p) ==
  /\ pc[p] = "wait" /\ Finished(p)
  /\ IF Joined(p) # Nil
     THEN Exit(p, Joined(p)) /\ UNCHANGED <<stdout, shown>>
     ELSE \E works \in BOOLEAN :
            /\ stdout' = [stdout EXCEPT ![p] = works]
            /\ Exit(p, RenderError(p, works))
            /\ shown' = IF works /\ Got(p, "whole")
                        THEN [shown EXCEPT ![p] = made[p]] ELSE shown
  /\ UNCHANGED <<service, login, faults, reply, cmd, resolved, sent, call, interrupted>>

-----------------------------------------------------------------------------
(* The service.  A request is served once, or never, and perhaps after the *)
(* one who sent it has given up.                                           *)

Pending(p, s)  == sent[p][s] # {} /\ reply[p][s] = "none"
Bearer(p, s)   == CHOOSE t \in sent[p][s] : TRUE
Asked(p, s)    == Runs(p).calls[s].does
Home(p, s)     == keys[Bearer(p, s)].org

Answers(p, s, r) ==
  /\ reply' = [reply EXCEPT ![p][s] = r]
  /\ UNCHANGED <<login, process>>

Counts(p, n) == effects' = [effects EXCEPT ![p] = @ + n]

TokenRefusals == RefusalsFor(TRUE)
OtherRefusals == RefusalsFor(FALSE)

\* A request with a dead token, or with none.
RefuseToken(p, s) ==
  /\ Pending(p, s) /\ Bearer(p, s) \notin live
  /\ \E r \in TokenRefusals : Answers(p, s, r)
  /\ UNCHANGED <<service, faults>>

Admitted(p, s, request) ==
  Pending(p, s) /\ Bearer(p, s) \in live /\ Asked(p, s) = request

\* A request is turned down for what it asks, or the service fails.
Decline(p, s) ==
  /\ \E r \in OtherRefusals : Answers(p, s, r)
  /\ UNCHANGED service

ServiceFails(p, s) ==
  /\ Pending(p, s)
  /\ Fault
  /\ Decline(p, s)

ServeOther(p, s) ==
  /\ \E request \in {"read", "write", "any"} : Admitted(p, s, request)
  /\ \E n \in {0, 1} :
       /\ Asked(p, s) = "read" => n = 0
       /\ Asked(p, s) = "write" => n = 1
       /\ Counts(p, n)
  /\ Answers(p, s, "done")
  /\ UNCHANGED <<keys, live, accounts, deleted, made, faults>>

\* A new key, in the place of those of a set.
Mint(p, org, owner, old) ==
  /\ keys' = Append(keys, [org |-> org, owner |-> owner])
  /\ live' = (live \ old) \union {Len(keys) + 1}
  /\ made' = [made EXCEPT ![p] = @ \union {Len(keys) + 1}]
  /\ Counts(p, 1)
  /\ UNCHANGED <<accounts, deleted>>

MayName(p, s, account) ==
  account \in DOMAIN accounts \ deleted /\ accounts[account] = Home(p, s)

ServeCreateKey(p, s) ==
  /\ Admitted(p, s, "create key")
  /\ LET account == cmd[p].target IN
       IF account = Person
       THEN Mint(p, Home(p, s), keys[Bearer(p, s)].owner, {}) /\ Answers(p, s, "done")
       ELSE IF MayName(p, s, account)
       THEN Mint(p, Home(p, s), account, {}) /\ Answers(p, s, "done")
       ELSE Decline(p, s)
  /\ UNCHANGED faults

\* The key itself is revoked with the answer.
ServeRotateKey(p, s) ==
  /\ Admitted(p, s, "rotate key")
  /\ LET old == cmd[p].target IN
       IF old \in live /\ keys[old].org = Home(p, s)
       THEN Mint(p, Home(p, s), keys[old].owner, {old}) /\ Answers(p, s, "done")
       ELSE Decline(p, s)
  /\ UNCHANGED faults

\* Idempotent.
ServeRevokeKey(p, s) ==
  /\ Admitted(p, s, "revoke key")
  /\ IF keys[cmd[p].target].org = Home(p, s)
     THEN /\ live' = live \ {cmd[p].target}
          /\ Counts(p, 1)
          /\ Answers(p, s, "done")
          /\ UNCHANGED <<keys, accounts, deleted, made>>
     ELSE Decline(p, s)
  /\ UNCHANGED faults

ServeCreateAccount(p, s) ==
  /\ Admitted(p, s, "create account")
  /\ accounts' = Append(accounts, Home(p, s))
  /\ Counts(p, 1)
  /\ Answers(p, s, "done")
  /\ UNCHANGED <<keys, live, deleted, made, faults>>

\* All its keys are revoked with it.
ServeDeleteAccount(p, s) ==
  /\ Admitted(p, s, "delete account")
  /\ IF MayName(p, s, cmd[p].target)
     THEN /\ deleted' = deleted \union {cmd[p].target}
          /\ live' = {k \in live : keys[k].owner # cmd[p].target}
          /\ Counts(p, 1)
          /\ Answers(p, s, "done")
          /\ UNCHANGED <<keys, accounts, made>>
     ELSE Decline(p, s)
  /\ UNCHANGED faults

-----------------------------------------------------------------------------

Step(p) ==
  Refuse(p) \/ Invoke(p) \/ ReadStdin(p) \/ Interrupt(p) \/ InitConfig(p)
    \/ InitConfigFails(p) \/ CheckLoggedIn(p) \/ Report(p)

CallStep(p, s) ==
  Send(p, s) \/ Receive(p, s) \/ ReceiveRefusal(p, s) \/ Break(p, s) \/ Abort(p, s)

Serve(p, s) ==
  RefuseToken(p, s) \/ ServiceFails(p, s) \/ ServeOther(p, s) \/ ServeCreateKey(p, s)
    \/ ServeRotateKey(p, s) \/ ServeRevokeKey(p, s) \/ ServeCreateAccount(p, s)
    \/ ServeDeleteAccount(p, s)

Next ==
  \/ Login
  \/ \E p \in Process : Step(p)
  \/ \E p \in Process, s \in Slot : CallStep(p, s) \/ Serve(p, s)

Spec == Init /\ [][Next]_vars

\* The process runs, and a call whose context is cancelled returns.  No call
\* has a timeout, and no answer is relied on.
Fairness ==
  \A p \in Process : WF_vars(Report(p) \/ \E s \in Slot : Send(p, s) \/ Abort(p, s))

FairSpec == Spec /\ Fairness

-----------------------------------------------------------------------------
(* Properties.                                                             *)

TypeOK ==
  /\ keys \in Seq([org : Org, owner : Nat])
  /\ live \subseteq DOMAIN keys
  /\ accounts \in Seq(Org) /\ deleted \subseteq Nat
  /\ stored \in Nat /\ logins \in Nat /\ faults \in Nat
  /\ pc \in [Process -> Location]
  /\ cmd \in [Process -> Command]
  /\ resolved \in [Process -> Nat]
  /\ sent \in [Process -> [Slot -> SUBSET Nat]]
  /\ reply \in [Process -> [Slot -> {"none", "done"} \union UnaryFailure]]
  /\ call \in [Process -> [Slot -> CallState]]
  /\ interrupted \in [Process -> BOOLEAN] /\ stdout \in [Process -> BOOLEAN]
  /\ shown \in [Process -> SUBSET Nat] /\ made \in [Process -> SUBSET Nat]
  /\ effects \in [Process -> Nat]
  /\ exit \in [Process -> {0, 1, 2, 3, 9}]

(* The cancellation by which one failure ends the other call is never the  *)
(* only thing the user is told: behind every failed fan-out is a failure   *)
(* the command did not cause itself, or Ctrl-C.                            *)
RootCauseReported ==
  \A p \in Process :
    (\E s \in Calls(p) : Failed(p, s)) =>
      interrupted[p] \/ \E s \in Calls(p) : Failed(p, s) /\ call[p][s] # "aborted"

(* What scripts take the exit code for.  0: the service has done all that  *)
(* was asked, and whoami has its email address.  1: nothing was sent, but  *)
(* for the health of a dashboard that is not in the answer.  3, "log in    *)
(* again": the token really is dead; and a verb with one call says so      *)
(* whenever it is told of it by status or code.                            *)
ExitCodeIsHonest ==
  \A p \in Process :
    /\ exit[p] = 0 /\ pc[p] = "exited" =>
         (\A s \in Calls(p) : reply[p][s] = "done") /\ ~OnSparse(p, "fail")
    /\ exit[p] = 1 => (\A s \in Slot : sent[p][s] = {}) \/ OnSparse(p, "usage")
    /\ exit[p] = 3 => \E s \in Calls(p) : sent[p][s] # {} /\ sent[p][s] \cap live = {}
    /\ (pc[p] = "exited" /\ call[p][1] = "auth" /\ Calls(p) = {1} /\ Runs(p).via = "Unary")
         => exit[p] = 3

(* Every call of an invocation carries the same token, whatever another    *)
(* process makes of the configuration meanwhile: the members that are      *)
(* listed are not looked up under one identity and printed under another.  *)
OneIdentity == \A p \in Process : Cardinality(UNION {sent[p][s] : s \in Slot}) <= 1

(* After 0 the change is made, once; after 1 and 3 none was made and none  *)
(* will be, so that the command can be run again; after 2 one may have     *)
(* been made only if the answer went astray or could not be shown, never   *)
(* where the service has refused.                                          *)
EffectIsTold ==
  \A p \in Process :
    /\ effects[p] <= 1
    /\ exit[p] = 0 /\ Asked(p, 1) \notin {"read", "any"} => effects[p] = 1
    /\ exit[p] \in {1, 3} => effects[p] = 0
    /\ exit[p] = 2 /\ effects[p] > 0 =>
         \/ \E s \in Calls(p) : call[p][s] \in {"network", "aborted", "decode", "odd"}
         \/ ~stdout[p]

(* The secret of a key is told once, in one answer.  No key is in use that *)
(* nobody holds unless the command that made it said that it failed, or    *)
(* one of two things the code does not look at: it has no standard output, *)
(* or the answer that says the key was made came without its secret.       *)
NoSilentOrphan ==
  \A p \in Process : exit[p] = 0 =>
    made[p] \subseteq shown[p] \/ ~stdout[p] \/ \E s \in Calls(p) : call[p][s] = "sparse"

(* One failure, or Ctrl-C, ends a command although a call of it may never  *)
(* be answered.                                                            *)
FailureEnds ==
  \A p \in Process :
    (pc[p] = "wait" /\ (interrupted[p] \/ \E s \in Calls(p) : Failed(p, s)))
      ~> pc[p] = "exited"
=============================================================================
