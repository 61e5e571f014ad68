----------------------------- MODULE Connectors -----------------------------
(***************************************************************************)
(* ana connector create, update, delete and test, run by several processes *)
(* against one connector service.  Creating has nine leaves, one for each  *)
(* dialect and way to authenticate.  Update reads a connector, merges its  *)
(* flags into what it read, may wait for a secret on standard input, and   *)
(* writes everything back.                                                 *)
(*                                                                         *)
(* A value is the process that gave it, Before for what was stored at the  *)
(* start, "default", or "zero" for an empty text or a number out of range, *)
(* which a request leaves out (omitempty).                                 *)
(***************************************************************************)
EXTENDS Naturals, FiniteSets

CONSTANTS Process, Before, NoCommand, CommandsOf, MaxFaults

Leaf ==
  {<<"postgres", "password">>}
    \union ({"snowflake"} \X {"password", "keypair", "oauth-sso", "oauth-individual"})
    \union ({"databricks"} \X {"access-token", "client-credentials", "oauth-sso", "oauth-individual"})

Postgres == <<"postgres", "password">>
Dialect  == {l[1] : l \in Leaf}
Strategy == {"service_role", "oauth_sso", "per_member_oauth"}

\* host stands for all that a leaf requires besides a name: host, user,
\* database, locator, http-path, catalog, schema, client-id.  The service
\* keeps a dialect in the block too, which the client does not know of.
Field   == {"name", "host", "port"}
Setting == Field \union {"dialect"}
Value == Process \union {Before, "default", "zero"}

\* What a flag is given, or what it would be set to.
Given == {"absent", "zero", "set"}
Flags == [Field -> Given]

\* secret and stdin are --<secret> and --<secret>-stdin, type is --type.
Create == [verb : {"create"}, leaf : Leaf, flags : Flags, secret : Given, stdin : BOOLEAN]
Update == [verb : {"update"}, id : Nat, type : {"absent", "postgres", "other"},
            flags : Flags, secret : Given, stdin : BOOLEAN]
Other  == [verb : {"delete", "test"}, id : Nat]
Command == Create \union Update \union Other

ASSUME ConnectorsAssumption ==
  /\ Process \intersect {Before, "default", "zero"} = {}
  /\ NoCommand \notin Command
  /\ CommandsOf \in [Process -> SUBSET Command]
  /\ MaxFaults \in Nat

\* A credential is the field of the request it is in, and where it is from.
CredentialField == {"password", "privateKey", "privateKeyPassphrase", "oauthClientSecret",
                    "pat", "clientCredentials", "oauthU2m"}
Source     == (Process \X {"flag", "stdin", "file"}) \union {<<Before, "flag">>}
Credential == CredentialField \X Source

\* createReq and updateReq.
Envelope == [type : Dialect, strategy : Strategy \union {""}, block : Dialect,
             fields : [Field -> Value], creds : SUBSET Credential]

\* As the service keeps it.
Connector == [leaf : Leaf, fields : [Setting -> Value], creds : SUBSET Credential]

VARIABLES
  conn,   \* the connectors there are, by number
  next,   \* the next number
  faults, \* how many calls have failed
  pc, cmd,
  base,   \* what GetConnector returned: a connector without its credentials
  secret, \* what resolveSecret returned, a set of at most one source
  exit,
  hist    \* what a process has done, for the properties

service == <<conn, next>>
vars == <<conn, next, faults, pc, cmd, base, secret, exit, hist>>

Location == {"idle", "start", "key", "get", "secret", "send", "exited"}
NoFields == [f \in Field |-> "zero"]
NoBase   == [type |-> "postgres", fields |-> NoFields]

\* made and edits are what it has created and written, lost that the answer
\* did not reach the user, overtaken that somebody wrote after it had read.
History == [made : SUBSET Connector, effects : Nat, lost : BOOLEAN, overtaken : BOOLEAN]

\* A Postgres connector and a Snowflake one.
Init ==
  /\ conn = [i \in {1, 2} |->
       [leaf |-> IF i = 1 THEN Postgres ELSE <<"snowflake", "password">>,
        fields |-> [s \in Setting |-> IF i = 2 /\ s = "port" THEN "zero" ELSE Before],
        creds |-> {<<"password", <<Before, "flag">>>>}]]
  /\ next = 3
  /\ faults = 0
  /\ pc = [p \in Process |-> "idle"]
  /\ cmd = [p \in Process |-> NoCommand]
  /\ base = [p \in Process |-> NoBase]
  /\ secret = [p \in Process |-> {}]
  /\ exit = [p \in Process |-> "none"]
  /\ hist = [p \in Process |->
       [made |-> {}, effects |-> 0, lost |-> FALSE, overtaken |-> FALSE]]

Runs(p, verb, at) == pc[p] = at /\ cmd[p].verb = verb

\* Where a process goes: to another statement, or out with a code.
Goto(p, at) == pc' = [pc EXCEPT ![p] = at] /\ UNCHANGED exit
Exit(p, code) == pc' = [pc EXCEPT ![p] = "exited"] /\ exit' = [exit EXCEPT ![p] = code]

\* How a call ends: done, refused, or done without the user seeing so,
\* because the answer is lost or cannot be printed.
Outcome == {"ok", "refused", "lost", "unprinted"}
Unseen  == {"lost", "unprinted"}

Call(out) ==
  IF out = "ok" THEN UNCHANGED faults ELSE faults < MaxFaults /\ faults' = faults + 1

Invoke(p) ==
  /\ pc[p] = "idle"
  /\ \E c \in CommandsOf[p] : cmd' = [cmd EXCEPT ![p] = c]
  /\ Goto(p, "start")
  /\ UNCHANGED <<service, faults, base, secret, hist>>

-----------------------------------------------------------------------------
\* Create.

FlagsOf(l)  == IF l[1] = "snowflake" THEN {"name", "host"} ELSE Field
Required(l) == IF l = Postgres THEN Field ELSE {"name", "host"}

\* RequireFlags, and no empty text or impossible port after it.
Valid(c) ==
  /\ \A f \in Required(c.leaf) : c.flags[f] # "absent"
  /\ \A f \in FlagsOf(c.leaf) : c.flags[f] # "zero"

CheckFlags(p) ==
  /\ Runs(p, "create", "start")
  /\ IF Valid(cmd[p])
     THEN Goto(p, IF cmd[p].leaf[2] = "keypair" THEN "key" ELSE "secret")
     ELSE Exit(p, "usage")
  /\ UNCHANGED <<service, faults, cmd, base, secret, hist>>

\* --private-key-file is read, missing or empty.
ReadKeyFile(p) ==
  /\ pc[p] = "key"
  /\ \/ Goto(p, "secret")
     \/ \E code \in {"error", "usage"} : Exit(p, code)
  /\ UNCHANGED <<service, faults, cmd, base, secret, hist>>

\* Which of the two a secret is from; line is what standard input holds.
SecretSource(c, line) == IF c.stdin THEN line ELSE IF c.secret = "set" THEN "flag" ELSE "none"

\* Defect: an update may ask for no secret with --password "".
OptionalInUpdate(c) == c.verb = "update" \/ c.leaf[2] = "keypair"

\* Only a passphrase may be left out.
Optional(c) == c.verb = "create" /\ c.leaf[2] = "keypair"

\* resolveSecret, resolveOptionalPassphrase.
ReadSecret(p) ==
  /\ pc[p] = "secret"
  /\ \E line \in {"stdin", "empty", "broken"} :
       LET src == SecretSource(cmd[p], line) IN
       \/ /\ src \in {"flag", "stdin"}
          /\ secret' = [secret EXCEPT ![p] = {<<p, src>>}]
          /\ Goto(p, "send")
       \/ /\ src = "none" /\ Optional(cmd[p])
          /\ Goto(p, "send")
          /\ UNCHANGED secret
       \/ /\ src \in {"empty", "none"} /\ ~(src = "none" /\ Optional(cmd[p]))
          /\ Exit(p, "usage")
          /\ UNCHANGED secret
       \/ /\ src = "broken"
          /\ Exit(p, "error")
          /\ UNCHANGED secret
  /\ UNCHANGED <<service, faults, cmd, base, hist>>

\* Defect: every OAuth leaf of Databricks sends the strategy of a shared token.
StrategyByVariant(l) ==
  CASE l = Postgres -> ""
    [] l[1] = "snowflake" /\ l[2] = "oauth-individual" -> "per_member_oauth"
    [] l[2] \in {"oauth-sso", "oauth-individual"} -> "oauth_sso"
    [] OTHER -> "service_role"

AuthStrategy(l) ==
  CASE l = Postgres -> ""
    [] l[2] = "oauth-sso" -> "oauth_sso"
    [] l[2] = "oauth-individual" -> "per_member_oauth"
    [] OTHER -> "service_role"

\* The credentials of the Snowflake leaves, the variants of databricksAuth.
SnowflakeCredential(l) ==
  CASE l[2] = "password" -> "password"
    [] l[2] = "keypair" -> "privateKeyPassphrase"
    [] OTHER -> "oauthClientSecret"

DatabricksAuth(l) ==
  CASE l[2] = "access-token" -> "pat"
    [] l[2] = "client-credentials" -> "clientCredentials"
    [] OTHER -> "oauthU2m"

SecretField(l) ==
  CASE l = Postgres -> "password"
    [] l[1] = "snowflake" -> SnowflakeCredential(l)
    [] OTHER -> DatabricksAuth(l)

\* --port is 443 for Databricks unless it is given.
FlagValue(p, l, f) ==
  CASE cmd[p].flags[f] = "set" -> p
    [] cmd[p].flags[f] = "absent" /\ f = "port" /\ l[1] = "databricks" -> "default"
    [] OTHER -> "zero"

CreateReq(p) ==
  LET l == cmd[p].leaf IN
  [type |-> l[1], block |-> l[1], strategy |-> AuthStrategy(l),
   fields |-> [f \in Field |-> IF f \in FlagsOf(l) THEN FlagValue(p, l, f) ELSE "zero"],
   creds |-> ({SecretField(l)} \X secret[p])
               \union (IF l[2] = "keypair" THEN {<<"privateKey", <<p, "file">>>>} ELSE {})]

\* The service tells the leaves apart by the credentials that are there, and
\* the two of OAuth by the strategy; without a strategy it is service_role.
ModeOf(e) ==
  LET populated == {c[1] : c \in e.creds}
      oauth == IF e.strategy = "oauth_sso" THEN "oauth-sso" ELSE "oauth-individual"
  IN CASE "password" \in populated -> "password"
       [] "privateKey" \in populated -> "keypair"
       [] "pat" \in populated -> "access-token"
       [] "clientCredentials" \in populated -> "client-credentials"
       [] OTHER -> oauth

Stored(e) ==
  [leaf |-> <<e.block, ModeOf(e)>>,
   fields |-> [s \in Setting |-> IF s \in Field THEN e.fields[s] ELSE "zero"],
   creds |-> e.creds]

With(i, c) == [j \in DOMAIN conn \union {i} |-> IF j = i THEN c ELSE conn[j]]

\* Defect: an error of the last call is not looked at.
ExitRegardless(p, out) == Exit(p, "ok")

\* The error of the call is what Run returns, or that of the output; but
\* delete does not look at the latter.
Fine(p, out) == out = "ok" \/ (out = "unprinted" /\ cmd[p].verb = "delete")
ExitAfter(p, out) == Exit(p, IF Fine(p, out) THEN "ok" ELSE "error")

SendCreate(p) ==
  /\ Runs(p, "create", "send")
  /\ \E out \in Outcome :
       LET c == Stored(CreateReq(p)) IN
       /\ Call(out)
       /\ ExitAfter(p, out)
       /\ IF out = "refused"
          THEN UNCHANGED <<service, hist>>
          ELSE /\ conn' = With(next, c)
               /\ next' = next + 1
               /\ hist' = [hist EXCEPT ![p].made = @ \union {c}, ![p].effects = @ + 1,
                                       ![p].lost = out \in Unseen]
  /\ UNCHANGED <<cmd, base, secret>>

-----------------------------------------------------------------------------
\* Update, test, delete.

AsksSecret(c) == c.secret # "absent" \/ c.stdin

CheckUpdate(p) ==
  /\ Runs(p, "update", "start")
  /\ IF /\ cmd[p].type # "other"
        /\ \/ cmd[p].type = "postgres" \/ AsksSecret(cmd[p])
           \/ \E f \in Field : cmd[p].flags[f] # "absent"
     THEN Goto(p, "get")
     ELSE Exit(p, "usage")
  /\ UNCHANGED <<service, faults, cmd, base, secret, hist>>

\* delete and test look at nothing but the number.
CheckID(p) ==
  /\ pc[p] = "start" /\ cmd[p].verb \in {"delete", "test"}
  /\ Goto(p, IF cmd[p].verb = "test" THEN "get" ELSE "send")
  /\ UNCHANGED <<service, faults, cmd, base, secret, hist>>

\* What there is of a connector in its name and its block for Postgres.
Known(c) == [s \in Setting |-> IF s = "name" \/ c.leaf = Postgres THEN c.fields[s] ELSE "zero"]

\* Update knows postgresMetadata only, without its dialect, and no credential
\* is ever returned.
Got(c) == [type |-> c.leaf[1], fields |-> [f \in Field |-> Known(c)[f]]]

GetConnector(p) ==
  /\ pc[p] = "get"
  /\ \/ /\ cmd[p].id \in DOMAIN conn
        /\ base' = [base EXCEPT ![p] = Got(conn[cmd[p].id])]
        /\ Goto(p, IF cmd[p].verb = "update" /\ AsksSecret(cmd[p]) THEN "secret" ELSE "send")
        /\ UNCHANGED faults
     \/ /\ IF cmd[p].id \in DOMAIN conn THEN Call("refused") ELSE UNCHANGED faults
        /\ Exit(p, "error")
        /\ UNCHANGED base
  /\ UNCHANGED <<service, cmd, secret, hist>>

\* Defect: only the flags that were given are sent.
MergeNothing(p, f) == IF cmd[p].flags[f] = "set" THEN p ELSE "zero"

\* What was read, with the flags that were given in place of it.
Merge(p, f) ==
  CASE cmd[p].flags[f] = "absent" -> base[p].fields[f]
    [] cmd[p].flags[f] = "set" -> p
    [] OTHER -> "zero"

UpdateReq(p) ==
  [type |-> IF cmd[p].type = "postgres" THEN "postgres" ELSE base[p].type,
   strategy |-> "", block |-> "postgres",
   fields |-> [f \in Field |-> Merge(p, f)],
   creds |-> {"password"} \X secret[p]]

\* Who has read connector i, and has yet to write it.
HasRead(p, i) == pc[p] \in {"secret", "send"} /\ cmd[p].verb = "update" /\ cmd[p].id = i

\* What is sent replaces what is stored.  What is not sent, the dialect and
\* all that is zero, the service keeps or drops: the code relies on neither.
Settings(c, e, keeps) ==
  [s \in Setting |->
     IF s \in Field /\ e.fields[s] # "zero" THEN e.fields[s]
     ELSE IF keeps THEN Known(c)[s] ELSE "zero"]

Incomplete(e) == \E f \in Field : e.fields[f] = "zero"

\* The block must be that of the type, and may be refused if something is
\* missing in it; a credential that is not sent is kept.
SendUpdate(p) ==
  /\ Runs(p, "update", "send")
  /\ \E out \in Outcome, keeps \in BOOLEAN :
       LET i == cmd[p].id
           e == UpdateReq(p)
           acceptable == i \in DOMAIN conn /\ e.type = e.block
       IN
       /\ \/ acceptable /\ Call(out)
          \/ (acceptable => Incomplete(e)) /\ out = "refused" /\ UNCHANGED faults
       /\ ExitAfter(p, out)
       /\ IF out = "refused"
          THEN UNCHANGED <<conn, hist>>
          ELSE /\ conn' = [conn EXCEPT ![i] =
                    [leaf |-> Postgres, fields |-> Settings(@, e, keeps),
                     creds |-> IF e.creds = {} THEN @.creds ELSE e.creds]]
               /\ hist' = [q \in Process |->
                    IF q = p
                    THEN [hist[p] EXCEPT !.effects = @ + 1, !.lost = out \in Unseen]
                    ELSE [hist[q] EXCEPT !.overtaken = @ \/ HasRead(q, i)]]
  /\ UNCHANGED <<next, cmd, base, secret>>

\* TestConnector dials with what was read and answers, well or badly, with 200.
SendTest(p) ==
  /\ Runs(p, "test", "send")
  /\ \E out \in Outcome : Call(out) /\ ExitAfter(p, out)
  /\ UNCHANGED <<service, cmd, base, secret, hist>>

SendDelete(p) ==
  /\ Runs(p, "delete", "send")
  /\ \E out \in Outcome :
       LET i == cmd[p].id IN
       /\ IF i \in DOMAIN conn THEN Call(out) ELSE out = "refused" /\ UNCHANGED faults
       /\ ExitAfter(p, out)
       /\ IF out = "refused"
          THEN UNCHANGED <<conn, hist>>
          ELSE /\ conn' = [j \in DOMAIN conn \ {i} |-> conn[j]]
               /\ hist' = [hist EXCEPT ![p].effects = @ + 1, ![p].lost = out \in Unseen]
  /\ UNCHANGED <<next, cmd, base, secret>>

Next ==
  \E p \in Process :
    \/ Invoke(p) \/ CheckFlags(p) \/ ReadKeyFile(p) \/ ReadSecret(p) \/ SendCreate(p)
    \/ CheckUpdate(p) \/ CheckID(p) \/ GetConnector(p)
    \/ SendUpdate(p) \/ SendTest(p) \/ SendDelete(p)

Spec == Init /\ [][Next]_vars

-----------------------------------------------------------------------------
\* Types; a process that is about to send has the secret that its command
\* needs or asks for.
TypeOK ==
  /\ DOMAIN conn \subseteq 1 .. next - 1
  /\ \A i \in DOMAIN conn : conn[i] \in Connector
  /\ next \in Nat /\ faults \in 0 .. MaxFaults
  /\ pc \in [Process -> Location]
  /\ cmd \in [Process -> Command \union {NoCommand}]
  /\ base \in [Process -> [type : Dialect, fields : [Field -> Value]]]
  /\ exit \in [Process -> {"none", "ok", "usage", "error"}]
  /\ hist \in [Process -> History]
  /\ \A p \in Process :
       /\ secret[p] \in SUBSET Source /\ Cardinality(secret[p]) <= 1
       /\ pc[p] = "idle" <=> cmd[p] = NoCommand
       /\ pc[p] = "send" /\ cmd[p].verb = "update" => (secret[p] # {} <=> AsksSecret(cmd[p]))

\* What a create makes, whether its user gets to know of it or not, is of the
\* dialect and the mode that were asked for and has the values of the flags;
\* nothing that the leaf requires is missing, and the credentials are those of
\* the mode, with the secret that was meant: of standard input if that was
\* asked for, else of the flag.
CreatedAsAsked ==
  \A p \in Process : \A c \in hist[p].made :
    LET a == cmd[p] IN
    /\ c.leaf = a.leaf
    /\ \A f \in FlagsOf(a.leaf) :
         /\ c.fields[f] # "zero"
         /\ a.flags[f] = "set" => c.fields[f] = p
    /\ c.creds # {} /\ (c.leaf[2] # "keypair" => Cardinality(c.creds) = 1)
    /\ (a.stdin \/ a.secret = "set") =>
         \E x \in c.creds : x[2] = <<p, IF a.stdin THEN "stdin" ELSE "flag">>

\* An update of a Postgres connector gives a field the value of its flag.  A
\* field without a flag stays as it is, or, if another update came between
\* the two calls of this one, goes back to what this one had read: nothing
\* else can become of it.  An empty value is not sent: the field is emptied or
\* stays.  The password stays unless a new one was asked for.  Nothing is said
\* of the dialect, which no update sends.
UpdateDoesWhatWasAsked ==
  [][\A p \in Process :
       LET c == cmd[p]  i == c.id IN
       Runs(p, "update", "send") /\ conn' # conn /\ pc'[p] = "exited" /\ conn[i].leaf = Postgres =>
         /\ \A f \in Field :
              CASE c.flags[f] = "set" -> conn'[i].fields[f] = p
                [] c.flags[f] = "zero" -> conn'[i].fields[f] \in {"zero", conn[i].fields[f]}
                [] OTHER -> \/ conn'[i].fields[f] = conn[i].fields[f]
                            \/ hist[p].overtaken /\ conn'[i].fields[f] = base[p].fields[f]
         /\ conn'[i].leaf = Postgres
         /\ ~AsksSecret(c) => conn'[i].creds = conn[i].creds
         /\ AsksSecret(c) =>
              conn'[i].creds = {<<"password", <<p, IF c.stdin THEN "stdin" ELSE "flag">>>>}]_vars

\* A script can trust the exit code: 0 means that the service was changed
\* once (or asked, by test) and that the user was told so, but for a delete,
\* whose word may be missing; a usage error that it was not, any other error
\* that it was not unless the answer went astray after the change.
ExitTellsTheEffect ==
  \A p \in Process : pc[p] = "exited" =>
    /\ exit[p] = "ok" /\ cmd[p].verb # "test" =>
         hist[p].effects = 1 /\ (hist[p].lost => cmd[p].verb = "delete")
    /\ exit[p] = "usage" => hist[p].effects = 0
    /\ exit[p] = "error" => hist[p].effects = IF hist[p].lost THEN 1 ELSE 0
=============================================================================
