--------------------------- MODULE ConnectorsProofs ---------------------------
(***************************************************************************)
(* Theorems about Connectors, for any number of processes, any commands    *)
(* and any number of failing calls.                                        *)
(***************************************************************************)
EXTENDS Connectors, FiniteSetTheorems, TLAPS

-----------------------------------------------------------------------------
(* The inductive invariant.                                                *)

Types ==
  /\ DOMAIN conn \subseteq 1 .. next - 1
  /\ \A i \in DOMAIN conn : conn[i] \in Connector
  /\ next \in Nat \ {0} /\ faults \in 0 .. MaxFaults
  /\ pc \in [Process -> Location]
  /\ cmd \in [Process -> Command \union {NoCommand}]
  /\ base \in [Process -> [type : Dialect, fields : [Field -> Value]]]
  /\ secret \in [Process -> SUBSET Source]
  /\ exit \in [Process -> {"none", "ok", "usage", "error"}]
  /\ hist \in [Process -> History]

Creating(p) == cmd[p].verb = "create"
Updating(p) == cmd[p].verb = "update"

\* The ways a command takes through the locations: a create passes its check
\* of the flags first, and an update asks for a secret or does not.
OnItsWay(p) ==
  /\ pc[p] = "idle" <=> cmd[p] = NoCommand
  /\ pc[p] = "key" => Creating(p) /\ cmd[p].leaf[2] = "keypair"
  /\ pc[p] = "get" => cmd[p].verb \in {"update", "test"}
  /\ pc[p] = "secret" => Creating(p) \/ (Updating(p) /\ AsksSecret(cmd[p]))
  /\ pc[p] \in {"key", "secret", "send"} /\ Creating(p) => Valid(cmd[p])

\* The secret that the user meant, if any.
Means(c) == c.stdin \/ c.secret = "set"
Meant(p) == <<p, IF cmd[p].stdin THEN "stdin" ELSE "flag">>

\* The secret is read once, just before the command sends, and is the one
\* that was meant; only a passphrase may be missing.
SecretIsMeant(p) ==
  /\ pc[p] \in {"idle", "start", "key", "get", "secret"} => secret[p] = {}
  /\ secret[p] = {} \/ secret[p] = {Meant(p)}
  /\ pc[p] = "send" /\ Creating(p) =>
       /\ secret[p] = {} => cmd[p].leaf[2] = "keypair"
       /\ Means(cmd[p]) => secret[p] # {}
  /\ pc[p] = "send" /\ Updating(p) => (secret[p] # {} <=> AsksSecret(cmd[p]))

\* Before its end a command has done nothing; at its end the code tells.
EffectIsTold(p) ==
  /\ pc[p] # "exited" =>
       hist[p].made = {} /\ hist[p].effects = 0 /\ hist[p].lost = FALSE
  /\ pc[p] = "exited" =>
       /\ exit[p] = "ok" /\ cmd[p].verb # "test" =>
            hist[p].effects = 1 /\ (hist[p].lost => cmd[p].verb = "delete")
       /\ exit[p] = "usage" => hist[p].effects = 0
       /\ exit[p] = "error" => hist[p].effects = IF hist[p].lost THEN 1 ELSE 0

\* What an update has read is what is there, unless somebody has written or
\* deleted it since; a number that is gone does not come back.
ReadIsCurrent(p) ==
  LET i == cmd[p].id IN
  HasRead(p, i) =>
    /\ i < next
    /\ i \in DOMAIN conn /\ ~hist[p].overtaken => base[p] = Got(conn[i])

\* What CreatedAsAsked says of one connector that p has made.
AsAsked(p, c) ==
  LET a == cmd[p] IN
  /\ c.leaf = a.leaf
  /\ \A f \in FlagsOf(a.leaf) :
       /\ c.fields[f] # "zero"
       /\ a.flags[f] = "set" => c.fields[f] = p
  /\ c.creds # {} /\ (c.leaf[2] # "keypair" => Cardinality(c.creds) = 1)
  /\ Means(a) => \E x \in c.creds : x[2] = Meant(p)

ProcessInv(p) ==
  /\ OnItsWay(p) /\ SecretIsMeant(p) /\ EffectIsTold(p) /\ ReadIsCurrent(p)
  /\ \A c \in hist[p].made : AsAsked(p, c)

ConnInv == Types /\ \A p \in Process : ProcessInv(p)

-----------------------------------------------------------------------------
(* Commands and requests.                                                  *)

\* The verb tells the kinds of commands apart.
LEMMA VerbTells ==
  ASSUME NEW c \in Command
  PROVE  /\ c.verb \in {"create", "update", "delete", "test"}
         /\ c.verb = "create" => c \in Create
         /\ c.verb = "update" => c \in Update
         /\ c.verb \in {"delete", "test"} => c \in Other
BY DEF Command, Create, Update, Other

\* A process that has left "idle" has a command.
LEMMA HasCommand ==
  ASSUME Types, NEW p \in Process, OnItsWay(p), pc[p] # "idle"
  PROVE  cmd[p] \in Command
BY DEF Types, OnItsWay

LEMMA LeafType ==
  ASSUME NEW l \in Leaf
  PROVE  l[1] \in Dialect /\ l = <<l[1], l[2]>>
BY DEF Leaf, Dialect

\* The nine leaves.
LEMMA Leaves ==
  ASSUME NEW l \in Leaf
  PROVE  \/ l = Postgres
         \/ /\ l[1] = "snowflake" /\ l = <<"snowflake", l[2]>>
            /\ l[2] \in {"password", "keypair", "oauth-sso", "oauth-individual"}
         \/ /\ l[1] = "databricks" /\ l = <<"databricks", l[2]>>
            /\ l[2] \in {"access-token", "client-credentials", "oauth-sso", "oauth-individual"}
BY DEF Leaf, Postgres

LEMMA SecretFieldType ==
  ASSUME NEW l \in Leaf
  PROVE  SecretField(l) \in CredentialField
BY DEF SecretField, SnowflakeCredential, DatabricksAuth, CredentialField

\* The service finds out which leaf a request is from: the credentials of a
\* leaf and its strategy are of no other leaf of the dialect.
LEMMA ModeOfRequest ==
  ASSUME NEW l \in Leaf, NEW e, NEW S,
         e.strategy = AuthStrategy(l),
         S = {} => l[2] = "keypair",
         {c[1] : c \in e.creds} =
           (IF S = {} THEN {} ELSE {SecretField(l)})
             \union (IF l[2] = "keypair" THEN {"privateKey"} ELSE {})
  PROVE  ModeOf(e) = l[2]
<1> DEFINE populated == {c[1] : c \in e.creds}
<1>1. ModeOf(e) =
        CASE "password" \in populated -> "password"
          [] "privateKey" \in populated -> "keypair"
          [] "pat" \in populated -> "access-token"
          [] "clientCredentials" \in populated -> "client-credentials"
          [] OTHER -> IF e.strategy = "oauth_sso" THEN "oauth-sso" ELSE "oauth-individual"
  BY DEF ModeOf
<1>2. populated = (IF S = {} THEN {} ELSE {SecretField(l)})
                    \union (IF l[2] = "keypair" THEN {"privateKey"} ELSE {})
  OBVIOUS
<1> HIDE DEF populated
<1>3. CASE l = Postgres
  BY <1>1, <1>2, <1>3 DEF SecretField, Postgres
<1>4. CASE l[1] = "snowflake" /\ l[2] \in {"password", "keypair", "oauth-sso", "oauth-individual"}
  <2>1. l # Postgres
    BY <1>4 DEF Postgres
  <2>2. CASE l[2] = "keypair"
    BY <1>1, <1>2, <1>4, <2>1, <2>2 DEF SecretField, SnowflakeCredential
  <2>3. CASE l[2] # "keypair"
    BY <1>1, <1>2, <1>4, <2>1, <2>3 DEF SecretField, SnowflakeCredential, AuthStrategy
  <2> QED
    BY <2>2, <2>3
<1>5. CASE /\ l[1] = "databricks"
           /\ l[2] \in {"access-token", "client-credentials", "oauth-sso", "oauth-individual"}
  <2>1. l # Postgres
    BY <1>5 DEF Postgres
  <2> QED
    BY <1>1, <1>2, <1>5, <2>1 DEF SecretField, DatabricksAuth, AuthStrategy
<1> QED
  BY <1>3, <1>4, <1>5, Leaves

\* What a create asks for, and what the service makes of it.
LEMMA CreateReqCorrect ==
  ASSUME Types, NEW p \in Process, OnItsWay(p), SecretIsMeant(p),
         pc[p] = "send", Creating(p)
  PROVE  /\ Stored(CreateReq(p)) \in Connector
         /\ AsAsked(p, Stored(CreateReq(p)))
<1> DEFINE l == cmd[p].leaf
           e == CreateReq(p)
           file == IF l[2] = "keypair" THEN {<<"privateKey", <<p, "file">>>>} ELSE {}
           asked == {SecretField(l)} \X secret[p]
<1>1. cmd[p] \in Create
  BY HasCommand, VerbTells DEF Creating
<1>2. l \in Leaf /\ cmd[p].flags \in [Field -> Given] /\ Valid(cmd[p])
  BY <1>1 DEF Create, Flags, OnItsWay
<1>3. /\ e.strategy = AuthStrategy(l) /\ e.block = l[1] /\ e.creds = asked \union file
      /\ e.fields = [f \in Field |-> IF f \in FlagsOf(l) THEN FlagValue(p, l, f) ELSE "zero"]
  BY DEF CreateReq
<1>4. SecretField(l) \in CredentialField
  BY <1>2, SecretFieldType
<1>5. secret[p] = {} \/ secret[p] = {Meant(p)}
  BY DEF SecretIsMeant
<1>6. asked = IF secret[p] = {} THEN {} ELSE {<<SecretField(l), Meant(p)>>}
  BY <1>5
<1>7. Meant(p) \in Source /\ <<p, "file">> \in Source
  BY DEF Meant, Source
<1>8. e.creds \subseteq Credential
  <2>1. asked \subseteq Credential
    BY <1>4, <1>6, <1>7 DEF Credential
  <2>2. file \subseteq Credential
    BY <1>7 DEF Credential, CredentialField
  <2> QED
    BY <1>3, <2>1, <2>2
<1>9. ModeOf(e) = l[2]
  <2>1. {c[1] : c \in asked} = IF secret[p] = {} THEN {} ELSE {SecretField(l)}
    BY <1>6
  <2>2. {c[1] : c \in file} = IF l[2] = "keypair" THEN {"privateKey"} ELSE {}
    <3>1. CASE l[2] = "keypair"
      <4>1. file = {<<"privateKey", <<p, "file">>>>}
        BY <3>1
      <4>2. <<"privateKey", <<p, "file">>>>[1] = "privateKey"
        OBVIOUS
      <4> QED
        BY <3>1, <4>1, <4>2
    <3>2. CASE l[2] # "keypair"
      BY <3>2
    <3> QED
      BY <3>1, <3>2
  <2>3. {c[1] : c \in e.creds} = {c[1] : c \in asked} \union {c[1] : c \in file}
    BY <1>3
  <2>4. secret[p] = {} => l[2] = "keypair"
    BY DEF SecretIsMeant
  <2> QED
    BY <1>2, <1>3, <2>1, <2>2, <2>3, <2>4, ModeOfRequest, ZenonT(60)
<1> DEFINE kept == [s \in Setting |-> IF s \in Field THEN e.fields[s] ELSE "zero"]
<1>10. Stored(e) = [leaf |-> l, fields |-> kept, creds |-> e.creds]
  BY <1>2, <1>3, <1>9, LeafType DEF Stored
<1>11. kept \in [Setting -> Value]
  <2>1. e.fields \in [Field -> Value]
    BY <1>3 DEF FlagValue, Value
  <2> QED
    BY <2>1 DEF Value
<1>12. Stored(e) \in Connector
  <2> HIDE DEF kept, e
  <2> QED
    BY <1>2, <1>8, <1>10, <1>11 DEF Connector
<1>13. ASSUME NEW f \in FlagsOf(l)
       PROVE  /\ e.fields[f] # "zero"
              /\ cmd[p].flags[f] = "set" => e.fields[f] = p
  <2>1. f \in Field /\ cmd[p].flags[f] # "zero" /\ e.fields[f] = FlagValue(p, l, f)
    BY <1>2, <1>3 DEF FlagsOf, Field, Valid
  <2>2. cmd[p].flags[f] \in {"absent", "set"}
    BY <1>2, <2>1 DEF Given
  <2>3. cmd[p].flags[f] = "absent" => l[1] = "databricks" /\ f = "port"
    BY <1>2, <2>1, Leaves DEF Valid, Required, FlagsOf, Field, Postgres
  <2>4. p # "zero"
    BY ConnectorsAssumption
  <2> QED
    BY <2>1, <2>2, <2>3, <2>4 DEF FlagValue
<1>14. e.creds # {} /\ (l[2] # "keypair" => Cardinality(e.creds) = 1)
  <2>1. CASE l[2] = "keypair"
    BY <1>3, <2>1
  <2>2. CASE l[2] # "keypair"
    <3>1. e.creds = {<<SecretField(l), Meant(p)>>}
      BY <1>3, <1>6, <2>2 DEF SecretIsMeant
    <3> QED
      BY <3>1, <2>2, FS_Singleton
  <2> QED
    BY <2>1, <2>2
<1>15. Means(cmd[p]) => \E x \in e.creds : x[2] = Meant(p)
  <2> SUFFICES ASSUME Means(cmd[p]) PROVE \E x \in e.creds : x[2] = Meant(p)
    OBVIOUS
  <2>1. <<SecretField(l), Meant(p)>> \in e.creds
    BY <1>3, <1>6 DEF SecretIsMeant
  <2> QED
    BY <2>1
<1>16. /\ Stored(e).leaf = l /\ Stored(e).creds = e.creds
       /\ \A f \in FlagsOf(l) : Stored(e).fields[f] = e.fields[f]
  <2>1. ASSUME NEW f \in FlagsOf(l) PROVE kept[f] = e.fields[f]
    <3>1. f \in Field /\ f \in Setting
      BY DEF FlagsOf, Field, Setting
    <3> QED
      BY <3>1
  <2>2. Stored(e).fields = kept /\ Stored(e).leaf = l /\ Stored(e).creds = e.creds
    BY <1>10
  <2> HIDE DEF kept, e
  <2> QED
    BY <2>1, <2>2
<1> HIDE DEF e
<1>17. AsAsked(p, Stored(e))
  BY <1>13, <1>14, <1>15, <1>16 DEF AsAsked
<1> QED
  BY <1>12, <1>17 DEF e

-----------------------------------------------------------------------------
(* Steps.                                                                  *)

\* Everything of a process stays as it is, but that it may be overtaken.
Untouched(q) ==
  /\ pc'[q] = pc[q] /\ cmd'[q] = cmd[q] /\ base'[q] = base[q]
  /\ secret'[q] = secret[q] /\ exit'[q] = exit[q]
  /\ hist'[q].made = hist[q].made /\ hist'[q].effects = hist[q].effects
  /\ hist'[q].lost = hist[q].lost

LEMMA UntouchedKeeps ==
  ASSUME NEW q \in Process, ProcessInv(q), Untouched(q), ReadIsCurrent(q)'
  PROVE  ProcessInv(q)'
<1>1. OnItsWay(q)'
  BY DEF ProcessInv, Untouched, OnItsWay, Creating, Updating
<1>2. SecretIsMeant(q)'
  BY DEF ProcessInv, Untouched, SecretIsMeant, Creating, Updating, Meant
<1>3. EffectIsTold(q)'
  BY DEF ProcessInv, Untouched, EffectIsTold
<1>4. ASSUME NEW c \in hist'[q].made PROVE AsAsked(q, c)'
  <2>1. AsAsked(q, c) /\ cmd'[q] = cmd[q]
    BY <1>4 DEF ProcessInv, Untouched
  <2> QED
    BY <2>1 DEF AsAsked, Meant
<1> QED
  BY <1>1, <1>2, <1>3, <1>4 DEF ProcessInv

\* A step of p that does not write to the service.
LEMMA QuietStep ==
  ASSUME ConnInv, NEW p \in Process, Types', ProcessInv(p)',
         UNCHANGED <<service, hist>>,
         \A q \in Process \ {p} :
           /\ pc'[q] = pc[q] /\ cmd'[q] = cmd[q] /\ base'[q] = base[q]
           /\ secret'[q] = secret[q] /\ exit'[q] = exit[q]
  PROVE  ConnInv'
<1>1. ASSUME NEW q \in Process, q # p PROVE ProcessInv(q)'
  <2>1. Untouched(q) /\ ProcessInv(q) /\ ReadIsCurrent(q)
    BY <1>1 DEF Untouched, ConnInv, ProcessInv
  <2>2. conn' = conn /\ next' = next /\ hist' = hist
    BY DEF service
  <2>3. ReadIsCurrent(q)'
    BY <1>1, <2>1, <2>2 DEF ReadIsCurrent, HasRead
  <2> QED
    BY <2>1, <2>3, UntouchedKeeps
<1> QED
  BY <1>1 DEF ConnInv

LEMMA ConnInvInit == Init => ConnInv
<1> SUFFICES ASSUME Init PROVE ConnInv
  OBVIOUS
<1>1. Types
  <2>1. DOMAIN conn = {1, 2} /\ next = 3
    BY DEF Init
  <2>2. ASSUME NEW i \in DOMAIN conn PROVE conn[i] \in Connector
    <3>1. <<"snowflake", "password">> \in Leaf /\ Postgres \in Leaf
      BY DEF Leaf, Postgres
    <3>2. <<"password", <<Before, "flag">>>> \in Credential
      BY DEF Credential, CredentialField, Source
    <3>3. [s \in Setting |-> IF i = 2 /\ s = "port" THEN "zero" ELSE Before]
             \in [Setting -> Value]
      BY DEF Value
    <3> QED
      BY <2>1, <2>2, <3>1, <3>2, <3>3 DEF Init, Connector
  <2>3. NoBase \in [type : Dialect, fields : [Field -> Value]]
    <3>1. "postgres" \in Dialect
      <4>1. Postgres \in Leaf /\ Postgres[1] = "postgres"
        BY DEF Leaf, Postgres
      <4> QED
        BY <4>1, LeafType
    <3> QED
      BY <3>1 DEF NoBase, NoFields, Value
  <2>4. hist \in [Process -> History]
    BY DEF Init, History
  <2> QED
    BY <2>1, <2>2, <2>3, <2>4, ConnectorsAssumption DEF Init, Types, Location
<1>2. ASSUME NEW p \in Process PROVE ProcessInv(p)
  BY <1>2 DEF Init, ProcessInv, OnItsWay, SecretIsMeant, EffectIsTold, ReadIsCurrent, HasRead
<1> QED
  BY <1>1, <1>2 DEF ConnInv

LEMMA CallType ==
  ASSUME faults \in 0 .. MaxFaults, NEW out, Call(out)
  PROVE  faults' \in 0 .. MaxFaults
BY ConnectorsAssumption DEF Call

\* The steps of a command up to its last call.
LEMMA InvokeStep == ASSUME ConnInv, NEW p \in Process, Invoke(p) PROVE ConnInv'
<1>1. PICK c \in CommandsOf[p] : cmd' = [cmd EXCEPT ![p] = c]
  BY DEF Invoke
<1>2. c \in Command /\ c # NoCommand
  BY ConnectorsAssumption
<1>3. Types'
  BY <1>1, <1>2 DEF ConnInv, Types, Invoke, Goto, Location, service
<1>4. ProcessInv(p) /\ pc[p] = "idle" /\ pc'[p] = "start" /\ cmd'[p] = c
  BY <1>1 DEF ConnInv, Types, Invoke, Goto
<1>5. ProcessInv(p)'
  BY <1>2, <1>4 DEF ProcessInv, Invoke, OnItsWay, SecretIsMeant, EffectIsTold, ReadIsCurrent, HasRead
<1> QED
  BY <1>1, <1>3, <1>5, QuietStep DEF Invoke, Goto, ConnInv, Types

LEMMA CheckFlagsStep == ASSUME ConnInv, NEW p \in Process, CheckFlags(p) PROVE ConnInv'
<1>1. Types'
  BY DEF ConnInv, Types, CheckFlags, Goto, Exit, Location, service
<1>2. ProcessInv(p) /\ pc[p] = "start"
  BY DEF ConnInv, CheckFlags, Runs
<1>3. \/ pc'[p] = "exited" /\ exit'[p] = "usage"
      \/ pc'[p] = "secret" /\ Valid(cmd[p])
      \/ pc'[p] = "key" /\ Valid(cmd[p]) /\ cmd[p].leaf[2] = "keypair"
  BY DEF ConnInv, Types, CheckFlags, Goto, Exit
<1>4. OnItsWay(p)'
  BY <1>2, <1>3 DEF ProcessInv, OnItsWay, CheckFlags, Runs, Creating, Updating
<1>5. SecretIsMeant(p)'
  BY <1>2, <1>3 DEF ProcessInv, SecretIsMeant, CheckFlags, Creating, Updating, Meant
<1>6. EffectIsTold(p)' /\ ReadIsCurrent(p)'
  BY <1>2, <1>3 DEF ProcessInv, EffectIsTold, ReadIsCurrent, HasRead, CheckFlags, Runs
<1>7. hist'[p].made = {}
  BY <1>2 DEF ProcessInv, EffectIsTold, CheckFlags
<1>8. ProcessInv(p)'
  BY <1>4, <1>5, <1>6, <1>7 DEF ProcessInv
<1> QED
  BY <1>1, <1>8, QuietStep DEF CheckFlags, Goto, Exit, ConnInv, Types

LEMMA ReadKeyFileStep == ASSUME ConnInv, NEW p \in Process, ReadKeyFile(p) PROVE ConnInv'
<1>1. Types'
  BY DEF ConnInv, Types, ReadKeyFile, Goto, Exit, Location, service
<1>2. ProcessInv(p) /\ pc[p] = "key"
  BY DEF ConnInv, ReadKeyFile
<1>3. \/ pc'[p] = "exited" /\ exit'[p] \in {"usage", "error"}
      \/ pc'[p] = "secret"
  BY DEF ConnInv, Types, ReadKeyFile, Goto, Exit
<1>4. OnItsWay(p)'
  BY <1>2, <1>3 DEF ProcessInv, OnItsWay, ReadKeyFile, Creating, Updating
<1>5. SecretIsMeant(p)'
  BY <1>2, <1>3 DEF ProcessInv, SecretIsMeant, ReadKeyFile, Creating, Updating, Meant
<1>6. EffectIsTold(p)'
  BY <1>2, <1>3 DEF ProcessInv, EffectIsTold, ReadKeyFile
<1>7. ReadIsCurrent(p)' /\ hist'[p].made = {}
  BY <1>2, <1>3 DEF ProcessInv, OnItsWay, EffectIsTold, ReadIsCurrent, HasRead, ReadKeyFile, Creating
<1>8. ProcessInv(p)'
  BY <1>4, <1>5, <1>6, <1>7 DEF ProcessInv
<1> QED
  BY <1>1, <1>8, QuietStep DEF ReadKeyFile, Goto, Exit, ConnInv, Types

\* What is read is what was meant, or the command ends.
LEMMA ReadSecretStep == ASSUME ConnInv, NEW p \in Process, ReadSecret(p) PROVE ConnInv'
<1>1. ProcessInv(p) /\ pc[p] = "secret" /\ cmd' = cmd /\ hist' = hist /\ base' = base
  BY DEF ConnInv, ReadSecret
<1>2. \/ /\ pc' = [pc EXCEPT ![p] = "send"] /\ secret' = [secret EXCEPT ![p] = {Meant(p)}]
         /\ Means(cmd[p]) /\ exit' = exit
      \/ /\ pc' = [pc EXCEPT ![p] = "send"] /\ secret' = secret /\ exit' = exit
         /\ ~Means(cmd[p]) /\ Optional(cmd[p])
      \/ /\ pc' = [pc EXCEPT ![p] = "exited"] /\ secret' = secret
         /\ exit' \in {[exit EXCEPT ![p] = "usage"], [exit EXCEPT ![p] = "error"]}
  <2>1. PICK line \in {"stdin", "empty", "broken"} :
          LET src == SecretSource(cmd[p], line) IN
          \/ /\ src \in {"flag", "stdin"}
             /\ secret' = [secret EXCEPT ![p] = {<<p, src>>}]
             /\ Goto(p, "send")
          \/ /\ src = "none" /\ Optional(cmd[p])
             /\ Goto(p, "send")
             /\ UNCHANGED secret
          \/ /\ src \in {"empty", "none"} /\ ~(src = "none" /\ Optional(cmd[p]))
             /\ Exit(p, "usage")
             /\ UNCHANGED secret
          \/ /\ src = "broken"
             /\ Exit(p, "error")
             /\ UNCHANGED secret
    BY DEF ReadSecret
  <2>2. CASE cmd[p].stdin
    BY <2>1, <2>2 DEF SecretSource, Goto, Exit, Means, Meant
  <2>3. CASE ~cmd[p].stdin
    BY <2>1, <2>3 DEF SecretSource, Goto, Exit, Means, Meant
  <2> QED
    BY <2>2, <2>3
<1>3. Meant(p) \in Source
  BY DEF Meant, Source
<1>4. Types'
  <2>1. secret' \in [Process -> SUBSET Source]
    BY <1>2, <1>3 DEF ConnInv, Types
  <2>2. pc' \in [Process -> Location] /\ exit' \in [Process -> {"none", "ok", "usage", "error"}]
    BY <1>2 DEF ConnInv, Types, Location
  <2> QED
    BY <2>1, <2>2 DEF ConnInv, Types, ReadSecret, service
<1>5. /\ pc'[p] = "send" \/ (pc'[p] = "exited" /\ exit'[p] \in {"usage", "error"})
      /\ pc'[p] = "send" =>
           \/ Means(cmd[p]) /\ secret'[p] = {Meant(p)}
           \/ ~Means(cmd[p]) /\ Optional(cmd[p]) /\ secret'[p] = {}
      /\ secret'[p] = {} \/ secret'[p] = {Meant(p)}
  BY <1>1, <1>2 DEF ConnInv, Types, ProcessInv, SecretIsMeant
<1>6. OnItsWay(p)'
  BY <1>1, <1>5 DEF ProcessInv, OnItsWay, Creating, Updating
<1>7. SecretIsMeant(p)'
  <2>1. Meant(p)' = Meant(p)
    BY <1>1 DEF Meant
  <2>2. pc'[p] = "send" /\ Creating(p) =>
          (secret'[p] = {} => cmd[p].leaf[2] = "keypair") /\ (Means(cmd[p]) => secret'[p] # {})
    BY <1>5 DEF Optional
  <2>3. pc'[p] = "send" /\ Updating(p) => secret'[p] # {} /\ AsksSecret(cmd[p])
    BY <1>1, <1>5 DEF Optional, Updating, Creating, ProcessInv, OnItsWay
  <2> QED
    BY <1>1, <1>5, <2>1, <2>2, <2>3 DEF SecretIsMeant, Creating, Updating
<1>8. EffectIsTold(p)'
  BY <1>1, <1>5 DEF ProcessInv, EffectIsTold
<1>9. ReadIsCurrent(p)' /\ hist'[p].made = {}
  BY <1>1, <1>5 DEF ProcessInv, EffectIsTold, ReadIsCurrent, HasRead, ReadSecret, service
<1>10. ProcessInv(p)'
  BY <1>6, <1>7, <1>8, <1>9 DEF ProcessInv
<1> QED
  BY <1>2, <1>4, <1>10, QuietStep DEF ReadSecret, ConnInv, Types

LEMMA CheckUpdateStep == ASSUME ConnInv, NEW p \in Process, CheckUpdate(p) PROVE ConnInv'
<1>1. Types'
  BY DEF ConnInv, Types, CheckUpdate, Goto, Exit, Location, service
<1>2. ProcessInv(p) /\ pc[p] = "start" /\ cmd[p].verb = "update"
  BY DEF ConnInv, CheckUpdate, Runs
<1>3. \/ pc'[p] = "exited" /\ exit'[p] = "usage"
      \/ pc'[p] = "get"
  BY DEF ConnInv, Types, CheckUpdate, Goto, Exit
<1>4. OnItsWay(p)'
  BY <1>2, <1>3 DEF ProcessInv, OnItsWay, CheckUpdate, Creating, Updating
<1>5. SecretIsMeant(p)'
  BY <1>2, <1>3 DEF ProcessInv, SecretIsMeant, CheckUpdate, Creating, Updating, Meant
<1>6. EffectIsTold(p)'
  BY <1>2, <1>3 DEF ProcessInv, EffectIsTold, CheckUpdate
<1>7. ReadIsCurrent(p)' /\ hist'[p].made = {}
  BY <1>2, <1>3 DEF ProcessInv, EffectIsTold, ReadIsCurrent, HasRead, CheckUpdate
<1>8. ProcessInv(p)'
  BY <1>4, <1>5, <1>6, <1>7 DEF ProcessInv
<1> QED
  BY <1>1, <1>8, QuietStep DEF CheckUpdate, Goto, Exit, ConnInv, Types

LEMMA CheckIDStep == ASSUME ConnInv, NEW p \in Process, CheckID(p) PROVE ConnInv'
<1>1. Types'
  BY DEF ConnInv, Types, CheckID, Goto, Location, service
<1>2. ProcessInv(p) /\ pc[p] = "start" /\ cmd[p].verb \in {"delete", "test"}
  BY DEF ConnInv, CheckID
<1>3. \/ pc'[p] = "get" /\ cmd[p].verb = "test"
      \/ pc'[p] = "send"
  BY DEF ConnInv, Types, CheckID, Goto
<1>4. OnItsWay(p)'
  BY <1>2, <1>3 DEF ProcessInv, OnItsWay, CheckID, Creating, Updating
<1>5. SecretIsMeant(p)'
  BY <1>2, <1>3 DEF ProcessInv, SecretIsMeant, CheckID, Creating, Updating, Meant
<1>6. EffectIsTold(p)'
  BY <1>2, <1>3 DEF ProcessInv, EffectIsTold, CheckID
<1>7. ReadIsCurrent(p)' /\ hist'[p].made = {}
  BY <1>2, <1>3 DEF ProcessInv, EffectIsTold, ReadIsCurrent, HasRead, CheckID
<1>8. ProcessInv(p)'
  BY <1>4, <1>5, <1>6, <1>7 DEF ProcessInv
<1> QED
  BY <1>1, <1>8, QuietStep DEF CheckID, Goto, ConnInv, Types

LEMMA KnownType ==
  ASSUME NEW c \in Connector, NEW s \in Setting
  PROVE  Known(c)[s] \in Value /\ (c.leaf = Postgres => Known(c)[s] = c.fields[s])
BY DEF Connector, Known, Value

LEMMA GotType ==
  ASSUME NEW c \in Connector
  PROVE  Got(c) \in [type : Dialect, fields : [Field -> Value]]
<1>1. c.leaf[1] \in Dialect
  BY LeafType DEF Connector
<1>2. \A f \in Field : Known(c)[f] \in Value
  BY KnownType DEF Setting
<1> QED
  BY <1>1, <1>2 DEF Got

LEMMA GetConnectorStep == ASSUME ConnInv, NEW p \in Process, GetConnector(p) PROVE ConnInv'
<1>1. /\ ProcessInv(p) /\ pc[p] = "get" /\ cmd' = cmd /\ hist' = hist /\ secret' = secret
      /\ conn' = conn /\ next' = next
  BY DEF ConnInv, GetConnector, service
<1>2. \/ /\ cmd[p].id \in DOMAIN conn
         /\ base' = [base EXCEPT ![p] = Got(conn[cmd[p].id])]
         /\ pc' = [pc EXCEPT ![p] = IF Updating(p) /\ AsksSecret(cmd[p]) THEN "secret" ELSE "send"]
         /\ exit' = exit /\ faults' = faults
      \/ /\ pc' = [pc EXCEPT ![p] = "exited"] /\ exit' = [exit EXCEPT ![p] = "error"]
         /\ base' = base /\ (faults' = faults \/ Call("refused"))
  BY DEF GetConnector, Goto, Exit, Updating
<1>3. Types'
  <2>1. base' \in [Process -> [type : Dialect, fields : [Field -> Value]]]
    BY <1>2, GotType DEF ConnInv, Types
  <2>2. pc' \in [Process -> Location] /\ exit' \in [Process -> {"none", "ok", "usage", "error"}]
    BY <1>2 DEF ConnInv, Types, Location
  <2>3. faults' \in 0 .. MaxFaults
    BY <1>2, CallType DEF ConnInv, Types
  <2> QED
    BY <1>1, <2>1, <2>2, <2>3 DEF ConnInv, Types
<1>4. \/ /\ pc'[p] \in {"secret", "send"}
         /\ cmd[p].id \in DOMAIN conn /\ base'[p] = Got(conn[cmd[p].id])
         /\ pc'[p] = "secret" <=> Updating(p) /\ AsksSecret(cmd[p])
      \/ pc'[p] = "exited" /\ exit'[p] = "error"
  BY <1>2 DEF ConnInv, Types
<1>5. cmd[p].verb \in {"update", "test"}
  BY <1>1 DEF ProcessInv, OnItsWay
<1>6. OnItsWay(p)'
  BY <1>1, <1>4, <1>5 DEF ProcessInv, OnItsWay, Creating, Updating
<1>7. SecretIsMeant(p)'
  BY <1>1, <1>4, <1>5 DEF ProcessInv, SecretIsMeant, Creating, Updating, Meant
<1>8. EffectIsTold(p)'
  BY <1>1, <1>4, <1>5 DEF ProcessInv, EffectIsTold
<1>9. ReadIsCurrent(p)' /\ hist'[p].made = {}
  <2>1. cmd[p].id \in DOMAIN conn => cmd[p].id < next
    BY DEF ConnInv, Types
  <2> QED
    BY <1>1, <1>4, <2>1 DEF ProcessInv, EffectIsTold, ReadIsCurrent, HasRead
<1>10. ProcessInv(p)'
  BY <1>6, <1>7, <1>8, <1>9 DEF ProcessInv
<1> QED
  BY <1>1, <1>2, <1>3, <1>10, QuietStep DEF service, ConnInv, Types

\* The last call.  A command that ends has an effect, or none, that its code
\* tells; what the others have read may be out of date from here on.
LEMMA SendTestStep == ASSUME ConnInv, NEW p \in Process, SendTest(p) PROVE ConnInv'
<1>1. ProcessInv(p) /\ pc[p] = "send" /\ cmd[p].verb = "test" /\ cmd' = cmd /\ hist' = hist
  BY DEF ConnInv, SendTest, Runs
<1>2. /\ pc' = [pc EXCEPT ![p] = "exited"]
      /\ exit' = [exit EXCEPT ![p] = "ok"] \/ exit' = [exit EXCEPT ![p] = "error"]
      /\ faults' \in 0 .. MaxFaults
  BY CallType DEF SendTest, ExitAfter, Exit, ConnInv, Types
<1>3. Types'
  BY <1>1, <1>2 DEF ConnInv, Types, SendTest, Location, service
<1>4. pc'[p] = "exited" /\ exit'[p] \in {"ok", "error"}
  BY <1>2 DEF ConnInv, Types
<1>5. OnItsWay(p)'
  BY <1>1, <1>4 DEF ProcessInv, OnItsWay
<1>6. SecretIsMeant(p)'
  BY <1>1, <1>4 DEF ProcessInv, SecretIsMeant, SendTest, Meant
<1>7. EffectIsTold(p)' /\ hist'[p].made = {}
  BY <1>1, <1>4 DEF ProcessInv, EffectIsTold
<1>8. ReadIsCurrent(p)'
  BY <1>4 DEF ReadIsCurrent, HasRead
<1>9. ProcessInv(p)'
  BY <1>5, <1>6, <1>7, <1>8 DEF ProcessInv
<1> QED
  BY <1>1, <1>2, <1>3, <1>9, QuietStep DEF SendTest, ConnInv, Types

\* Of a command that has sent: its secret has served, its way is over.
LEMMA SentStep ==
  ASSUME NEW p \in Process, Types, ProcessInv(p), pc[p] = "send",
         pc'[p] = "exited", cmd'[p] = cmd[p], secret'[p] = secret[p]
  PROVE  OnItsWay(p)' /\ SecretIsMeant(p)' /\ ReadIsCurrent(p)'
<1>1. OnItsWay(p)'
  BY DEF ProcessInv, OnItsWay
<1>2. SecretIsMeant(p)'
  BY DEF ProcessInv, SecretIsMeant, Meant
<1>3. ReadIsCurrent(p)'
  BY DEF ReadIsCurrent, HasRead
<1> QED
  BY <1>1, <1>2, <1>3

\* The code of a command that has sent tells how its call ended.
LEMMA Told ==
  ASSUME NEW p \in Process, NEW out \in Outcome,
         pc'[p] = "exited", exit'[p] = IF Fine(p, out) THEN "ok" ELSE "error",
         cmd'[p] = cmd[p],
         IF out = "refused" THEN hist'[p].effects = 0 /\ hist'[p].lost = FALSE
         ELSE hist'[p].effects = 1 /\ hist'[p].lost = (out \in Unseen)
  PROVE  EffectIsTold(p)'
<1>1. CASE out = "ok"
  <2>1. (out \in Unseen) = FALSE /\ Fine(p, out) /\ out # "refused"
    BY <1>1 DEF Unseen, Fine
  <2>2. hist'[p].effects = 1 /\ hist'[p].lost = FALSE /\ exit'[p] = "ok"
    BY <2>1, Zenon
  <2> QED
    BY <2>2 DEF EffectIsTold
<1>2. CASE out = "refused"
  <2>1. hist'[p].effects = 0 /\ hist'[p].lost = FALSE /\ exit'[p] = "error"
    BY <1>2 DEF Fine
  <2> QED
    BY <2>1 DEF EffectIsTold
<1>3. CASE out \in Unseen
  <2>1. (out \in Unseen) = TRUE /\ out # "refused"
    BY <1>3 DEF Unseen
  <2>2. hist'[p].effects = 1 /\ hist'[p].lost = TRUE
    BY <2>1, Zenon
  <2>3. exit'[p] = "error" \/ (exit'[p] = "ok" /\ cmd'[p].verb = "delete")
    BY <1>3 DEF Fine, Unseen
  <2> QED
    BY <2>2, <2>3 DEF EffectIsTold
<1> QED
  BY <1>1, <1>2, <1>3 DEF Outcome, Unseen

LEMMA HistoryType ==
  ASSUME NEW r \in History
  PROVE  /\ r.made \in SUBSET Connector /\ r.effects \in Nat
         /\ r.lost \in BOOLEAN /\ r.overtaken \in BOOLEAN
BY DEF History

LEMMA SendCreateStep == ASSUME ConnInv, NEW p \in Process, SendCreate(p) PROVE ConnInv'
<1> DEFINE c == Stored(CreateReq(p))
<1>1. ProcessInv(p) /\ Types /\ pc[p] = "send" /\ Creating(p)
  BY DEF ConnInv, SendCreate, Runs, Creating
<1>2. c \in Connector /\ AsAsked(p, c)
  BY <1>1, CreateReqCorrect DEF ProcessInv
<1>3. PICK out \in Outcome :
        /\ Call(out)
        /\ ExitAfter(p, out)
        /\ IF out = "refused"
           THEN UNCHANGED <<service, hist>>
           ELSE /\ conn' = With(next, c)
                /\ next' = next + 1
                /\ hist' = [hist EXCEPT ![p].made = @ \union {c}, ![p].effects = @ + 1,
                                        ![p].lost = out \in Unseen]
  BY DEF SendCreate
<1> HIDE DEF c
<1>4. cmd' = cmd /\ base' = base /\ secret' = secret
  BY DEF SendCreate
<1>5. /\ pc' = [pc EXCEPT ![p] = "exited"]
      /\ exit' = [exit EXCEPT ![p] = IF Fine(p, out) THEN "ok" ELSE "error"]
  BY <1>3 DEF ExitAfter, Exit
<1>6. pc'[p] = "exited" /\ exit'[p] = IF Fine(p, out) THEN "ok" ELSE "error"
  BY <1>1, <1>5 DEF Types
<1>7. hist[p].made = {} /\ hist[p].effects = 0 /\ hist[p].lost = FALSE
  BY <1>1 DEF ProcessInv, EffectIsTold
<1>8. hist[p] \in History
  BY <1>1 DEF Types
<1>9. IF out = "refused" THEN hist' = hist
      ELSE hist' = [hist EXCEPT ![p] =
             [made |-> {c}, effects |-> 1, lost |-> out \in Unseen, overtaken |-> hist[p].overtaken]]
  BY <1>1, <1>3, <1>7, <1>8 DEF Types, History
<1>10. hist' \in [Process -> History]
  <2>1. hist[p].overtaken \in BOOLEAN /\ (out \in Unseen) \in BOOLEAN /\ {c} \in SUBSET Connector
    BY <1>2, <1>8, HistoryType
  <2>2. [made |-> {c}, effects |-> 1, lost |-> out \in Unseen, overtaken |-> hist[p].overtaken]
          \in History
    BY <2>1 DEF History
  <2> QED
    BY <1>1, <1>9, <2>2 DEF Types
<1>11. /\ DOMAIN conn' \subseteq 1 .. next' - 1 /\ next' \in Nat \ {0}
       /\ \A i \in DOMAIN conn' : conn'[i] \in Connector
  <2>1. CASE out = "refused"
    BY <1>1, <1>3, <2>1 DEF Types, service
  <2>2. CASE out # "refused"
    <3>1. conn' = With(next, c) /\ next' = next + 1
      BY <1>3, <2>2
    <3>2. /\ DOMAIN With(next, c) = DOMAIN conn \union {next}
          /\ \A j \in DOMAIN conn \union {next} :
               With(next, c)[j] = IF j = next THEN c ELSE conn[j]
      BY DEF With
    <3>3. DOMAIN conn \subseteq 1 .. next - 1 /\ next \in Nat \ {0}
      BY <1>1 DEF Types
    <3>4. DOMAIN conn' \subseteq 1 .. next' - 1 /\ next' \in Nat \ {0}
      BY <3>1, <3>2, <3>3
    <3> QED
      BY <1>1, <1>2, <3>1, <3>2, <3>4 DEF Types
  <2> QED
    BY <2>1, <2>2
<1>12. Types'
  <2>1. pc' \in [Process -> Location] /\ exit' \in [Process -> {"none", "ok", "usage", "error"}]
    BY <1>1, <1>5 DEF Types, Location
  <2>2. faults' \in 0 .. MaxFaults
    BY <1>1, <1>3, CallType DEF Types
  <2> QED
    BY <1>1, <1>4, <1>10, <1>11, <2>1, <2>2 DEF Types
<1>13. ProcessInv(p)'
  <2>1. OnItsWay(p)' /\ SecretIsMeant(p)' /\ ReadIsCurrent(p)'
    BY <1>1, <1>4, <1>6, SentStep
  <2>2. hist'[p] = IF out = "refused" THEN hist[p]
                   ELSE [made |-> {c}, effects |-> 1, lost |-> out \in Unseen,
                         overtaken |-> hist[p].overtaken]
    BY <1>1, <1>9 DEF Types
  <2>3. EffectIsTold(p)'
    <3>1. CASE out = "refused"
      BY <1>4, <1>6, <1>7, <2>2, <3>1, Told
    <3>2. CASE out # "refused"
      <4>1. hist'[p].effects = 1 /\ hist'[p].lost = (out \in Unseen)
        <5> DEFINE lost == out \in Unseen
        <5>1. hist'[p] = [made |-> {c}, effects |-> 1, lost |-> lost,
                          overtaken |-> hist[p].overtaken]
          BY <2>2, <3>2
        <5> HIDE DEF lost
        <5>2. hist'[p].effects = 1 /\ hist'[p].lost = lost
          BY <5>1
        <5> QED
          BY <5>2 DEF lost
      <4> QED
        BY <1>4, <1>6, <3>2, <4>1, Told
    <3> QED
      BY <3>1, <3>2
  <2>4. ASSUME NEW d \in hist'[p].made PROVE AsAsked(p, d)'
    <3>1. d = c
      BY <1>7, <2>2, <2>4
    <3> QED
      BY <1>2, <1>4, <3>1 DEF AsAsked, Meant
  <2> QED
    BY <2>1, <2>3, <2>4 DEF ProcessInv
<1>14. ASSUME NEW q \in Process, q # p PROVE ProcessInv(q)'
  <2>1. Untouched(q) /\ hist'[q] = hist[q]
    BY <1>1, <1>4, <1>5, <1>9, <1>14 DEF Untouched, Types
  <2>2. ProcessInv(q) /\ ReadIsCurrent(q)
    BY DEF ConnInv, ProcessInv
  <2>3. \A i \in Nat : i < next =>
          i < next' /\ (i \in DOMAIN conn' => i \in DOMAIN conn /\ conn'[i] = conn[i])
    BY <1>1, <1>3 DEF Types, With, service
  <2>4. HasRead(q, cmd[q].id) => cmd[q].id \in Nat
    <3>1. pc[q] # "idle" => cmd[q] \in Command
      BY <1>1, <2>2, HasCommand DEF ProcessInv
    <3> QED
      BY <3>1, VerbTells DEF HasRead, Update
  <2>5. ReadIsCurrent(q)'
    BY <2>1, <2>2, <2>3, <2>4 DEF Untouched, ReadIsCurrent, HasRead
  <2> QED
    BY <2>1, <2>2, <2>5, UntouchedKeeps
<1> QED
  BY <1>12, <1>13, <1>14 DEF ConnInv

\* What the histories are after a command that has made nothing new has sent.
LEMMA SentHistory ==
  ASSUME NEW p \in Process, Types, ProcessInv(p), pc[p] = "send",
         NEW out \in Outcome,
         pc'[p] = "exited", exit'[p] = IF Fine(p, out) THEN "ok" ELSE "error",
         cmd'[p] = cmd[p], secret'[p] = secret[p],
         IF out = "refused" THEN hist'[p] = hist[p]
         ELSE hist'[p] = [hist[p] EXCEPT !.effects = @ + 1, !.lost = out \in Unseen]
  PROVE  ProcessInv(p)' /\ hist'[p] \in History
<1>1. hist[p] \in History /\ hist[p].made = {} /\ hist[p].effects = 0 /\ hist[p].lost = FALSE
  BY DEF Types, ProcessInv, EffectIsTold
<1>2. OnItsWay(p)' /\ SecretIsMeant(p)' /\ ReadIsCurrent(p)'
  BY SentStep
<1>3. ASSUME out # "refused"
      PROVE  /\ hist'[p] \in History
             /\ hist'[p].made = {} /\ hist'[p].effects = 1 /\ hist'[p].lost = (out \in Unseen)
  <2>1. hist'[p] = [hist[p] EXCEPT !.effects = hist[p].effects + 1, !.lost = (out \in Unseen)]
    BY <1>3
  <2>3. hist'[p].lost = (out \in Unseen)
    BY <1>1, <2>1 DEF History
  <2>4. hist'[p].made = {} /\ hist'[p].effects = 1
    BY <1>1, <2>1 DEF History
  <2>5. hist'[p] \in History
    <3> DEFINE lost == (out \in Unseen)
    <3>1. hist'[p] = [hist[p] EXCEPT !.effects = hist[p].effects + 1, !.lost = lost]
      BY <2>1
    <3>2. lost \in BOOLEAN
      OBVIOUS
    <3> HIDE DEF lost
    <3>3. [hist[p] EXCEPT !.effects = hist[p].effects + 1] \in History
      BY <1>1 DEF History
    <3>4. [[hist[p] EXCEPT !.effects = hist[p].effects + 1] EXCEPT !.lost = lost] \in History
      BY <3>2, <3>3 DEF History
    <3> QED
      BY <3>1, <3>4
  <2> QED
    BY <2>3, <2>4, <2>5
<1>4. EffectIsTold(p)' /\ hist'[p].made = {} /\ hist'[p] \in History
  <2>1. CASE out = "refused"
    BY <1>1, <2>1, Told
  <2>2. CASE out # "refused"
    BY <1>3, <2>2, Told
  <2> QED
    BY <2>1, <2>2
<1> QED
  BY <1>2, <1>4 DEF ProcessInv

LEMMA SendDeleteStep == ASSUME ConnInv, NEW p \in Process, SendDelete(p) PROVE ConnInv'
<1> DEFINE i == cmd[p].id
<1>1. ProcessInv(p) /\ Types /\ pc[p] = "send"
  BY DEF ConnInv, SendDelete, Runs
<1>2. PICK out \in Outcome :
        /\ IF i \in DOMAIN conn THEN Call(out) ELSE out = "refused" /\ UNCHANGED faults
        /\ ExitAfter(p, out)
        /\ IF out = "refused"
           THEN UNCHANGED <<conn, hist>>
           ELSE /\ conn' = [j \in DOMAIN conn \ {i} |-> conn[j]]
                /\ hist' = [hist EXCEPT ![p].effects = @ + 1, ![p].lost = out \in Unseen]
  BY DEF SendDelete
<1> HIDE DEF i
<1>3. cmd' = cmd /\ base' = base /\ secret' = secret /\ next' = next
  BY DEF SendDelete
<1>4. /\ pc' = [pc EXCEPT ![p] = "exited"]
      /\ exit' = [exit EXCEPT ![p] = IF Fine(p, out) THEN "ok" ELSE "error"]
  BY <1>2 DEF ExitAfter, Exit
<1>5. /\ DOMAIN conn' \subseteq DOMAIN conn
      /\ \A j \in DOMAIN conn' : conn'[j] = conn[j]
  BY <1>2
<1>6. /\ IF out = "refused" THEN hist' = hist
         ELSE hist' = [hist EXCEPT ![p] = [hist[p] EXCEPT !.effects = @ + 1, !.lost = out \in Unseen]]
  BY <1>1, <1>2 DEF Types
<1>7. ProcessInv(p)' /\ hist'[p] \in History
  <2>1. /\ pc'[p] = "exited" /\ exit'[p] = (IF Fine(p, out) THEN "ok" ELSE "error")
        /\ cmd'[p] = cmd[p] /\ secret'[p] = secret[p]
    BY <1>1, <1>3, <1>4 DEF Types
  <2>2. IF out = "refused" THEN hist'[p] = hist[p]
        ELSE hist'[p] = [hist[p] EXCEPT !.effects = @ + 1, !.lost = out \in Unseen]
    BY <1>1, <1>6 DEF Types
  <2> QED
    BY <1>1, <2>1, <2>2, SentHistory
<1>8. \A q \in Process : q # p => hist'[q] = hist[q]
  BY <1>1, <1>6 DEF Types
<1>9. Types'
  <2>1. pc' \in [Process -> Location] /\ exit' \in [Process -> {"none", "ok", "usage", "error"}]
    BY <1>1, <1>4 DEF Types, Location
  <2>2. faults' \in 0 .. MaxFaults
    BY <1>1, <1>2, CallType DEF Types
  <2>3. hist' \in [Process -> History]
    <3>1. \A q \in Process : hist'[q] \in History
      BY <1>1, <1>7, <1>8 DEF Types
    <3>2. hist' = [q \in Process |-> hist'[q]]
      BY <1>1, <1>6 DEF Types
    <3> QED
      BY <3>1, <3>2
  <2>4. DOMAIN conn' \subseteq 1 .. next' - 1 /\ \A j \in DOMAIN conn' : conn'[j] \in Connector
    BY <1>1, <1>3, <1>5 DEF Types
  <2> QED
    BY <1>1, <1>3, <2>1, <2>2, <2>3, <2>4 DEF Types
<1>10. ASSUME NEW q \in Process, q # p PROVE ProcessInv(q)'
  <2>1. Untouched(q) /\ hist'[q] = hist[q]
    BY <1>1, <1>3, <1>4, <1>8, <1>10 DEF Untouched, Types
  <2>2. ProcessInv(q) /\ ReadIsCurrent(q)
    BY DEF ConnInv, ProcessInv
  <2>3. ReadIsCurrent(q)'
    BY <1>3, <1>5, <2>1, <2>2 DEF Untouched, ReadIsCurrent, HasRead
  <2> QED
    BY <2>1, <2>2, <2>3, UntouchedKeeps
<1> QED
  BY <1>7, <1>9, <1>10 DEF ConnInv

\* What an update asks for, and what it makes of connector i.
Written(p, i, keeps) ==
  LET e == UpdateReq(p) IN
  [leaf |-> Postgres, fields |-> Settings(conn[i], e, keeps),
   creds |-> IF e.creds = {} THEN conn[i].creds ELSE e.creds]

\* What an update makes of a field: what is sent, or what was there, or zero.
LEMMA SettingsOf ==
  ASSUME NEW c, NEW e, NEW keeps \in BOOLEAN, NEW f \in Field
  PROVE  /\ e.fields[f] # "zero" => Settings(c, e, keeps)[f] = e.fields[f]
         /\ e.fields[f] = "zero" =>
              Settings(c, e, keeps)[f] = "zero" \/ Settings(c, e, keeps)[f] = Known(c)[f]
<1>1. f \in Setting
  BY DEF Setting
<1> QED
  BY <1>1 DEF Settings

LEMMA WrittenType ==
  ASSUME Types, NEW p \in Process, NEW i \in DOMAIN conn, NEW keeps \in BOOLEAN
  PROVE  Written(p, i, keeps) \in Connector
<1> DEFINE e == UpdateReq(p)
<1>1. e.fields = [f \in Field |-> Merge(p, f)] /\ e.creds = {"password"} \X secret[p]
  BY DEF UpdateReq
<1>2. \A f \in Field : Merge(p, f) \in Value
  BY DEF Merge, Value, Types
<1>3. e.creds \in SUBSET Credential
  BY <1>1 DEF Types, Credential, CredentialField
<1>4. Postgres \in Leaf
  BY DEF Postgres, Leaf
<1>5. conn[i].creds \in SUBSET Credential /\ conn[i] \in Connector
  BY DEF Types, Connector
<1>6. e.fields \in [Field -> Value]
  BY <1>1, <1>2
<1> HIDE DEF e
<1>7. Settings(conn[i], e, keeps) \in [Setting -> Value]
  <2>1. \A s \in Setting : Known(conn[i])[s] \in Value
    BY <1>5, KnownType
  <2> QED
    BY <1>6, <2>1 DEF Settings, Value
<1> QED
  BY <1>3, <1>4, <1>5, <1>7 DEF Written, Connector, e

LEMMA SendUpdateStep == ASSUME ConnInv, NEW p \in Process, SendUpdate(p) PROVE ConnInv'
<1> DEFINE i == cmd[p].id
<1>1. ProcessInv(p) /\ Types /\ pc[p] = "send"
  BY DEF ConnInv, SendUpdate, Runs
<1>2. PICK out \in Outcome, keeps \in BOOLEAN :
        /\ \/ i \in DOMAIN conn /\ Call(out)
           \/ out = "refused" /\ UNCHANGED faults
        /\ ExitAfter(p, out)
        /\ IF out = "refused"
           THEN UNCHANGED <<conn, hist>>
           ELSE /\ conn' = [conn EXCEPT ![i] = Written(p, i, keeps)]
                /\ hist' = [q \in Process |->
                     IF q = p
                     THEN [hist[p] EXCEPT !.effects = @ + 1, !.lost = out \in Unseen]
                     ELSE [hist[q] EXCEPT !.overtaken = @ \/ HasRead(q, i)]]
  BY DEF SendUpdate, Written
<1> HIDE DEF i
<1>3. cmd' = cmd /\ base' = base /\ secret' = secret /\ next' = next
  BY DEF SendUpdate
<1>4. /\ pc' = [pc EXCEPT ![p] = "exited"]
      /\ exit' = [exit EXCEPT ![p] = IF Fine(p, out) THEN "ok" ELSE "error"]
  BY <1>2 DEF ExitAfter, Exit
<1>5. /\ DOMAIN conn' = DOMAIN conn
      /\ \A j \in DOMAIN conn : conn'[j] \in Connector
      /\ \A j \in DOMAIN conn : j # i => conn'[j] = conn[j]
  <2>1. CASE out = "refused"
    BY <1>1, <1>2, <2>1 DEF Types
  <2>2. CASE out # "refused"
    <3>1. i \in DOMAIN conn /\ conn' = [conn EXCEPT ![i] = Written(p, i, keeps)]
      BY <1>2, <2>2
    <3>2. Written(p, i, keeps) \in Connector
      BY <1>1, <3>1, WrittenType
    <3> QED
      BY <1>1, <3>1, <3>2 DEF Types
  <2> QED
    BY <2>1, <2>2
<1>6. ProcessInv(p)' /\ hist'[p] \in History
  <2>1. /\ pc'[p] = "exited" /\ exit'[p] = (IF Fine(p, out) THEN "ok" ELSE "error")
        /\ cmd'[p] = cmd[p] /\ secret'[p] = secret[p]
    BY <1>1, <1>3, <1>4 DEF Types
  <2>2. IF out = "refused" THEN hist'[p] = hist[p]
        ELSE hist'[p] = [hist[p] EXCEPT !.effects = @ + 1, !.lost = out \in Unseen]
    BY <1>2
  <2> QED
    BY <1>1, <2>1, <2>2, SentHistory
<1>7. ASSUME NEW q \in Process, q # p
      PROVE  /\ hist'[q] \in History
             /\ hist'[q].made = hist[q].made /\ hist'[q].effects = hist[q].effects
             /\ hist'[q].lost = hist[q].lost
             /\ ~hist'[q].overtaken => ~hist[q].overtaken /\ (HasRead(q, i) => conn' = conn)
  <2>1. hist[q] \in History
    BY <1>1 DEF Types
  <2>2. CASE out = "refused"
    BY <1>2, <2>1, <2>2
  <2>3. CASE out # "refused"
    <3>1. hist'[q] = [hist[q] EXCEPT !.overtaken = hist[q].overtaken \/ HasRead(q, i)]
      BY <1>2, <1>7, <2>3, Zenon
    <3>2. (hist[q].overtaken \/ HasRead(q, i)) \in BOOLEAN
      OBVIOUS
    <3>3. hist'[q].overtaken = (hist[q].overtaken \/ HasRead(q, i))
      BY <2>1, <3>1 DEF History
    <3>4. /\ hist'[q].made = hist[q].made /\ hist'[q].effects = hist[q].effects
          /\ hist'[q].lost = hist[q].lost
      BY <2>1, <3>1 DEF History
    <3>5. hist'[q] \in History
      BY <2>1, <3>1, <3>2 DEF History
    <3> QED
      BY <3>3, <3>4, <3>5
  <2> QED
    BY <2>2, <2>3
<1>8. Types'
  <2>1. pc' \in [Process -> Location] /\ exit' \in [Process -> {"none", "ok", "usage", "error"}]
    BY <1>1, <1>4 DEF Types, Location
  <2>2. faults' \in 0 .. MaxFaults
    BY <1>1, <1>2, CallType DEF Types
  <2>3. hist' \in [Process -> History]
    <3>1. \A q \in Process : hist'[q] \in History
      BY <1>6, <1>7
    <3>2. hist' = [q \in Process |-> hist'[q]]
      BY <1>1, <1>2 DEF Types
    <3> QED
      BY <3>1, <3>2
  <2> QED
    BY <1>1, <1>3, <1>5, <2>1, <2>2, <2>3 DEF Types
<1>9. ASSUME NEW q \in Process, q # p PROVE ProcessInv(q)'
  <2>1. Untouched(q) /\ pc'[q] = pc[q] /\ cmd'[q] = cmd[q] /\ base'[q] = base[q]
    BY <1>1, <1>3, <1>4, <1>7, <1>9 DEF Untouched, Types
  <2>2. ProcessInv(q) /\ ReadIsCurrent(q)
    BY <1>9 DEF ConnInv, ProcessInv
  <2>3. ASSUME HasRead(q, cmd[q].id), cmd[q].id \in DOMAIN conn, ~hist'[q].overtaken
        PROVE  ~hist[q].overtaken /\ conn'[cmd[q].id] = conn[cmd[q].id]
    <3>1. CASE cmd[q].id = i
      BY <1>7, <1>9, <2>3, <3>1
    <3>2. CASE cmd[q].id # i
      BY <1>5, <1>7, <1>9, <2>3, <3>2
    <3> QED
      BY <3>1, <3>2
  <2>4. ReadIsCurrent(q)'
    <3>1. HasRead(q, cmd[q].id)' <=> HasRead(q, cmd[q].id)
      BY <2>1 DEF HasRead
    <3> QED
      BY <1>3, <1>5, <2>1, <2>2, <2>3, <3>1 DEF ReadIsCurrent
  <2> QED
    BY <2>1, <2>2, <2>4, UntouchedKeeps
<1> QED
  BY <1>6, <1>8, <1>9 DEF ConnInv

LEMMA ConnInvStep == ConnInv /\ [Next]_vars => ConnInv'
<1> SUFFICES ASSUME ConnInv, [Next]_vars PROVE ConnInv'
  OBVIOUS
<1>1. ASSUME NEW p \in Process,
             \/ Invoke(p) \/ CheckFlags(p) \/ ReadKeyFile(p) \/ ReadSecret(p) \/ SendCreate(p)
             \/ CheckUpdate(p) \/ CheckID(p) \/ GetConnector(p)
             \/ SendUpdate(p) \/ SendTest(p) \/ SendDelete(p)
      PROVE  ConnInv'
  BY <1>1, InvokeStep, CheckFlagsStep, ReadKeyFileStep, ReadSecretStep, SendCreateStep,
     CheckUpdateStep, CheckIDStep, GetConnectorStep, SendUpdateStep, SendTestStep, SendDeleteStep
<1>2. CASE UNCHANGED vars
  <2>1. Types'
    BY <1>2 DEF ConnInv, Types, vars, service
  <2>2. ASSUME NEW p \in Process PROVE ProcessInv(p)'
    <3>1. ProcessInv(p) /\ Untouched(p) /\ ReadIsCurrent(p)'
      BY <1>2 DEF ConnInv, ProcessInv, Untouched, ReadIsCurrent, HasRead, vars, service
    <3> QED
      BY <3>1, UntouchedKeeps
  <2> QED
    BY <2>1, <2>2 DEF ConnInv
<1> QED
  BY <1>1, <1>2 DEF Next

\* The inductive invariant: where a command is, what it has read and what it
\* has done agree.
THEOREM ConnectorsInvariant == Spec => []ConnInv
BY ConnInvInit, ConnInvStep, PTL DEF Spec

-----------------------------------------------------------------------------
(* Theorems.                                                               *)

\* Every variable keeps its type, and a process about to send an update has a
\* secret exactly if it was to ask for one (resolveSecret in update.go).
THEOREM ConnectorsTypeOK == Spec => []TypeOK
<1>1. ASSUME ConnInv PROVE TypeOK
  <2>1. ASSUME NEW p \in Process
        PROVE  /\ secret[p] \in SUBSET Source /\ Cardinality(secret[p]) <= 1
               /\ pc[p] = "idle" <=> cmd[p] = NoCommand
               /\ pc[p] = "send" /\ cmd[p].verb = "update" =>
                    (secret[p] # {} <=> AsksSecret(cmd[p]))
    <3>1. OnItsWay(p) /\ SecretIsMeant(p) /\ secret[p] \in SUBSET Source
      BY <1>1 DEF ConnInv, ProcessInv, Types
    <3>2. Cardinality(secret[p]) = 0 \/ Cardinality(secret[p]) = 1
      BY <3>1, FS_EmptySet, FS_Singleton DEF SecretIsMeant
    <3> QED
      BY <3>1, <3>2 DEF OnItsWay, SecretIsMeant, Updating
  <2> QED
    BY <1>1, <2>1 DEF ConnInv, Types, TypeOK
<1> QED
  BY <1>1, ConnectorsInvariant, PTL

\* What a create makes is what was asked for, with the secret that was meant,
\* in each of the nine leaves of create_*.go.
THEOREM EveryCreateIsAsAsked == Spec => []CreatedAsAsked
<1>1. ASSUME ConnInv PROVE CreatedAsAsked
  BY <1>1 DEF ConnInv, ProcessInv, CreatedAsAsked, AsAsked, Means, Meant
<1> QED
  BY <1>1, ConnectorsInvariant, PTL

\* The exit code of every connector command tells what the service has done.
THEOREM ExitCodeIsTrue == Spec => []ExitTellsTheEffect
<1>1. ASSUME ConnInv PROVE ExitTellsTheEffect
  BY <1>1 DEF ConnInv, ProcessInv, EffectIsTold, ExitTellsTheEffect
<1> QED
  BY <1>1, ConnectorsInvariant, PTL

\* A process that ends from its send has taken the last step of its verb.
LEMMA UpdateEndsBySending ==
  ASSUME ConnInv, [Next]_vars, NEW p \in Process,
         Runs(p, "update", "send"), pc'[p] = "exited"
  PROVE  SendUpdate(p)
<1>1. pc[p] = "send" /\ cmd[p].verb = "update" /\ pc' # pc
  BY DEF Runs
<1>2. PICK q \in Process :
        \/ Invoke(q) \/ CheckFlags(q) \/ ReadKeyFile(q) \/ ReadSecret(q) \/ SendCreate(q)
        \/ CheckUpdate(q) \/ CheckID(q) \/ GetConnector(q)
        \/ SendUpdate(q) \/ SendTest(q) \/ SendDelete(q)
  BY <1>1 DEF Next, vars
<1>3. PICK at \in Location : pc' = [pc EXCEPT ![q] = at]
  BY <1>2 DEF Invoke, CheckFlags, ReadKeyFile, ReadSecret, SendCreate, CheckUpdate, CheckID,
     GetConnector, SendUpdate, SendTest, SendDelete, Goto, Exit, ExitAfter, Location
<1>4. q = p
  BY <1>1, <1>3 DEF ConnInv, Types
<1> QED
  BY <1>1, <1>2, <1>4 DEF Invoke, CheckFlags, ReadKeyFile, ReadSecret, SendCreate, CheckUpdate,
     CheckID, GetConnector, SendTest, SendDelete, Runs

\* An update of a Postgres connector writes what was asked; a field without a
\* flag stays, or goes back to what this update had read if another one came
\* between, and the password changes only if there is a new one (the merge in
\* update.go).  ReadIsCurrent carries what was read over to the write.
THEOREM UpdateIsFaithful == Spec => UpdateDoesWhatWasAsked
<1> DEFINE Faithful(p) ==
      LET c == cmd[p]  i == c.id IN
      Runs(p, "update", "send") /\ conn' # conn /\ pc'[p] = "exited" /\ conn[i].leaf = Postgres =>
        /\ \A f \in Field :
             CASE c.flags[f] = "set" -> conn'[i].fields[f] = p
               [] c.flags[f] = "zero" -> conn'[i].fields[f] \in {"zero", conn[i].fields[f]}
               [] OTHER -> \/ conn'[i].fields[f] = conn[i].fields[f]
                           \/ hist[p].overtaken /\ conn'[i].fields[f] = base[p].fields[f]
        /\ conn'[i].leaf = Postgres
        /\ ~AsksSecret(c) => conn'[i].creds = conn[i].creds
        /\ AsksSecret(c) =>
             conn'[i].creds = {<<"password", <<p, IF c.stdin THEN "stdin" ELSE "flag">>>>}
<1>1. ASSUME ConnInv, [Next]_vars, NEW p \in Process PROVE Faithful(p)
  <2> DEFINE c == cmd[p]  i == cmd[p].id
  <2> SUFFICES ASSUME Runs(p, "update", "send"), conn' # conn, pc'[p] = "exited",
                      conn[i].leaf = Postgres
               PROVE  /\ \A f \in Field :
                           CASE c.flags[f] = "set" -> conn'[i].fields[f] = p
                             [] c.flags[f] = "zero" ->
                                  conn'[i].fields[f] \in {"zero", conn[i].fields[f]}
                             [] OTHER ->
                                  \/ conn'[i].fields[f] = conn[i].fields[f]
                                  \/ hist[p].overtaken /\ conn'[i].fields[f] = base[p].fields[f]
                      /\ conn'[i].leaf = Postgres
                      /\ ~AsksSecret(c) => conn'[i].creds = conn[i].creds
                      /\ AsksSecret(c) => conn'[i].creds = {<<"password", Meant(p)>>}
    BY DEF Meant
  <2>1. SendUpdate(p)
    BY <1>1, UpdateEndsBySending
  <2>2. PICK keeps \in BOOLEAN : i \in DOMAIN conn /\ conn'[i] = Written(p, i, keeps)
    BY <2>1 DEF SendUpdate, Written
  <2>3. ProcessInv(p) /\ Types /\ pc[p] = "send" /\ Updating(p) /\ HasRead(p, i)
    BY <1>1 DEF ConnInv, Runs, Updating, HasRead
  <2>4. cmd[p] \in Update
    BY <2>3, HasCommand, VerbTells DEF ProcessInv, Updating
  <2>5. ~hist[p].overtaken => \A f \in Field : base[p].fields[f] = conn[i].fields[f]
    <3>1. ~hist[p].overtaken => base[p] = Got(conn[i])
      BY <2>2, <2>3 DEF ProcessInv, ReadIsCurrent
    <3>2. \A f \in Field : Got(conn[i]).fields[f] = conn[i].fields[f]
      BY <2>2, <2>3, KnownType DEF Types, Got, Setting
    <3> QED
      BY <3>1, <3>2
  <2>6. ASSUME NEW f \in Field
        PROVE  CASE c.flags[f] = "set" -> conn'[i].fields[f] = p
                 [] c.flags[f] = "zero" -> conn'[i].fields[f] \in {"zero", conn[i].fields[f]}
                 [] OTHER -> \/ conn'[i].fields[f] = conn[i].fields[f]
                             \/ hist[p].overtaken /\ conn'[i].fields[f] = base[p].fields[f]
    <3>1. conn'[i].fields = Settings(conn[i], UpdateReq(p), keeps)
      BY <2>2 DEF Written
    <3>2. f \in Setting /\ UpdateReq(p).fields[f] = Merge(p, f)
      BY <2>6 DEF Setting, UpdateReq
    <3>3. Known(conn[i])[f] = conn[i].fields[f]
      BY <2>2, <2>3, <3>2, KnownType DEF Types
    <3>4. /\ Merge(p, f) # "zero" => conn'[i].fields[f] = Merge(p, f)
          /\ Merge(p, f) = "zero" => conn'[i].fields[f] \in {"zero", conn[i].fields[f]}
      <4> DEFINE e == UpdateReq(p)
      <4>1. /\ e.fields[f] # "zero" => conn'[i].fields[f] = e.fields[f]
            /\ e.fields[f] = "zero" =>
                 conn'[i].fields[f] = "zero" \/ conn'[i].fields[f] = Known(conn[i])[f]
        BY <3>1, SettingsOf
      <4>2. e.fields[f] = Merge(p, f)
        BY <3>2
      <4> HIDE DEF e
      <4> QED
        BY <3>3, <4>1, <4>2
    <3>5. c.flags[f] \in {"absent", "zero", "set"}
      BY <2>4, <2>6 DEF Update, Flags, Given
    <3>6. CASE c.flags[f] = "set"
      BY <3>4, <3>6, ConnectorsAssumption DEF Merge
    <3>7. CASE c.flags[f] = "zero"
      BY <3>4, <3>7 DEF Merge
    <3>8. CASE c.flags[f] = "absent"
      BY <2>5, <3>4, <3>8 DEF Merge
    <3> QED
      BY <3>5, <3>6, <3>7, <3>8
  <2>7. conn'[i].leaf = Postgres
    BY <2>2 DEF Written
  <2>8. conn'[i].creds = IF secret[p] = {} THEN conn[i].creds ELSE {"password"} \X secret[p]
    <3>1. UpdateReq(p).creds = {"password"} \X secret[p]
      BY DEF UpdateReq
    <3>2. conn'[i].creds = IF UpdateReq(p).creds = {} THEN conn[i].creds ELSE UpdateReq(p).creds
      BY <2>2 DEF Written
    <3>3. secret[p] = {} \/ secret[p] = {Meant(p)}
      BY <2>3 DEF ProcessInv, SecretIsMeant
    <3>4. ({"password"} \X secret[p] = {}) <=> (secret[p] = {})
      <4>1. ASSUME NEW S, S = {} \/ S = {Meant(p)}
            PROVE  ({"password"} \X S = {}) <=> (S = {})
        <5>1. S = {Meant(p)} => <<"password", Meant(p)>> \in {"password"} \X S
          OBVIOUS
        <5> QED
          BY <4>1, <5>1
      <4> QED
        BY <3>3, <4>1
    <3> QED
      BY <3>1, <3>2, <3>4
  <2>9. /\ ~AsksSecret(c) => conn'[i].creds = conn[i].creds
        /\ AsksSecret(c) => conn'[i].creds = {<<"password", Meant(p)>>}
    <3>1. /\ secret[p] # {} <=> AsksSecret(c)
          /\ secret[p] = {} \/ secret[p] = {Meant(p)}
      BY <2>3 DEF ProcessInv, SecretIsMeant
    <3> QED
      BY <2>8, <3>1
  <2> QED
    BY <2>6, <2>7, <2>9
<1>2. ASSUME ConnInv, [Next]_vars PROVE \A p \in Process : Faithful(p)
  BY <1>1, <1>2
<1>3. ConnInv /\ [Next]_vars => [\A p \in Process : Faithful(p)]_vars
  BY <1>2
<1> HIDE DEF Faithful
<1>4. Spec => [][\A p \in Process : Faithful(p)]_vars
  BY <1>3, ConnectorsInvariant, PTL DEF Spec
<1> QED
  BY <1>4 DEF UpdateDoesWhatWasAsked, Faithful
=============================================================================
