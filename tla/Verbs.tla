-------------------------------- MODULE Verbs -------------------------------
(***************************************************************************)
(* The verbs that make one or two calls and print what comes back: which   *)
(* arguments a verb takes, which calls it makes and what it does with an   *)
(* answer.  Two verbs that differ in names only are one value.             *)
(***************************************************************************)
EXTENDS Transport

\* flag is the flag the verb needs, for api --data; "bad" is a value, or a
\* flag beside it, that the leaf refuses.
Input == [args : 0..3, first : {"blank", "text", "number"}, second : {"empty", "text"},
          flag : {"absent", "empty", "bad", "set"}, stdin : BOOLEAN]

RequireNoPositionals       == {i \in Input : i.args = 0}
RequireMaxPositionals(max) == {i \in Input : i.args <= max}
RequireStringID            == {i \in Input : i.args > 0 /\ i.first # "blank"}
RequireIntID               == {i \in RequireStringID : i.first = "number"}
RequireFlags               == {i \in Input : i.flag # "absent"}
FlagIs(values)             == {i \in Input : i.flag \in values}

OneID    == RequireMaxPositionals(1) \cap RequireStringID
OneIntID == RequireMaxPositionals(1) \cap RequireIntID

\* What the service is asked for.
Request == {"read", "write", "any", "create key", "rotate key", "revoke key",
            "create account", "delete account"}

\* sparse: what is done with an answer without the part that is looked for;
\* "print" where nothing is and no property tells it from a whole answer,
\* "blank" where an empty line is printed for it.
OnLack == {"print", "blank", "dump", "note", "usage", "fail"}
Call == [does : Request, into : Into, sparse : OnLack]

\* fan: the calls are made at the same time.  auth: translateErr is applied.
\* view: what the answer is turned into for a table, "none" where nothing
\* is; strict: also under --json.  careless: when the errors of writing to
\* standard output are ignored.
Program == [calls : Seq(Call), fan : BOOLEAN,
            via : {"Unary", "DoRaw"}, auth : BOOLEAN,
            view : {"none", "typed"}, strict : BOOLEAN,
            careless : {"never", "always", "text", "sparse"}]

Asks(does, into, sparse) == [does |-> does, into |-> into, sparse |-> sparse]

\* Most verbs: one call, the answer as a map, RenderOutput.
Renders(does, sparse) ==
  [calls |-> <<Asks(does, "raw", sparse)>>, fan |-> FALSE, via |-> "Unary",
   auth |-> FALSE, view |-> "typed", strict |-> FALSE, careless |-> "never"]

\* The verbs of keys and service-accounts that print with bare Fprintln.
Prints(does, into, sparse) ==
  [Renders(does, sparse) EXCEPT !.calls = <<Asks(does, into, sparse)>>,
                                !.auth = TRUE, !.view = "none", !.careless = "always"]

Verb(takes, runs) == [takes |-> takes, runs |-> runs]
Reads(takes)      == Verb(takes, Renders("read", "print"))
Dumps(takes)      == Verb(takes, Renders("read", "dump"))
Acknowledges(takes) == Verb(takes, [Renders("write", "print") EXCEPT !.view = "none"])

-----------------------------------------------------------------------------
\* auth

Whoami ==
  Verb(RequireNoPositionals,
       [Renders("read", "fail") EXCEPT
          !.calls = <<Asks("read", "raw", "fail"), Asks("read", "raw", "print")>>,
          !.fan = TRUE, !.auth = TRUE])

KeysList   == Verb(RequireNoPositionals, [Renders("read", "print") EXCEPT !.auth = TRUE])

\* The secret is printed as it decoded: empty when the answer lacks it.
KeysCreate == Verb(RequireNoPositionals \cap RequireFlags \cap FlagIs({"set"}),
                   Prints("create key", "typed", "blank"))
KeysRotate == Verb(OneID, Prints("rotate key", "typed", "blank"))
KeysRevoke == Verb(OneID, Prints("revoke key", "nothing", "print"))

ServiceAccountsList   == KeysList
ServiceAccountsCreate == Verb(RequireNoPositionals \cap RequireFlags \cap FlagIs({"set"}),
                              Prints("create account", "typed", "print"))
ServiceAccountsDelete == Verb(OneID, Prints("delete account", "nothing", "print"))

-----------------------------------------------------------------------------
\* chat, without send

ChatList   == Reads(RequireNoPositionals)
ChatNew    == Verb(RequireNoPositionals \cap RequireFlags \cap FlagIs({"set"}),
                   Renders("write", "print"))
ChatShow   == Dumps(OneID)
ChatHistory == Reads(OneID)
ChatShare  == Verb(OneID, Renders("write", "print"))
ChatRename ==
  Acknowledges(RequireStringID \cap RequireMaxPositionals(2)
                 \cap {i \in Input : i.args > 1 /\ i.second # "empty"})
SimpleAck     == Acknowledges(OneID)
ChatDelete    == Acknowledges(OneID)
ChatDuplicate == Verb(OneID, Renders("write", "print"))

-----------------------------------------------------------------------------
\* org, connector, dashboard, playbook, ontology, feed, audit

OrgList        == Reads(RequireNoPositionals)
OrgShow        == Reads(RequireNoPositionals)
OrgRoles       == Reads(RequireNoPositionals)
OrgPermissions == Reads(RequireNoPositionals)

\* The members of the organization that the first call names.
OrgMembers ==
  Verb(RequireNoPositionals,
       [Renders("read", "print") EXCEPT
          !.calls = <<Asks("read", "typed", "print"), Asks("read", "raw", "print")>>])

ConnectorList     == Reads(RequireNoPositionals)
ConnectorGet      == Dumps(OneIntID)
ConnectorTables   == Reads(OneIntID)
ConnectorExamples == Reads(OneIntID)

DashboardList    == Reads(RequireNoPositionals)
DashboardFolders == Reads(RequireNoPositionals)
DashboardGet     == Dumps(OneID)
DashboardSpawn   == Verb(OneID, Renders("write", "dump"))

\* An answer without the dashboard is a usage error.
DashboardHealth  == Verb(OneID, [Renders("read", "usage") EXCEPT !.careless = "text"])

PlaybookList    == Reads(RequireNoPositionals)
PlaybookGet     == Dumps(OneID)
PlaybookReports == Reads(OneID)
PlaybookLineage == Verb(OneID, [Renders("read", "note") EXCEPT !.careless = "sparse"])

OntologyList == Reads(RequireNoPositionals)
OntologyGet  == Dumps(OneIntID)

FeedShow  == Reads(RequireNoPositionals)
FeedStats == Reads(RequireNoPositionals)

AuditTail == Verb(RequireNoPositionals \cap FlagIs({"absent", "set"}),
                  [Renders("read", "print") EXCEPT !.strict = TRUE])

-----------------------------------------------------------------------------
\* api: any request, the status left to the verb.

Api ==
  Verb(RequireMaxPositionals(1) \cap RequireStringID \cap FlagIs({"absent", "empty", "set"})
         \cap {i \in Input : i.flag # "absent" => ~i.stdin},
       [Renders("any", "print") EXCEPT !.calls = <<Asks("any", "nothing", "print")>>,
                                       !.via = "DoRaw", !.view = "none"])

Verbs ==
  {Whoami, KeysList, KeysCreate, KeysRotate, KeysRevoke,
   ServiceAccountsList, ServiceAccountsCreate, ServiceAccountsDelete,
   ChatList, ChatNew, ChatShow, ChatHistory, ChatShare, ChatRename, SimpleAck,
   ChatDelete, ChatDuplicate,
   OrgList, OrgShow, OrgRoles, OrgPermissions, OrgMembers,
   ConnectorList, ConnectorGet, ConnectorTables, ConnectorExamples,
   DashboardList, DashboardFolders, DashboardGet, DashboardSpawn, DashboardHealth,
   PlaybookList, PlaybookGet, PlaybookReports, PlaybookLineage,
   OntologyList, OntologyGet, FeedShow, FeedStats, AuditTail, Api}
=============================================================================
