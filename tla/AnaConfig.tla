----------------------------- MODULE AnaConfig -----------------------------
(***************************************************************************)
(* The configuration document of the ana CLI and the pure operations of    *)
(* package internal/config on it.                                          *)
(*                                                                         *)
(* A profile name is a positive number, its rank in the lexicographic      *)
(* order the code sorts names by; NoName stands for the empty string.      *)
(* Endpoints, tokens, organisation labels and the update interval are      *)
(* opaque values, Unset their empty string (or nil pointer).               *)
(***************************************************************************)
EXTENDS Naturals, FiniteSets

CONSTANTS
  Name,             \* profile names a user may type
  Default,          \* the name "default"
  Endpoint,         \* non-empty endpoint URLs
  DefaultEndpoint,  \* config.DefaultEndpoint
  Token,            \* non-empty bearer tokens
  Org,              \* non-empty organisation labels
  Interval          \* non-nil values of updateCheckInterval

NoName == 0
Unset  == ""

ASSUME NameAssumption ==
  /\ Name \subseteq Nat \ {NoName}
  /\ IsFiniteSet(Name)
  /\ Default \in Name

ASSUME DefaultEndpointAssumption == DefaultEndpoint \in Endpoint

Profile == [endpoint : Endpoint \cup {Unset},
            token    : Token \cup {Unset},
            org      : Org \cup {Unset}]

NoProfile == [endpoint |-> Unset, token |-> Unset, org |-> Unset]

Profiles == UNION {[S -> Profile] : S \in SUBSET Name}

Config == [profiles : Profiles,
           active   : Name \cup {NoName},
           interval : Interval \cup {Unset}]

ZeroConfig == [profiles |-> [n \in {} |-> NoProfile],
               active   |-> NoName,
               interval |-> Unset]

Names(c) == DOMAIN c.profiles

\* What Go's map read c.Profiles[n] yields: the zero Profile for a missing key.
ProfileAt(c, n) == IF n \in Names(c) THEN c.profiles[n] ELSE NoProfile

\* slices.Sort(names); names[0]
LexFirst(S) == CHOOSE n \in S : \A m \in S : n <= m

-----------------------------------------------------------------------------
(* The JSON document in the file.  "profiles" is the shape Save writes,    *)
(* "legacy" a top-level endpoint or token without a "profiles" key, "bare" *)
(* a document with neither.  content holds every field the file spells.    *)

Document == [shape : {"profiles", "legacy", "bare"}, content : Config]

DocumentOf(c) == [shape |-> "profiles", content |-> c]

\* The configuration Load builds from a document that parses.
LoadOf(d) ==
  CASE d.shape = "bare"   -> ZeroConfig
    [] d.shape = "legacy" ->
         [profiles |-> [n \in {Default} |->
                          [ProfileAt(d.content, Default) EXCEPT !.org = Unset]],
          active   |-> Default,
          interval |-> Unset]
    [] OTHER ->
         IF d.content.active = NoName /\ \E n \in Name : Names(d.content) = {n}
           THEN [d.content EXCEPT !.active = LexFirst(Names(d.content))]
           ELSE d.content

-----------------------------------------------------------------------------
(* The mutations a command makes between Load and Save.                    *)

\* Defects a run must notice: Upsert as if the other fields, or the other
\* profiles, were rebuilt from nothing.
UpsertIntoZeroConfig(c, name, prof) ==
  [ZeroConfig EXCEPT !.profiles = [n \in Names(c) \cup {name} |->
                                     IF n = name THEN prof ELSE c.profiles[n]],
                     !.active   = IF c.active = NoName THEN name ELSE c.active]

UpsertIntoFreshMap(c, name, prof) ==
  [c EXCEPT !.profiles = [n \in {name} |-> prof], !.active = name]

Upsert(c, name, prof) ==
  [c EXCEPT !.profiles = [n \in Names(c) \cup {name} |->
                            IF n = name THEN prof ELSE c.profiles[n]],
            !.active   = IF @ = NoName THEN name ELSE @]

\* Defect: the replacement is chosen before the profile is deleted.
RemoveChoosingFirst(c, name) ==
  [c EXCEPT !.profiles = [n \in Names(c) \ {name} |-> c.profiles[n]],
            !.active   = IF @ = name THEN LexFirst(Names(c)) ELSE @]

Remove(c, name) ==
  LET rest == Names(c) \ {name}
  IN  [c EXCEPT !.profiles = [n \in rest |-> c.profiles[n]],
                !.active   = IF @ # name  THEN @
                             ELSE IF rest = {} THEN NoName ELSE LexFirst(rest)]

-----------------------------------------------------------------------------
(* Profile selection.  flag is --profile, env is ANA_PROFILE.              *)

PickProfileName(flag, env, c) ==
  CASE flag # NoName     -> flag
    [] flag = NoName /\ env # NoName -> env
    [] flag = NoName /\ env = NoName /\ c.active # NoName -> c.active
    [] OTHER -> IF Names(c) # {} THEN LexFirst(Names(c)) ELSE Default

\* Resolve's only error: an explicit --profile that is not configured and no
\* ANA_ENDPOINT or ANA_TOKEN (override) to stand in for it.
UnknownProfile(flag, override, c) ==
  flag # NoName /\ flag \notin Names(c) /\ ~override

-----------------------------------------------------------------------------
(* The active pointer of a configuration selects one of its profiles, or   *)
(* nothing.                                                                *)
ActiveSelectsAProfile(c) == c.active = NoName \/ c.active \in Names(c)

(* What is left of the selection in a file: only the shape with profiles   *)
(* carries one.                                                            *)
SoundDocument(d) == d.shape = "profiles" => ActiveSelectsAProfile(d.content)
=============================================================================
