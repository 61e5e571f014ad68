--------------------------- MODULE ConfigCommands ---------------------------
(***************************************************************************)
(* The commands that read or change the configuration file: ana auth       *)
(* login and logout, and ana profile add, use, remove, list and show.      *)
(*                                                                         *)
(* name is the positional <name> of a profile command and the --profile    *)
(* flag of an auth command (NoName when absent).  envProfile is the value  *)
(* of ANA_PROFILE, override says that ANA_ENDPOINT or ANA_TOKEN is set,    *)
(* endpoint is --endpoint, token what was read from stdin, org --org.      *)
(***************************************************************************)
EXTENDS AnaConfig

AuthOps    == {"login", "logout"}
ProfileOps == {"add", "use", "remove", "list"}
ReadOnly   == {"list"}

CommandType == [op         : AuthOps \cup ProfileOps,
                name       : Name \cup {NoName},
                envProfile : Name \cup {NoName},
                override   : BOOLEAN,
                endpoint   : Endpoint \cup {Unset},
                token      : Token \cup {Unset},
                org        : Org \cup {Unset}]

\* The checks on arguments that precede the first Load.
WellFormed(cmd) ==
  /\ cmd.op \in {"add", "use", "remove"} => cmd.name # NoName
  /\ cmd.op = "login" => cmd.token # Unset

PickEndpoint(global, loaded) ==
  IF global # Unset THEN global
  ELSE IF loaded # Unset THEN loaded ELSE DefaultEndpoint

\* The profile slot an auth command works on: initConfig's profileName.
SlotOf(cmd, c) == PickProfileName(cmd.name, cmd.envProfile, c)

\* auth.Config projected onto a stored profile: the organisation label of
\* the slot is kept, its endpoint and token are replaced.
AuthProfile(cmd, slot, loadedEndpoint, c) ==
  [endpoint |-> IF cmd.op = "login" THEN PickEndpoint(cmd.endpoint, loadedEndpoint)
                                    ELSE loadedEndpoint,
   token    |-> IF cmd.op = "login" THEN cmd.token ELSE Unset,
   org      |-> ProfileAt(c, slot).org]

AddedProfile(cmd) ==
  [endpoint |-> PickEndpoint(cmd.endpoint, Unset),
   token    |-> cmd.token,
   org      |-> cmd.org]

\* The command goes on with configuration c: the named profile exists when
\* use or remove needs it.
Accepts(cmd, c) == cmd.op \in {"use", "remove"} => cmd.name \in Names(c)

\* The configuration handed to Save by a command that loaded c.
Edited(cmd, slot, loadedEndpoint, c) ==
  CASE cmd.op \in AuthOps  -> Upsert(c, slot, AuthProfile(cmd, slot, loadedEndpoint, c))
    [] cmd.op = "add"      -> Upsert(c, cmd.name, AddedProfile(cmd))
    [] cmd.op = "use"      -> [c EXCEPT !.active = cmd.name]
    [] cmd.op = "remove"   -> Remove(c, cmd.name)

-----------------------------------------------------------------------------
(* A command on its own: the three Loads of an auth command see the same   *)
(* configuration c.                                                        *)

Refused(cmd, c) ==
  \/ cmd.op \in AuthOps /\ UnknownProfile(cmd.name, cmd.override, c)
  \/ ~Accepts(cmd, c)

Effect(cmd, c) ==
  LET s == SlotOf(cmd, c)
  IN  IF cmd.op \in ReadOnly THEN c
      ELSE LoadOf(DocumentOf(Edited(cmd, s, ProfileAt(c, s).endpoint, c)))
=============================================================================
