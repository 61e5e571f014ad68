---------------------------- MODULE MCConfigStore ----------------------------
(***************************************************************************)
(* Instances of ConfigStore for TLC.  Name 1 sorts before "default" (2)    *)
(* and 3 after it.                                                         *)
(***************************************************************************)
EXTENDS ConfigStoreProps, TLC

MCName == {1, 2, 3}

Prof(e, t, o) == [endpoint |-> e, token |-> t, org |-> o]

Doc(shape, profiles, active, interval) ==
  [shape |-> shape,
   content |-> [profiles |-> profiles, active |-> active, interval |-> interval]]

p0 == Prof("app", "t0", "acme")
q0 == Prof("eu", "t0", Unset)

NoProfiles == [n \in {} |-> NoProfile]

(* A multi-profile file with and without an active pointer, a one-profile  *)
(* file whose pointer Load infers, an old {endpoint, token} file, a file   *)
(* with only the interval.                                                 *)
TwoProfiles  == Doc("profiles", (2 :> p0) @@ (3 :> q0), 3, "off")
NothingActive == Doc("profiles", (2 :> p0) @@ (3 :> q0), NoName, Unset)
OneProfile   == Doc("profiles", 3 :> q0, NoName, "off")
Legacy       == Doc("legacy", 2 :> p0, NoName, Unset)
LegacyTimed  == Doc("legacy", 2 :> p0, NoName, "off")
BareTimed    == Doc("bare", NoProfiles, NoName, "off")

MCInitDocument == {TwoProfiles, NothingActive, OneProfile, Legacy}
TimedDocument  == {LegacyTimed, BareTimed, TwoProfiles}

Cmd(op, name, endp, token, org) ==
  [op |-> op, name |-> name, envProfile |-> NoName, override |-> FALSE,
   endpoint |-> endp, token |-> token, org |-> org]

Login       == Cmd("login", NoName, Unset, "t1", Unset)
LoginEu     == Cmd("login", 3, "eu", "t1", Unset)
LoginNew    == [Cmd("login", 1, Unset, "t1", Unset) EXCEPT !.override = TRUE]
LoginEnv    == [Cmd("login", NoName, Unset, "t1", Unset) EXCEPT !.envProfile = 3]
Logout      == Cmd("logout", NoName, Unset, Unset, Unset)
AddFirst    == Cmd("add", 1, Unset, "t1", "acme")
AddDefault  == Cmd("add", 2, "eu", "t1", Unset)
UseDefault  == Cmd("use", 2, Unset, Unset, Unset)
RemoveDefault == Cmd("remove", 2, Unset, Unset, Unset)
RemoveLast  == Cmd("remove", 3, Unset, Unset, Unset)
List        == Cmd("list", NoName, Unset, Unset, Unset)

AllCommand    == {Login, LoginEu, LoginNew, LoginEnv, Logout, AddFirst, AddDefault,
                  UseDefault, RemoveDefault, RemoveLast, List}
SerialCommand == {LoginEu, LoginEnv, Logout, AddFirst, UseDefault, RemoveLast}
LoginAddCommand == {Login, AddFirst}

Symmetry == Permutations(Inode)
=============================================================================
