----------------------------- MODULE MCResolver -----------------------------
(***************************************************************************)
(* A part of the verb tree of ana: a leaf with flags of its own (api), a   *)
(* group with a persistent flag (connector create postgres, one level up), *)
(* update and version.                                                     *)
(***************************************************************************)
EXTENDS Resolver, TLC

MCGroup == {"root", "postgres"}
MCLeaf  == {"api", "password", "update", "version"}

MCChildren ==
  "root" :> [w \in {"api", "postgres", "update", "version"} |-> w]
    @@ "postgres" :> [w \in {"password"} |-> w]

MCFlagsOf ==
  "root" :> {"json", "profile"} @@ "postgres" :> {"ssl"}
    @@ "api" :> {"raw"} @@ "password" :> {"port"} @@ "update" :> {} @@ "version" :> {}

MCWord == {"api", "postgres", "password", "update", "version", "help", "-"}

MCKindOf ==
  [f \in {"json", "ssl", "raw", "bogus", "version"} |-> "bool"]
    @@ "profile" :> "text" @@ "port" :> "checked"

MCFlag == DOMAIN MCKindOf
=============================================================================
