---------------------------- MODULE MCConnectors ----------------------------
(***************************************************************************)
(* One process creates, with at most one flag left out or empty, or        *)
(* updates; the other one updates, deletes or tests.                       *)
(***************************************************************************)
EXTENDS Connectors, TLC

CONSTANTS p1, p2

AllSet == [f \in Field |-> "set"]

MCCreates ==
  [verb : {"create"}, leaf : Leaf,
   flags : {AllSet} \union {[AllSet EXCEPT ![f] = g] : f \in Field, g \in {"absent", "zero"}},
   secret : Given, stdin : BOOLEAN]

Updates(ids, types, secrets) ==
  [verb : {"update"}, id : ids, type : types,
   flags : [name : {"absent", "set"}, host : {"absent", "set"}, port : {"absent", "zero"}],
   secret : secrets, stdin : BOOLEAN]

MCCommandsOf ==
  (p1 :> MCCreates \union Updates({1, 2}, {"absent", "postgres", "other"}, Given))
    @@ (p2 :> Updates({1, 2}, {"absent", "postgres"}, {"absent", "set"})
                \union [verb : {"delete", "test"}, id : {1}])
=============================================================================
