---------------------------- MODULE MCInvocation ----------------------------
(* One user with every verb, and one who rotates a key meanwhile.          *)
EXTENDS Invocation, TLC

CONSTANTS p1, p2

MCUser ==
  (p1 :> [verbs |-> Verbs, targets |-> 0..4, json |-> BOOLEAN, env |-> {NoToken, 2},
          patient |-> FALSE])
    @@ (p2 :> [verbs |-> {KeysRotate}, targets |-> {1}, json |-> {FALSE},
               env |-> {NoToken}, patient |-> TRUE])
=============================================================================
