---------------------------- MODULE AtomicConfig ----------------------------
(***************************************************************************)
(* What the configuration file promises: a command that reports success    *)
(* has edited the stored configuration in one step, and any other command  *)
(* has left it alone.  The module says nothing of files; what the commands *)
(* do to a configuration is a parameter.                                   *)
(***************************************************************************)
CONSTANTS
  Proc,           \* invocations
  Command,        \* their commands
  Initial,        \* configurations the store may hold at the start
  Refused(_, _),  \* Refused(r, c): command r cannot succeed on c
  Effect(_, _)    \* Effect(r, c): what command r makes of c

VARIABLES
  store,    \* the configuration any Load would return
  request,  \* the command of an invocation
  outcome   \* how it ended, "pending" before

vars == <<store, request, outcome>>

Init ==
  /\ store \in Initial
  /\ request \in [Proc -> Command]
  /\ outcome = [p \in Proc |-> "pending"]

Commit(p) ==
  /\ outcome[p] = "pending"
  /\ ~Refused(request[p], store)
  /\ store' = Effect(request[p], store)
  /\ outcome' = [outcome EXCEPT ![p] = "ok"]
  /\ UNCHANGED request

Abort(p) ==
  /\ outcome[p] = "pending"
  /\ \E how \in {"failed", "crashed"} : outcome' = [outcome EXCEPT ![p] = how]
  /\ UNCHANGED <<store, request>>

Next == \E p \in Proc : Commit(p) \/ Abort(p)

Spec == Init /\ [][Next]_vars
=============================================================================
