----------------------------- MODULE CliErrors -----------------------------
(***************************************************************************)
(* Errors of the CLI and the exit code they become.  An error is the       *)
(* sequence of what errors.Is and errors.As meet in it, depth first:       *)
(* wrapping puts a mark in front, errors.Join puts trees side by side.     *)
(***************************************************************************)
EXTENDS Integers, Sequences

Nil == << >>

\* "rpc" is a transport.Error of which IsAuthError is false, "auth" an error
\* of which it is true, "plain" anything else.
Mark == {"help", "usage", "reported", "auth", "rpc", "plain"}

Join(err, other) == err \o other

Is(err, mark) == \E i \in DOMAIN err : err[i] = mark

\* errors.As stops at the first error that has an IsAuthError method.
IsAuth(err) ==
  \E i \in DOMAIN err : err[i] = "auth" /\ \A j \in 1 .. i - 1 : err[j] # "rpc"

ExitCode(err) ==
  IF err = Nil \/ Is(err, "help") THEN 0
  ELSE IF Is(err, "usage") THEN 1
  ELSE IF IsAuth(err) THEN 3
  ELSE 2

-----------------------------------------------------------------------------
(* What a call of transport.Client.Unary can fail with, and what           *)
(* auth.translateErr makes of it.                                          *)

\* "mention": a transport.Error that is not an auth error, whose text has
\* the word "unauthenticated".  "aborted": the context was cancelled.
UnaryFailure == {"auth", "mention", "rpc", "network", "aborted"}

UnaryError(failure) ==
  CASE failure = "auth"                  -> <<"auth">>
    [] failure \in {"mention", "rpc"}    -> <<"rpc">>
    [] failure \in {"network", "aborted"} -> <<"plain">>

TranslateErr(failure) ==
  IF failure \in {"auth", "mention"}
  THEN <<"auth">> \o UnaryError(failure) ELSE UnaryError(failure)
=============================================================================
