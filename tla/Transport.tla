----------------------------- MODULE Transport -----------------------------
(***************************************************************************)
(* What transport.Client makes of an HTTP answer: Unary reads the status,  *)
(* the envelope of an error and the body of a success, DoRaw leaves all of *)
(* that to its caller.                                                     *)
(***************************************************************************)
EXTENDS CliErrors

Http == {200, 401, 403, 500}

Succeeds(http) == http >= 200 /\ http < 300

\* What an error envelope calls the error.  The two spellings are one word
\* to auth.translateErr and two to IsAuthError.
Code == {"", "unauthenticated", "UNAUTHENTICATED", "other"}

\* code is the "code" at the top where that is a text, as Connect sends it,
\* status that of an object under "error", as the proxy sends it, "absent"
\* where there is none; says is that the message beside it has the word.
ErrorBody ==
  {body \in [code : Code \union {"absent"}, status : Code \union {"absent"}, says : BOOLEAN] :
     body.says => body.code # "absent" \/ body.status # "absent"}

\* transport.Error, its Raw left out: nothing reads it.
ParseErrorBody(http, body) ==
  IF body.code # "absent" THEN [http |-> http, code |-> body.code, says |-> body.says]
  ELSE IF body.status # "absent" THEN [http |-> http, code |-> body.status, says |-> body.says]
  ELSE [http |-> http, code |-> "", says |-> FALSE]

IsAuthError(error) == error.http = 401 \/ error.code = "unauthenticated"

\* The text of the error, which translateErr searches, has code and message.
Mentions(error) == error.code \in {"unauthenticated", "UNAUTHENTICATED"} \/ error.says

\* Which of UnaryFailure an answer is that is not a success.
UnaryRefusal(http, body) ==
  LET error == ParseErrorBody(http, body)
  IN  IF IsAuthError(error) THEN "auth"
      ELSE IF Mentions(error) THEN "mention"
      ELSE "rpc"

Word == {"unauthenticated", "UNAUTHENTICATED"}

IsAboutToken(http, body) ==
  http = 401 \/ body.code \in Word \/ body.status \in Word \/ body.says

\* How the service, or the proxy in front of it, turns down a request
\* because of its token, and any other.
RefusalsFor(aboutToken) ==
  {UnaryRefusal(r[1], r[2]) :
     r \in {r \in Http \X ErrorBody :
              ~Succeeds(r[1]) /\ IsAboutToken(r[1], r[2]) = aboutToken}}

-----------------------------------------------------------------------------
(* The body of a success.  "sparse" lacks what the command looks for,      *)
(* "odd" has it in another type, "junk" is not the JSON of an object.      *)

Answer == {"whole", "sparse", "odd", "junk"}

\* Where Unary decodes to: a map, the type of the response, or not at all.
Into == {"raw", "typed", "nothing"}

DecodeFails(into, answer) ==
  \/ into = "raw" /\ answer = "junk"
  \/ into = "typed" /\ answer \in {"odd", "junk"}
=============================================================================
