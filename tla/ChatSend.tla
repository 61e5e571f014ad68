------------------------------ MODULE ChatSend ------------------------------
(***************************************************************************)
(* `ana chat send`: SendMessage, then StreamChat, rendering frames until a *)
(* cell says it has executed, the stream ends, or something fails.  The    *)
(* stream is a FrameReader.                                                *)
(*                                                                         *)
(* The service is external.  It records the message as cell Own and makes  *)
(* the cells 1 .. LastCell of the reply one after another, the last one    *)
(* being the answer, which ends CREATED and not EXECUTED.  Whether the     *)
(* stream carries cell Own as well (as the tests of send.go have it) or    *)
(* starts after it (as the captured exchange in api-catalog has it) is     *)
(* left open: echoes.                                                      *)
(***************************************************************************)
EXTENDS FrameReader, CliErrors

CONSTANT LastCell

ASSUME LastCellAssumption == LastCell \in Nat \ {0}

Own    == 0
Reply  == 1 .. LastCell
Cell   == {Own} \union Reply
NoCell == LastCell + 1

Life == {"absent", "running", "EXECUTED", "CREATED"}

CellFrame(c, life) == [kind |-> "data", cell |-> c, life |-> life]
Metadata           == CellFrame(NoCell, "absent")
Closing(kind)      == [kind |-> kind, cell |-> NoCell, life |-> "absent"]

ChatFrame == {CellFrame(c, life) : c \in Cell, life \in Life}
               \union {Metadata}
               \union {Closing(k) : k \in {"bad", "trailer", "failure"}}

VARIABLES
  pc,        \* "message", "send", "sending", "open", "read", "close" or "exited"
  error,     \* of Run: what its text names, and why, or NoError
  waitAll,   \* --wait-all
  echoes,    \* the stream carries cell Own
  life,      \* service: the state of each cell
  request,   \* SendMessage: "none", "sent", "recorded" or the refusal
  recorded,  \* service: how often it has recorded the message
  seen,      \* cells rendered
  executed   \* cells rendered as EXECUTED

service == <<echoes, life>>
message == <<request, recorded>>
command == <<pc, error, waitAll, seen, executed>>
vars    == <<stream, service, message, command>>

NoError == [at |-> "none", why |-> "none"]

Refusal == {"auth", "mention", "rpc"}

Init ==
  /\ Open
  /\ pc = "message" /\ error = NoError
  /\ waitAll \in BOOLEAN /\ echoes \in BOOLEAN
  /\ life = [c \in Cell |-> "absent"]
  /\ request = "none" /\ recorded = 0
  /\ seen = {} /\ executed = {}

Goto(next) == pc' = next /\ UNCHANGED error

Fail(next, at, why) == pc' = next /\ error' = [at |-> at, why |-> why]

-----------------------------------------------------------------------------
(* The service and the network.                                            *)

Final(c) == IF c = LastCell THEN "CREATED" ELSE "EXECUTED"

\* What a stream that opens now starts with, if there are n cells of the reply.
Snapshot(n) ==
  (IF echoes THEN <<CellFrame(Own, life[Own])>> ELSE << >>)
    \o [c \in 1 .. n |-> CellFrame(c, life[c])]

Ended == \E i \in DOMAIN sent : sent[i].kind # "data"

Emit(frames) == IF pc = "read" /\ ~cut THEN Send(frames) ELSE UNCHANGED stream

\* A cell of the reply appears, or reaches its final state.  An update that
\* repeats the state a cell is in changes nothing the command can tell.
Progress(c, to) ==
  /\ ~Ended
  /\ \/ to = "running" /\ life[c] = "absent" /\ life[c - 1] \in {"EXECUTED", "CREATED"}
     \/ to = Final(c) /\ life[c] = "running"
  /\ life' = [life EXCEPT ![c] = to]
  /\ Emit(<<CellFrame(c, to)>>)
  /\ UNCHANGED <<echoes, message, command>>

\* The stream ends with the reply, or the service gives up on it.
EndStream(kind) ==
  /\ pc = "read" /\ ~Ended
  /\ kind = "trailer" => life[LastCell] = "CREATED"
  /\ Send(<<Closing(kind)>>)
  /\ UNCHANGED <<service, message, command>>

\* The message reaches the service, perhaps after the command has given up.
Record ==
  /\ request = "sent"
  /\ request' = "recorded" /\ recorded' = recorded + 1
  /\ life' = [life EXCEPT ![Own] = "EXECUTED"]
  /\ UNCHANGED <<stream, echoes, command>>

Refuse ==
  /\ request = "sent" /\ request' \in Refusal
  /\ UNCHANGED <<stream, service, recorded, command>>

BreakConnection == HangUp /\ UNCHANGED <<service, message, command>>
Interrupt       == Cancel /\ UNCHANGED <<service, message, command>>

-----------------------------------------------------------------------------
(* The command.                                                            *)

\* resolveMessage: an argument, a file or standard input; a usage error or
\* a file that cannot be read ends the command.
ResolveMessage ==
  /\ pc = "message"
  /\ Goto("send") \/ \E why \in {"usage", "plain"} : Fail("exited", "message", why)
  /\ UNCHANGED <<stream, service, message, waitAll, seen, executed>>

\* With its context cancelled the call does not go out.
SendMessage ==
  /\ pc = "send"
  /\ IF cancelled
     THEN Fail("exited", "SendMessage", "aborted") /\ UNCHANGED request
     ELSE Goto("sending") /\ request' = "sent"
  /\ UNCHANGED <<stream, service, recorded, waitAll, seen, executed>>

\* Unary resolves the configuration first: it does not load, or has no such
\* profile (a usage error), and no request is made.
SendMessageUnsent ==
  /\ pc = "send"
  /\ \E why \in {"usage", "plain"} : Fail("exited", "SendMessage", why)
  /\ UNCHANGED <<stream, service, message, waitAll, seen, executed>>

SendMessageDone ==
  /\ pc = "sending" /\ request = "recorded"
  /\ Goto("open")
  /\ UNCHANGED <<stream, service, message, waitAll, seen, executed>>

\* Defect: without an answer the message is sent again.
SendMessageRetries ==
  /\ pc = "sending"
  /\ IF request \in Refusal
     THEN Fail("exited", "SendMessage", request) /\ UNCHANGED request
     ELSE Goto("send") /\ request' = "none"
  /\ UNCHANGED <<stream, service, recorded, waitAll, seen, executed>>

\* Refused, cut off, or the answer does not decode.
SendMessageFails ==
  /\ pc = "sending"
  /\ \E why \in Refusal \union {"network", "aborted", "plain"} :
       /\ why \in Refusal => request = why
       /\ why = "aborted"  => cancelled
       /\ why = "plain"    => request = "recorded"
       /\ Fail("exited", "SendMessage", why)
  /\ UNCHANGED <<stream, service, message, waitAll, seen, executed>>

StreamChat ==
  /\ pc = "open"
  /\ Goto("read")
  /\ \E n \in 0 .. LastCell, head \in {<< >>, <<Metadata>>} :
       /\ \A c \in Reply : life[c] # "absent" <=> c <= n
       /\ Send(head \o Snapshot(n))
  /\ UNCHANGED <<service, message, waitAll, seen, executed>>

StreamChatFails ==
  /\ pc = "open"
  /\ \E why \in UnaryFailure :
       /\ why = "aborted" => cancelled
       /\ Fail("exited", "StreamChat", why)
  /\ UNCHANGED <<stream, service, message, waitAll, seen, executed>>

\* Defect: no check for a cell having been seen.
AllExecutedOrNone(shown, ran) == shown \subseteq ran

\* allExecuted, and the case of no cell seen at all.
AllExecuted(shown, ran) == shown # {} /\ shown \subseteq ran

Satisfied(shown, ran) ==
  IF waitAll THEN AllExecuted(shown, ran) ELSE Own \in ran

ReadFrame ==
  /\ pc = "read"
  /\ NextData
  /\ seen' = seen \union ({Front.cell} \ {NoCell})
  /\ executed' = executed \union (IF Front.life = "EXECUTED" THEN {Front.cell} ELSE {})
  /\ IF Satisfied(seen', executed') THEN Goto("close") ELSE UNCHANGED <<pc, error>>
  /\ UNCHANGED <<service, message, waitAll>>

\* Defect: the loop goes on after the end of the stream.
ReadEndGoesOn ==
  /\ pc = "read"
  /\ NextEnd
  /\ UNCHANGED <<service, message, command>>

ReadEnd ==
  /\ pc = "read"
  /\ NextEnd
  /\ Goto("close")
  /\ UNCHANGED <<service, message, waitAll, seen, executed>>

\* Defect: an error of Next passes for the end of the stream.
ReadErrorIsEnd ==
  /\ pc = "read"
  /\ NextError
  /\ Goto("close")
  /\ UNCHANGED <<service, message, waitAll, seen, executed>>

ReadError ==
  /\ pc = "read"
  /\ \/ NextRefused /\ \E why \in {"auth", "rpc"} : Fail("close", "stream", why)
     \/ (NextUndecodable \/ NextBroken) /\ Fail("close", "stream", "plain")
  /\ UNCHANGED <<service, message, waitAll, seen, executed>>

\* The deferred sess.Close.
CloseSession ==
  /\ pc = "close"
  /\ Close
  /\ Goto("exited")
  /\ UNCHANGED <<service, message, waitAll, seen, executed>>

Next ==
  \/ \E c \in Reply, to \in Life : Progress(c, to)
  \/ \E kind \in {"bad", "trailer", "failure"} : EndStream(kind)
  \/ BreakConnection \/ Interrupt
  \/ ResolveMessage
  \/ SendMessage \/ SendMessageUnsent \/ Record \/ Refuse
  \/ SendMessageDone \/ SendMessageFails
  \/ StreamChat \/ StreamChatFails
  \/ ReadFrame \/ ReadEnd \/ ReadError
  \/ CloseSession

Spec == Init /\ [][Next]_vars

\* Only the process itself is relied on: it runs, and the HTTP client gives
\* up on a call whose context is cancelled.  No call has a timeout.
Fairness ==
  /\ WF_vars(ReadFrame \/ ReadEnd \/ ReadError)
  /\ WF_vars(CloseSession) /\ WF_vars(SendMessage)
  /\ WF_vars(cancelled /\ (SendMessageFails \/ StreamChatFails))

FairSpec == Spec /\ Fairness

-----------------------------------------------------------------------------
(* Properties.                                                             *)

Succeeds == pc \in {"close", "exited"} /\ error = NoError

\* Of the error, which is not translated.
Code ==
  ExitCode(CASE error = NoError                    -> Nil
             [] error.why \in {"usage", "plain"}   -> <<error.why>>
             [] error.why \in UnaryFailure         -> UnaryError(error.why))

(* Against the service as captured, success without --wait-all means the   *)
(* whole reply was rendered, to its last update, however frames, hang-ups  *)
(* and interrupts fall.                                                    *)
SuccessShowsWholeReply ==
  Succeeds /\ ~waitAll /\ ~echoes =>
    /\ Reply \subseteq seen
    /\ \A c \in Reply : \E i \in 1 .. taken : sent[i] = CellFrame(c, Final(c))

(* A success before the end of the stream is never a guess: whatever the   *)
(* command waited for has executed on the service.                         *)
EarlyStopIsJustified ==
  Succeeds /\ ~done =>
    IF waitAll THEN seen # {} /\ \A c \in seen : life[c] = "EXECUTED"
               ELSE life[Own] = "EXECUTED" /\ Own \in seen

(* Whether to send the message again can be told from the error: once one  *)
(* names StreamChat or the stream the message is there, and when           *)
(* SendMessage was refused, or a usage error, it is not and never will be. *)
(* Only a SendMessage that was cut off, or failed on this side, leaves it  *)
(* open.  The command itself sends it once.  Of the exit codes only 0,     *)
(* "it is there", and 1, "it is not", tell; 2 and 3 leave it open.         *)
MessageIsAccountedFor ==
  /\ recorded <= 1
  /\ Succeeds \/ error.at \in {"StreamChat", "stream"} => recorded = 1
  /\ \/ error.at = "message"
     \/ error.at = "SendMessage" /\ error.why \in Refusal \union {"usage"}
     => recorded = 0
  /\ pc = "exited" => /\ Code = 0 => recorded = 1
                      /\ Code = 1 => recorded = 0

(* Ctrl-C ends the command wherever it is, except while it reads the       *)
(* message: SIGINT is caught and reading standard input ignores ctx.       *)
InterruptEnds == cancelled /\ pc # "message" ~> pc = "exited"

(* A stream that has ended, well or badly, or whose connection is gone     *)
(* does not keep the command waiting, even for cells that never execute.   *)
StreamEndEnds == pc = "read" /\ (Ended \/ cut) ~> pc = "exited"
=============================================================================
