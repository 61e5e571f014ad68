----------------------------- MODULE FrameReader -----------------------------
(***************************************************************************)
(* A server stream as the caller of transport.StreamReader sees it: whole  *)
(* frames, in the order they were sent, then one verdict.                  *)
(*                                                                         *)
(* frame.kind says what Next makes of a frame: "data" decodes, "bad" is a  *)
(* data frame whose payload does not decode, "trailer" ends the stream     *)
(* cleanly, "failure" is a trailer with an error envelope, "huge" exceeds  *)
(* maxFrameBytes.                                                          *)
(***************************************************************************)
EXTENDS Naturals, Sequences

CONSTANT Frame

ASSUME FrameAssumption ==
  \A f \in Frame : f.kind \in {"data", "bad", "trailer", "failure", "huge"}

VARIABLES
  sent,       \* every frame the server has written
  arriving,   \* how many of them reach this end
  taken,      \* how many of those Next has consumed
  cut,        \* the connection is gone
  cancelled,  \* the context of the command is cancelled
  closed,     \* StreamReader.closed
  done,       \* StreamReader.done
  result      \* what the last Next returned: "data", "end" or "error"

network == <<sent, arriving, cut>>
stream  == <<sent, arriving, taken, cut, cancelled, closed, done, result>>

Waiting == taken < arriving
Front   == sent[taken + 1]

Open == /\ sent = << >> /\ arriving = 0 /\ taken = 0
        /\ cut = FALSE /\ cancelled = FALSE /\ closed = FALSE
        /\ done = FALSE /\ result = "none"

-----------------------------------------------------------------------------
(* The other end and the network.                                          *)

Send(frames) ==
  /\ ~cut
  /\ sent' = sent \o frames
  /\ arriving' = arriving + Len(frames)
  /\ UNCHANGED <<taken, cut, cancelled, closed, done, result>>

\* The connection breaks: some of what was in flight still arrives.
HangUp ==
  /\ ~cut
  /\ cut' = TRUE
  /\ arriving' \in taken .. arriving
  /\ UNCHANGED <<sent, taken, cancelled, closed, done, result>>

Cancel ==
  /\ ~cancelled
  /\ cancelled' = TRUE
  /\ UNCHANGED <<network, taken, closed, done, result>>

-----------------------------------------------------------------------------
(* StreamReader.Next.                                                      *)

NextData ==
  /\ ~done /\ Waiting /\ Front.kind = "data"
  /\ taken' = taken + 1
  /\ result' = "data"
  /\ UNCHANGED <<network, cancelled, closed, done>>

\* The one error after which done stays false.
NextUndecodable ==
  /\ ~done /\ Waiting /\ Front.kind = "bad"
  /\ taken' = taken + 1
  /\ result' = "error"
  /\ UNCHANGED <<network, cancelled, closed, done>>

NextEnd ==
  /\ ~done /\ Waiting /\ Front.kind = "trailer"
  /\ taken' = taken + 1
  /\ done' = TRUE
  /\ result' = "end"
  /\ UNCHANGED <<network, cancelled, closed>>

NextRefused ==
  /\ ~done /\ Waiting /\ Front.kind \in {"failure", "huge"}
  /\ taken' = taken + 1
  /\ done' = TRUE
  /\ result' = "error"
  /\ UNCHANGED <<network, cancelled, closed>>

\* Defect: a cancelled context does not end the read.
NextBrokenDeafToCtx ==
  /\ ~done
  /\ (cut /\ ~Waiting) \/ closed
  /\ done' = TRUE
  /\ result' = "error"
  /\ UNCHANGED <<network, taken, cancelled, closed>>

\* Nothing more can be read: truncation, a closed body, a cancelled context.
NextBroken ==
  /\ ~done
  /\ (cut /\ ~Waiting) \/ cancelled \/ closed
  /\ done' = TRUE
  /\ result' = "error"
  /\ UNCHANGED <<network, taken, cancelled, closed>>

NextAfterDone ==
  /\ done
  /\ result' = "end"
  /\ UNCHANGED <<network, taken, cancelled, closed, done>>

NextError == NextUndecodable \/ NextRefused \/ NextBroken

Close ==
  /\ closed' = TRUE
  /\ UNCHANGED <<network, taken, cancelled, done, result>>

FrameNext ==
  \/ \E f \in Frame : Send(<<f>>)
  \/ HangUp \/ Cancel
  \/ NextData \/ NextEnd \/ NextError \/ NextAfterDone
  \/ Close

FrameSpec == Open /\ [][FrameNext]_stream
=============================================================================
