---------------------------- MODULE StreamReader ----------------------------
(***************************************************************************)
(* transport.StreamReader on an HTTP response body.  A frame crosses the   *)
(* network as a five-byte header and, when its length is not zero, a       *)
(* payload; each is one io.ReadFull, which blocks until all of it is there *)
(* or the body ends.                                                       *)
(***************************************************************************)
EXTENDS Naturals, Sequences, FiniteSets

CONSTANTS
  Frame,    \* frames a server may send, see FrameReader
  MaxSent   \* bound on how many it sends

ASSUME MaxSentAssumption == MaxSent \in Nat

VARIABLES
  body,       \* the unread pieces of the response body
  cut,        \* no more pieces come
  cancelled,  \* ctx.Err() # nil
  closed,     \* StreamReader.closed
  done,       \* StreamReader.done
  call,       \* where Next is: "out", or blocked on the "header" or "payload"
  result,     \* what the last Next returned
  sent,       \* history: the frames the server wrote
  taken       \* history: how many of them Next read to their last piece

vars == <<body, cut, cancelled, closed, done, call, result, sent, taken>>

\* A frame may have no payload at all, and the payload of one that is too
\* large is never read.
Bare(f) == f.kind = "huge" \/ f.empty

Piece(part, f) == [part |-> part, frame |-> f, last |-> part = "payload" \/ Bare(f)]

Pieces(f) == IF Bare(f) THEN <<Piece("header", f)>>
             ELSE <<Piece("header", f), Piece("payload", f)>>

Init ==
  /\ body = << >> /\ cut = FALSE /\ cancelled = FALSE
  /\ closed = FALSE /\ done = FALSE
  /\ call = "out" /\ result = "none"
  /\ sent = << >> /\ taken = 0

ServerSends(f) ==
  /\ ~cut
  /\ Len(sent) < MaxSent
  /\ body' = body \o Pieces(f)
  /\ sent' = Append(sent, f)
  /\ UNCHANGED <<cut, cancelled, closed, done, call, result, taken>>

\* The connection ends anywhere, within a frame too.
ServerHangsUp ==
  /\ ~cut
  /\ cut' = TRUE
  /\ \E n \in 0 .. Len(body) : body' = SubSeq(body, 1, n)
  /\ UNCHANGED <<cancelled, closed, done, call, result, sent, taken>>

Interrupt ==
  /\ ~cancelled
  /\ cancelled' = TRUE
  /\ UNCHANGED <<body, cut, closed, done, call, result, sent, taken>>

-----------------------------------------------------------------------------
Return(what) == call' = "out" /\ result' = what

\* Next is called: it returns at once when done, or when ctx is cancelled.
CallNext ==
  /\ call = "out"
  /\ \/ done /\ Return("end") /\ UNCHANGED done
     \/ ~done /\ cancelled /\ Return("error") /\ done' = TRUE
     \/ ~done /\ ~cancelled /\ call' = "header" /\ UNCHANGED <<done, result>>
  /\ UNCHANGED <<body, cut, cancelled, closed, sent, taken>>

\* Defect: the error envelope of a trailer is not looked at.
ConsumeAnyTrailer(f) ==
  /\ taken' = taken + 1
  /\ \/ f.kind = "data"    /\ Return("data")  /\ UNCHANGED done
     \/ f.kind = "bad"     /\ Return("error") /\ UNCHANGED done
     \/ f.kind \in {"trailer", "failure"} /\ Return("end") /\ done' = TRUE
     \/ f.kind = "huge"    /\ Return("error") /\ done' = TRUE

\* What Next makes of a frame whose last piece it has just read.
Consume(f) ==
  /\ taken' = taken + 1
  /\ \/ f.kind = "data"    /\ Return("data")  /\ UNCHANGED done
     \/ f.kind = "bad"     /\ Return("error") /\ UNCHANGED done
     \/ f.kind = "trailer" /\ Return("end")   /\ done' = TRUE
     \/ f.kind \in {"failure", "huge"} /\ Return("error") /\ done' = TRUE

Readable == body # << >> /\ ~closed

ReadHeader ==
  /\ call = "header"
  /\ Readable
  /\ IF Head(body).last THEN Consume(Head(body).frame)
     ELSE call' = "payload" /\ UNCHANGED <<done, result, taken>>
  /\ body' = Tail(body)
  /\ UNCHANGED <<cut, cancelled, closed, sent>>

ReadPayload ==
  /\ call = "payload"
  /\ Readable
  /\ Consume(Head(body).frame)
  /\ body' = Tail(body)
  /\ UNCHANGED <<cut, cancelled, closed, sent>>

\* Defect: an EOF between frames passes for a trailer.
BareEOFIsEnd ==
  /\ call \in {"header", "payload"}
  /\ (cut /\ body = << >>) \/ closed \/ cancelled
  /\ done' = TRUE
  /\ Return(IF call = "header" /\ cut /\ body = << >> THEN "end" ELSE "error")
  /\ UNCHANGED <<body, cut, cancelled, closed, sent, taken>>

\* io.ReadFull fails: EOF before or within the piece, a closed body, or the
\* read the cancelled context aborts.
ReadFails ==
  /\ call \in {"header", "payload"}
  /\ (cut /\ body = << >>) \/ closed \/ cancelled
  /\ done' = TRUE
  /\ Return("error")
  /\ UNCHANGED <<body, cut, cancelled, closed, sent, taken>>

CloseBody ==
  /\ call = "out"
  /\ closed' = TRUE
  /\ UNCHANGED <<body, cut, cancelled, done, call, result, sent, taken>>

Next ==
  \/ \E f \in Frame : ServerSends(f)
  \/ ServerHangsUp \/ Interrupt
  \/ CallNext \/ ReadHeader \/ ReadPayload \/ ReadFails \/ CloseBody

Spec == Init /\ [][Next]_vars

-----------------------------------------------------------------------------
(* Properties.                                                             *)

\* Frames whose last piece is still to be read.
InFlight == Cardinality({i \in DOMAIN body : body[i].last})

(* However the body is cut into frames, broken off or aborted, Next        *)
(* returns the frames in order, each once, ends cleanly only on a trailer  *)
(* and turns every truncation into an error: it is a FrameReader.          *)
Frames == INSTANCE FrameReader WITH arriving <- taken + InFlight

ImplementsFrameReader == Frames!FrameSpec

(* The first verdict "end" is the truth: the server finished, and every    *)
(* frame it sent before its trailer was handed out.  A stream that breaks  *)
(* between two frames, where a bare EOF looks like an end, is no exception.*)
CleanEndIsReal ==
  [][ ~done /\ result' = "end" =>
        /\ taken' > 0 /\ sent[taken'].kind = "trailer"
        /\ \A i \in 1 .. taken : sent[i].kind \in {"data", "bad"}
    ]_vars
=============================================================================
