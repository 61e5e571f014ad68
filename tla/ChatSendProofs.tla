---------------------------- MODULE ChatSendProofs ----------------------------
(***************************************************************************)
(* Theorems about ChatSend, for a reply of any number of cells and any     *)
(* interleaving of the command, the service and the network; and, last,    *)
(* about the StreamReader below it, for any frames.                        *)
(***************************************************************************)
EXTENDS ChatSend, FunctionTheorems, FiniteSetTheorems, TLAPS

-----------------------------------------------------------------------------
(* The inductive invariant.                                                *)

Types ==
  /\ sent \in Seq(ChatFrame)
  /\ arriving \in 0 .. Len(sent) /\ taken \in 0 .. arriving
  /\ cut = FALSE => arriving = Len(sent)
  /\ cut \in BOOLEAN /\ done \in BOOLEAN
  /\ pc \in {"message", "send", "sending", "open", "read", "close", "exited"}
  /\ waitAll \in BOOLEAN /\ echoes \in BOOLEAN
  /\ life \in [Cell -> Life]
  /\ request \in {"none", "sent", "recorded"} \union Refusal
  /\ recorded = IF request = "recorded" THEN 1 ELSE 0
  /\ executed \subseteq seen

LocalError  == [at : {"message", "SendMessage"}, why : {"usage", "plain"}]
StreamError == [at : {"stream"}, why : {"auth", "rpc", "plain"}]

\* Where the command is, what it says and what became of the message agree.
MessageInv ==
  /\ pc \in {"message", "send"} => request = "none" /\ error = NoError
  /\ pc = "sending" => request # "none" /\ error = NoError
  /\ pc \in {"open", "read"} => request = "recorded" /\ error = NoError
  /\ pc = "close" => request = "recorded" /\ error \in {NoError} \union StreamError
  /\ pc = "exited" =>
       \/ request = "none" /\ error \in LocalError
       \/ /\ error \in [at : {"SendMessage"}, why : Refusal \union {"network", "aborted", "plain"}]
          /\ error.why \in Refusal => request = error.why
          /\ error.why = "plain" => request = "recorded"
       \/ /\ error \in {NoError} \union StreamError \union [at : {"StreamChat"}, why : UnaryFailure]
          /\ request = "recorded"

\* The reply is made cell after cell, and a cell ends in its own way.
ReplyGrows ==
  /\ \A c \in Cell : life[c] \in {"absent", "running", Final(c)}
  /\ \A c \in Reply, d \in Cell : d < c /\ life[c] # "absent" => life[d] = Final(d)

\* Frame i tells the final state of cell c.
Tells(i, c) == sent[i] = CellFrame(c, Final(c))

\* A stream tells the truth: of no cell that it is not to show, of an
\* execution only when it has happened, and of every final state while it is
\* up; where it has been closed cleanly, of all of the reply.
StreamIsTrue ==
  /\ \A i \in DOMAIN sent : sent[i].kind = "data" /\ sent[i] # Metadata =>
       /\ sent[i].cell \in Cell
       /\ sent[i].cell = Own => echoes
       /\ sent[i].life = "EXECUTED" => life[sent[i].cell] = "EXECUTED"
  /\ pc = "read" /\ ~cut =>
       \A c \in Reply : life[c] = Final(c) => \E i \in DOMAIN sent : Tells(i, c)
  /\ \A j \in DOMAIN sent : sent[j].kind = "trailer" =>
       \A c \in Reply : \E i \in 1 .. j - 1 : Tells(i, c)

\* What has been taken has been rendered, and nothing else.
RenderedIsTaken ==
  /\ \A i \in 1 .. taken : sent[i].kind = "data" /\ sent[i] # Metadata => sent[i].cell \in seen
  /\ \A c \in executed : \E i \in 1 .. taken : sent[i] = CellFrame(c, "EXECUTED")

\* Success is for what was waited for, or for the end of the stream.
SuccessHasAReason ==
  Succeeds =>
    \/ Satisfied(seen, executed)
    \/ done /\ taken > 0 /\ sent[taken].kind = "trailer"

ChatInv == Types /\ MessageInv /\ ReplyGrows /\ StreamIsTrue /\ RenderedIsTaken /\ SuccessHasAReason

-----------------------------------------------------------------------------
(* Frames and sequences of them.                                           *)

LEMMA ConcatFacts ==
  ASSUME NEW S, NEW s \in Seq(S), NEW t \in Seq(S)
  PROVE  /\ s \o t \in Seq(S) /\ Len(s \o t) = Len(s) + Len(t)
         /\ \A i \in 1 .. Len(s) : (s \o t)[i] = s[i]
         /\ \A i \in 1 .. Len(t) : (s \o t)[Len(s) + i] = t[i]
         /\ \A i \in 1 .. Len(s \o t) : i > Len(s) => i - Len(s) \in 1 .. Len(t) /\ (s \o t)[i] = t[i - Len(s)]
OBVIOUS

LEMMA CellFacts ==
  /\ Own \in Cell /\ Own \notin Reply /\ Own # LastCell
  /\ Reply \subseteq Cell /\ LastCell \in Reply /\ NoCell \notin Cell
  /\ \A c \in Cell : c \in Int /\ Final(c) \in {"EXECUTED", "CREATED"}
  /\ \A c \in Reply : c - 1 \in Cell /\ c - 1 # LastCell
  /\ Final(Own) = "EXECUTED"
BY LastCellAssumption DEF Own, Cell, Reply, NoCell, Final

LEMMA FrameFacts ==
  /\ \A c \in Cell, l \in Life : CellFrame(c, l) \in ChatFrame /\ CellFrame(c, l) # Metadata
  /\ Metadata \in ChatFrame
  /\ \A k \in {"bad", "trailer", "failure"} : Closing(k) \in ChatFrame
<1>1. \A c \in Cell, l \in Life : CellFrame(c, l) \in ChatFrame
  BY DEF ChatFrame
<1>2. \A c \in Cell, l \in Life : CellFrame(c, l).cell = c /\ Metadata.cell = NoCell
  BY DEF CellFrame, Metadata
<1>3. Metadata \in ChatFrame /\ \A k \in {"bad", "trailer", "failure"} : Closing(k) \in ChatFrame
  BY DEF ChatFrame
<1> QED
  BY <1>1, <1>2, <1>3, CellFacts

LEMMA CellFrameFields ==
  ASSUME NEW c, NEW l
  PROVE  CellFrame(c, l).kind = "data" /\ CellFrame(c, l).cell = c /\ CellFrame(c, l).life = l
BY DEF CellFrame

LEMMA FrameCases ==
  ASSUME NEW f \in ChatFrame
  PROVE  \/ f = Metadata /\ f.cell = NoCell /\ f.life = "absent" /\ f.kind = "data"
         \/ /\ f.kind = "data" /\ f.cell \in Cell /\ f.life \in Life /\ f # Metadata
            /\ f = CellFrame(f.cell, f.life)
         \/ f.kind \in {"bad", "trailer", "failure"}
BY FrameFacts DEF ChatFrame, CellFrame, Metadata, Closing, Life

\* What a stream starts with.
LEMMA SnapshotFacts ==
  ASSUME Types, NEW n \in 0 .. LastCell
  PROVE  /\ Snapshot(n) \in Seq(ChatFrame)
         /\ \A i \in DOMAIN Snapshot(n) :
              \E c \in Cell : Snapshot(n)[i] = CellFrame(c, life[c]) /\ (c = Own => echoes)
         /\ \A c \in 1 .. n : \E i \in DOMAIN Snapshot(n) : Snapshot(n)[i] = CellFrame(c, life[c])
<1> DEFINE own  == IF echoes THEN <<CellFrame(Own, life[Own])>> ELSE << >>
           rest == [c \in 1 .. n |-> CellFrame(c, life[c])]
<1>1. /\ n \in Nat /\ 1 .. n \subseteq Reply /\ life \in [Cell -> Life]
  BY LastCellAssumption DEF Types, Reply
<1>2. own \in Seq(ChatFrame)
  BY <1>1, CellFacts, FrameFacts
<1>3. rest \in Seq(ChatFrame) /\ Len(rest) = n
  BY <1>1, CellFacts, FrameFacts
<1>4. \A i \in 1 .. Len(own) : echoes /\ own[i] = CellFrame(Own, life[Own])
  OBVIOUS
<1>5. \A c \in 1 .. n : rest[c] = CellFrame(c, life[c])
  OBVIOUS
<1>6. Snapshot(n) = own \o rest
  BY DEF Snapshot
<1> HIDE DEF own, rest
<1>7. /\ own \o rest \in Seq(ChatFrame) /\ Len(own \o rest) = Len(own) + n
      /\ \A i \in 1 .. Len(own) : (own \o rest)[i] = own[i]
      /\ \A i \in 1 .. n : (own \o rest)[Len(own) + i] = rest[i]
      /\ \A i \in 1 .. Len(own \o rest) :
           i > Len(own) => i - Len(own) \in 1 .. n /\ (own \o rest)[i] = rest[i - Len(own)]
  <2>1. /\ own \o rest \in Seq(ChatFrame) /\ Len(own \o rest) = Len(own) + Len(rest)
        /\ \A i \in 1 .. Len(own) : (own \o rest)[i] = own[i]
        /\ \A i \in 1 .. Len(rest) : (own \o rest)[Len(own) + i] = rest[i]
        /\ \A i \in 1 .. Len(own \o rest) :
             i > Len(own) => i - Len(own) \in 1 .. Len(rest) /\ (own \o rest)[i] = rest[i - Len(own)]
    BY <1>2, <1>3, ConcatFacts, Zenon
  <2> QED
    BY <1>3, <2>1
<1>8. ASSUME NEW i \in 1 .. Len(own \o rest)
      PROVE  \E c \in Cell : (own \o rest)[i] = CellFrame(c, life[c]) /\ (c = Own => echoes)
  <2>1. CASE i <= Len(own)
    <3>1. i \in 1 .. Len(own)
      BY <1>2, <1>7, <2>1
    <3> QED
      BY <1>4, <1>7, <3>1, CellFacts
  <2>2. CASE i > Len(own)
    <3>1. i - Len(own) \in 1 .. n /\ (own \o rest)[i] = rest[i - Len(own)]
      BY <1>7, <2>2
    <3> QED
      BY <1>1, <1>5, <3>1, CellFacts
  <2> QED
    BY <1>2, <2>1, <2>2
<1>9. ASSUME NEW c \in 1 .. n
      PROVE  \E i \in 1 .. Len(own \o rest) : (own \o rest)[i] = CellFrame(c, life[c])
  <2>1. Len(own) + c \in 1 .. Len(own \o rest)
    BY <1>1, <1>2, <1>7
  <2> QED
    BY <1>5, <1>7, <2>1
<1>10. DOMAIN (own \o rest) = 1 .. Len(own \o rest)
  BY <1>7
<1> QED
  BY <1>6, <1>7, <1>8, <1>9, <1>10

-----------------------------------------------------------------------------
(* Steps.                                                                  *)

LEMMA ChatInvInit == Init => ChatInv
<1> SUFFICES ASSUME Init PROVE ChatInv
  OBVIOUS
<1>1. Types /\ sent = << >> /\ taken = 0 /\ ~Succeeds
  <2>1. sent = << >> /\ Len(sent) = 0 /\ sent \in Seq(ChatFrame) /\ taken = 0 /\ arriving = 0
    BY DEF Init, Open
  <2>2. life \in [Cell -> Life]
    BY DEF Init, Life
  <2>3. arriving \in 0 .. Len(sent) /\ taken \in 0 .. arriving /\ arriving = Len(sent)
    BY <2>1
  <2>4. cut \in BOOLEAN /\ done \in BOOLEAN
    BY DEF Init, Open
  <2>5. /\ pc = "message" /\ waitAll \in BOOLEAN /\ echoes \in BOOLEAN
        /\ request = "none" /\ recorded = 0 /\ executed \subseteq seen
    BY DEF Init
  <2> QED
    BY <2>1, <2>2, <2>3, <2>4, <2>5 DEF Types, Succeeds
<1>2. MessageInv
  BY DEF Init, MessageInv
<1>3. ReplyGrows
  BY DEF Init, ReplyGrows, Reply, Cell
<1>4. StreamIsTrue /\ RenderedIsTaken /\ SuccessHasAReason
  BY <1>1 DEF Init, StreamIsTrue, RenderedIsTaken, SuccessHasAReason
<1> QED
  BY <1>1, <1>2, <1>3, <1>4 DEF ChatInv

\* The server only ever adds to what it has sent.
Extends ==
  /\ Len(sent) <= Len(sent')
  /\ \A i \in 1 .. Len(sent) : sent'[i] = sent[i]

LEMMA SendFacts ==
  ASSUME Types, NEW frames \in Seq(ChatFrame), Send(frames)
  PROVE  /\ sent' \in Seq(ChatFrame) /\ Extends /\ Len(sent') = Len(sent) + Len(frames)
         /\ cut = FALSE /\ cut' = FALSE /\ arriving' = Len(sent')
         /\ arriving' \in 0 .. Len(sent') /\ taken' \in 0 .. arriving'
         /\ taken' = taken /\ done' = done
         /\ \A i \in 1 .. Len(sent') : i > Len(sent) => \E k \in 1 .. Len(frames) : sent'[i] = frames[k]
         /\ \A k \in 1 .. Len(frames) : \E i \in 1 .. Len(sent') : sent'[i] = frames[k]
<1>1. sent \in Seq(ChatFrame) /\ Len(sent) \in Nat /\ Len(frames) \in Nat
  BY DEF Types
<1>2. /\ sent' = sent \o frames /\ cut = FALSE /\ cut' = FALSE
      /\ arriving' = arriving + Len(frames) /\ taken' = taken /\ done' = done
  BY DEF Send, Types
<1>3. /\ sent \o frames \in Seq(ChatFrame) /\ Len(sent \o frames) = Len(sent) + Len(frames)
      /\ \A i \in 1 .. Len(sent) : (sent \o frames)[i] = sent[i]
      /\ \A i \in 1 .. Len(frames) : (sent \o frames)[Len(sent) + i] = frames[i]
      /\ \A i \in 1 .. Len(sent \o frames) :
           i > Len(sent) => i - Len(sent) \in 1 .. Len(frames) /\ (sent \o frames)[i] = frames[i - Len(sent)]
  BY <1>1, ConcatFacts, Zenon
<1>4. arriving = Len(sent) /\ taken \in 0 .. arriving
  BY <1>2 DEF Types
<1>5. /\ arriving' = Len(sent') /\ arriving' \in 0 .. Len(sent') /\ taken' \in 0 .. arriving'
      /\ Len(sent') = Len(sent) + Len(frames)
  BY <1>1, <1>2, <1>3, <1>4
<1>6. Extends
  BY <1>1, <1>2, <1>3 DEF Extends
<1>7. ASSUME NEW k \in 1 .. Len(frames) PROVE \E i \in 1 .. Len(sent') : sent'[i] = frames[k]
  <2>1. Len(sent) + k \in 1 .. Len(sent')
    BY <1>1, <1>5
  <2> QED
    BY <1>2, <1>3, <2>1
<1>8. ASSUME NEW i \in 1 .. Len(sent'), i > Len(sent)
      PROVE  \E k \in 1 .. Len(frames) : sent'[i] = frames[k]
  BY <1>2, <1>3, <1>8
<1> QED
  BY <1>2, <1>3, <1>5, <1>6, <1>7, <1>8

\* What has been taken and rendered does not depend on what comes after it.
LEMMA TakenKeeps ==
  ASSUME Types, RenderedIsTaken, SuccessHasAReason, Extends,
         taken' = taken, seen' = seen, executed' = executed, done' = done, waitAll' = waitAll,
         Succeeds' => Succeeds
  PROVE  RenderedIsTaken' /\ SuccessHasAReason'
<1>1. /\ 1 .. taken \subseteq 1 .. Len(sent) /\ (taken > 0 => taken \in 1 .. Len(sent))
  BY DEF Types
<1>2. \A i \in 1 .. taken : sent'[i] = sent[i]
  BY <1>1 DEF Extends
<1>3. RenderedIsTaken'
  BY <1>2 DEF RenderedIsTaken
<1>4. SuccessHasAReason'
  BY <1>1, <1>2 DEF SuccessHasAReason, Satisfied, AllExecuted, Extends
<1> QED
  BY <1>3, <1>4

\* A stream that carries nothing new stays true as the reply goes on.
LEMMA StreamKeeps ==
  ASSUME Types, StreamIsTrue, sent' = sent, echoes' = echoes,
         \A c \in Cell : life[c] = "EXECUTED" => life'[c] = "EXECUTED",
         pc' = "read" /\ ~cut' => pc = "read" /\ ~cut /\ life' = life
  PROVE  StreamIsTrue'
<1>1. \A i \in DOMAIN sent' : sent'[i].kind = "data" /\ sent'[i] # Metadata =>
        /\ sent'[i].cell \in Cell
        /\ sent'[i].cell = Own => echoes'
        /\ sent'[i].life = "EXECUTED" => life'[sent'[i].cell] = "EXECUTED"
  BY DEF StreamIsTrue
<1>2. pc' = "read" /\ ~cut' =>
        \A c \in Reply : life'[c] = Final(c) => \E i \in DOMAIN sent' : Tells(i, c)'
  BY DEF StreamIsTrue, Tells
<1>3. \A j \in DOMAIN sent' : sent'[j].kind = "trailer" =>
        \A c \in Reply : \E i \in 1 .. j - 1 : Tells(i, c)'
  BY DEF StreamIsTrue, Tells
<1> QED
  BY <1>1, <1>2, <1>3 DEF StreamIsTrue

\* Neither does it, when frames come on top that are true themselves.
LEMMA StreamGrows ==
  ASSUME Types, StreamIsTrue, Extends, sent' \in Seq(ChatFrame), echoes' = echoes,
         \A c \in Cell : life[c] = "EXECUTED" => life'[c] = "EXECUTED",
         \A i \in 1 .. Len(sent') : i > Len(sent) =>
           \/ sent'[i] = Metadata
           \/ \E c \in Cell, l \in Life :
                /\ sent'[i] = CellFrame(c, l) /\ (c = Own => echoes)
                /\ l = "EXECUTED" => life'[c] = "EXECUTED"
           \/ /\ sent'[i].kind \in {"bad", "trailer", "failure"}
              /\ sent'[i].kind = "trailer" =>
                   \A c \in Reply : \E k \in 1 .. Len(sent) : Tells(k, c),
         pc' = "read" /\ ~cut' =>
           \A c \in Reply : life'[c] = Final(c) => \E i \in 1 .. Len(sent') : Tells(i, c)'
  PROVE  StreamIsTrue'
<1>1. /\ DOMAIN sent = 1 .. Len(sent) /\ DOMAIN sent' = 1 .. Len(sent')
      /\ Len(sent) \in Nat /\ Len(sent') \in Nat /\ Len(sent) <= Len(sent')
  BY DEF Types, Extends
<1>2. ASSUME NEW i \in 1 .. Len(sent'), sent'[i].kind = "data", sent'[i] # Metadata
      PROVE  /\ sent'[i].cell \in Cell
             /\ sent'[i].cell = Own => echoes'
             /\ sent'[i].life = "EXECUTED" => life'[sent'[i].cell] = "EXECUTED"
  <2>1. CASE i <= Len(sent)
    <3>1. i \in 1 .. Len(sent) /\ sent'[i] = sent[i]
      BY <1>1, <2>1 DEF Extends
    <3> QED
      BY <1>1, <1>2, <3>1 DEF StreamIsTrue
  <2>2. CASE i > Len(sent)
    <3>1. PICK c \in Cell, l \in Life :
            /\ sent'[i] = CellFrame(c, l) /\ (c = Own => echoes)
            /\ l = "EXECUTED" => life'[c] = "EXECUTED"
      BY <1>2, <2>2
    <3>2. sent'[i].cell = c /\ sent'[i].life = l
      BY <3>1, CellFrameFields
    <3> QED
      BY <3>1, <3>2
  <2> QED
    BY <1>1, <2>1, <2>2
<1>3. ASSUME NEW j \in 1 .. Len(sent'), sent'[j].kind = "trailer", NEW c \in Reply
      PROVE  \E i \in 1 .. j - 1 : Tells(i, c)'
  <2>1. \A i \in 1 .. Len(sent) : Tells(i, c) => Tells(i, c)'
    BY DEF Tells, Extends
  <2>2. CASE j <= Len(sent)
    <3>1. j \in 1 .. Len(sent) /\ sent'[j] = sent[j]
      BY <1>1, <2>2 DEF Extends
    <3>2. PICK i \in 1 .. j - 1 : Tells(i, c)
      BY <1>1, <1>3, <3>1 DEF StreamIsTrue
    <3>3. i \in 1 .. Len(sent)
      BY <1>1, <3>1
    <3> QED
      BY <2>1, <3>2, <3>3
  <2>3. CASE j > Len(sent)
    <3>1. sent'[j] # Metadata
      BY <1>3 DEF Metadata, CellFrame
    <3>2. ~ \E d \in Cell, l \in Life : sent'[j] = CellFrame(d, l)
      BY <1>3, CellFrameFields
    <3>3. PICK i \in 1 .. Len(sent) : Tells(i, c)
      BY <1>3, <2>3, <3>1, <3>2
    <3>4. i \in 1 .. j - 1
      BY <1>1, <2>3
    <3> QED
      BY <2>1, <3>3, <3>4
  <2> QED
    BY <1>1, <2>2, <2>3
<1>4. pc' = "read" /\ ~cut' =>
        \A c \in Reply : life'[c] = Final(c) => \E i \in DOMAIN sent' : Tells(i, c)'
  BY <1>1
<1> QED
  BY <1>1, <1>2, <1>3, <1>4 DEF StreamIsTrue

\* One frame is sent.
LEMMA SendOneFacts ==
  ASSUME Types, NEW f \in ChatFrame, Send(<<f>>)
  PROVE  /\ sent' \in Seq(ChatFrame) /\ Extends /\ Len(sent') = Len(sent) + 1
         /\ cut = FALSE /\ cut' = FALSE /\ arriving' = Len(sent')
         /\ arriving' \in 0 .. Len(sent') /\ taken' \in 0 .. arriving'
         /\ taken' = taken /\ done' = done
         /\ \A i \in 1 .. Len(sent') : i > Len(sent) => sent'[i] = f
         /\ \E i \in 1 .. Len(sent') : sent'[i] = f
<1>1. <<f>> \in Seq(ChatFrame) /\ Len(<<f>>) = 1 /\ <<f>>[1] = f
  OBVIOUS
<1> DEFINE frames == <<f>>
<1>2. frames \in Seq(ChatFrame) /\ Send(frames) /\ Len(frames) = 1 /\ frames[1] = f
  BY <1>1
<1> HIDE DEF frames
<1>3. /\ sent' \in Seq(ChatFrame) /\ Extends /\ Len(sent') = Len(sent) + Len(frames)
      /\ cut = FALSE /\ cut' = FALSE /\ arriving' = Len(sent')
      /\ arriving' \in 0 .. Len(sent') /\ taken' \in 0 .. arriving'
      /\ taken' = taken /\ done' = done
      /\ \A i \in 1 .. Len(sent') : i > Len(sent) => \E k \in 1 .. Len(frames) : sent'[i] = frames[k]
      /\ \A k \in 1 .. Len(frames) : \E i \in 1 .. Len(sent') : sent'[i] = frames[k]
  BY <1>2, SendFacts, Zenon
<1> QED
  BY <1>2, <1>3

LEMMA ProgressStep ==
  ASSUME ChatInv, NEW c \in Reply, NEW to \in Life, Progress(c, to) PROVE ChatInv'
<1> USE DEF ChatInv
<1>1. /\ pc' = pc /\ error' = error /\ waitAll' = waitAll /\ echoes' = echoes
      /\ seen' = seen /\ executed' = executed /\ request' = request /\ recorded' = recorded
      /\ life' = [life EXCEPT ![c] = to]
  BY DEF Progress, command, message
<1>2. c \in Cell /\ c - 1 \in Cell /\ c \in Int /\ life \in [Cell -> Life]
  BY CellFacts DEF Types
<1>3. \/ to = "running" /\ life[c] = "absent" /\ life[c - 1] \in {"EXECUTED", "CREATED"}
      \/ to = Final(c) /\ life[c] = "running"
  BY DEF Progress
<1>4. \A d \in Cell : life'[d] = IF d = c THEN to ELSE life[d]
  BY <1>1, <1>2
<1>5. ReplyGrows'
  <2>1. \A d \in Cell : life'[d] \in {"absent", "running", Final(d)}
    BY <1>3, <1>4 DEF ReplyGrows
  <2>2. ASSUME NEW a \in Reply, NEW d \in Cell, d < a, life'[a] # "absent"
        PROVE  life'[d] = Final(d)
    <3>1. a \in Cell /\ a \in Int /\ d \in Int
      BY CellFacts
    <3>2. CASE a # c /\ life[a] # "absent"
      <4>1. life[d] = Final(d)
        BY <2>2, <3>2 DEF ReplyGrows
      <4>2. d # c
        BY <1>3, <4>1, CellFacts
      <4> QED
        BY <1>4, <4>1, <4>2
    <3>3. CASE a = c
      <4>1. CASE life[c] = "running"
        <5>1. life[d] = Final(d)
          BY <2>2, <3>3, <4>1 DEF ReplyGrows
        <5> QED
          BY <1>4, <2>2, <3>1, <3>3, <5>1
      <4>2. CASE life[c - 1] \in {"EXECUTED", "CREATED"}
        <5>1. d = c - 1 \/ d < c - 1
          BY <1>2, <2>2, <3>1, <3>3
        <5>2. life[c - 1] = Final(c - 1)
          BY <1>2, <4>2 DEF ReplyGrows
        <5>3. d < c - 1 => c - 1 \in Reply
          BY <1>2, <3>1, CellFacts, LastCellAssumption DEF Cell, Reply, Own
        <5>4. life[d] = Final(d)
          BY <4>2, <5>1, <5>2, <5>3 DEF ReplyGrows
        <5> QED
          BY <1>4, <2>2, <3>1, <3>3, <5>4
      <4> QED
        BY <1>3, <4>1, <4>2
    <3> QED
      BY <1>4, <2>2, <3>2, <3>3, CellFacts
  <2> QED
    BY <2>1, <2>2 DEF ReplyGrows
<1>6. \A d \in Cell : life[d] = "EXECUTED" => life'[d] = "EXECUTED"
  BY <1>3, <1>4
<1>7. Types' /\ StreamIsTrue' /\ RenderedIsTaken' /\ SuccessHasAReason'
  <2>1. life' \in [Cell -> Life]
    BY <1>1, <1>2
  <2>2. Succeeds' <=> Succeeds
    BY <1>1 DEF Succeeds
  <2>3. CASE pc = "read" /\ ~cut
    <3> DEFINE f == CellFrame(c, to)
    <3>1. f \in ChatFrame
      BY <1>2, FrameFacts
    <3>2. Send(<<f>>)
      BY <2>3 DEF Progress, Emit
    <3> HIDE DEF f
    <3>3. /\ sent' \in Seq(ChatFrame) /\ Extends /\ Len(sent') = Len(sent) + 1
          /\ cut' = FALSE /\ arriving' = Len(sent')
          /\ arriving' \in 0 .. Len(sent') /\ taken' \in 0 .. arriving'
          /\ taken' = taken /\ done' = done
          /\ \A i \in 1 .. Len(sent') : i > Len(sent) => sent'[i] = f
          /\ \E i \in 1 .. Len(sent') : sent'[i] = f
      BY <3>1, <3>2, SendOneFacts
    <3>4. Types'
      BY <1>1, <2>1, <3>3 DEF Types
    <3>5. RenderedIsTaken' /\ SuccessHasAReason'
      BY <1>1, <2>2, <3>3, TakenKeeps
    <3>6. ASSUME NEW d \in Reply, life'[d] = Final(d)
          PROVE  \E i \in 1 .. Len(sent') : Tells(i, d)'
      <4>1. CASE d = c
        <5>1. f = CellFrame(d, Final(d))
          BY <1>4, <3>6, <4>1, CellFacts DEF f
        <5> QED
          BY <3>3, <5>1 DEF Tells
      <4>2. CASE d # c
        <5>1. PICK i \in DOMAIN sent : Tells(i, d)
          BY <1>4, <2>3, <3>6, <4>2, CellFacts DEF StreamIsTrue
        <5>2. i \in 1 .. Len(sent) /\ i \in 1 .. Len(sent')
          BY <3>3, <5>1 DEF Types, Extends
        <5> QED
          BY <3>3, <5>1, <5>2 DEF Tells, Extends
      <4> QED
        BY <4>1, <4>2
    <3>7. f = CellFrame(c, to) /\ c # Own /\ (to = "EXECUTED" => life'[c] = "EXECUTED")
      BY <1>2, <1>4, CellFacts DEF f
    <3>8. \A i \in 1 .. Len(sent') : i > Len(sent) =>
            \E d \in Cell, l \in Life :
              /\ sent'[i] = CellFrame(d, l) /\ (d = Own => echoes)
              /\ l = "EXECUTED" => life'[d] = "EXECUTED"
      BY <1>2, <3>3, <3>7
    <3>9. StreamIsTrue'
      BY <1>1, <1>6, <3>3, <3>6, <3>8, StreamGrows
    <3> QED
      BY <3>4, <3>5, <3>9
  <2>4. CASE ~(pc = "read" /\ ~cut)
    <3>1. /\ sent' = sent /\ arriving' = arriving /\ taken' = taken /\ cut' = cut /\ done' = done
      BY <2>4 DEF Progress, Emit, stream
    <3>2. Types'
      BY <1>1, <2>1, <3>1 DEF Types
    <3>3. Extends
      BY <3>1 DEF Types, Extends
    <3>4. RenderedIsTaken' /\ SuccessHasAReason'
      BY <1>1, <2>2, <3>1, <3>3, TakenKeeps
    <3>5. StreamIsTrue'
      BY <1>1, <1>6, <2>4, <3>1, StreamKeeps
    <3> QED
      BY <3>2, <3>4, <3>5
  <2> QED
    BY <2>3, <2>4
<1>8. MessageInv'
  BY <1>1 DEF MessageInv
<1> QED
  BY <1>5, <1>7, <1>8

LEMMA EndStreamStep ==
  ASSUME ChatInv, NEW kind \in {"bad", "trailer", "failure"}, EndStream(kind) PROVE ChatInv'
<1> USE DEF ChatInv
<1> DEFINE f == Closing(kind)
<1>1. /\ pc = "read" /\ pc' = pc /\ error' = error /\ waitAll' = waitAll /\ echoes' = echoes
      /\ seen' = seen /\ executed' = executed /\ request' = request /\ recorded' = recorded
      /\ life' = life /\ Send(<<f>>)
  BY DEF EndStream, service, command, message
<1>2. f \in ChatFrame /\ f.kind = kind
  BY FrameFacts DEF Closing
<1> HIDE DEF f
<1>3. /\ sent' \in Seq(ChatFrame) /\ Extends /\ Len(sent') = Len(sent) + 1
      /\ cut = FALSE /\ cut' = FALSE /\ arriving' = Len(sent')
      /\ arriving' \in 0 .. Len(sent') /\ taken' \in 0 .. arriving'
      /\ taken' = taken /\ done' = done
      /\ \A i \in 1 .. Len(sent') : i > Len(sent) => sent'[i] = f
  BY <1>1, <1>2, SendOneFacts
<1>4. Types'
  BY <1>1, <1>3 DEF Types
<1>5. RenderedIsTaken' /\ SuccessHasAReason'
  BY <1>1, <1>3, TakenKeeps DEF Succeeds
<1>6. \A c \in Reply : life[c] = Final(c) => \E i \in 1 .. Len(sent) : Tells(i, c)
  BY <1>1, <1>3 DEF StreamIsTrue, Types
<1>7. kind = "trailer" => \A c \in Reply : \E i \in 1 .. Len(sent) : Tells(i, c)
  <2> SUFFICES ASSUME kind = "trailer", NEW c \in Reply PROVE life[c] = Final(c)
    BY <1>6
  <2>1. life[LastCell] = "CREATED"
    BY DEF EndStream
  <2>2. c = LastCell \/ c < LastCell
    BY LastCellAssumption DEF Reply
  <2> QED
    BY <2>1, <2>2, CellFacts DEF ReplyGrows, Final
<1>8. \A i \in 1 .. Len(sent) : i \in 1 .. Len(sent') /\ \A c \in Reply : Tells(i, c) => Tells(i, c)'
  <2>1. Len(sent) \in Nat
    BY DEF Types
  <2> QED
    BY <1>3, <2>1 DEF Tells, Extends
<1>9. \A c \in Reply : life'[c] = Final(c) => \E i \in 1 .. Len(sent') : Tells(i, c)'
  BY <1>1, <1>6, <1>8
<1>10. StreamIsTrue'
  BY <1>1, <1>2, <1>3, <1>7, <1>9, StreamGrows
<1>11. ReplyGrows' /\ MessageInv'
  BY <1>1 DEF ReplyGrows, MessageInv
<1> QED
  BY <1>4, <1>5, <1>10, <1>11

LEMMA StreamChatStep == ASSUME ChatInv, StreamChat PROVE ChatInv'
<1> USE DEF ChatInv
<1>1. /\ pc = "open" /\ pc' = "read" /\ error' = error /\ waitAll' = waitAll /\ echoes' = echoes
      /\ seen' = seen /\ executed' = executed /\ request' = request /\ recorded' = recorded
      /\ life' = life
  BY DEF StreamChat, Goto, service, message
<1>2. PICK n \in 0 .. LastCell, head \in {<< >>, <<Metadata>>} :
        /\ \A c \in Reply : life[c] # "absent" <=> c <= n
        /\ Send(head \o Snapshot(n))
  BY DEF StreamChat
<1> DEFINE frames == head \o Snapshot(n)
<1>3. /\ Snapshot(n) \in Seq(ChatFrame)
      /\ \A i \in DOMAIN Snapshot(n) :
           \E c \in Cell : Snapshot(n)[i] = CellFrame(c, life[c]) /\ (c = Own => echoes)
      /\ \A c \in 1 .. n : \E i \in DOMAIN Snapshot(n) : Snapshot(n)[i] = CellFrame(c, life[c])
  BY SnapshotFacts
<1>4. head \in Seq(ChatFrame) /\ \A i \in 1 .. Len(head) : head[i] = Metadata
  <2>1. CASE head = << >>
    BY <2>1
  <2>2. CASE head = <<Metadata>>
    <3>1. Metadata \in ChatFrame
      BY FrameFacts
    <3>2. <<Metadata>> \in Seq(ChatFrame) /\ Len(<<Metadata>>) = 1 /\ <<Metadata>>[1] = Metadata
      BY <3>1
    <3> QED
      BY <2>2, <3>2
  <2> QED
    BY <2>1, <2>2
<1>5. /\ frames \in Seq(ChatFrame) /\ Len(frames) = Len(head) + Len(Snapshot(n))
      /\ \A i \in 1 .. Len(head) : frames[i] = head[i]
      /\ \A i \in 1 .. Len(Snapshot(n)) : frames[Len(head) + i] = Snapshot(n)[i]
      /\ \A i \in 1 .. Len(frames) :
           i > Len(head) => i - Len(head) \in 1 .. Len(Snapshot(n)) /\ frames[i] = Snapshot(n)[i - Len(head)]
  <2> DEFINE start == head
             snap  == Snapshot(n)
  <2>1. start \in Seq(ChatFrame) /\ snap \in Seq(ChatFrame) /\ frames = start \o snap
    BY <1>3, <1>4
  <2>2. start = head /\ snap = Snapshot(n)
    OBVIOUS
  <2> HIDE DEF start, snap, frames
  <2>3. /\ start \o snap \in Seq(ChatFrame) /\ Len(start \o snap) = Len(start) + Len(snap)
        /\ \A i \in 1 .. Len(start) : (start \o snap)[i] = start[i]
        /\ \A i \in 1 .. Len(snap) : (start \o snap)[Len(start) + i] = snap[i]
        /\ \A i \in 1 .. Len(start \o snap) :
             i > Len(start) => i - Len(start) \in 1 .. Len(snap) /\ (start \o snap)[i] = snap[i - Len(start)]
    BY <2>1, ConcatFacts, Zenon
  <2> QED
    BY <2>1, <2>2, <2>3
<1>6. DOMAIN Snapshot(n) = 1 .. Len(Snapshot(n)) /\ Len(Snapshot(n)) \in Nat /\ Len(head) \in Nat
  BY <1>3, <1>4
<1>7. Send(frames)
  BY <1>2
<1> HIDE DEF frames
<1>8. ASSUME NEW k \in 1 .. Len(frames)
      PROVE  \/ frames[k] = Metadata
             \/ \E c \in Cell : frames[k] = CellFrame(c, life[c]) /\ (c = Own => echoes)
  <2>1. CASE k \in 1 .. Len(head)
    BY <1>4, <1>5, <2>1
  <2>2. CASE k > Len(head)
    <3>1. k - Len(head) \in DOMAIN Snapshot(n) /\ frames[k] = Snapshot(n)[k - Len(head)]
      BY <1>5, <1>6, <2>2
    <3> QED
      BY <1>3, <3>1
  <2> QED
    BY <1>6, <2>1, <2>2
<1>9. ASSUME NEW c \in 1 .. n PROVE \E k \in 1 .. Len(frames) : frames[k] = CellFrame(c, life[c])
  <2>1. PICK i \in 1 .. Len(Snapshot(n)) : Snapshot(n)[i] = CellFrame(c, life[c])
    BY <1>3, <1>6
  <2>2. Len(head) + i \in 1 .. Len(frames)
    BY <1>5, <1>6
  <2> QED
    BY <1>5, <2>1, <2>2
<1>10. /\ sent' \in Seq(ChatFrame) /\ Extends /\ Len(sent') = Len(sent) + Len(frames)
       /\ cut' = FALSE /\ arriving' = Len(sent')
       /\ arriving' \in 0 .. Len(sent') /\ taken' \in 0 .. arriving'
       /\ taken' = taken /\ done' = done
       /\ \A i \in 1 .. Len(sent') : i > Len(sent) => \E k \in 1 .. Len(frames) : sent'[i] = frames[k]
       /\ \A k \in 1 .. Len(frames) : \E i \in 1 .. Len(sent') : sent'[i] = frames[k]
  BY <1>5, <1>7, SendFacts, Zenon
<1>11. Types'
  BY <1>1, <1>10 DEF Types
<1>12. RenderedIsTaken' /\ SuccessHasAReason'
  BY <1>1, <1>10, TakenKeeps DEF Succeeds
<1>13. StreamIsTrue'
  <2>1. ASSUME NEW c \in Reply, life'[c] = Final(c)
        PROVE  \E i \in 1 .. Len(sent') : Tells(i, c)'
    <3>1. c \in 1 .. n
      <4>1. c \in Nat /\ 1 <= c /\ c \in Cell /\ n \in Nat
        BY CellFacts, LastCellAssumption DEF Reply
      <4>2. life[c] # "absent"
        BY <1>1, <2>1, <4>1, CellFacts
      <4> QED
        BY <1>2, <4>1, <4>2
    <3>2. PICK k \in 1 .. Len(frames) : frames[k] = CellFrame(c, life[c])
      BY <1>9, <3>1
    <3> QED
      BY <1>1, <1>10, <2>1, <3>2 DEF Tells
  <2>2. ASSUME NEW i \in 1 .. Len(sent'), i > Len(sent)
        PROVE  \/ sent'[i] = Metadata
               \/ \E c \in Cell, l \in Life :
                    /\ sent'[i] = CellFrame(c, l) /\ (c = Own => echoes)
                    /\ l = "EXECUTED" => life'[c] = "EXECUTED"
    <3>1. PICK k \in 1 .. Len(frames) : sent'[i] = frames[k]
      BY <1>10, <2>2
    <3>2. CASE \E c \in Cell : frames[k] = CellFrame(c, life[c]) /\ (c = Own => echoes)
      <4>1. PICK c \in Cell : frames[k] = CellFrame(c, life[c]) /\ (c = Own => echoes)
        BY <3>2
      <4>2. life[c] \in Life
        BY DEF Types
      <4> QED
        BY <1>1, <3>1, <4>1, <4>2
    <3> QED
      BY <1>8, <3>1, <3>2
  <2> QED
    BY <1>1, <1>10, <2>1, <2>2, StreamGrows
<1>14. ReplyGrows' /\ MessageInv'
  BY <1>1 DEF ReplyGrows, MessageInv
<1> QED
  BY <1>11, <1>12, <1>13, <1>14

\* Steps that leave the stream alone.
LEMMA QuietStep ==
  ASSUME ChatInv, UNCHANGED <<stream, waitAll, echoes, seen, executed>>,
         Types', MessageInv', ReplyGrows',
         \A c \in Cell : life[c] = "EXECUTED" => life'[c] = "EXECUTED",
         pc' = "read" => pc = "read" /\ life' = life,
         Succeeds' => Succeeds
  PROVE  ChatInv'
<1>1. /\ sent' = sent /\ taken' = taken /\ cut' = cut /\ done' = done /\ waitAll' = waitAll
      /\ echoes' = echoes /\ seen' = seen /\ executed' = executed
  BY DEF stream
<1>2. Extends
  BY <1>1 DEF ChatInv, Types, Extends
<1>3. RenderedIsTaken' /\ SuccessHasAReason'
  BY <1>1, <1>2, TakenKeeps DEF ChatInv
<1>4. StreamIsTrue'
  BY <1>1, StreamKeeps DEF ChatInv
<1> QED
  BY <1>3, <1>4 DEF ChatInv

LEMMA RecordStep == ASSUME ChatInv, Record PROVE ChatInv'
<1> USE DEF ChatInv
<1>1. /\ request = "sent" /\ request' = "recorded" /\ recorded' = recorded + 1
      /\ life' = [life EXCEPT ![Own] = "EXECUTED"]
      /\ UNCHANGED <<stream, echoes, command>>
  BY DEF Record
<1>2. UNCHANGED <<sent, arriving, taken, cut, done, pc, error, waitAll, seen, executed>>
  BY <1>1 DEF stream, command
<1>3. life \in [Cell -> Life] /\ \A c \in Cell : life'[c] = IF c = Own THEN "EXECUTED" ELSE life[c]
  BY <1>1 DEF Types
<1>4. Types'
  <2>1. life' \in [Cell -> Life]
    BY <1>1, <1>3, CellFacts DEF Life
  <2>2. recorded = 0 /\ recorded' = 1
    BY <1>1 DEF Types
  <2> QED
    BY <1>1, <1>2, <2>1, <2>2 DEF Types
<1>5. MessageInv'
  BY <1>1, <1>2 DEF MessageInv, Refusal
<1>6. ReplyGrows'
  BY <1>3, CellFacts DEF ReplyGrows
<1>7. pc # "read"
  BY <1>1 DEF MessageInv
<1> QED
  BY <1>1, <1>2, <1>3, <1>4, <1>5, <1>6, <1>7, QuietStep DEF Succeeds

\* The other steps that leave the stream and the reply alone.
LEMMA CommandStep ==
  ASSUME ChatInv,
         ResolveMessage \/ SendMessage \/ SendMessageUnsent \/ Refuse \/ SendMessageDone
           \/ SendMessageFails \/ StreamChatFails
  PROVE  ChatInv'
<1> USE DEF ChatInv
<1>1. UNCHANGED <<stream, waitAll, echoes, seen, executed, life, recorded>>
  BY DEF ResolveMessage, SendMessage, SendMessageUnsent, Refuse, SendMessageDone,
     SendMessageFails, StreamChatFails, service, message, command
<1>2. UNCHANGED <<sent, arriving, taken, cut, done>>
  BY <1>1 DEF stream
<1>3. /\ pc' \in {"message", "send", "sending", "open", "read", "close", "exited"}
      /\ request' \in {"none", "sent", "recorded"} \union Refusal
      /\ request' = request \/ (request \in {"none", "sent"} /\ request' # "recorded")
      /\ pc' = "read" => pc = "read"
  BY DEF ResolveMessage, SendMessage, SendMessageUnsent, Refuse, SendMessageDone,
     SendMessageFails, Types, MessageInv, StreamChatFails, Goto, Fail, message, command, Refusal
<1>4. Types'
  BY <1>1, <1>2, <1>3 DEF Types
<1>5. MessageInv' /\ (Succeeds' => Succeeds)
  <2>1. CASE ResolveMessage
    BY <2>1 DEF ResolveMessage, Goto, Fail, message, MessageInv, Succeeds, NoError, LocalError
  <2>2. CASE SendMessage
    BY <2>2 DEF SendMessage, Goto, Fail, MessageInv, Succeeds, NoError, StreamError, Refusal
  <2>3. CASE Refuse
    BY <2>3 DEF Refuse, command, MessageInv, Succeeds, Refusal
  <2>4. CASE SendMessageDone
    BY <2>4 DEF SendMessageDone, Goto, message, MessageInv, Succeeds
  <2>5. CASE SendMessageFails
    BY <2>5 DEF SendMessageFails, Fail, message, MessageInv, Succeeds, NoError, Refusal
  <2>6. CASE StreamChatFails
    BY <2>6 DEF StreamChatFails, Fail, message, MessageInv, Succeeds, NoError
  <2>7. CASE SendMessageUnsent
    BY <2>7 DEF SendMessageUnsent, Fail, message, MessageInv, Succeeds, NoError, LocalError
  <2> QED
    BY <2>1, <2>2, <2>3, <2>4, <2>5, <2>6, <2>7
<1>6. ReplyGrows'
  BY <1>1 DEF ReplyGrows
<1> QED
  BY <1>1, <1>3, <1>4, <1>5, <1>6, QuietStep

\* The command has taken nothing new and goes on as it was, while the network
\* or the user does something.
LEMMA NetworkStep == ASSUME ChatInv, BreakConnection \/ Interrupt PROVE ChatInv'
<1> USE DEF ChatInv
<1>1. /\ sent' = sent /\ taken' = taken /\ done' = done /\ UNCHANGED <<service, message, command>>
      /\ arriving' \in taken .. arriving /\ cut' \in BOOLEAN
      /\ cut' = FALSE => cut = FALSE /\ arriving' = arriving
  <2>1. CASE BreakConnection
    BY <2>1 DEF BreakConnection, HangUp, Types
  <2>2. CASE Interrupt
    <3>1. /\ sent' = sent /\ taken' = taken /\ done' = done /\ arriving' = arriving /\ cut' = cut
          /\ UNCHANGED <<service, message, command>>
      BY <2>2 DEF Interrupt, Cancel, network
    <3>2. arriving \in taken .. arriving /\ cut \in BOOLEAN
      BY DEF Types
    <3> QED
      BY <3>1, <3>2
  <2> QED
    BY <2>1, <2>2
<1>2. /\ pc' = pc /\ error' = error /\ waitAll' = waitAll /\ echoes' = echoes /\ life' = life
      /\ seen' = seen /\ executed' = executed /\ request' = request /\ recorded' = recorded
  BY <1>1 DEF service, message, command
<1>3. Len(sent) \in Nat /\ arriving' \in 0 .. Len(sent') /\ taken' \in 0 .. arriving'
  BY <1>1 DEF Types
<1>4. Types'
  BY <1>1, <1>2, <1>3 DEF Types
<1>5. MessageInv' /\ ReplyGrows'
  BY <1>2 DEF MessageInv, ReplyGrows
<1>6. Extends
  BY <1>1, <1>3 DEF Extends
<1>7. RenderedIsTaken' /\ SuccessHasAReason'
  BY <1>1, <1>2, <1>6, TakenKeeps DEF Succeeds
<1>8. StreamIsTrue'
  BY <1>1, <1>2, StreamKeeps
<1> QED
  BY <1>4, <1>5, <1>7, <1>8

\* The frame in front is consumed: nothing was sent and nothing happened on
\* the service.
LEMMA ReadKeeps ==
  ASSUME ChatInv, pc = "read", sent' = sent, arriving' = arriving, cut' = cut,
         UNCHANGED <<service, message, waitAll>>
  PROVE  /\ StreamIsTrue' /\ ReplyGrows'
         /\ life' = life /\ echoes' = echoes /\ request' = request /\ recorded' = recorded
         /\ waitAll' = waitAll /\ request = "recorded" /\ error = NoError
<1> USE DEF ChatInv
<1>1. life' = life /\ echoes' = echoes /\ request' = request /\ recorded' = recorded
  BY DEF service, message
<1>2. request = "recorded" /\ error = NoError
  BY DEF MessageInv
<1>3. StreamIsTrue'
  BY <1>1, StreamKeeps
<1>4. ReplyGrows'
  BY <1>1 DEF ReplyGrows
<1> QED
  BY <1>1, <1>2, <1>3, <1>4

LEMMA FrontFacts ==
  ASSUME Types, Waiting
  PROVE  /\ taken + 1 \in 1 .. Len(sent) /\ taken + 1 \in 0 .. arriving /\ taken \in Nat
         /\ Front \in ChatFrame /\ Front = sent[taken + 1]
         /\ 1 .. taken + 1 = (1 .. taken) \union {taken + 1}
BY DEF Types, Waiting, Front

LEMMA ReadFrameStep == ASSUME ChatInv, ReadFrame PROVE ChatInv'
<1> USE DEF ChatInv
<1> DEFINE shown == seen \union ({Front.cell} \ {NoCell})
           ran   == executed \union (IF Front.life = "EXECUTED" THEN {Front.cell} ELSE {})
<1>1. /\ pc = "read" /\ Waiting /\ Front.kind = "data" /\ taken' = taken + 1
      /\ sent' = sent /\ arriving' = arriving /\ cut' = cut /\ done' = done
      /\ UNCHANGED <<service, message, waitAll>>
  BY DEF ReadFrame, NextData, network
<1>2. /\ seen' = shown /\ executed' = ran
  BY DEF ReadFrame
<1>3. \/ Satisfied(seen', executed') /\ pc' = "close" /\ error' = error
      \/ pc' = pc /\ error' = error
  BY DEF ReadFrame, Goto
<1>4. /\ StreamIsTrue' /\ ReplyGrows'
      /\ life' = life /\ echoes' = echoes /\ request' = request /\ recorded' = recorded
      /\ waitAll' = waitAll /\ request = "recorded" /\ error = NoError
  BY <1>1, ReadKeeps
<1>5. /\ taken + 1 \in 1 .. Len(sent) /\ taken + 1 \in 0 .. arriving /\ taken \in Nat
      /\ Front \in ChatFrame /\ Front = sent[taken + 1]
      /\ 1 .. taken + 1 = (1 .. taken) \union {taken + 1}
  BY <1>1, FrontFacts
<1>6. \/ Front = Metadata /\ Front.cell = NoCell /\ Front.life = "absent"
      \/ /\ Front.cell \in Cell /\ Front.life \in Life /\ Front # Metadata
         /\ Front = CellFrame(Front.cell, Front.life)
  BY <1>1, <1>5, FrameCases
<1>7. Front # Metadata => Front.cell \in shown
  BY <1>6, CellFacts
<1>8. ran \subseteq shown
  BY <1>6, CellFacts DEF Types
<1>9. Types'
  BY <1>1, <1>2, <1>3, <1>4, <1>5, <1>8 DEF Types
<1>10. MessageInv'
  BY <1>1, <1>3, <1>4 DEF MessageInv
<1>11. RenderedIsTaken'
  <2>1. ASSUME NEW i \in 1 .. taken', sent'[i].kind = "data", sent'[i] # Metadata
        PROVE  sent'[i].cell \in seen'
    <3>1. CASE i = taken + 1
      BY <1>1, <1>2, <1>5, <1>7, <2>1, <3>1
    <3>2. CASE i \in 1 .. taken
      BY <1>1, <1>2, <2>1, <3>2 DEF RenderedIsTaken
    <3> QED
      BY <1>1, <1>5, <3>1, <3>2
  <2>2. ASSUME NEW c \in executed' PROVE \E i \in 1 .. taken' : sent'[i] = CellFrame(c, "EXECUTED")
    <3>1. CASE c \in executed
      <4>1. PICK i \in 1 .. taken : sent[i] = CellFrame(c, "EXECUTED")
        BY <3>1 DEF RenderedIsTaken
      <4> QED
        BY <1>1, <1>5, <4>1
    <3>2. CASE Front.life = "EXECUTED" /\ c = Front.cell
      BY <1>1, <1>5, <1>6, <3>2
    <3> QED
      BY <1>2, <2>2, <3>1, <3>2
  <2> QED
    BY <2>1, <2>2 DEF RenderedIsTaken
<1>12. SuccessHasAReason'
  <2>1. Succeeds' => Satisfied(seen', executed')
    BY <1>1, <1>3 DEF Succeeds
  <2> QED
    BY <1>4, <2>1 DEF SuccessHasAReason, Satisfied
<1> QED
  BY <1>4, <1>9, <1>10, <1>11, <1>12

\* The verdict of the stream: nothing is rendered any more.
LEMMA VerdictKeeps ==
  ASSUME ChatInv, pc = "read", pc' = "close", sent' = sent, arriving' = arriving, cut' = cut,
         done' \in BOOLEAN,
         UNCHANGED <<service, message, waitAll, seen, executed>>,
         \/ taken' = taken
         \/ Waiting /\ taken' = taken + 1 /\ Front.kind # "data",
         error' \in {NoError} \union StreamError
  PROVE  Types' /\ MessageInv' /\ ReplyGrows' /\ StreamIsTrue' /\ RenderedIsTaken'
<1> USE DEF ChatInv
<1>1. /\ StreamIsTrue' /\ ReplyGrows'
      /\ life' = life /\ echoes' = echoes /\ request' = request /\ recorded' = recorded
      /\ waitAll' = waitAll /\ request = "recorded" /\ error = NoError
  BY ReadKeeps
<1>2. taken' \in 0 .. arriving'
  BY FrontFacts DEF Types
<1>3. Types'
  BY <1>1, <1>2 DEF Types
<1>4. MessageInv'
  BY <1>1 DEF MessageInv
<1>5. RenderedIsTaken'
  <2>1. CASE taken' = taken
    BY <2>1 DEF RenderedIsTaken
  <2>2. CASE Waiting /\ taken' = taken + 1 /\ Front.kind # "data"
    <3>1. /\ 1 .. taken' = (1 .. taken) \union {taken + 1}
          /\ sent'[taken + 1].kind # "data"
      BY <2>2, FrontFacts
    <3> QED
      BY <3>1 DEF RenderedIsTaken
  <2> QED
    BY <2>1, <2>2
<1> QED
  BY <1>1, <1>3, <1>4, <1>5

LEMMA ReadEndStep == ASSUME ChatInv, ReadEnd PROVE ChatInv'
<1>1. /\ pc = "read" /\ pc' = "close" /\ error' = error /\ sent' = sent /\ arriving' = arriving
      /\ cut' = cut /\ done' = TRUE /\ UNCHANGED <<service, message, waitAll, seen, executed>>
      /\ Waiting /\ taken' = taken + 1 /\ Front.kind = "trailer"
  BY DEF ReadEnd, NextEnd, Goto, network
<1>2. error' \in {NoError} \union StreamError
  BY <1>1 DEF ChatInv, MessageInv
<1>3. Types' /\ MessageInv' /\ ReplyGrows' /\ StreamIsTrue' /\ RenderedIsTaken'
  BY <1>1, <1>2, VerdictKeeps
<1>4. SuccessHasAReason'
  <2>1. taken' > 0 /\ sent'[taken'].kind = "trailer"
    BY <1>1, FrontFacts DEF ChatInv
  <2> QED
    BY <1>1, <2>1 DEF SuccessHasAReason
<1> QED
  BY <1>3, <1>4 DEF ChatInv

LEMMA ReadErrorStep == ASSUME ChatInv, ReadError PROVE ChatInv'
<1>1. /\ pc = "read" /\ pc' = "close" /\ sent' = sent /\ arriving' = arriving /\ cut' = cut
      /\ done' \in BOOLEAN /\ UNCHANGED <<service, message, waitAll, seen, executed>>
      /\ \/ taken' = taken
         \/ Waiting /\ taken' = taken + 1 /\ Front.kind # "data"
      /\ error' \in StreamError
  <2>1. /\ pc = "read" /\ done \in BOOLEAN
        /\ UNCHANGED <<service, message, waitAll, seen, executed>>
    BY DEF ReadError, ChatInv, Types
  <2>2. CASE NextRefused /\ \E why \in {"auth", "rpc"} : Fail("close", "stream", why)
    BY <2>1, <2>2 DEF NextRefused, Fail, network, StreamError
  <2>3. CASE NextUndecodable /\ Fail("close", "stream", "plain")
    BY <2>1, <2>3 DEF NextUndecodable, Fail, network, StreamError
  <2>4. CASE NextBroken /\ Fail("close", "stream", "plain")
    BY <2>1, <2>4 DEF NextBroken, Fail, network, StreamError
  <2> QED
    BY <2>1, <2>2, <2>3, <2>4 DEF ReadError
<1>2. Types' /\ MessageInv' /\ ReplyGrows' /\ StreamIsTrue' /\ RenderedIsTaken'
  BY <1>1, VerdictKeeps
<1>3. SuccessHasAReason'
  BY <1>1 DEF SuccessHasAReason, Succeeds, StreamError, NoError
<1> QED
  BY <1>2, <1>3 DEF ChatInv

LEMMA CloseSessionStep == ASSUME ChatInv, CloseSession PROVE ChatInv'
<1> USE DEF ChatInv
<1>1. /\ pc = "close" /\ pc' = "exited" /\ error' = error /\ waitAll' = waitAll /\ echoes' = echoes
      /\ life' = life /\ seen' = seen /\ executed' = executed
      /\ request' = request /\ recorded' = recorded
      /\ sent' = sent /\ arriving' = arriving /\ taken' = taken /\ cut' = cut /\ done' = done
  BY DEF CloseSession, Close, Goto, network, service, message
<1>2. Types' /\ MessageInv' /\ ReplyGrows'
  BY <1>1 DEF Types, MessageInv, ReplyGrows
<1>3. Extends
  BY <1>1 DEF Types, Extends
<1>4. RenderedIsTaken' /\ SuccessHasAReason'
  BY <1>1, <1>3, TakenKeeps DEF Succeeds
<1>5. StreamIsTrue'
  BY <1>1, StreamKeeps
<1> QED
  BY <1>2, <1>4, <1>5

LEMMA ChatInvStep == ASSUME ChatInv, [Next]_vars PROVE ChatInv'
<1>1. CASE \E c \in Reply, to \in Life : Progress(c, to)
  BY <1>1, ProgressStep
<1>2. CASE \E kind \in {"bad", "trailer", "failure"} : EndStream(kind)
  BY <1>2, EndStreamStep
<1>3. CASE BreakConnection \/ Interrupt
  BY <1>3, NetworkStep
<1>4. CASE Record
  BY <1>4, RecordStep
<1>5. CASE \/ ResolveMessage \/ SendMessage \/ SendMessageUnsent \/ Refuse \/ SendMessageDone
           \/ SendMessageFails \/ StreamChatFails
  BY <1>5, CommandStep
<1>6. CASE StreamChat
  BY <1>6, StreamChatStep
<1>7. CASE ReadFrame
  BY <1>7, ReadFrameStep
<1>8. CASE ReadEnd \/ ReadError
  BY <1>8, ReadEndStep, ReadErrorStep
<1>9. CASE CloseSession
  BY <1>9, CloseSessionStep
<1>10. CASE UNCHANGED vars
  <2>1. /\ UNCHANGED <<stream, waitAll, echoes, seen, executed>>
        /\ life' = life /\ pc' = pc /\ error' = error /\ request' = request /\ recorded' = recorded
        /\ sent' = sent /\ arriving' = arriving /\ taken' = taken /\ cut' = cut /\ done' = done
    BY <1>10 DEF vars, stream, service, message, command
  <2>2. Types' /\ MessageInv' /\ ReplyGrows'
    BY <2>1 DEF ChatInv, Types, MessageInv, ReplyGrows
  <2> QED
    BY <2>1, <2>2, QuietStep DEF Succeeds
<1> QED
  BY <1>1, <1>2, <1>3, <1>4, <1>5, <1>6, <1>7, <1>8, <1>9, <1>10 DEF Next

-----------------------------------------------------------------------------
(* Theorems.                                                               *)

\* Wherever the command is, what it has shown is what the stream has brought,
\* the stream tells the truth about the service, and the error agrees with
\* what became of the message.
THEOREM ChatInvariant == Spec => []ChatInv
<1>1. Init => ChatInv
  BY ChatInvInit
<1>2. ChatInv /\ [Next]_vars => ChatInv'
  BY ChatInvStep
<1> QED
  BY <1>1, <1>2, PTL DEF Spec

\* `chat send` that succeeds without --wait-all, against the service as
\* captured, has rendered the whole reply to its last update.
THEOREM ASuccessShowsTheReply == Spec => []SuccessShowsWholeReply
<1>1. ASSUME ChatInv PROVE SuccessShowsWholeReply
  <2> USE <1>1 DEF ChatInv
  <2> SUFFICES ASSUME Succeeds, ~waitAll, ~echoes
               PROVE  \A c \in Reply : /\ c \in seen
                                       /\ \E i \in 1 .. taken : sent[i] = CellFrame(c, Final(c))
    BY DEF SuccessShowsWholeReply
  <2>1. 1 .. taken \subseteq 1 .. Len(sent) /\ DOMAIN sent = 1 .. Len(sent) /\ taken \in Nat
    BY DEF Types
  <2>2. Own \notin executed
    <3> SUFFICES ASSUME Own \in executed PROVE FALSE
      OBVIOUS
    <3>1. PICK i \in 1 .. taken : sent[i] = CellFrame(Own, "EXECUTED")
      BY DEF RenderedIsTaken
    <3>2. sent[i].kind = "data" /\ sent[i].cell = Own /\ sent[i] # Metadata
      BY <3>1, CellFrameFields, FrameFacts, CellFacts DEF Life
    <3> QED
      BY <2>1, <3>2 DEF StreamIsTrue
  <2>3. taken > 0 /\ sent[taken].kind = "trailer"
    BY <2>2 DEF SuccessHasAReason, Satisfied
  <2> TAKE c \in Reply
  <2>4. taken \in DOMAIN sent
    BY <2>1, <2>3
  <2>5. PICK i \in 1 .. taken - 1 : Tells(i, c)
    BY <2>3, <2>4 DEF StreamIsTrue
  <2>6. i \in 1 .. taken /\ sent[i] = CellFrame(c, Final(c))
    BY <2>1, <2>5 DEF Tells
  <2>7. sent[i].kind = "data" /\ sent[i].cell = c /\ sent[i] # Metadata
    BY <2>6, CellFrameFields, FrameFacts, CellFacts DEF Life
  <2> QED
    BY <2>6, <2>7 DEF RenderedIsTaken
<1> QED
  BY <1>1, ChatInvariant, PTL

\* A success before the end of the stream is never a guess: what the command
\* waited for has executed on the service.
THEOREM AnEarlyStopIsJustified == Spec => []EarlyStopIsJustified
<1>1. ASSUME ChatInv PROVE EarlyStopIsJustified
  <2> USE <1>1 DEF ChatInv
  <2> SUFFICES ASSUME Succeeds, ~done
               PROVE  IF waitAll THEN seen # {} /\ \A c \in seen : life[c] = "EXECUTED"
                                 ELSE life[Own] = "EXECUTED" /\ Own \in seen
    BY DEF EarlyStopIsJustified
  <2>1. Satisfied(seen, executed)
    BY DEF SuccessHasAReason
  <2>2. ASSUME NEW c \in executed PROVE life[c] = "EXECUTED" /\ c \in seen
    <3>1. PICK i \in 1 .. taken : sent[i] = CellFrame(c, "EXECUTED")
      BY DEF RenderedIsTaken
    <3>2. i \in DOMAIN sent
      BY DEF Types
    <3>3. sent[i].kind = "data" /\ sent[i].cell = c /\ sent[i].life = "EXECUTED" /\ sent[i] # Metadata
      <4>1. Metadata.life = "absent"
        BY DEF Metadata, CellFrame
      <4> QED
        BY <3>1, <4>1, CellFrameFields
    <3> QED
      BY <3>2, <3>3 DEF StreamIsTrue, Types
  <2> QED
    BY <2>1, <2>2 DEF Satisfied, AllExecuted
<1> QED
  BY <1>1, ChatInvariant, PTL

\* What the exit codes 0 and 1 say of the error.
LEMMA CodeFacts ==
  ASSUME error \in {NoError} \union StreamError \union [at : {"StreamChat"}, why : UnaryFailure]
                     \union LocalError
                     \union [at : {"SendMessage"}, why : Refusal \union {"network", "aborted", "plain"}]
  PROVE  /\ Code = 0 <=> error = NoError
         /\ Code = 1 <=> error.why = "usage"
<1> DEFINE err == CASE error = NoError                    -> Nil
                    [] error.why \in {"usage", "plain"}   -> <<error.why>>
                    [] error.why \in UnaryFailure         -> UnaryError(error.why)
<1>1. CASE error = NoError
  <2>1. err = Nil
    BY <1>1 DEF NoError, UnaryFailure
  <2> HIDE DEF err
  <2>2. ExitCode(err) = 0
    BY <2>1 DEF ExitCode
  <2> QED
    BY <1>1, <2>2 DEF Code, NoError, err
<1>2. CASE error.why \in {"usage", "plain"}
  <2>1. err = <<error.why>>
    BY <1>2 DEF NoError, UnaryFailure
  <2> HIDE DEF err
  <2>2. ExitCode(err) # 0 /\ (ExitCode(err) = 1 <=> error.why = "usage")
    BY <1>2, <2>1 DEF ExitCode, Is, IsAuth, Nil
  <2> QED
    BY <1>2, <2>2 DEF Code, NoError, err
<1>3. CASE error.why \in UnaryFailure
  <2>1. err = UnaryError(error.why)
    BY <1>3 DEF NoError, UnaryFailure
  <2>2. UnaryError(error.why) \in {<<"auth">>, <<"rpc">>, <<"plain">>}
    BY <1>3 DEF UnaryFailure, UnaryError
  <2> HIDE DEF err
  <2>3. ExitCode(err) \in {2, 3}
    BY <2>1, <2>2 DEF ExitCode, Is, IsAuth, Nil
  <2> QED
    BY <1>3, <2>3 DEF Code, NoError, UnaryFailure, err
<1> QED
  BY <1>1, <1>2, <1>3 DEF StreamError, LocalError, Refusal, UnaryFailure

\* The command never has the message recorded twice.  That it is recorded the
\* user can tell from an error that names StreamChat or the stream, that it is
\* not from one of SendMessage that is a refusal or a usage error; of the exit
\* codes 0 and 1 tell, 2 and 3 do not.
THEOREM TheMessageIsAccountedFor == Spec => []MessageIsAccountedFor
<1>1. ASSUME ChatInv PROVE MessageIsAccountedFor
  <2> USE <1>1 DEF ChatInv
  <2>1. recorded <= 1 /\ recorded = IF request = "recorded" THEN 1 ELSE 0
    BY DEF Types
  <2>2. Succeeds \/ error.at \in {"StreamChat", "stream"} => recorded = 1
    BY <2>1 DEF MessageInv, Types, Succeeds, NoError, StreamError, LocalError
  <2>3. (error.at = "message" \/ (error.at = "SendMessage" /\ error.why \in Refusal \union {"usage"}))
           => recorded = 0
    BY <2>1 DEF MessageInv, Types, NoError, StreamError, LocalError, Refusal
  <2>4. ASSUME pc = "exited" PROVE (Code = 0 => recorded = 1) /\ (Code = 1 => recorded = 0)
    <3>1. error \in {NoError} \union StreamError \union [at : {"StreamChat"}, why : UnaryFailure]
                      \union LocalError
                      \union [at : {"SendMessage"}, why : Refusal \union {"network", "aborted", "plain"}]
      BY <2>4 DEF MessageInv
    <3>2. (Code = 0 => error = NoError) /\ (Code = 1 => error.why = "usage")
      BY <3>1, CodeFacts
    <3>3. error.why = "usage" => error.at \in {"message", "SendMessage"}
      BY <3>1 DEF NoError, StreamError, LocalError, UnaryFailure, Refusal
    <3> QED
      BY <2>2, <2>3, <2>4, <3>2, <3>3, Zenon DEF Succeeds
  <2> HIDE DEF ChatInv
  <2> QED
    BY <2>1, <2>2, <2>3, <2>4 DEF MessageIsAccountedFor
<1> QED
  BY <1>1, ChatInvariant, PTL

-----------------------------------------------------------------------------
(* The stream that ChatSend reads is a FrameReader.  That StreamReader is   *)
(* one is proved here for any frames; body and call are what it adds to the *)
(* variables of FrameReader.                                                *)

CONSTANT MaxSent
VARIABLES body, call

Reader == INSTANCE StreamReader

Piece == [part : {"header", "payload"}, frame : Frame, last : BOOLEAN]

\* The pieces of the body that end a frame.
Ends(s) == {i \in DOMAIN s : s[i].last}

\* The pieces of s are of the frames of fs from the first after the n-th on:
\* at[i] is the number of the frame of the i-th piece, and of the frame to
\* come at the end of s.  The last of fs is whole unless it was broken off.
Numbers(at, s, fs, n, broken) ==
  /\ at \in [1 .. Len(s) + 1 -> Nat]
  /\ at[1] = n + 1
  /\ \A i \in 1 .. Len(s) :
       /\ at[i + 1] = at[i] + (IF s[i].last THEN 1 ELSE 0)
       /\ at[i] \in 1 .. Len(fs) /\ s[i].frame = fs[at[i]]
  /\ ~broken => at[Len(s) + 1] = Len(fs) + 1

Numbered(s, fs, n, broken) == \E at : Numbers(at, s, fs, n, broken)

\* A header is followed by its payload, unless the connection was cut there.
Paired ==
  /\ \A i \in 1 .. Len(body) : ~body[i].last =>
       IF i = Len(body) THEN cut ELSE body[i + 1].last
  /\ call = "payload" => IF body = << >> THEN cut ELSE body[1].last

\* Next waits only while it may still return something.
Verdict ==
  /\ call \in {"out", "header", "payload"} /\ done \in BOOLEAN /\ cut \in BOOLEAN
  /\ call # "out" => ~done
  /\ result = "end" => done
  /\ ~done => \A i \in 1 .. taken : sent[i].kind \in {"data", "bad"}

ReaderInv ==
  /\ body \in Seq(Piece) /\ sent \in Seq(Frame) /\ taken \in 0 .. Len(sent)
  /\ Numbered(body, sent, taken, cut)
  /\ Paired /\ Verdict

-----------------------------------------------------------------------------
(* How many frames end in a body.                                           *)

LEMMA EndsFinite ==
  ASSUME NEW s \in Seq(Piece)
  PROVE  /\ IsFiniteSet(Ends(s)) /\ Cardinality(Ends(s)) \in Nat
         /\ Ends(s) \subseteq 1 .. Len(s)
<1>1. Ends(s) \subseteq 1 .. Len(s) /\ Len(s) \in Nat
  BY DEF Ends
<1>2. IsFiniteSet(1 .. Len(s))
  BY <1>1, FS_Interval
<1>3. IsFiniteSet(Ends(s))
  BY <1>1, <1>2, FS_Subset
<1> QED
  BY <1>1, <1>3, FS_CardinalityType

LEMMA EndsOfPrefix ==
  ASSUME NEW s \in Seq(Piece), NEW n \in 0 .. Len(s)
  PROVE  /\ SubSeq(s, 1, n) \in Seq(Piece) /\ Len(SubSeq(s, 1, n)) = n
         /\ \A i \in 1 .. n : SubSeq(s, 1, n)[i] = s[i]
         /\ Cardinality(Ends(SubSeq(s, 1, n))) \in 0 .. Cardinality(Ends(s))
<1> DEFINE u == SubSeq(s, 1, n)
<1>1. u \in Seq(Piece) /\ Len(u) = n /\ \A i \in 1 .. n : u[i] = s[i]
  OBVIOUS
<1>2. DOMAIN u = 1 .. n /\ 1 .. n \subseteq DOMAIN s
  BY <1>1
<1> HIDE DEF u
<1>3. Ends(u) \subseteq Ends(s)
  BY <1>1, <1>2 DEF Ends
<1>4. /\ Cardinality(Ends(u)) <= Cardinality(Ends(s))
      /\ Cardinality(Ends(u)) \in Nat /\ Cardinality(Ends(s)) \in Nat
  BY <1>1, <1>3, EndsFinite, FS_Subset
<1> QED
  BY <1>1, <1>4 DEF u

LEMMA EndsOfTail ==
  ASSUME NEW s \in Seq(Piece), s # << >>
  PROVE  /\ Head(s) = s[1] /\ Tail(s) \in Seq(Piece) /\ Len(Tail(s)) = Len(s) - 1
         /\ \A i \in 1 .. Len(Tail(s)) : Tail(s)[i] = s[i + 1]
         /\ Cardinality(Ends(s)) = Cardinality(Ends(Tail(s))) + (IF s[1].last THEN 1 ELSE 0)
<1> DEFINE t == Tail(s)
           f == [i \in Ends(t) |-> i + 1]
<1>1. /\ Head(s) = s[1] /\ t \in Seq(Piece) /\ Len(t) = Len(s) - 1 /\ Len(s) \in Nat \ {0}
      /\ DOMAIN s = 1 .. Len(s) /\ DOMAIN t = 1 .. Len(t)
      /\ \A i \in 1 .. Len(t) : t[i] = s[i + 1]
  OBVIOUS
<1> HIDE DEF t
<1>2. \A i \in Ends(t) : i \in Nat /\ i + 1 \in Ends(s) \ {1}
  BY <1>1 DEF Ends
<1>3. ASSUME NEW j \in Ends(s) \ {1} PROVE j - 1 \in Ends(t) /\ (j - 1) + 1 = j
  <2>1. j \in 1 .. Len(s) /\ j # 1 /\ s[j].last
    BY <1>1 DEF Ends
  <2>2. j - 1 \in 1 .. Len(t) /\ (j - 1) + 1 = j
    BY <1>1, <2>1
  <2> QED
    BY <1>1, <2>1, <2>2 DEF Ends
<1>4. f \in Bijection(Ends(t), Ends(s) \ {1})
  <2>1. f \in [Ends(t) -> Ends(s) \ {1}]
    BY <1>2
  <2>2. \A a, b \in Ends(t) : f[a] = f[b] => a = b
    BY <1>2
  <2>3. \A j \in Ends(s) \ {1} : \E i \in Ends(t) : f[i] = j
    BY <1>3
  <2> QED
    BY <2>1, <2>2, <2>3, Fun_IsBij
<1>5. Cardinality(Ends(s) \ {1}) = Cardinality(Ends(t))
  <2>1. ExistsBijection(Ends(t), Ends(s) \ {1})
    BY <1>4 DEF ExistsBijection
  <2> QED
    BY <2>1, <1>1, EndsFinite, FS_Bijection
<1>6. 1 \in Ends(s) <=> s[1].last
  BY <1>1 DEF Ends
<1>7. Cardinality(Ends(s) \ {1}) = IF s[1].last THEN Cardinality(Ends(s)) - 1 ELSE Cardinality(Ends(s))
  BY <1>6, EndsFinite, FS_RemoveElement
<1>8. Cardinality(Ends(s)) \in Nat /\ Cardinality(Ends(t)) \in Nat
  BY <1>1, EndsFinite
<1> QED
  BY <1>1, <1>5, <1>7, <1>8 DEF t

\* The pieces a frame crosses the network in: the last of them, and only
\* that, ends it.
LEMMA PiecesFacts ==
  ASSUME NEW f \in Frame
  PROVE  /\ Reader!Pieces(f) \in Seq(Piece)
         /\ Len(Reader!Pieces(f)) \in {1, 2}
         /\ \A i \in 1 .. Len(Reader!Pieces(f)) :
              /\ Reader!Pieces(f)[i].frame = f
              /\ Reader!Pieces(f)[i].last <=> i = Len(Reader!Pieces(f))
<1> DEFINE h == Reader!Piece("header", f)
           p == Reader!Piece("payload", f)
<1>1. p \in Piece /\ p.frame = f /\ p.last
  BY DEF Reader!Piece, Piece
<1>2. h \in Piece /\ h.frame = f /\ (h.last <=> Reader!Bare(f))
  BY DEF Reader!Piece, Piece
<1> HIDE DEF h, p
<1>3. CASE Reader!Bare(f)
  <2>1. Reader!Pieces(f) = <<h>>
    BY <1>3 DEF Reader!Pieces, h
  <2> QED BY <2>1, <1>2, <1>3
<1>4. CASE ~Reader!Bare(f)
  <2>1. Reader!Pieces(f) = <<h, p>>
    BY <1>4 DEF Reader!Pieces, h, p
  <2> QED BY <2>1, <1>1, <1>2, <1>4
<1> QED BY <1>3, <1>4

\* A frame is one more to come.
LEMMA EndsOfOneMore ==
  ASSUME NEW s \in Seq(Piece), NEW r \in Seq(Piece), Len(r) \in {1, 2},
         \A i \in 1 .. Len(r) : r[i].last <=> i = Len(r)
  PROVE  /\ s \o r \in Seq(Piece) /\ Len(s \o r) = Len(s) + Len(r)
         /\ \A i \in 1 .. Len(s) : (s \o r)[i] = s[i]
         /\ \A i \in 1 .. Len(r) : (s \o r)[Len(s) + i] = r[i]
         /\ Cardinality(Ends(s \o r)) = Cardinality(Ends(s)) + 1
<1> DEFINE c == s \o r
           n == Len(s) + Len(r)
<1>1. /\ c \in Seq(Piece) /\ Len(c) = n /\ DOMAIN c = 1 .. n
      /\ DOMAIN s = 1 .. Len(s) /\ Len(s) \in Nat
      /\ \A i \in 1 .. Len(s) : c[i] = s[i]
      /\ \A i \in 1 .. Len(r) : c[Len(s) + i] = r[i]
  OBVIOUS
<1> HIDE DEF c
<1>2. ASSUME NEW i \in 1 .. n PROVE c[i].last <=> (i \in Ends(s) \/ i = n)
  <2>1. CASE i \in 1 .. Len(s)
    <3>1. i # n /\ c[i] = s[i]
      BY <2>1, <1>1
    <3> QED BY <3>1, <2>1, <1>1 DEF Ends
  <2>2. CASE i \notin 1 .. Len(s)
    <3>1. i - Len(s) \in 1 .. Len(r) /\ i = Len(s) + (i - Len(s))
      BY <2>2, <1>1
    <3>2. c[i] = r[i - Len(s)]
      BY <3>1, <1>1
    <3>3. i - Len(s) = Len(r) <=> i = n
      BY <3>1, <1>1
    <3> QED BY <3>1, <3>2, <3>3, <2>2, <1>1 DEF Ends
  <2> QED BY <2>1, <2>2
<1>3. Ends(c) = Ends(s) \cup {n} /\ n \notin Ends(s)
  <2>1. Ends(s) \subseteq 1 .. n /\ n \in 1 .. n /\ n \notin 1 .. Len(s)
    BY <1>1, EndsFinite
  <2> QED BY <2>1, <1>1, <1>2 DEF Ends
<1>4. Cardinality(Ends(c)) = Cardinality(Ends(s)) + 1
  BY <1>3, EndsFinite, FS_AddElement
<1> QED BY <1>1, <1>4 DEF c

-----------------------------------------------------------------------------
(* What becomes of the numbers of the pieces.                               *)

LEMMA NumbersGrow ==
  ASSUME NEW s \in Seq(Piece), NEW fs \in Seq(Frame), NEW n \in Nat, NEW f \in Frame,
         Numbered(s, fs, n, FALSE)
  PROVE  Numbered(s \o Reader!Pieces(f), Append(fs, f), n, FALSE)
<1> DEFINE r == Reader!Pieces(f)
           c == s \o r
           gs == Append(fs, f)
<1>1. /\ c \in Seq(Piece) /\ Len(c) = Len(s) + Len(r) /\ Len(r) \in {1, 2}
      /\ \A i \in 1 .. Len(s) : c[i] = s[i]
      /\ \A i \in 1 .. Len(r) : c[Len(s) + i] = r[i] /\ r[i].frame = f /\ (r[i].last <=> i = Len(r))
  BY PiecesFacts, EndsOfOneMore
<1>2. /\ Len(gs) = Len(fs) + 1 /\ Len(fs) \in Nat /\ gs[Len(fs) + 1] = f
      /\ \A i \in 1 .. Len(fs) : gs[i] = fs[i]
  OBVIOUS
<1> HIDE DEF r, c, gs
<1>3. PICK at : Numbers(at, s, fs, n, FALSE)
  BY DEF Numbered
<1>4. /\ at \in [1 .. Len(s) + 1 -> Nat] /\ at[1] = n + 1 /\ Len(s) \in Nat
      /\ at[Len(s) + 1] = Len(fs) + 1
      /\ \A i \in 1 .. Len(s) :
           /\ at[i + 1] = at[i] + (IF s[i].last THEN 1 ELSE 0)
           /\ at[i] \in 1 .. Len(fs) /\ s[i].frame = fs[at[i]]
  BY <1>3 DEF Numbers
<1> DEFINE b == [i \in 1 .. Len(c) + 1 |->
                   IF i <= Len(s) + 1 THEN at[i]
                   ELSE IF i = Len(c) + 1 THEN Len(fs) + 2 ELSE Len(fs) + 1]
<1>s. /\ Len(s) \in Nat
      /\ \/ Len(r) = 1 /\ Len(c) = Len(s) + 1
         \/ Len(r) = 2 /\ Len(c) = Len(s) + 2
  <2>1. Len(s) \in Nat /\ Len(c) = Len(s) + Len(r) /\ (Len(r) = 1 \/ Len(r) = 2)
    BY <1>1, <1>4
  <2> QED BY ONLY <2>1
<1>0. /\ 1 \in 1 .. Len(r) /\ Len(c) + 1 \in 1 .. Len(c) + 1 /\ Len(c) + 1 > Len(s) + 1
      /\ \A i \in 1 .. Len(s) + 1 : i \in 1 .. Len(c) + 1 /\ i <= Len(s) + 1
      /\ Len(r) = 2 => /\ 2 \in 1 .. Len(r) /\ Len(s) + 2 \in 1 .. Len(c) + 1
                       /\ Len(s) + 2 > Len(s) + 1 /\ Len(s) + 2 # Len(c) + 1
  <2>1. CASE Len(r) = 1 /\ Len(c) = Len(s) + 1
    BY ONLY <2>1, <1>s
  <2>2. CASE Len(r) = 2 /\ Len(c) = Len(s) + 2
    BY ONLY <2>2, <1>s
  <2> QED BY <2>1, <2>2, <1>s
<1>5. /\ b \in [1 .. Len(c) + 1 -> Nat]
      /\ \A i \in 1 .. Len(s) + 1 : b[i] = at[i]
      /\ b[Len(c) + 1] = Len(fs) + 2
      /\ Len(r) = 2 => b[Len(s) + 2] = Len(fs) + 1
  <2>1. b \in [1 .. Len(c) + 1 -> Nat]
    BY <1>2, <1>4
  <2> QED BY <2>1, <1>0, <1>2, <1>4
<1> HIDE DEF b
<1>p. b[Len(s) + 1] = Len(fs) + 1 /\ \A i \in 1 .. Len(s) : b[i] = at[i] /\ b[i + 1] = at[i + 1]
  <2>1. Len(s) + 1 \in 1 .. Len(s) + 1 /\ \A i \in 1 .. Len(s) : i \in 1 .. Len(s) + 1 /\ i + 1 \in 1 .. Len(s) + 1
    BY ONLY <1>s
  <2> QED BY ONLY <2>1, <1>4, <1>5
<1>6. ASSUME NEW i \in 1 .. Len(c)
      PROVE  /\ b[i + 1] = b[i] + (IF c[i].last THEN 1 ELSE 0)
             /\ b[i] \in 1 .. Len(gs) /\ c[i].frame = gs[b[i]]
  <2>1. CASE i \in 1 .. Len(s)
    <3>1. b[i] = at[i] /\ b[i + 1] = at[i + 1] /\ c[i] = s[i]
      BY ONLY <2>1, <1>1, <1>p
    <3>2. at[i] \in 1 .. Len(gs) /\ gs[at[i]] = fs[at[i]]
      BY <2>1, <1>2, <1>4
    <3> QED BY <3>1, <3>2, <2>1, <1>4
  <2>2. CASE i = Len(s) + 1
    <3>0. c[i] = r[1] /\ r[1].frame = f /\ (r[1].last <=> Len(r) = 1)
      BY <2>2, <1>0, <1>1
    <3>1. c[i] = r[1] /\ b[i] = Len(fs) + 1 /\ r[1].frame = f /\ (r[1].last <=> Len(r) = 1)
      BY ONLY <3>0, <2>2, <1>p
    <3>2. b[i + 1] = b[i] + (IF c[i].last THEN 1 ELSE 0)
      <4>1. Len(fs) \in Nat /\ i + 1 = Len(s) + 2
        BY <2>2, <1>2, <1>s
      <4>2. CASE Len(r) = 1
        <5>1. b[i + 1] = Len(fs) + 2
          BY ONLY <4>1, <4>2, <1>s, <1>5
        <5> QED BY ONLY <5>1, <4>1, <4>2, <3>1
      <4>3. CASE Len(r) = 2
        <5>1. b[i + 1] = Len(fs) + 1
          BY ONLY <4>1, <4>3, <1>s, <1>5
        <5> QED BY ONLY <5>1, <4>1, <4>3, <3>1
      <4> QED BY <4>2, <4>3, <1>s
    <3> QED BY <3>1, <3>2, <1>2
  <2>3. CASE i = Len(s) + 2 /\ Len(r) = 2
    <3>1. c[i] = r[2] /\ b[i] = Len(fs) + 1 /\ r[2].frame = f /\ r[2].last
      BY <2>3, <1>1, <1>4, <1>5
    <3>2. b[i + 1] = Len(fs) + 2
      BY <2>3, <1>1, <1>4, <1>5
    <3> QED BY <3>1, <3>2, <1>2
  <2>4. i \in 1 .. Len(s) \/ i = Len(s) + 1 \/ (i = Len(s) + 2 /\ Len(r) = 2)
    BY ONLY <1>s, i \in 1 .. Len(c)
  <2> QED BY <2>1, <2>2, <2>3, <2>4
<1>7. b[1] = n + 1 /\ b[Len(c) + 1] = Len(gs) + 1
  BY <1>2, <1>4, <1>5
<1>8. Numbers(b, c, gs, n, FALSE)
  BY <1>5, <1>6, <1>7 DEF Numbers
<1> QED BY <1>8 DEF Numbered, c, r, gs

LEMMA NumbersCut ==
  ASSUME NEW s \in Seq(Piece), NEW fs, NEW n, NEW broken, Numbered(s, fs, n, broken),
         NEW m \in 0 .. Len(s)
  PROVE  Numbered(SubSeq(s, 1, m), fs, n, TRUE)
<1> DEFINE u == SubSeq(s, 1, m)
<1>1. u \in Seq(Piece) /\ Len(u) = m /\ \A i \in 1 .. m : u[i] = s[i]
  BY EndsOfPrefix
<1> HIDE DEF u
<1>2. PICK at : Numbers(at, s, fs, n, broken)
  BY DEF Numbered
<1> DEFINE b == [i \in 1 .. m + 1 |-> at[i]]
<1>3. 1 .. m + 1 \subseteq 1 .. Len(s) + 1 /\ 1 \in 1 .. m + 1
      /\ \A i \in 1 .. m : i \in 1 .. Len(s) /\ i \in 1 .. m + 1 /\ i + 1 \in 1 .. m + 1
  OBVIOUS
<1>4. b \in [1 .. m + 1 -> Nat] /\ \A i \in 1 .. m + 1 : b[i] = at[i]
  BY <1>2, <1>3 DEF Numbers
<1> HIDE DEF b
<1>5. Numbers(b, u, fs, n, TRUE)
  BY <1>1, <1>2, <1>3, <1>4 DEF Numbers
<1> QED BY <1>5 DEF Numbered, u

LEMMA NumbersPass ==
  ASSUME NEW s \in Seq(Piece), s # << >>, NEW fs, NEW n \in Nat, NEW broken, Numbered(s, fs, n, broken)
  PROVE  /\ n + 1 \in 1 .. Len(fs) /\ s[1].frame = fs[n + 1]
         /\ Numbered(Tail(s), fs, n + (IF s[1].last THEN 1 ELSE 0), broken)
<1> DEFINE t == Tail(s)
           k == IF s[1].last THEN 1 ELSE 0
<1>1. /\ t \in Seq(Piece) /\ Len(t) = Len(s) - 1 /\ Len(s) \in Nat \ {0}
      /\ \A i \in 1 .. Len(t) : t[i] = s[i + 1]
  BY EndsOfTail
<1> HIDE DEF t
<1>2. PICK at : Numbers(at, s, fs, n, broken)
  BY DEF Numbered
<1>3. at \in [1 .. Len(s) + 1 -> Nat] /\ at[1] = n + 1 /\ at[2] = at[1] + k
      /\ at[1] \in 1 .. Len(fs) /\ s[1].frame = fs[at[1]]
  BY <1>1, <1>2 DEF Numbers
<1> DEFINE b == [i \in 1 .. Len(t) + 1 |-> at[i + 1]]
<1>4. b \in [1 .. Len(t) + 1 -> Nat] /\ b[1] = (n + k) + 1 /\ b[Len(t) + 1] = at[Len(s) + 1]
      /\ \A i \in 1 .. Len(t) : b[i] = at[i + 1] /\ b[i + 1] = at[(i + 1) + 1]
  BY <1>1, <1>3
<1> HIDE DEF b, k
<1>5. \A i \in 1 .. Len(t) : i + 1 \in 1 .. Len(s)
  BY <1>1
<1>6. Numbers(b, t, fs, n + k, broken)
  <2>1. ASSUME NEW i \in 1 .. Len(t)
        PROVE  /\ b[i + 1] = b[i] + (IF t[i].last THEN 1 ELSE 0)
               /\ b[i] \in 1 .. Len(fs) /\ t[i].frame = fs[b[i]]
    <3>1. t[i] = s[i + 1] /\ b[i] = at[i + 1] /\ b[i + 1] = at[(i + 1) + 1] /\ i + 1 \in 1 .. Len(s)
      BY <1>1, <1>4, <1>5
    <3> QED BY ONLY <3>1, <1>2 DEF Numbers
  <2>2. ~broken => b[Len(t) + 1] = Len(fs) + 1
    BY ONLY <1>2, <1>4 DEF Numbers
  <2> QED BY ONLY <1>4, <2>1, <2>2 DEF Numbers
<1> QED BY <1>3, <1>6 DEF Numbered, t, k

-----------------------------------------------------------------------------
(* Each step of the reader keeps ReaderInv and is a step of FrameReader, or *)
(* of nothing that its caller can see.                                      *)

Arriving == taken + Reader!InFlight

LEMMA SameCardinality == \A S : Reader!Cardinality(S) = Cardinality(S)
BY DEF Reader!Cardinality, Cardinality

LEMMA ArrivingFacts ==
  ASSUME ReaderInv
  PROVE  /\ Reader!InFlight = Cardinality(Ends(body)) /\ Reader!InFlight \in Nat
         /\ taken \in Nat /\ Len(sent) \in Nat /\ Arriving \in Nat
         /\ Arriving - taken = Reader!InFlight
<1>1. Reader!InFlight = Cardinality(Ends(body))
  BY SameCardinality DEF Reader!InFlight, Ends
<1>2. body \in Seq(Piece) /\ sent \in Seq(Frame) /\ taken \in Nat
  BY DEF ReaderInv
<1>3. Cardinality(Ends(body)) \in Nat
  BY <1>2, EndsFinite
<1> QED BY <1>1, <1>2, <1>3 DEF Arriving

LEMMA ReaderStarts == Reader!Init => ReaderInv /\ Reader!Frames!Open
<1> SUFFICES ASSUME Reader!Init PROVE ReaderInv /\ Reader!Frames!Open
  OBVIOUS
<1>1. /\ body = << >> /\ sent = << >> /\ taken = 0 /\ call = "out" /\ result = "none"
      /\ cut = FALSE /\ done = FALSE /\ cancelled = FALSE /\ closed = FALSE
  BY DEF Reader!Init
<1>2. Ends(body) = {} /\ Cardinality({}) = 0
  BY <1>1, FS_EmptySet DEF Ends
<1>3. taken + Reader!InFlight = 0
  BY <1>1, <1>2, SameCardinality DEF Reader!InFlight, Ends
<1>4. Numbered(body, sent, taken, cut)
  <2> DEFINE at == [i \in 1 .. Len(body) + 1 |-> 1]
  <2>1. Numbers(at, body, sent, taken, cut)
    BY <1>1 DEF Numbers
  <2> QED BY <2>1 DEF Numbered
<1>5. Paired /\ Verdict
  <2>1. Paired
    BY <1>1 DEF Paired
  <2>2. \A i \in 1 .. taken : sent[i].kind \in {"data", "bad"}
    BY <1>1
  <2>3. Verdict
    BY <1>1, <2>2 DEF Verdict
  <2> QED BY <2>1, <2>3
<1>6. ReaderInv
  BY <1>1, <1>4, <1>5 DEF ReaderInv
<1> QED BY <1>1, <1>3, <1>6 DEF Reader!Frames!Open

LEMMA ReaderSends ==
  ASSUME ReaderInv, NEW f \in Frame, Reader!ServerSends(f)
  PROVE  ReaderInv' /\ Reader!Frames!Send(<<f>>)
<1> DEFINE r == Reader!Pieces(f)
<1>1. /\ ~cut /\ body' = body \o r /\ sent' = Append(sent, f)
      /\ UNCHANGED <<cut, cancelled, closed, done, call, result, taken>>
  BY DEF Reader!ServerSends
<1>2. /\ body \in Seq(Piece) /\ sent \in Seq(Frame) /\ taken \in 0 .. Len(sent) /\ taken \in Nat
      /\ Paired /\ Verdict /\ Numbered(body, sent, taken, cut) /\ cut = FALSE
  BY <1>1 DEF ReaderInv, Verdict
<1>3. /\ r \in Seq(Piece) /\ Len(r) \in {1, 2}
      /\ \A i \in 1 .. Len(r) : r[i].last <=> i = Len(r)
  BY PiecesFacts
<1> HIDE DEF r
<1>4. /\ body \o r \in Seq(Piece) /\ Len(body \o r) = Len(body) + Len(r)
      /\ \A i \in 1 .. Len(body) : (body \o r)[i] = body[i]
      /\ \A i \in 1 .. Len(r) : (body \o r)[Len(body) + i] = r[i]
      /\ Cardinality(Ends(body \o r)) = Cardinality(Ends(body)) + 1
  BY ONLY <1>2, <1>3, EndsOfOneMore
<1>5. /\ sent' \in Seq(Frame) /\ Len(sent') = Len(sent) + 1 /\ Len(sent) \in Nat
      /\ \A i \in 1 .. Len(sent) : sent'[i] = sent[i]
      /\ sent' = sent \o <<f>> /\ Len(<<f>>) = 1
  BY <1>1, <1>2
<1>6. Numbered(body', sent', taken', cut')
  <2>1. Numbered(body \o r, Append(sent, f), taken, FALSE)
    BY <1>2, NumbersGrow DEF r
  <2> QED BY <2>1, <1>1, <1>2
<1>7. Paired'
  <2>1. \A i \in 1 .. Len(body) : ~body[i].last => i # Len(body) /\ body[i + 1].last /\ i + 1 \in 1 .. Len(body)
    BY <1>1, <1>2 DEF Paired
  <2>2. Len(body) \in Nat /\ Len(body') = Len(body) + Len(r)
    BY <1>1, <1>2, <1>4
  <2>3. ASSUME NEW i \in 1 .. Len(body'), ~body'[i].last PROVE i # Len(body') /\ body'[i + 1].last
    <3>1. CASE i \in 1 .. Len(body)
      <4>1. body'[i] = body[i] /\ i # Len(body) /\ body[i + 1].last /\ i + 1 \in 1 .. Len(body)
        BY <3>1, <2>1, <2>3, <1>1, <1>4
      <4>2. body'[i + 1] = body[i + 1] /\ i # Len(body')
        BY <4>1, <2>2, <1>1, <1>3, <1>4
      <4> QED BY <4>1, <4>2
    <3>2. CASE i \notin 1 .. Len(body)
      <4>1. i - Len(body) \in 1 .. Len(r) /\ i = Len(body) + (i - Len(body))
        BY <3>2, <2>2, <1>3
      <4>2. body'[i] = r[i - Len(body)]
        BY <4>1, <1>1, <1>4
      <4>3. i - Len(body) # Len(r)
        BY <4>1, <4>2, <2>3, <1>3
      <4>4. Len(r) = 2 /\ i = Len(body) + 1
        BY <4>1, <4>3, <2>2, <1>3
      <4>5. body'[i + 1] = r[2] /\ r[2].last
        BY <4>4, <2>2, <1>1, <1>3, <1>4
      <4> QED BY <4>4, <4>5, <2>2
    <3> QED BY <3>1, <3>2
  <2>4. ASSUME call' = "payload" PROVE body' # << >> /\ body'[1].last
    <3>1. body # << >> /\ body[1].last /\ 1 \in 1 .. Len(body)
      BY <2>4, <1>1, <1>2 DEF Paired
    <3> QED BY <3>1, <2>2, <1>1, <1>3, <1>4
  <2> QED BY <2>3, <2>4 DEF Paired
<1>8. Verdict'
  BY <1>1, <1>2, <1>5 DEF Verdict
<1>9. ReaderInv'
  BY <1>1, <1>2, <1>4, <1>5, <1>6, <1>7, <1>8 DEF ReaderInv
<1>10. Arriving' = Arriving + 1
  <2>1. Arriving' = taken' + Cardinality(Ends(body')) /\ Arriving = taken + Cardinality(Ends(body))
    BY SameCardinality DEF Arriving, Reader!InFlight, Ends
  <2>2. Cardinality(Ends(body)) \in Nat /\ Cardinality(Ends(body')) = Cardinality(Ends(body)) + 1
    BY <1>1, <1>2, <1>4, EndsFinite
  <2>3. taken' = taken /\ taken \in Nat
    BY <1>1, <1>2
  <2> QED BY ONLY <2>1, <2>2, <2>3
<1> QED BY <1>1, <1>5, <1>9, <1>10 DEF Reader!Frames!Send, Arriving

LEMMA ReaderLosesServer ==
  ASSUME ReaderInv, Reader!ServerHangsUp
  PROVE  ReaderInv' /\ Reader!Frames!HangUp
<1>1. /\ ~cut /\ cut' = TRUE
      /\ UNCHANGED <<cancelled, closed, done, call, result, sent, taken>>
  BY DEF Reader!ServerHangsUp
<1>2. PICK n \in 0 .. Len(body) : body' = SubSeq(body, 1, n)
  BY DEF Reader!ServerHangsUp
<1>3. body \in Seq(Piece) /\ taken \in Nat /\ Paired /\ Verdict /\ Numbered(body, sent, taken, cut)
  BY DEF ReaderInv
<1>4. /\ body' \in Seq(Piece) /\ Len(body') = n /\ \A i \in 1 .. n : body'[i] = body[i]
      /\ Cardinality(Ends(body')) \in 0 .. Cardinality(Ends(body))
  BY ONLY <1>2, <1>3, n \in 0 .. Len(body), EndsOfPrefix
<1>5. Numbered(body', sent', taken', cut')
  <2>1. Numbered(SubSeq(body, 1, n), sent, taken, TRUE)
    BY <1>3, NumbersCut
  <2> QED BY <2>1, <1>1, <1>2
<1>6. Paired'
  <2>1. \A i \in 1 .. n : i \in 1 .. Len(body) /\ (i # n => i # Len(body) /\ i + 1 \in 1 .. n)
    BY <1>3
  <2>2. \A i \in 1 .. n : ~body'[i].last => IF i = n THEN cut' ELSE body'[i + 1].last
    BY <2>1, <1>1, <1>3, <1>4 DEF Paired
  <2>3. ASSUME call' = "payload", body' # << >> PROVE body'[1].last
    <3>1. 1 \in 1 .. n /\ body # << >>
      BY <2>3, <1>3, <1>4
    <3> QED BY <3>1, <2>3, <1>1, <1>3, <1>4 DEF Paired
  <2> QED BY <2>2, <2>3, <1>1, <1>4 DEF Paired
<1>7. ReaderInv'
  BY <1>1, <1>3, <1>4, <1>5, <1>6 DEF ReaderInv, Verdict
<1>8. Arriving' \in taken .. Arriving
  BY <1>1, <1>3, <1>4, <1>7, ArrivingFacts, SameCardinality DEF Arriving, Reader!InFlight, Ends
<1> QED BY <1>1, <1>7, <1>8 DEF Reader!Frames!HangUp, Arriving

\* Steps that leave the body and what was sent as they are.
LEMMA BodyKeeps ==
  ASSUME ReaderInv, UNCHANGED <<body, cut, sent, taken>>
  PROVE  /\ Numbered(body, sent, taken, cut)' /\ Arriving' = Arriving
         /\ (body \in Seq(Piece) /\ sent \in Seq(Frame) /\ taken \in 0 .. Len(sent))'
         /\ (call' = call \/ call' # "payload") => Paired'
<1>1. /\ Numbered(body, sent, taken, cut) /\ Paired
      /\ body \in Seq(Piece) /\ sent \in Seq(Frame) /\ taken \in 0 .. Len(sent)
  BY DEF ReaderInv
<1>2. Arriving' = Arriving
  BY SameCardinality DEF Arriving, Reader!InFlight
<1>3. ASSUME call' = call \/ call' # "payload" PROVE Paired'
  BY <1>1, <1>3 DEF Paired
<1> QED BY <1>1, <1>2, <1>3

LEMMA ReaderIsInterrupted ==
  ASSUME ReaderInv, Reader!Interrupt
  PROVE  ReaderInv' /\ Reader!Frames!Cancel
<1>1. /\ ~cancelled /\ cancelled' = TRUE
      /\ UNCHANGED <<body, cut, closed, done, call, result, sent, taken>>
  BY DEF Reader!Interrupt
<1>2. Verdict'
  BY <1>1 DEF ReaderInv, Verdict
<1>3. ReaderInv' /\ Arriving' = Arriving
  BY <1>1, <1>2, BodyKeeps DEF ReaderInv
<1> QED BY <1>1, <1>3 DEF Reader!Frames!Cancel, Reader!Frames!network, Arriving

LEMMA ReaderCloses ==
  ASSUME ReaderInv, Reader!CloseBody
  PROVE  ReaderInv' /\ Reader!Frames!Close
<1>1. closed' = TRUE /\ UNCHANGED <<body, cut, cancelled, done, call, result, sent, taken>>
  BY DEF Reader!CloseBody
<1>2. Verdict'
  BY <1>1 DEF ReaderInv, Verdict
<1>3. ReaderInv' /\ Arriving' = Arriving
  BY <1>1, <1>2, BodyKeeps DEF ReaderInv
<1> QED BY <1>1, <1>3 DEF Reader!Frames!Close, Reader!Frames!network, Arriving

LEMMA ReaderIsCalled ==
  ASSUME ReaderInv, Reader!CallNext
  PROVE  /\ ReaderInv'
         /\ Reader!Frames!NextAfterDone \/ Reader!Frames!NextBroken \/ UNCHANGED Reader!Frames!stream
<1>1. call = "out" /\ UNCHANGED <<body, cut, cancelled, closed, sent, taken>>
  BY DEF Reader!CallNext
<1>2. Verdict
  BY DEF ReaderInv
<1>3. CASE done /\ Reader!Return("end") /\ UNCHANGED done
  <2>1. call' = "out" /\ result' = "end" /\ done' = done /\ done
    BY <1>3 DEF Reader!Return
  <2>2. Verdict'
    BY <2>1, <1>1, <1>2 DEF Verdict
  <2>3. ReaderInv' /\ Arriving' = Arriving
    BY <2>1, <2>2, <1>1, BodyKeeps DEF ReaderInv
  <2> QED BY <2>1, <2>3, <1>1 DEF Reader!Frames!NextAfterDone, Reader!Frames!network, Arriving
<1>4. CASE ~done /\ cancelled /\ Reader!Return("error") /\ done' = TRUE
  <2>1. call' = "out" /\ result' = "error" /\ done' = TRUE /\ ~done /\ cancelled
    BY <1>4 DEF Reader!Return
  <2>2. Verdict'
    BY <2>1, <1>1, <1>2 DEF Verdict
  <2>3. ReaderInv' /\ Arriving' = Arriving
    BY <2>1, <2>2, <1>1, BodyKeeps DEF ReaderInv
  <2> QED BY <2>1, <2>3, <1>1 DEF Reader!Frames!NextBroken, Reader!Frames!network, Arriving
<1>5. CASE ~done /\ ~cancelled /\ call' = "header" /\ UNCHANGED <<done, result>>
  <2>1. Verdict'
    BY <1>5, <1>1, <1>2 DEF Verdict
  <2>2. ReaderInv' /\ Arriving' = Arriving
    BY <2>1, <1>5, <1>1, BodyKeeps DEF ReaderInv
  <2> QED BY <2>2, <1>5, <1>1 DEF Reader!Frames!stream, Arriving
<1> QED BY <1>3, <1>4, <1>5 DEF Reader!CallNext

LEMMA ReaderFails ==
  ASSUME ReaderInv, Reader!ReadFails
  PROVE  ReaderInv' /\ Reader!Frames!NextBroken
<1>1. /\ call \in {"header", "payload"}
      /\ (cut /\ body = << >>) \/ closed \/ cancelled
      /\ done' = TRUE /\ call' = "out" /\ result' = "error"
      /\ UNCHANGED <<body, cut, cancelled, closed, sent, taken>>
  BY DEF Reader!ReadFails, Reader!Return
<1>2. Verdict /\ ~done
  BY <1>1 DEF ReaderInv, Verdict
<1>3. Verdict'
  BY <1>1, <1>2 DEF Verdict
<1>4. ReaderInv' /\ Arriving' = Arriving
  BY <1>1, <1>3, BodyKeeps DEF ReaderInv
<1>5. body = << >> => ~Reader!Frames!Waiting
  <2>1. body = << >> => Ends(body) = {}
    BY DEF Ends
  <2> QED BY <2>1, ArrivingFacts, FS_EmptySet DEF Reader!Frames!Waiting, Arriving
<1> QED BY <1>1, <1>2, <1>4, <1>5 DEF Reader!Frames!NextBroken, Reader!Frames!network, Arriving

\* Whatever piece is read next is of the first frame not yet taken.
LEMMA NextPiece ==
  ASSUME ReaderInv, body # << >>, body' = Tail(body), UNCHANGED <<cut, sent>>,
         taken' = taken + (IF body[1].last THEN 1 ELSE 0)
  PROVE  /\ Head(body) = body[1] /\ taken + 1 \in 1 .. Len(sent)
         /\ body[1].frame = sent[taken + 1]
         /\ Numbered(body, sent, taken, cut)' /\ Arriving' = Arriving
         /\ (body \in Seq(Piece) /\ sent \in Seq(Frame) /\ taken \in 0 .. Len(sent))'
         /\ body[1].last => Reader!Frames!Waiting
         /\ ~body[1].last => IF body' = << >> THEN cut ELSE body'[1].last
         /\ call' # "payload" \/ ~body[1].last => Paired'
<1>1. /\ body \in Seq(Piece) /\ sent \in Seq(Frame) /\ taken \in 0 .. Len(sent) /\ taken \in Nat
      /\ Numbered(body, sent, taken, cut) /\ Paired
  BY DEF ReaderInv
<1>2. /\ Head(body) = body[1] /\ body' \in Seq(Piece) /\ Len(body') = Len(body) - 1
      /\ \A i \in 1 .. Len(body') : body'[i] = body[i + 1]
      /\ Cardinality(Ends(body)) = Cardinality(Ends(body')) + (IF body[1].last THEN 1 ELSE 0)
  BY ONLY <1>1, body # << >>, body' = Tail(body), EndsOfTail
<1>3. /\ taken + 1 \in 1 .. Len(sent) /\ body[1].frame = sent[taken + 1]
      /\ Numbered(Tail(body), sent, taken + (IF body[1].last THEN 1 ELSE 0), cut)
  BY ONLY <1>1, body # << >>, NumbersPass
<1>4. Numbered(body, sent, taken, cut)'
  <2>1. Numbered(body', sent', taken', cut')
    BY <1>3
  <2> QED BY <2>1 DEF Numbered
<1>5. Cardinality(Ends(body)) \in Nat /\ Cardinality(Ends(body')) \in Nat
  BY <1>1, <1>2, EndsFinite
<1>6. Arriving' = taken' + Cardinality(Ends(body')) /\ Arriving = taken + Cardinality(Ends(body))
  BY SameCardinality DEF Arriving, Reader!InFlight, Ends
<1>7. Arriving' = Arriving /\ (body[1].last => taken < Arriving)
  BY ONLY <1>1, <1>2, <1>5, <1>6, taken' = taken + (IF body[1].last THEN 1 ELSE 0)
<1>8. sent' \in Seq(Frame) /\ taken' \in 0 .. Len(sent')
  BY <1>1, <1>3
<1>9. /\ Len(body) \in Nat \ {0} /\ Len(body') \in Nat /\ (body' = << >> <=> Len(body) = 1)
      /\ \A i \in 1 .. Len(body') : i + 1 \in 1 .. Len(body) /\ (i = Len(body') <=> i + 1 = Len(body))
  <2>1. Len(body) \in Nat /\ Len(body') \in Nat /\ Len(body') = Len(body) - 1
    BY <1>1, <1>2
  <2>2. body' = << >> <=> Len(body') = 0
    <3>1. body' \in Seq(Piece)
      BY <1>2
    <3> QED BY ONLY <3>1
  <2>3. Len(body) \in Nat \ {0} /\ (Len(body') = 0 <=> Len(body) = 1)
    BY ONLY <2>1
  <2>4. \A i \in 1 .. Len(body') : i + 1 \in 1 .. Len(body) /\ (i = Len(body') <=> i + 1 = Len(body))
    BY ONLY <2>1
  <2> QED BY ONLY <2>1, <2>2, <2>3, <2>4
<1>10. ~body[1].last => IF body' = << >> THEN cut ELSE body'[1].last
  <2> SUFFICES ASSUME ~body[1].last PROVE IF body' = << >> THEN cut ELSE body'[1].last
    OBVIOUS
  <2>1. IF 1 = Len(body) THEN cut ELSE body[2].last
    BY <1>1, <1>9 DEF Paired
  <2>2. body' # << >> => body'[1] = body[2]
    BY <1>2, <1>9
  <2> QED BY <2>1, <2>2, <1>9
<1>11. ASSUME NEW i \in 1 .. Len(body'), ~body'[i].last
       PROVE  IF i = Len(body') THEN cut' ELSE body'[i + 1].last
  <2>1. body'[i] = body[i + 1] /\ i + 1 \in 1 .. Len(body) /\ (i = Len(body') <=> i + 1 = Len(body))
    BY <1>2, <1>9
  <2>2. IF i + 1 = Len(body) THEN cut ELSE body[(i + 1) + 1].last
    BY <2>1, <1>1, <1>11 DEF Paired
  <2>3. i # Len(body') => body'[i + 1] = body[(i + 1) + 1]
    <3>1. i # Len(body') => i + 1 \in 1 .. Len(body')
      BY <1>9
    <3> QED BY <3>1, <1>2
  <2> QED BY <2>1, <2>2, <2>3
<1>12. ASSUME call' # "payload" \/ ~body[1].last PROVE Paired'
  BY <1>10, <1>11, <1>12 DEF Paired
<1> QED BY <1>2, <1>3, <1>4, <1>7, <1>8, <1>10, <1>12 DEF Reader!Frames!Waiting, Arriving

\* What Next makes of a frame is what FrameReader says it does.
LEMMA ReaderConsumes ==
  ASSUME ReaderInv, call # "out", body # << >>, body[1].last,
         Reader!Consume(Head(body).frame), body' = Tail(body),
         UNCHANGED <<cut, cancelled, closed, sent>>
  PROVE  /\ ReaderInv'
         /\ \/ Reader!Frames!NextData \/ Reader!Frames!NextUndecodable
            \/ Reader!Frames!NextEnd \/ Reader!Frames!NextRefused
         /\ result' = "end" => /\ taken' > 0 /\ sent[taken'].kind = "trailer"
                               /\ \A i \in 1 .. taken : sent[i].kind \in {"data", "bad"}
<1> DEFINE f == sent[taken + 1]
<1>1. taken' = taken + 1 /\ taken \in Nat /\ Verdict /\ ~done
  BY DEF Reader!Consume, ReaderInv, Verdict
<1>2. taken' = taken + (IF body[1].last THEN 1 ELSE 0)
  BY <1>1
<1>3. /\ Head(body) = body[1] /\ body[1].frame = f /\ taken + 1 \in 1 .. Len(sent)
      /\ Numbered(body, sent, taken, cut)' /\ Arriving' = Arriving
      /\ (body \in Seq(Piece) /\ sent \in Seq(Frame) /\ taken \in 0 .. Len(sent))'
      /\ Reader!Frames!Waiting /\ (call' # "payload" => Paired')
  BY <1>2, NextPiece
<1>4. Reader!Frames!Front = f /\ Reader!Consume(f)
  BY <1>3 DEF Reader!Frames!Front
<1> HIDE DEF f
<1>5. /\ call' = "out"
      /\ \/ f.kind = "data" /\ result' = "data" /\ done' = done
         \/ f.kind = "bad" /\ result' = "error" /\ done' = done
         \/ f.kind = "trailer" /\ result' = "end" /\ done' = TRUE
         \/ f.kind \in {"failure", "huge"} /\ result' = "error" /\ done' = TRUE
  BY <1>4 DEF Reader!Consume, Reader!Return
<1>6. Verdict'
  <2>1. ~done' => f.kind \in {"data", "bad"}
    BY <1>5
  <2>2. \A i \in 1 .. (taken + 1) : i \in 1 .. taken \/ i = taken + 1
    BY <1>1
  <2>3. ~done' => \A i \in 1 .. taken' : sent'[i].kind \in {"data", "bad"}
    BY <2>1, <2>2, <1>1 DEF Verdict, f
  <2>4. done' \in BOOLEAN /\ (result' = "end" => done')
    BY <1>1, <1>5 DEF Verdict
  <2>5. cut' \in BOOLEAN
    BY <1>1 DEF Verdict
  <2> QED BY <2>3, <2>4, <2>5, <1>5 DEF Verdict
<1>7. ReaderInv'
  BY <1>3, <1>5, <1>6 DEF ReaderInv
<1>8. \/ Reader!Frames!NextData \/ Reader!Frames!NextUndecodable
      \/ Reader!Frames!NextEnd \/ Reader!Frames!NextRefused
  <2>1. Reader!Frames!Waiting /\ Reader!Frames!Front = f /\ Arriving' = Arriving
    BY <1>3, <1>4
  <2>2. CASE f.kind = "data" /\ result' = "data" /\ done' = done
    BY <2>1, <2>2, <1>1 DEF Reader!Frames!NextData, Reader!Frames!network, Arriving
  <2>3. CASE f.kind = "bad" /\ result' = "error" /\ done' = done
    BY <2>1, <2>3, <1>1 DEF Reader!Frames!NextUndecodable, Reader!Frames!network, Arriving
  <2>4. CASE f.kind = "trailer" /\ result' = "end" /\ done' = TRUE
    BY <2>1, <2>4, <1>1 DEF Reader!Frames!NextEnd, Reader!Frames!network, Arriving
  <2>5. CASE f.kind \in {"failure", "huge"} /\ result' = "error" /\ done' = TRUE
    BY <2>1, <2>5, <1>1 DEF Reader!Frames!NextRefused, Reader!Frames!network, Arriving
  <2> QED BY <2>2, <2>3, <2>4, <2>5, <1>5
<1>9. ASSUME result' = "end"
      PROVE  /\ taken' > 0 /\ sent[taken'].kind = "trailer"
             /\ \A i \in 1 .. taken : sent[i].kind \in {"data", "bad"}
  BY <1>1, <1>5, <1>9 DEF Verdict, f
<1> QED BY <1>7, <1>8, <1>9

LEMMA ReaderReadsHeader ==
  ASSUME ReaderInv, Reader!ReadHeader
  PROVE  /\ ReaderInv'
         /\ \/ Reader!Frames!NextData \/ Reader!Frames!NextUndecodable
            \/ Reader!Frames!NextEnd \/ Reader!Frames!NextRefused
            \/ UNCHANGED Reader!Frames!stream
         /\ ~done /\ result' = "end" =>
              /\ taken' > 0 /\ sent[taken'].kind = "trailer"
              /\ \A i \in 1 .. taken : sent[i].kind \in {"data", "bad"}
<1>1. call = "header" /\ body # << >> /\ body' = Tail(body) /\ UNCHANGED <<cut, cancelled, closed, sent>>
  BY DEF Reader!ReadHeader, Reader!Readable
<1>2. Verdict /\ body \in Seq(Piece) /\ taken \in Nat
  BY DEF ReaderInv
<1>3. Head(body) = body[1]
  BY <1>1, <1>2
<1>4. CASE body[1].last
  <2>1. Reader!Consume(Head(body).frame)
    BY <1>3, <1>4 DEF Reader!ReadHeader
  <2> QED BY <2>1, <1>1, <1>4, ReaderConsumes
<1>5. CASE ~body[1].last
  <2>1. call' = "payload" /\ UNCHANGED <<done, result, taken>>
    BY <1>3, <1>5 DEF Reader!ReadHeader
  <2>2. taken' = taken + (IF body[1].last THEN 1 ELSE 0)
    BY <2>1, <1>2, <1>5
  <2>3. /\ Numbered(body, sent, taken, cut)' /\ Arriving' = Arriving
        /\ (body \in Seq(Piece) /\ sent \in Seq(Frame) /\ taken \in 0 .. Len(sent))'
        /\ Paired'
    BY <2>2, <1>1, <1>5, NextPiece
  <2>4. Verdict' /\ (result' = "end" => done)
    BY <2>1, <1>1, <1>2 DEF Verdict
  <2>5. ReaderInv'
    BY <2>3, <2>4 DEF ReaderInv
  <2>6. UNCHANGED Reader!Frames!stream
    BY <2>1, <2>3, <1>1 DEF Reader!Frames!stream, Arriving
  <2> QED BY <2>4, <2>5, <2>6
<1> QED BY <1>4, <1>5

LEMMA ReaderReadsPayload ==
  ASSUME ReaderInv, Reader!ReadPayload
  PROVE  /\ ReaderInv'
         /\ \/ Reader!Frames!NextData \/ Reader!Frames!NextUndecodable
            \/ Reader!Frames!NextEnd \/ Reader!Frames!NextRefused
         /\ result' = "end" =>
              /\ taken' > 0 /\ sent[taken'].kind = "trailer"
              /\ \A i \in 1 .. taken : sent[i].kind \in {"data", "bad"}
<1>1. /\ call = "payload" /\ body # << >> /\ body' = Tail(body) /\ UNCHANGED <<cut, cancelled, closed, sent>>
      /\ Reader!Consume(Head(body).frame)
  BY DEF Reader!ReadPayload, Reader!Readable
<1>2. body[1].last
  BY <1>1 DEF ReaderInv, Paired
<1> QED BY <1>1, <1>2, ReaderConsumes

LEMMA ReaderStep ==
  ASSUME ReaderInv, [Reader!Next]_Reader!vars
  PROVE  ReaderInv' /\ [Reader!Frames!FrameNext]_Reader!Frames!stream
<1>1. CASE UNCHANGED Reader!vars
  <2>1. UNCHANGED <<body, cut, cancelled, closed, done, call, result, sent, taken>>
    BY <1>1 DEF Reader!vars
  <2>2. Verdict'
    BY <2>1 DEF ReaderInv, Verdict
  <2>3. ReaderInv' /\ Arriving' = Arriving
    BY <2>1, <2>2, BodyKeeps DEF ReaderInv
  <2>4. UNCHANGED Reader!Frames!stream
    BY <2>1, <2>3 DEF Reader!Frames!stream, Arriving
  <2> QED BY <2>3, <2>4
<1>2. CASE \E f \in Frame : Reader!ServerSends(f)
  BY <1>2, ReaderSends DEF Reader!Frames!FrameNext
<1>3. CASE Reader!ServerHangsUp
  BY <1>3, ReaderLosesServer DEF Reader!Frames!FrameNext
<1>4. CASE Reader!Interrupt
  BY <1>4, ReaderIsInterrupted DEF Reader!Frames!FrameNext
<1>5. CASE Reader!CallNext
  BY <1>5, ReaderIsCalled DEF Reader!Frames!FrameNext, Reader!Frames!NextError
<1>6. CASE Reader!ReadHeader
  BY <1>6, ReaderReadsHeader DEF Reader!Frames!FrameNext, Reader!Frames!NextError
<1>7. CASE Reader!ReadPayload
  BY <1>7, ReaderReadsPayload DEF Reader!Frames!FrameNext, Reader!Frames!NextError
<1>8. CASE Reader!ReadFails
  BY <1>8, ReaderFails DEF Reader!Frames!FrameNext, Reader!Frames!NextError
<1>9. CASE Reader!CloseBody
  BY <1>9, ReaderCloses DEF Reader!Frames!FrameNext
<1> QED BY <1>1, <1>2, <1>3, <1>4, <1>5, <1>6, <1>7, <1>8, <1>9 DEF Reader!Next

(* What is left of the body is the rest of the frames the server wrote, in  *)
(* order and, unless the connection broke, whole; and Next waits in the     *)
(* body only while it has no verdict.                                       *)
THEOREM TheBodyIsWhatWasSent == Reader!Spec => []ReaderInv
<1>1. Reader!Init => ReaderInv
  BY ReaderStarts
<1>2. ReaderInv /\ [Reader!Next]_Reader!vars => ReaderInv'
  BY ReaderStep
<1> QED BY <1>1, <1>2, PTL DEF Reader!Spec

(* transport.StreamReader, which reads its frames in pieces and may be cut  *)
(* or aborted in any of them, gives its caller the stream of whole frames   *)
(* that chat send is modelled over.                                         *)
THEOREM TheReaderReadsFrames == Reader!Spec => Reader!ImplementsFrameReader
<1>1. Reader!Init => Reader!Frames!Open
  BY ReaderStarts
<1>2. ReaderInv /\ [Reader!Next]_Reader!vars => [Reader!Frames!FrameNext]_Reader!Frames!stream
  BY ReaderStep
<1> QED BY <1>1, <1>2, TheBodyIsWhatWasSent, PTL
        DEF Reader!Spec, Reader!ImplementsFrameReader, Reader!Frames!FrameSpec

(* The first verdict "end" of StreamReader.Next comes of a trailer, and     *)
(* after every frame before it was handed out.                              *)
THEOREM ACleanEndIsReal == Reader!Spec => Reader!CleanEndIsReal
<1> DEFINE Real == ~done /\ result' = "end" =>
                     /\ taken' > 0 /\ sent[taken'].kind = "trailer"
                     /\ \A i \in 1 .. taken : sent[i].kind \in {"data", "bad"}
<1>1. ASSUME ReaderInv, [Reader!Next]_Reader!vars PROVE [Real]_Reader!vars
  <2> SUFFICES ASSUME Reader!Next, ~done, result' = "end" PROVE Real
    BY <1>1
  <2>1. result # "end"
    BY <1>1 DEF ReaderInv, Verdict
  <2>2. CASE Reader!ReadHeader
    BY <2>2, <1>1, ReaderReadsHeader
  <2>3. CASE Reader!ReadPayload
    BY <2>3, <1>1, ReaderReadsPayload
  <2>4. /\ ~(\E f \in Frame : Reader!ServerSends(f)) /\ ~Reader!ServerHangsUp
        /\ ~Reader!Interrupt /\ ~Reader!CloseBody
    BY <2>1 DEF Reader!ServerSends, Reader!ServerHangsUp, Reader!Interrupt, Reader!CloseBody
  <2>5. ~Reader!CallNext /\ ~Reader!ReadFails
    BY <2>1 DEF Reader!CallNext, Reader!ReadFails, Reader!Return
  <2> QED BY <2>2, <2>3, <2>4, <2>5 DEF Reader!Next
<1>2. Reader!Spec => [][Real]_Reader!vars
  BY <1>1, TheBodyIsWhatWasSent, PTL DEF Reader!Spec
<1> QED BY <1>2 DEF Reader!CleanEndIsReal
=============================================================================
