--------------------------- MODULE WebSocketProofs ---------------------------
(***************************************************************************)
(* Proofs about the websocket connection, for any number of frames of any  *)
(* length.                                                                 *)
(***************************************************************************)
EXTENDS WebSocket, SequenceTheorems, TLAPS

-----------------------------------------------------------------------------
(* What the peer says.                                                     *)

\* The units of a payload.
LEMMA PayloadUnits ==
  ASSUME NEW i \in 1..MaxFrames, NEW n \in 0..MaxLen
  PROVE  Payload(i, n) \in Message /\ Len(Payload(i, n)) = n /\ \A u \in 1..n : Payload(i, n)[u] = <<i, u>>
<1>1. \A u \in 1..n : <<i, u>> \in Unit
  BY WebSocketAssumption DEF Unit
<1>2. Payload(i, n) \in [1..n -> Unit]
  BY <1>1 DEF Payload
<1>3. Payload(i, n) \in Seq(Unit) /\ Len(Payload(i, n)) = n
  BY <1>2, WebSocketAssumption
<1> QED
  BY <1>3 DEF Payload, Message

\* A message without units of the payload.
LEMMA PayloadEmpty ==
  ASSUME NEW i \in 1..MaxFrames, NEW t \in Message
  PROVE  t \o Payload(i, 0) = t
<1>1. 0 \in 0..MaxLen
  BY WebSocketAssumption
<1>2. Payload(i, 0) \in Seq(Unit) /\ Len(Payload(i, 0)) = 0
  BY <1>1, PayloadUnits DEF Message
<1>3. Payload(i, 0) = << >>
  BY <1>2, EmptySeq
<1> QED
  BY <1>3 DEF Message

\* One more unit.
LEMMA PayloadNext ==
  ASSUME NEW i \in 1..MaxFrames, NEW n \in 0..MaxLen, n + 1 \in 0..MaxLen, NEW t \in Message
  PROVE  t \o Payload(i, n + 1) = Append(t \o Payload(i, n), <<i, n + 1>>)
<1>1. PICK p : p = Payload(i, n)
  OBVIOUS
<1>2. PICK q : q = Payload(i, n + 1)
  OBVIOUS
<1>3. p \in Seq(Unit) /\ Len(p) = n /\ \A u \in 1..n : p[u] = <<i, u>>
  BY <1>1, PayloadUnits DEF Message
<1>4. q \in Seq(Unit) /\ Len(q) = n + 1 /\ \A u \in 1..(n + 1) : q[u] = <<i, u>>
  BY <1>2, PayloadUnits DEF Message
<1>5. PICK x : x = <<i, n + 1>>
  OBVIOUS
<1>6. x \in Unit
  BY <1>5, WebSocketAssumption DEF Unit
<1>7. t \in Seq(Unit) /\ n \in Nat
  BY WebSocketAssumption DEF Message
<1>8. PICK a : a = Append(p, x)
  OBVIOUS
<1>9. /\ a \in Seq(Unit) /\ Len(a) = n + 1 /\ a[n + 1] = x
      /\ \A u \in 1..n : a[u] = p[u]
  BY <1>3, <1>6, <1>8, AppendProperties
<1>10. \A u \in 1..(n + 1) : q[u] = a[u]
  <2> SUFFICES ASSUME NEW u \in 1..(n + 1) PROVE q[u] = a[u]
    OBVIOUS
  <2>1. q[u] = <<i, u>>
    BY <1>4
  <2>2. CASE u = n + 1
    BY <2>1, <2>2, <1>5, <1>9
  <2>3. CASE u \in 1..n
    BY <2>1, <2>3, <1>3, <1>9
  <2> QED
    BY <2>2, <2>3, <1>7
<1>11. q = a
  BY <1>4, <1>9, <1>10, SeqEqual
<1>12. a = p \o <<x>> /\ <<x>> \in Seq(Unit)
  BY <1>3, <1>6, <1>8, AppendIsConcat
<1>13. t \o p \in Seq(Unit) /\ Append(t \o p, x) = (t \o p) \o <<x>>
  BY <1>3, <1>6, <1>7, AppendIsConcat
<1>14. (t \o p) \o <<x>> = t \o (p \o <<x>>)
  BY <1>3, <1>7, <1>12, ConcatAssociative
<1> QED
  BY <1>1, <1>2, <1>5, <1>11, <1>12, <1>13, <1>14

Fits(f, s) == f.op = IF s.open THEN "cont" ELSE "text"

\* A frame that ends what is said adds no message.
LEMMA HearEnds ==
  ASSUME NEW f \in Frame, NEW i \in 1..MaxFrames, NEW s \in Said,
         s.over \/ f.arr < f.len \/ ~ (Fits(f, s) \/ f.op \in {"ping", "pong"})
  PROVE  Hear(f, i, s) \in Said /\ Hear(f, i, s).msgs = s.msgs
<1>1. Hear(f, i, s) = [s EXCEPT !.over = TRUE]
  BY DEF Hear, Fits
<1>2. PICK t : t = [s EXCEPT !.over = TRUE]
  OBVIOUS
<1>3. t \in Said /\ t.msgs = s.msgs
  BY <1>2 DEF Said
<1> QED
  BY <1>1, <1>2, <1>3

\* Ping and pong say nothing.
LEMMA HearNothing ==
  ASSUME NEW f \in Frame, NEW i \in 1..MaxFrames, NEW s \in Said,
         ~ s.over, f.arr = f.len, f.op \in {"ping", "pong"}
  PROVE  Hear(f, i, s) = s
  BY DEF Hear, Frame, Said

\* After its last unit, frame f has said the message or the fragment t.
FrameSaid(f, i, s, t) ==
    /\ f.fin => Hear(f, i, s).msgs = Append(s.msgs, t) /\ Between(Hear(f, i, s))
    /\ ~ f.fin => /\ Hear(f, i, s).msgs = s.msgs /\ Hear(f, i, s).text = t
                  /\ Hear(f, i, s).open /\ ~ Hear(f, i, s).over

\* A fragment, and the last one of a message.
LEMMA HearData ==
  ASSUME NEW f \in Frame, NEW i \in 1..MaxFrames, NEW s \in Said, NEW t,
         ~ s.over, f.arr = f.len, Fits(f, s), t = s.text \o Payload(i, f.len)
  PROVE  Hear(f, i, s) \in Said /\ FrameSaid(f, i, s, t)
<1>1. t \in Message /\ s.msgs \in Seq(Message) /\ s.over = FALSE /\ f.fin \in BOOLEAN
  <2>1. f.len \in 0..MaxLen /\ s.text \in Message /\ s.msgs \in Seq(Message) /\ f.fin \in BOOLEAN
    BY DEF Frame, Said
  <2>2. Payload(i, f.len) \in Message
    BY <2>1, PayloadUnits
  <2>3. s.over = FALSE
    BY DEF Said
  <2> QED
    BY <2>1, <2>2, <2>3 DEF Message
<1>2. ~ (f.arr < f.len)
  BY WebSocketAssumption DEF Frame
<1>3. CASE f.fin
  <2>1. Hear(f, i, s) = [s EXCEPT !.msgs = Append(@, t), !.open = FALSE, !.text = <<>>]
    BY <1>2, <1>3 DEF Hear, Fits
  <2>2. PICK x : x = [s EXCEPT !.msgs = Append(@, t), !.open = FALSE, !.text = <<>>]
    OBVIOUS
  <2>3. x \in Said /\ x.msgs = Append(s.msgs, t) /\ x.open = FALSE /\ x.text = <<>> /\ x.over = FALSE
    <3>1. Append(s.msgs, t) \in Seq(Message) /\ <<>> \in Message
      BY <1>1 DEF Message
    <3> QED
      BY <2>2, <3>1, <1>1 DEF Said
  <2> QED
    BY <1>3, <2>1, <2>2, <2>3 DEF Between, FrameSaid
<1>4. CASE ~ f.fin
  <2>1. Hear(f, i, s) = [s EXCEPT !.open = TRUE, !.text = t]
    BY <1>2, <1>4 DEF Hear, Fits
  <2>2. PICK x : x = [s EXCEPT !.open = TRUE, !.text = t]
    OBVIOUS
  <2>3. x \in Said /\ x.msgs = s.msgs /\ x.open = TRUE /\ x.text = t /\ x.over = FALSE
    BY <2>2, <1>1 DEF Said
  <2> QED
    BY <1>4, <2>1, <2>2, <2>3 DEF FrameSaid
<1> QED
  BY <1>3, <1>4

\* In every case.
LEMMA HearType ==
  ASSUME NEW f \in Frame, NEW i \in 1..MaxFrames, NEW s \in Said
  PROVE  Hear(f, i, s) \in Said
<1>1. CASE s.over \/ f.arr < f.len \/ ~ (Fits(f, s) \/ f.op \in {"ping", "pong"})
  BY <1>1, HearEnds
<1>2. CASE ~ (s.over \/ f.arr < f.len \/ ~ (Fits(f, s) \/ f.op \in {"ping", "pong"}))
  <2>1. f.arr = f.len /\ ~ s.over
    BY <1>2, WebSocketAssumption DEF Frame
  <2>2. CASE Fits(f, s)
    BY <2>1, <2>2, HearData
  <2>3. CASE f.op \in {"ping", "pong"}
    BY <2>1, <2>3, HearNothing
  <2> QED
    BY <1>2, <2>2, <2>3
<1> QED
  BY <1>1, <1>2

-----------------------------------------------------------------------------
(* The network.                                                            *)

NetOK == /\ frames \in Seq(Frame) /\ Len(frames) <= MaxFrames
         /\ ended \in {"no", "eof", "reset"}
         /\ said \in Seq(Said) /\ Len(said) = Len(frames) + 1
         /\ Heard

\* The first n frames and what they say are as before.
SameUpTo(n) == /\ n \in 0..Len(frames')
               /\ \A i \in 1..n : frames'[i] = frames[i]
               /\ \A i \in 1..(n + 1) : said'[i] = said[i]

\* What the types say of the sequences.
LEMMA NetShapes ==
  ASSUME NetOK
  PROVE  /\ Len(frames) \in Nat /\ DOMAIN frames = 1..Len(frames) /\ DOMAIN said = 1..(Len(frames) + 1)
         /\ \A i \in 1..Len(frames) : frames[i] \in Frame /\ i \in 1..MaxFrames
         /\ \A i \in 1..(Len(frames) + 1) : said[i] \in Said
         /\ MaxFrames \in Nat /\ MaxLen \in Nat
  BY WebSocketAssumption DEF NetOK

\* Nothing happens to the network.
LEMMA NetStays ==
  ASSUME NetOK, UNCHANGED network, NEW n \in 0..Len(frames)
  PROVE  NetOK' /\ SameUpTo(n)
<1>1. UNCHANGED <<frames, ended, said>>
  BY DEF network
<1> QED
  BY <1>1 DEF NetOK, Heard, SameUpTo

\* A frame arrives.
LEMMA SendKeepsNet ==
  ASSUME NetOK, NEW f \in Frame, Send(f), ended' \in {"no", "eof", "reset"}
  PROVE  NetOK' /\ \A n \in 0..Len(frames) : SameUpTo(n)
<1>0. /\ Len(frames) \in Nat /\ MaxFrames \in Nat /\ frames \in Seq(Frame) /\ said \in Seq(Said)
      /\ Len(said) = Len(frames) + 1 /\ DOMAIN frames = 1..Len(frames)
  BY NetShapes DEF NetOK
<1>1. PICK k : k = Len(frames) + 1
  OBVIOUS
<1>2. PICK h : h = Hear(f, k, said[k])
  OBVIOUS
<1>3. k \in 1..MaxFrames /\ said[k] \in Said
  BY <1>0, <1>1, NetShapes DEF Send
<1>4. h \in Said
  BY <1>2, <1>3, HearType
<1>5. frames' = Append(frames, f) /\ said' = Append(said, h)
  BY <1>0, <1>1, <1>2 DEF Send
<1>6. /\ frames' \in Seq(Frame) /\ Len(frames') = k /\ frames'[k] = f
      /\ \A i \in 1..Len(frames) : frames'[i] = frames[i]
  BY <1>0, <1>1, <1>5, AppendProperties
<1>7. /\ said' \in Seq(Said) /\ Len(said') = k + 1 /\ said'[k + 1] = h
      /\ \A i \in 1..k : said'[i] = said[i]
  BY <1>0, <1>1, <1>4, <1>5, AppendProperties
<1>8. Heard'
  <2> SUFFICES ASSUME NEW i \in DOMAIN frames' PROVE said'[i + 1] = Hear(frames'[i], i, said'[i])
    BY DEF Heard, Hear, Payload
  <2>1. i \in 1..k
    BY <1>6
  <2>2. CASE i = k
    BY <2>2, <1>2, <1>3, <1>6, <1>7
  <2>3. CASE i # k
    <3>1. i \in 1..Len(frames) /\ i + 1 \in 1..k
      BY <2>1, <2>3, <1>0, <1>1
    <3>2. said[i + 1] = Hear(frames[i], i, said[i])
      BY <3>1, <1>0 DEF NetOK, Heard
    <3> QED
      BY <2>1, <3>1, <3>2, <1>6, <1>7
  <2> QED
    BY <2>2, <2>3
<1>9. \A n \in 0..Len(frames) : SameUpTo(n)
  BY <1>0, <1>1, <1>6, <1>7 DEF SameUpTo
<1> QED
  BY <1>3, <1>6, <1>7, <1>8, <1>9 DEF NetOK

\* The connection is closed by a write that fails, and what has not been read is lost.
LEMMA PartialKeepsNet ==
  ASSUME NetOK, PartialWrite, r' \in 0..Len(frames)
  PROVE  NetOK' /\ SameUpTo(r')
<1>0. /\ Len(frames) \in Nat /\ MaxFrames \in Nat /\ frames \in Seq(Frame) /\ said \in Seq(Said)
      /\ Len(said) = Len(frames) + 1 /\ DOMAIN frames = 1..Len(frames)
  BY NetShapes DEF NetOK
<1>1. PICK n \in r'..Len(frames) : frames' = SubSeq(frames, 1, n) /\ said' = SubSeq(said, 1, n + 1)
  BY DEF PartialWrite
<1>2. n \in 0..Len(frames) /\ n \in Nat /\ n + 1 \in 0..Len(said) /\ r' <= n
  BY <1>0
<1>3. /\ frames' \in Seq(Frame) /\ Len(frames') = n
      /\ \A i \in 1..n : frames'[i] = frames[i]
  BY <1>0, <1>1, <1>2, SubSeqProperties
<1>4. /\ said' \in Seq(Said) /\ Len(said') = n + 1
      /\ \A i \in 1..(n + 1) : said'[i] = said[i]
  BY <1>0, <1>1, <1>2, SubSeqProperties
<1>5. Heard'
  <2> SUFFICES ASSUME NEW i \in DOMAIN frames' PROVE said'[i + 1] = Hear(frames'[i], i, said'[i])
    BY DEF Heard, Hear, Payload
  <2>1. i \in 1..n /\ i \in 1..Len(frames) /\ i + 1 \in 1..(n + 1) /\ i \in 1..(n + 1)
    BY <1>2, <1>3
  <2>2. said[i + 1] = Hear(frames[i], i, said[i])
    BY <2>1, <1>0 DEF NetOK, Heard
  <2> QED
    BY <2>1, <2>2, <1>3, <1>4
<1>6. SameUpTo(r')
  <2>1. PICK m : m = r'
    OBVIOUS
  <2>2. m \in 0..Len(frames') /\ 1..m \subseteq 1..n /\ 1..(m + 1) \subseteq 1..(n + 1)
    <3>1. m \in Nat /\ n \in Nat /\ m <= n
      BY <2>1, <1>0, <1>2
    <3>2. 1..m \subseteq 1..n /\ 1..(m + 1) \subseteq 1..(n + 1)
      BY <3>1
    <3>3. m \in 0..n
      BY <3>1
    <3> QED
      BY <3>2, <3>3, <1>3
  <2>3. SameUpTo(m)
    BY <2>2, <1>3, <1>4 DEF SameUpTo
  <2> QED
    BY <2>1, <2>3
<1>7. ended' = "reset" /\ Len(frames') <= MaxFrames
  BY <1>0, <1>2, <1>3 DEF PartialWrite, NetOK
<1> QED
  BY <1>3, <1>4, <1>5, <1>6, <1>7 DEF NetOK

\* Nothing that has been read changes under a write.
LEMMA WriteKeepsNet ==
  ASSUME NetOK, NEW w, WriteControl(w), r' \in 0..Len(frames)
  PROVE  NetOK' /\ SameUpTo(r')
<1>1. UNCHANGED network \/ PartialWrite
  BY DEF WriteControl
<1> QED
  BY <1>1, NetStays, PartialKeepsNet

\* What has been read stays as it is while the network changes.
LEMMA ReaderStays ==
  ASSUME TypeOK, NetOK, NothingSkipped, AtFrameEnd, InPayload, AfterError,
         NetOK', SameUpTo(r), UNCHANGED reader
  PROVE  NothingSkipped' /\ AtFrameEnd' /\ InPayload' /\ AfterError'
<1>1. UNCHANGED <<rpc, r, readRemaining, readFinal, readErr, buf, got>>
  BY DEF reader
<1>2. r \in Nat /\ said'[r + 1] = said[r + 1]
  BY NetShapes DEF SameUpTo, TypeOK
<1>3. r > 0 => frames'[r] = frames[r] /\ said'[r] = said[r]
  BY <1>2 DEF SameUpTo
<1>4. Until(r)' = Until(r)
  BY <1>1, <1>2 DEF Until
<1>5. NothingSkipped' /\ AtFrameEnd'
  BY <1>1, <1>4 DEF NothingSkipped, AtFrameEnd
<1>6. AfterError'
  BY <1>1, <1>4 DEF AfterError
<1>7. InPayload'
  BY <1>1, <1>2, <1>3 DEF InPayload, Offset, Payload
<1> QED
  BY <1>5, <1>6, <1>7

-----------------------------------------------------------------------------
(* What is written.                                                        *)

WriterOK == closeSent \in BOOLEAN /\ out \in Seq(Written) /\ writeFailed \in BOOLEAN

\* Frame n + 1, if it has just been read, is no ping.
NoPing == r' = r \/ (r' = r + 1 /\ ~ IsPing(r + 1))

\* IsPing(n) after the step.
PingNext(n) == frames'[n].op = "ping" /\ frames'[n].arr = frames'[n].len

\* The frames read keep their kind.
LEMMA PingsStay ==
  ASSUME SameUpTo(r')
  PROVE  \A n \in 1..r' : PingNext(n) <=> IsPing(n)
  BY DEF SameUpTo, IsPing, PingNext

\* The parts of OneCloseAndAllPongs, for a sequence o of frames written.
Ordered(o) == /\ \A i \in DOMAIN o : o[i][1] = "close" => i = Len(o)
              /\ \A i, j \in DOMAIN o : o[j][1] = "pong" /\ i < j => o[i][2] < o[j][2]
HasClose(o) == \E i \in DOMAIN o : o[i][1] = "close"
HasPong(o, n) == \E i \in DOMAIN o : o[i] = <<"pong", n>>

\* OneCloseAndAllPongs in these terms.
LEMMA WrittenParts ==
  OneCloseAndAllPongs <=>
    /\ Ordered(out)
    /\ \A i \in DOMAIN out : out[i][1] = "pong" => out[i][2] <= r /\ IsPing(out[i][2])
    /\ ~ writeFailed => /\ rpc = "stopped" => HasClose(out)
                        /\ \A n \in 1..r : IsPing(n) => HasPong(out, n)
  BY DEF OneCloseAndAllPongs, Ordered, HasClose, HasPong

\* The pongs written name pings that have been read, also after a step.
LEMMA PongsStay ==
  ASSUME TypeOK, OneCloseAndAllPongs, SameUpTo(r'), r' \in Nat, r <= r'
  PROVE  \A i \in DOMAIN out : out[i][1] = "pong" => out[i][2] <= r' /\ PingNext(out[i][2])
<1> SUFFICES ASSUME NEW i \in DOMAIN out, out[i][1] = "pong"
             PROVE  out[i][2] <= r' /\ PingNext(out[i][2])
  OBVIOUS
<1>1. PICK n : n = out[i][2]
  OBVIOUS
<1>2. out[i] \in Written
  BY DEF TypeOK
<1>3. n \in 1..MaxFrames
  BY <1>1, <1>2 DEF Written
<1>4. n <= r /\ IsPing(n)
  BY <1>1 DEF OneCloseAndAllPongs
<1>5. n \in 1..r' /\ n <= r'
  BY <1>3, <1>4, WebSocketAssumption DEF TypeOK
<1> QED
  BY <1>1, <1>4, <1>5, PingsStay

\* Nothing is written, and no ping is read.
LEMMA SilenceKeepsWriter ==
  ASSUME TypeOK, CloseOnce, OneCloseAndAllPongs, UNCHANGED writer,
         SameUpTo(r'), r' \in Nat, NoPing,
         closeSent => rpc' \in {"stopping", "stopped"}, rpc' = "stopped" => rpc = "stopped"
  PROVE  WriterOK' /\ CloseOnce' /\ OneCloseAndAllPongs'
<1>0. r \in Nat /\ r <= r' /\ UNCHANGED <<closeSent, out, writeFailed>>
  <2>1. r \in Nat
    BY DEF TypeOK
  <2> QED
    BY <2>1 DEF NoPing, writer
<1>1. WriterOK' /\ CloseOnce'
  BY <1>0 DEF TypeOK, WriterOK, CloseOnce
<1>2. \A i \in DOMAIN out : out[i][1] = "pong" => out[i][2] <= r' /\ PingNext(out[i][2])
  BY <1>0, PongsStay
<1>3. ASSUME ~ writeFailed, NEW n \in 1..r', PingNext(n) PROVE HasPong(out, n)
  <2>1. IsPing(n)
    BY <1>3, PingsStay
  <2>2. n \in 1..r
    BY <2>1, <1>0 DEF NoPing
  <2> QED
    BY <1>3, <2>1, <2>2, WrittenParts
<1>4. ~ writeFailed /\ rpc' = "stopped" => HasClose(out)
  BY WrittenParts
<1> QED
  BY <1>0, <1>1, <1>2, <1>3, <1>4, WrittenParts DEF OneCloseAndAllPongs, PingNext, IsPing, HasClose, HasPong

\* A close frame is to be written, and the goroutine leaves its loop.
LEMMA CloseKeepsWriter ==
  ASSUME TypeOK, CloseOnce, OneCloseAndAllPongs, WriteControl(<<"close", 0>>),
         SameUpTo(r'), r' \in Nat, NoPing, rpc' \in {"stopping", "stopped"}
  PROVE  WriterOK' /\ CloseOnce' /\ OneCloseAndAllPongs'
<1>0. r \in Nat /\ r <= r' /\ out \in Seq(Written) /\ closeSent \in BOOLEAN /\ writeFailed \in BOOLEAN
  <2>1. r \in Nat /\ out \in Seq(Written) /\ closeSent \in BOOLEAN /\ writeFailed \in BOOLEAN
    BY DEF TypeOK
  <2> QED
    BY <2>1 DEF NoPing
<1>1. \A i \in DOMAIN out : out[i][1] = "pong" => out[i][2] <= r' /\ PingNext(out[i][2])
  BY <1>0, PongsStay
<1>2. ASSUME ~ writeFailed, NEW n \in 1..r', PingNext(n) PROVE HasPong(out, n)
  <2>1. IsPing(n)
    BY <1>2, PingsStay
  <2>2. n \in 1..r
    BY <2>1, <1>0 DEF NoPing
  <2> QED
    BY <1>2, <2>1, <2>2, WrittenParts
<1>3. Ordered(out)
  BY WrittenParts
<1>4. CASE closeSent /\ UNCHANGED <<closeSent, out, writeFailed>>
  <2>1. ~ writeFailed => HasClose(out)
    BY <1>4 DEF CloseOnce, HasClose
  <2>2. WriterOK' /\ CloseOnce'
    BY <1>0, <1>4, <2>1 DEF WriterOK, CloseOnce, HasClose
  <2> QED
    BY <1>1, <1>2, <1>3, <1>4, <2>1, <2>2 DEF OneCloseAndAllPongs, PingNext, IsPing, Ordered, HasClose, HasPong
<1>5. CASE ~ closeSent /\ closeSent' = TRUE /\ out' = Append(out, <<"close", 0>>) /\ writeFailed' = writeFailed
  <2>1. PICK w \in Written : w = <<"close", 0>>
    BY DEF Written
  <2>2. PICK p : p = Append(out, w)
    OBVIOUS
  <2>3. /\ p \in Seq(Written) /\ DOMAIN p = 1..(Len(out) + 1) /\ Len(p) = Len(out) + 1 /\ Len(out) \in Nat
        /\ p[Len(out) + 1] = w /\ DOMAIN out = 1..Len(out)
        /\ \A i \in 1..Len(out) : p[i] = out[i]
        /\ \A i \in DOMAIN p : i \in 1..Len(out) \/ i = Len(out) + 1
        /\ \A n : HasPong(out, n) => HasPong(p, n)
    <3>1. out \in Seq(Written)
      BY <1>0
    <3>2. /\ p \in Seq(Written) /\ Len(p) = Len(out) + 1 /\ p[Len(out) + 1] = w
          /\ \A i \in 1..Len(out) : p[i] = out[i]
      BY <2>2, <3>1, AppendProperties
    <3>3. Len(out) \in Nat /\ DOMAIN out = 1..Len(out) /\ DOMAIN p = 1..(Len(out) + 1)
      BY <3>1, <3>2
    <3>4. \A i \in DOMAIN p : i \in 1..Len(out) \/ i = Len(out) + 1
      BY <3>3
    <3>5. \A n : HasPong(out, n) => HasPong(p, n)
      BY <3>2, <3>3 DEF HasPong
    <3> QED
      BY <3>2, <3>3, <3>4, <3>5
  <2>4. w[1] = "close" /\ w[1] # "pong" /\ out' = p
    BY <1>5, <2>1, <2>2
  <2>5. HasClose(p)
    BY <2>3, <2>4 DEF HasClose
  <2>6. \A i \in DOMAIN out : out[i][1] # "close"
    BY <1>5 DEF CloseOnce
  <2>7. Ordered(p)
    <3>1. \A i \in DOMAIN p : p[i][1] = "close" => i = Len(p)
      BY <2>3, <2>6
    <3>2. ASSUME NEW i \in DOMAIN p, NEW j \in DOMAIN p, p[j][1] = "pong", i < j PROVE p[i][2] < p[j][2]
      <4>1. j \in DOMAIN out /\ i \in DOMAIN out /\ p[i] = out[i] /\ p[j] = out[j]
        BY <3>2, <2>3, <2>4
      <4> QED
        BY <3>2, <4>1, <1>3 DEF Ordered
    <3> QED
      BY <3>1, <3>2 DEF Ordered
  <2>8. \A i \in DOMAIN p : p[i][1] = "pong" => p[i][2] <= r' /\ PingNext(p[i][2])
    BY <1>1, <2>3, <2>4
  <2>9. WriterOK' /\ CloseOnce'
    BY <1>0, <1>5, <2>3, <2>4, <2>5 DEF WriterOK, CloseOnce, HasClose
  <2>10. ~ writeFailed => \A n \in 1..r' : PingNext(n) => HasPong(p, n)
    BY <1>2, <2>3
  <2> QED
    BY <1>5, <2>4, <2>5, <2>7, <2>8, <2>9, <2>10 DEF OneCloseAndAllPongs, PingNext, IsPing, Ordered, HasClose, HasPong
<1>6. CASE ~ closeSent /\ closeSent' = TRUE /\ writeFailed' = TRUE /\ out' = out
  <2>1. WriterOK' /\ CloseOnce'
    BY <1>0, <1>6 DEF WriterOK, CloseOnce
  <2> QED
    BY <1>1, <1>3, <1>6, <2>1 DEF OneCloseAndAllPongs, PingNext, IsPing, Ordered
<1>7. CASE ~ closeSent /\ closeSent' = closeSent /\ writeFailed' = TRUE /\ out' = out
  <2>1. WriterOK' /\ CloseOnce'
    BY <1>0, <1>7 DEF WriterOK, CloseOnce
  <2> QED
    BY <1>1, <1>3, <1>7, <2>1 DEF OneCloseAndAllPongs, PingNext, IsPing, Ordered
<1> QED
  BY <1>4, <1>5, <1>6, <1>7 DEF WriteControl, writer

\* A ping has been read and is answered.
LEMMA PongKeepsWriter ==
  ASSUME TypeOK, CloseOnce, OneCloseAndAllPongs, NEW m, m = r', WriteControl(<<"pong", m>>),
         SameUpTo(r'), m = r + 1, m \in 1..MaxFrames, IsPing(m), ~ closeSent, rpc' \in {"next", "read"}
  PROVE  WriterOK' /\ CloseOnce' /\ OneCloseAndAllPongs'
<1>0. r \in Nat /\ r <= m /\ m \in Nat /\ out \in Seq(Written) /\ closeSent \in BOOLEAN /\ writeFailed \in BOOLEAN
  <2>1. r \in Nat /\ out \in Seq(Written) /\ closeSent \in BOOLEAN /\ writeFailed \in BOOLEAN
    BY DEF TypeOK
  <2> QED
    BY <2>1
<1>1. \A i \in DOMAIN out : out[i][1] = "pong" => out[i][2] <= m /\ PingNext(out[i][2])
  BY <1>0, PongsStay
<1>2. ASSUME ~ writeFailed, NEW n \in 1..r, PingNext(n) PROVE HasPong(out, n)
  <2>1. n \in 1..r'
    BY <1>0
  <2> QED
    BY <1>2, <2>1, PingsStay, WrittenParts
<1>3. Ordered(out) /\ \A i \in DOMAIN out : out[i][1] # "close"
  BY WrittenParts DEF CloseOnce
<1>4. CASE closeSent' = FALSE /\ out' = Append(out, <<"pong", m>>) /\ writeFailed' = writeFailed
  <2>1. PICK w \in Written : w = <<"pong", m>>
    BY DEF Written
  <2>2. PICK p : p = Append(out, w)
    OBVIOUS
  <2>3. /\ p \in Seq(Written) /\ DOMAIN p = 1..(Len(out) + 1) /\ Len(p) = Len(out) + 1 /\ Len(out) \in Nat
        /\ p[Len(out) + 1] = w /\ DOMAIN out = 1..Len(out)
        /\ \A i \in 1..Len(out) : p[i] = out[i]
        /\ \A i \in DOMAIN p : i \in 1..Len(out) \/ i = Len(out) + 1
        /\ \A n : HasPong(out, n) => HasPong(p, n)
    <3>1. out \in Seq(Written)
      BY <1>0
    <3>2. /\ p \in Seq(Written) /\ Len(p) = Len(out) + 1 /\ p[Len(out) + 1] = w
          /\ \A i \in 1..Len(out) : p[i] = out[i]
      BY <2>2, <3>1, AppendProperties
    <3>3. Len(out) \in Nat /\ DOMAIN out = 1..Len(out) /\ DOMAIN p = 1..(Len(out) + 1)
      BY <3>1, <3>2
    <3>4. \A i \in DOMAIN p : i \in 1..Len(out) \/ i = Len(out) + 1
      BY <3>3
    <3>5. \A n : HasPong(out, n) => HasPong(p, n)
      BY <3>2, <3>3 DEF HasPong
    <3> QED
      BY <3>2, <3>3, <3>4, <3>5
  <2>4. w[1] = "pong" /\ w[2] = m /\ out' = p
    BY <1>4, <2>1, <2>2
  <2>5. \A i \in DOMAIN p : p[i][1] # "close"
    BY <2>3, <2>4, <1>3
  <2>6. Ordered(p)
    <3>1. ASSUME NEW i \in DOMAIN p, NEW j \in DOMAIN p, p[j][1] = "pong", i < j PROVE p[i][2] < p[j][2]
      <4>1. i \in DOMAIN out /\ p[i] = out[i]
        BY <3>1, <2>3
      <4>2. CASE j \in DOMAIN out
        BY <3>1, <4>1, <4>2, <2>3, <1>3 DEF Ordered
      <4>3. CASE j = Len(out) + 1
        <5>1. out[i] \in Written /\ out[i][1] # "close"
          BY <4>1, <1>0, <1>3
        <5>2. out[i][1] = "pong" /\ out[i][2] \in 1..MaxFrames
          BY <5>1 DEF Written
        <5>3. out[i][2] <= r
          BY <4>1, <5>2 DEF OneCloseAndAllPongs
        <5> QED
          BY <4>1, <4>3, <5>2, <5>3, <2>3, <2>4, <1>0, WebSocketAssumption
      <4> QED
        BY <4>2, <4>3, <2>3
    <3> QED
      BY <3>1, <2>5 DEF Ordered
  <2>7. PingNext(m)
    <3>1. m \in 1..r'
      BY <1>0
    <3> QED
      BY <3>1, PingsStay
  <2>8. \A i \in DOMAIN p : p[i][1] = "pong" => p[i][2] <= m /\ PingNext(p[i][2])
    BY <1>0, <1>1, <2>3, <2>4, <2>7
  <2>9. ASSUME ~ writeFailed, NEW n \in 1..m, PingNext(n) PROVE HasPong(p, n)
    <3>1. CASE n = m
      BY <3>1, <2>1, <2>3 DEF HasPong
    <3>2. CASE n # m
      <4>1. n \in 1..r
        BY <3>2, <1>0
      <4> QED
        BY <4>1, <1>2, <2>3, <2>9
    <3> QED
      BY <3>1, <3>2
  <2>10. WriterOK' /\ CloseOnce'
    BY <1>0, <1>4, <2>3, <2>4, <2>5 DEF WriterOK, CloseOnce
  <2>11. rpc' # "stopped"
    OBVIOUS
  <2> QED
    BY <1>4, <2>4, <2>6, <2>8, <2>9, <2>10, <2>11 DEF OneCloseAndAllPongs, PingNext, IsPing, Ordered, HasPong
<1>5. CASE closeSent' = FALSE /\ writeFailed' = TRUE /\ out' = out
  <2>1. WriterOK' /\ CloseOnce'
    BY <1>0, <1>3, <1>5 DEF WriterOK, CloseOnce
  <2> QED
    BY <1>1, <1>3, <1>5, <2>1 DEF OneCloseAndAllPongs, PingNext, IsPing, Ordered
<1> QED
  BY <1>0, <1>4, <1>5 DEF WriteControl

-----------------------------------------------------------------------------
(* The goroutine that reads.                                               *)

ReaderOK == /\ rpc \in {"next", "read", "stopping", "stopped"} /\ r \in 0..Len(frames)
            /\ readRemaining \in 0..MaxLen /\ readFinal \in BOOLEAN /\ readErr \in Errors
            /\ buf \in Message /\ got \in Seq(Message)

\* ConnInv by actor.
LEMMA ConnParts ==
  ASSUME ConnInv
  PROVE  /\ TypeOK /\ NetOK /\ ReaderOK /\ WriterOK /\ NothingSkipped /\ AtFrameEnd /\ InPayload /\ AfterError
         /\ CloseOnce /\ OneCloseAndAllPongs /\ r \in Nat
<1>1. TypeOK /\ Heard
  BY DEF ConnInv
<1>2. NetOK
  BY <1>1 DEF TypeOK, NetOK
<1>3. ReaderOK /\ r \in Nat
  BY <1>1 DEF TypeOK, ReaderOK
<1>4. WriterOK
  BY <1>1 DEF TypeOK, WriterOK
<1> QED
  BY <1>1, <1>2, <1>3, <1>4 DEF ConnInv

\* At first nothing has been said, read or written.
LEMMA InitConnInv == Init => ConnInv
<1> SUFFICES ASSUME Init PROVE ConnInv
  OBVIOUS
<1>1. PICK s0 : s0 = [msgs |-> <<>>, open |-> FALSE, text |-> <<>>, over |-> FALSE]
  OBVIOUS
<1>2. s0 \in Said /\ s0.msgs = <<>> /\ Between(s0)
  BY <1>1 DEF Said, Message, Between
<1>3. said = <<s0>> /\ frames = <<>> /\ DOMAIN frames = {} /\ r = 0 /\ said[1] = s0 /\ Until(r) = s0
  BY <1>1 DEF Init, Until
<1>4. TypeOK
  <2>1. /\ frames \in Seq(Frame) /\ Len(frames) = 0 /\ said \in Seq(Said) /\ Len(said) = 1
    BY <1>2, <1>3
  <2>2. /\ buf \in Message /\ got \in Seq(Message) /\ out \in Seq(Written)
    BY DEF Init, Message
  <2>3. readFinal \in BOOLEAN /\ closeSent \in BOOLEAN /\ writeFailed \in BOOLEAN
    BY DEF Init
  <2>4. 0 \in 0..Len(frames) /\ 0 \in 0..MaxLen /\ Len(frames) <= MaxFrames /\ Len(said) = Len(frames) + 1
    BY <2>1, WebSocketAssumption
  <2>5. ended = "no" /\ rpc = "next" /\ readErr = "nil" /\ readRemaining = 0 /\ "nil" \in Errors
    BY DEF Init, Errors
  <2> QED
    BY <1>3, <2>1, <2>2, <2>3, <2>4, <2>5 DEF TypeOK
<1>5. Heard
  BY <1>3 DEF Heard
<1>6. NothingSkipped /\ AtFrameEnd /\ InPayload /\ AfterError
  BY <1>2, <1>3 DEF Init, NothingSkipped, AtFrameEnd, InPayload, AfterError
<1>7. CloseOnce /\ OneCloseAndAllPongs
  BY <1>3 DEF Init, CloseOnce, OneCloseAndAllPongs
<1> QED
  BY <1>4, <1>5, <1>6, <1>7 DEF ConnInv

\* The network changes.
LEMMA PeerKeepsInv ==
  ASSUME ConnInv, NetOK', SameUpTo(r), UNCHANGED <<reader, writer>>
  PROVE  ConnInv'
<1>0. UNCHANGED reader /\ UNCHANGED writer
  OBVIOUS
<1>1. UNCHANGED <<rpc, r, readRemaining, readFinal, readErr, buf, got>>
  BY <1>0 DEF reader
<1>2. NothingSkipped' /\ AtFrameEnd' /\ InPayload' /\ AfterError'
  BY <1>0, ConnParts, ReaderStays
<1>3. WriterOK' /\ CloseOnce' /\ OneCloseAndAllPongs'
  <2>1. SameUpTo(r') /\ r' \in Nat /\ NoPing
    BY <1>1, ConnParts DEF NoPing
  <2>2. (closeSent => rpc' \in {"stopping", "stopped"}) /\ (rpc' = "stopped" => rpc = "stopped")
    BY <1>1, ConnParts DEF CloseOnce
  <2> QED
    BY <1>0, <2>1, <2>2, ConnParts, SilenceKeepsWriter
<1>4. ReaderOK'
  BY <1>1, ConnParts DEF ReaderOK, SameUpTo
<1> QED
  BY <1>2, <1>3, <1>4 DEF ConnInv, TypeOK, NetOK, ReaderOK, WriterOK

\* Frames arrive and the connection ends.
LEMMA PeersKeepInv ==
  ASSUME ConnInv, PeerSend \/ PeerCut \/ PeerEnd
  PROVE  ConnInv'
<1>0. NetOK /\ r \in 0..Len(frames)
  BY ConnParts DEF ReaderOK
<1>1. ASSUME NEW f \in Frame, Send(f), ended' \in {"no", "eof", "reset"} PROVE ConnInv'
  <2>1. NetOK' /\ SameUpTo(r)
    BY <1>0, <1>1, SendKeepsNet
  <2>2. UNCHANGED <<reader, writer>>
    BY <1>1 DEF Send
  <2> QED
    BY <2>1, <2>2, PeerKeepsInv
<1>2. CASE PeerSend \/ PeerCut
  <2>1. PICK f \in Frame : Send(f) /\ ended' \in {"no", "eof", "reset"}
    BY <1>2, <1>0 DEF PeerSend, PeerCut, NetOK
  <2> QED
    BY <2>1, <1>1
<1>3. CASE PeerEnd
  <2>1. UNCHANGED <<frames, said>> /\ ended' \in {"no", "eof", "reset"} /\ UNCHANGED <<reader, writer>>
    BY <1>3 DEF PeerEnd
  <2>2. NetOK' /\ SameUpTo(r)
    BY <1>0, <2>1 DEF NetOK, Heard, SameUpTo
  <2> QED
    BY <2>1, <2>2, PeerKeepsInv
<1> QED
  BY <1>2, <1>3

\* The goroutine fails, with every message that was complete returned.
LEMMA FailKeepsInv ==
  ASSUME ConnInv, NEW e \in Errors, e # "nil", Fail(e), NEW m \in Nat, r' = m, NetOK', SameUpTo(m),
         got = said[m + 1].msgs,
         WriterOK', CloseOnce', OneCloseAndAllPongs'
  PROVE  ConnInv'
<1>1. /\ readErr' = e /\ rpc' = "stopping" /\ UNCHANGED <<readRemaining, readFinal, buf, got>>
  BY DEF Fail
<1>2. ReaderOK'
  <2>1. r' \in 0..Len(frames')
    BY DEF SameUpTo
  <2> QED
    BY <1>1, <2>1, ConnParts DEF ReaderOK
<1>3. said'[m + 1] = said[m + 1]
  <2>1. m + 1 \in 1..(m + 1)
    OBVIOUS
  <2> QED
    BY <2>1 DEF SameUpTo
<1>4. Until(r)' = said[m + 1]
  BY <1>3 DEF Until
<1>5. NothingSkipped' /\ AtFrameEnd' /\ InPayload'
  BY <1>1 DEF NothingSkipped, AtFrameEnd, InPayload
<1>6. AfterError'
  BY <1>1, <1>4 DEF AfterError
<1> QED
  BY <1>2, <1>5, <1>6 DEF ConnInv, TypeOK, NetOK, ReaderOK, WriterOK

\* What holds when the next header is read.
LEMMA AdvanceFacts ==
  ASSUME ConnInv, Advancing
  PROVE  /\ ~ Until(r).over /\ got = Until(r).msgs /\ rpc \in {"next", "read"}
         /\ readFinal => Between(Until(r)) /\ rpc = "next"
         /\ ~ readFinal => Until(r).open /\ Until(r).text = buf /\ rpc = "read"
         /\ ~ closeSent
<1>1. rpc \in {"next", "read"} /\ readErr = "nil" /\ readRemaining = 0 /\ (rpc = "read" => ~ readFinal)
  BY DEF Advancing
<1>2. ~ closeSent
  BY <1>1, ConnParts DEF CloseOnce
<1>3. CASE rpc = "next"
  BY <1>1, <1>2, <1>3, ConnParts DEF NothingSkipped, Between
<1>4. CASE rpc = "read"
  BY <1>1, <1>2, <1>4, ConnParts DEF AtFrameEnd
<1> QED
  BY <1>1, <1>3, <1>4

\* The frame whose header is read, and what was said before it.
LEMMA FrameFacts ==
  ASSUME ConnInv, Advancing, r < Len(frames), NEW k, k = r + 1
  PROVE  /\ k \in 1..Len(frames) /\ k \in 1..MaxFrames /\ k \in Nat /\ frames[k] \in Frame
         /\ said[k] \in Said /\ Until(r) = said[k] /\ said[k + 1] = Hear(frames[k], k, said[k])
         /\ k \in 0..Len(frames)
<1>0. NetOK /\ r \in Nat /\ Len(frames) \in Nat
  BY ConnParts, NetShapes
<1>1. k \in 1..Len(frames) /\ k \in Nat /\ k \in 0..Len(frames)
  BY <1>0
<1>2. Until(r) = said[k]
  BY DEF Until
<1>3. said[k + 1] = Hear(frames[k], k, said[k])
  BY <1>0, <1>1, NetShapes DEF NetOK, Heard
<1> QED
  BY <1>0, <1>1, <1>2, <1>3, NetShapes

\* A message has no more units than its buffer when none of the payload is read.
LEMMA DataFrameKeepsInv ==
  ASSUME ConnInv, Advancing, r < Len(frames), r' = r + 1, DataFrame(frames[r + 1])
  PROVE  ConnInv'
<1>0. PICK k : k = r + 1
  OBVIOUS
<1>1. /\ k \in 1..Len(frames) /\ k \in 1..MaxFrames /\ k \in Nat /\ frames[k] \in Frame
      /\ said[k] \in Said /\ Until(r) = said[k] /\ said[k + 1] = Hear(frames[k], k, said[k])
      /\ k \in 0..Len(frames) /\ r' = k
  BY <1>0, FrameFacts
<1>2. PICK f : f = frames[k]
  OBVIOUS
<1>3. PICK s : s = said[k]
  OBVIOUS
<1>4. /\ f.op = IF readFinal THEN "text" ELSE "cont"
      /\ readRemaining' = f.len /\ readFinal' = f.fin /\ rpc' = "read"
      /\ buf' = IF f.op = "text" THEN <<>> ELSE buf
      /\ UNCHANGED <<readErr, got>> /\ UNCHANGED writer /\ UNCHANGED network
  BY <1>0, <1>2 DEF DataFrame
<1>5. NetOK' /\ SameUpTo(r')
  BY <1>1, <1>4, ConnParts, NetStays
<1>6. WriterOK' /\ CloseOnce' /\ OneCloseAndAllPongs'
  <2>1. ~ IsPing(r + 1)
    BY <1>0, <1>2, <1>4 DEF IsPing
  <2>2. NoPing /\ r' \in Nat
    BY <2>1, <1>0, <1>1 DEF NoPing
  <2>3. (closeSent => rpc' \in {"stopping", "stopped"}) /\ (rpc' = "stopped" => rpc = "stopped")
    BY <1>4, AdvanceFacts
  <2> QED
    BY <1>4, <1>5, <2>2, <2>3, ConnParts, SilenceKeepsWriter
<1>7. ~ s.over /\ got = s.msgs /\ Fits(f, s) /\ buf' = s.text
  <2>1. readFinal \in BOOLEAN
    BY ConnParts DEF ReaderOK
  <2>2. CASE readFinal
    BY <2>2, <1>1, <1>3, <1>4, AdvanceFacts DEF Fits, Between
  <2>3. CASE ~ readFinal
    BY <2>3, <1>1, <1>3, <1>4, AdvanceFacts DEF Fits
  <2> QED
    BY <2>2, <2>3
<1>8. f \in Frame /\ s \in Said /\ s.text \in Message /\ f.len \in 0..MaxLen /\ f.fin \in BOOLEAN
      /\ f.arr \in 0..MaxLen /\ f.arr <= f.len
  BY <1>1, <1>2, <1>3 DEF Frame, Said
<1>9. s.text \o Payload(k, 0) = s.text
  BY <1>1, <1>8, PayloadEmpty
<1>10. ReaderOK'
  <2>1. r' \in 0..Len(frames')
    BY <1>5 DEF SameUpTo
  <2>2. readErr \in Errors /\ got \in Seq(Message)
    BY ConnParts DEF ReaderOK
  <2> QED
    BY <1>4, <1>7, <1>8, <2>1, <2>2 DEF ReaderOK
<1>11. readErr' = "nil"
  BY <1>4 DEF Advancing
<1>12. frames'[k] = f /\ said'[k] = s /\ said'[k + 1] = Hear(f, k, s) /\ Until(r)' = said'[k + 1]
  <2>1. UNCHANGED <<frames, said>>
    BY <1>4 DEF network
  <2> QED
    BY <2>1, <1>1, <1>2, <1>3 DEF Until
<1>13. AtFrameEnd'
  <2> SUFFICES ASSUME f.len = 0
               PROVE  /\ readFinal' => Until(r)'.msgs = Append(got', buf') /\ Between(Until(r)')
                      /\ ~ readFinal' => /\ Until(r)'.msgs = got' /\ Until(r)'.text = buf'
                                         /\ Until(r)'.open /\ ~ Until(r)'.over
    BY <1>4 DEF AtFrameEnd, Between
  <2>1. f.arr = f.len
    BY <1>8
  <2>2. f \in Frame /\ s \in Said /\ k \in 1..MaxFrames /\ ~ s.over /\ Fits(f, s)
    BY <1>1, <1>7, <1>8
  <2>3. buf' = s.text \o Payload(k, f.len)
    BY <1>7, <1>9
  <2>4. FrameSaid(f, k, s, buf')
    BY <2>1, <2>2, <2>3, HearData
  <2> QED
    BY <2>4, <1>4, <1>7, <1>12 DEF FrameSaid
<1>14. InPayload'
  <2> SUFFICES ASSUME f.len > 0
               PROVE  /\ r' > 0 /\ readRemaining' <= frames'[r'].len
                      /\ frames'[r'].len - readRemaining' <= frames'[r'].arr
                      /\ frames'[r'].op = IF said'[r'].open THEN "cont" ELSE "text"
                      /\ readFinal' = frames'[r'].fin
                      /\ ~ said'[r'].over /\ said'[r'].msgs = got'
                      /\ buf' = said'[r'].text \o Payload(r', frames'[r'].len - readRemaining')
    BY <1>4 DEF InPayload, Offset, Payload
  <2>1. f.len - f.len = 0 /\ f.len <= f.len /\ 0 <= f.arr /\ k > 0
    BY <1>1, <1>8, WebSocketAssumption
  <2> QED
    BY <2>1, <1>1, <1>4, <1>7, <1>9, <1>12 DEF Fits
<1>15. NothingSkipped' /\ AfterError'
  BY <1>4, <1>11 DEF NothingSkipped, AfterError
<1> QED
  BY <1>5, <1>6, <1>10, <1>13, <1>14, <1>15 DEF ConnInv, TypeOK, NetOK, ReaderOK, WriterOK

\* A frame that ends the connection: a protocol error, a close frame, a control frame
\* that is cut off.
LEMMA EndingFrameKeepsInv ==
  ASSUME ConnInv, Advancing, r < Len(frames), r' = r + 1,
         \/ ProtocolError(frames[r + 1]) \/ Close(frames[r + 1]) \/ CutControl(frames[r + 1])
  PROVE  ConnInv'
<1>0. PICK k : k = r + 1
  OBVIOUS
<1>1. /\ k \in 1..Len(frames) /\ k \in 1..MaxFrames /\ k \in Nat /\ frames[k] \in Frame
      /\ said[k] \in Said /\ Until(r) = said[k] /\ said[k + 1] = Hear(frames[k], k, said[k])
      /\ k \in 0..Len(frames) /\ r' = k
  BY <1>0, FrameFacts
<1>2. PICK f : f = frames[k]
  OBVIOUS
<1>3. PICK s : s = said[k]
  OBVIOUS
<1>4. ProtocolError(f) \/ Close(f) \/ CutControl(f)
  BY <1>0, <1>2
<1>5. f \in Frame /\ s \in Said /\ readFinal \in BOOLEAN
  BY <1>1, <1>2, <1>3, ConnParts DEF ReaderOK
<1>6. f.arr < f.len \/ ~ (Fits(f, s) \/ f.op \in {"ping", "pong"})
  <2>1. CASE ProtocolError(f)
    <3>1. f.op = "bad" \/ (f.op = "text" /\ ~ readFinal) \/ (f.op = "cont" /\ readFinal)
      BY <2>1 DEF ProtocolError
    <3>2. readFinal => ~ s.open
      BY <1>1, <1>3, AdvanceFacts DEF Between
    <3>3. ~ readFinal => s.open
      BY <1>1, <1>3, AdvanceFacts
    <3> QED
      BY <3>1, <3>2, <3>3 DEF Fits
  <2>2. CASE Close(f)
    BY <2>2 DEF Close, Fits
  <2>3. CASE CutControl(f)
    BY <2>3 DEF CutControl
  <2> QED
    BY <1>4, <2>1, <2>2, <2>3
<1>7. got = said[k + 1].msgs
  <2>1. Hear(f, k, s).msgs = s.msgs
    BY <1>1, <1>5, <1>6, HearEnds
  <2> QED
    BY <2>1, <1>1, <1>2, <1>3, AdvanceFacts
<1>8. PICK e \in Errors : e # "nil" /\ Fail(e)
  <2>1. CASE ProtocolError(f)
    BY <2>1 DEF ProtocolError, Errors
  <2>2. CASE Close(f)
    <3>1. PICK e : e = CASE f.op = "closeErr" -> "close"
                         [] f.op = "close" /\ rpc = "next" -> "EOF"
                         [] f.op = "close" /\ rpc = "read" -> "unexpectedEOF"
      OBVIOUS
    <3>2. f.op \in {"close", "closeErr"} /\ rpc \in {"next", "read"}
      BY <2>2, AdvanceFacts DEF Close
    <3>3. e \in {"close", "EOF", "unexpectedEOF"}
      BY <3>1, <3>2
    <3>4. Fail(e)
      BY <2>2, <3>1 DEF Close
    <3> QED
      BY <3>3, <3>4 DEF Errors
  <2>3. CASE CutControl(f)
    BY <2>3 DEF CutControl, EndError, Errors
  <2> QED
    BY <1>4, <2>1, <2>2, <2>3
<1>9. rpc' = "stopping" /\ rpc # "stopped" /\ ~ closeSent
  BY <1>8, AdvanceFacts DEF Fail
<1>10. NoPing
  <2>1. ~ IsPing(k)
    <3>1. f.arr < f.len => f.arr # f.len
      BY <1>5, WebSocketAssumption DEF Frame
    <3> QED
      BY <3>1, <1>2, <1>6 DEF IsPing
  <2> QED
    BY <2>1, <1>0 DEF NoPing
<1>11. CASE WriteControl(<<"close", 0>>)
  <2>1. NetOK' /\ SameUpTo(r')
    BY <1>1, <1>11, ConnParts, WriteKeepsNet
  <2>2. WriterOK' /\ CloseOnce' /\ OneCloseAndAllPongs'
    <3>1. r' \in Nat /\ rpc' \in {"stopping", "stopped"}
      BY <1>1, <1>9
    <3> QED
      BY <1>10, <1>11, <2>1, <3>1, ConnParts, CloseKeepsWriter
  <2>3. SameUpTo(k)
    BY <2>1, <1>1
  <2> QED
    BY <1>1, <1>7, <1>8, <2>1, <2>2, <2>3, FailKeepsInv
<1>12. CASE UNCHANGED writer /\ UNCHANGED network
  <2>1. NetOK' /\ SameUpTo(r')
    BY <1>1, <1>12, ConnParts, NetStays
  <2>2. WriterOK' /\ CloseOnce' /\ OneCloseAndAllPongs'
    <3>1. r' \in Nat /\ (closeSent => rpc' \in {"stopping", "stopped"}) /\ (rpc' = "stopped" => rpc = "stopped")
      BY <1>1, <1>9
    <3> QED
      BY <1>10, <1>12, <2>1, <3>1, ConnParts, SilenceKeepsWriter
  <2>3. SameUpTo(k)
    BY <2>1, <1>1
  <2> QED
    BY <1>1, <1>7, <1>8, <2>1, <2>2, <2>3, FailKeepsInv
<1> QED
  BY <1>4, <1>11, <1>12 DEF ProtocolError, Close, CutControl

\* A ping or a pong, between two messages or within one.
LEMMA PingPongKeepsInv ==
  ASSUME ConnInv, Advancing, r < Len(frames), r' = r + 1, Ping(frames[r + 1]) \/ Pong(frames[r + 1])
  PROVE  ConnInv'
<1>0. PICK k : k = r + 1
  OBVIOUS
<1>1. /\ k \in 1..Len(frames) /\ k \in 1..MaxFrames /\ k \in Nat /\ frames[k] \in Frame
      /\ said[k] \in Said /\ Until(r) = said[k] /\ said[k + 1] = Hear(frames[k], k, said[k])
      /\ k \in 0..Len(frames) /\ r' = k
  BY <1>0, FrameFacts
<1>2. PICK f : f = frames[k]
  OBVIOUS
<1>3. PICK s : s = said[k]
  OBVIOUS
<1>4. Ping(f) \/ Pong(f)
  BY <1>0, <1>2
<1>5. f.op \in {"ping", "pong"} /\ f.arr = f.len /\ UNCHANGED <<rpc, readRemaining, readFinal, readErr, buf, got>>
  BY <1>4 DEF Ping, Pong
<1>6. said[k + 1] = Until(r)
  <2>1. f \in Frame /\ s \in Said /\ ~ s.over
    BY <1>1, <1>2, <1>3, AdvanceFacts
  <2>2. Hear(f, k, s) = s
    BY <2>1, <1>1, <1>5, HearNothing
  <2> QED
    BY <2>2, <1>1, <1>2, <1>3
<1>7. rpc \in {"next", "read"} /\ ~ closeSent /\ readErr = "nil" /\ readRemaining = 0
  BY AdvanceFacts DEF Advancing
<1>8. NetOK' /\ SameUpTo(r') /\ WriterOK' /\ CloseOnce' /\ OneCloseAndAllPongs'
  <2>1. CASE Ping(f)
    <3>1. WriteControl(<<"pong", r'>>)
      BY <2>1 DEF Ping
    <3>2. WriteControl(<<"pong", k>>)
      BY <3>1, <1>1 DEF WriteControl
    <3>3. NetOK' /\ SameUpTo(r')
      BY <3>2, <1>1, ConnParts, WriteKeepsNet
    <3>4. IsPing(k) /\ rpc' \in {"next", "read"}
      BY <2>1, <1>2, <1>5, <1>7 DEF IsPing, Ping
    <3>5. WriterOK' /\ CloseOnce' /\ OneCloseAndAllPongs'
      BY <1>0, <1>1, <1>7, <3>2, <3>3, <3>4, ConnParts, PongKeepsWriter
    <3> QED
      BY <3>3, <3>5
  <2>2. CASE Pong(f)
    <3>1. UNCHANGED writer /\ UNCHANGED network /\ f.op = "pong"
      BY <2>2 DEF Pong
    <3>2. NetOK' /\ SameUpTo(r')
      BY <3>1, <1>1, ConnParts, NetStays
    <3>3. NoPing /\ r' \in Nat
      BY <3>1, <1>0, <1>1, <1>2 DEF NoPing, IsPing
    <3>4. (closeSent => rpc' \in {"stopping", "stopped"}) /\ (rpc' = "stopped" => rpc = "stopped")
      BY <1>5, <1>7
    <3> QED
      BY <3>1, <3>2, <3>3, <3>4, ConnParts, SilenceKeepsWriter
  <2> QED
    BY <1>4, <2>1, <2>2
<1>9. Until(r)' = Until(r)
  <2>1. SameUpTo(k) /\ k + 1 \in 1..(k + 1)
    BY <1>1, <1>8
  <2>2. said'[k + 1] = said[k + 1]
    BY <2>1 DEF SameUpTo
  <2> QED
    BY <2>2, <1>1, <1>6 DEF Until
<1>10. NothingSkipped' /\ AtFrameEnd'
  <2>1. NothingSkipped /\ AtFrameEnd
    BY ConnParts
  <2> QED
    BY <2>1, <1>5, <1>9 DEF NothingSkipped, AtFrameEnd
<1>11. InPayload' /\ AfterError'
  <2>1. readRemaining' = 0 /\ readErr' = "nil" /\ rpc' \in {"next", "read"}
    BY <1>5, <1>7
  <2> QED
    BY <2>1 DEF InPayload, AfterError
<1>12. ReaderOK'
  <2>1. r' \in 0..Len(frames')
    BY <1>8 DEF SameUpTo
  <2> QED
    BY <1>5, <2>1, ConnParts DEF ReaderOK
<1> QED
  BY <1>8, <1>10, <1>11, <1>12 DEF ConnInv, TypeOK, NetOK, ReaderOK, WriterOK

\* advanceFrame().
LEMMA AdvanceKeepsInv == ASSUME ConnInv, advanceFrame PROVE ConnInv'
<1>1. /\ Advancing /\ r < Len(frames) /\ r' = r + 1
      /\ LET f == frames[r + 1]
         IN \/ DataFrame(f) \/ ProtocolError(f) \/ Ping(f) \/ Pong(f) \/ Close(f) \/ CutControl(f)
  BY DEF advanceFrame
<1>2. CASE DataFrame(frames[r + 1])
  BY <1>1, <1>2, DataFrameKeepsInv
<1>3. CASE ProtocolError(frames[r + 1]) \/ Close(frames[r + 1]) \/ CutControl(frames[r + 1])
  BY <1>1, <1>3, EndingFrameKeepsInv
<1>4. CASE Ping(frames[r + 1]) \/ Pong(frames[r + 1])
  BY <1>1, <1>4, PingPongKeepsInv
<1> QED
  BY <1>1, <1>2, <1>3, <1>4

\* A step that reads no header and writes nothing.
LEMMA QuietStep ==
  ASSUME ConnInv, rpc \in {"next", "read"}, rpc' # "stopped", UNCHANGED <<r, writer, network>>
  PROVE  /\ NetOK' /\ SameUpTo(r) /\ WriterOK' /\ CloseOnce' /\ OneCloseAndAllPongs'
         /\ r' = r /\ frames' = frames /\ said' = said /\ r' \in 0..Len(frames') /\ Until(r)' = Until(r)
<1>1. UNCHANGED writer /\ UNCHANGED network /\ r' = r
  OBVIOUS
<1>2. frames' = frames /\ said' = said
  BY <1>1 DEF network
<1>3. NetOK' /\ SameUpTo(r) /\ r \in 0..Len(frames)
  BY <1>1, ConnParts, NetStays DEF ReaderOK
<1>4. WriterOK' /\ CloseOnce' /\ OneCloseAndAllPongs'
  <2>1. SameUpTo(r') /\ r' \in Nat /\ NoPing
    BY <1>1, <1>3, ConnParts DEF NoPing
  <2>2. (closeSent => rpc' \in {"stopping", "stopped"}) /\ (rpc' = "stopped" => rpc = "stopped")
    BY ConnParts DEF CloseOnce
  <2> QED
    BY <1>1, <2>1, <2>2, ConnParts, SilenceKeepsWriter
<1> QED
  BY <1>1, <1>2, <1>3, <1>4 DEF Until

\* The connection ends where a header should come.
LEMMA NoHeaderKeepsInv == ASSUME ConnInv, NoHeader PROVE ConnInv'
<1>1. Advancing /\ Fail(EndError) /\ UNCHANGED <<r, writer, network>>
  BY DEF NoHeader
<1>2. rpc \in {"next", "read"} /\ rpc' # "stopped" /\ got = Until(r).msgs
  BY <1>1, AdvanceFacts DEF Fail
<1>3. PICK e \in Errors : e # "nil" /\ Fail(e)
  BY <1>1 DEF EndError, Errors
<1>4. /\ NetOK' /\ SameUpTo(r) /\ WriterOK' /\ CloseOnce' /\ OneCloseAndAllPongs' /\ r' = r
  BY <1>1, <1>2, QuietStep
<1>5. r \in Nat /\ got = said[r + 1].msgs
  BY <1>2, ConnParts DEF Until
<1> QED
  BY <1>3, <1>4, <1>5, FailKeepsInv

\* A message is returned.
LEMMA EndOfMessageKeepsInv == ASSUME ConnInv, EndOfMessage PROVE ConnInv'
<1>1. /\ rpc = "read" /\ readErr = "nil" /\ readRemaining = 0 /\ readFinal
      /\ got' = Append(got, buf) /\ rpc' = "next"
      /\ UNCHANGED <<readRemaining, readFinal, readErr, buf>> /\ UNCHANGED <<r, writer, network>>
  BY DEF EndOfMessage
<1>2. /\ NetOK' /\ SameUpTo(r) /\ WriterOK' /\ CloseOnce' /\ OneCloseAndAllPongs' /\ r' = r
      /\ r' \in 0..Len(frames') /\ Until(r)' = Until(r)
  BY <1>1, QuietStep
<1>3. Until(r).msgs = Append(got, buf) /\ Between(Until(r))
  BY <1>1, ConnParts DEF AtFrameEnd
<1>4. NothingSkipped'
  BY <1>1, <1>2, <1>3 DEF NothingSkipped, Between
<1>5. AtFrameEnd' /\ InPayload' /\ AfterError'
  BY <1>1 DEF AtFrameEnd, InPayload, AfterError
<1>6. ReaderOK'
  <2>1. buf \in Message /\ got \in Seq(Message)
    BY ConnParts DEF ReaderOK
  <2>2. Append(got, buf) \in Seq(Message)
    BY <2>1
  <2> QED
    BY <1>1, <1>2, <2>2, ConnParts DEF ReaderOK
<1> QED
  BY <1>2, <1>4, <1>5, <1>6 DEF ConnInv, TypeOK, NetOK, ReaderOK, WriterOK

\* What holds within the payload of a frame.
LEMMA PayloadFacts ==
  ASSUME ConnInv, rpc = "read", readRemaining > 0, NEW f, f = frames[r], NEW s, s = said[r]
  PROVE  /\ r \in 1..MaxFrames /\ r \in Nat /\ f \in Frame /\ s \in Said
         /\ f.len \in 0..MaxLen /\ f.arr \in 0..MaxLen /\ f.arr <= f.len
         /\ readRemaining \in 1..f.len /\ f.len - readRemaining <= f.arr
         /\ Fits(f, s) /\ readFinal = f.fin /\ ~ s.over /\ s.msgs = got
         /\ buf = s.text \o Payload(r, f.len - readRemaining) /\ s.text \in Message
         /\ Until(r) = Hear(f, r, s)
<1>1. /\ r > 0 /\ readRemaining <= f.len /\ f.len - readRemaining <= f.arr
      /\ f.op = IF s.open THEN "cont" ELSE "text"
      /\ readFinal = f.fin /\ ~ s.over /\ s.msgs = got
      /\ buf = s.text \o Payload(r, f.len - readRemaining)
  BY ConnParts DEF InPayload, Offset
<1>2. NetOK /\ r \in 0..Len(frames) /\ r \in Nat /\ readRemaining \in 0..MaxLen
  BY ConnParts DEF ReaderOK
<1>3. r \in 1..Len(frames) /\ r \in 1..(Len(frames) + 1) /\ Len(frames) \in Nat
  BY <1>1, <1>2, NetShapes
<1>4. f \in Frame /\ s \in Said /\ r \in 1..MaxFrames /\ MaxLen \in Nat
  BY <1>2, <1>3, NetShapes
<1>5. f.len \in 0..MaxLen /\ f.arr \in 0..MaxLen /\ f.arr <= f.len /\ s.text \in Message
  BY <1>4 DEF Frame, Said
<1>6. readRemaining \in 1..f.len
  BY <1>1, <1>2, <1>4, <1>5
<1>7. Until(r) = Hear(f, r, s)
  BY <1>2, <1>3, NetShapes DEF NetOK, Heard, Until
<1> QED
  BY <1>1, <1>2, <1>4, <1>5, <1>6, <1>7 DEF Fits

\* A unit of a payload is read.
LEMMA ReadUnitKeepsInv == ASSUME ConnInv, ReadUnit PROVE ConnInv'
<1>1. /\ rpc = "read" /\ readErr = "nil" /\ readRemaining > 0 /\ Offset < frames[r].arr
      /\ buf' = Append(buf, <<r, Offset + 1>>) /\ readRemaining' = readRemaining - 1
      /\ UNCHANGED <<rpc, readFinal, readErr, got>> /\ UNCHANGED <<r, writer, network>>
  BY DEF ReadUnit
<1>2. PICK f : f = frames[r]
  OBVIOUS
<1>3. PICK s : s = said[r]
  OBVIOUS
<1>4. /\ r \in 1..MaxFrames /\ r \in Nat /\ f \in Frame /\ s \in Said
      /\ f.len \in 0..MaxLen /\ f.arr \in 0..MaxLen /\ f.arr <= f.len
      /\ readRemaining \in 1..f.len /\ f.len - readRemaining <= f.arr
      /\ Fits(f, s) /\ readFinal = f.fin /\ ~ s.over /\ s.msgs = got
      /\ buf = s.text \o Payload(r, f.len - readRemaining) /\ s.text \in Message
      /\ Until(r) = Hear(f, r, s)
  BY <1>1, <1>2, <1>3, PayloadFacts
<1>5. /\ NetOK' /\ WriterOK' /\ CloseOnce' /\ OneCloseAndAllPongs' /\ r' = r
      /\ frames' = frames /\ said' = said /\ r' \in 0..Len(frames') /\ Until(r)' = Until(r)
  BY <1>1, QuietStep
<1>6. PICK n : n = f.len - readRemaining
  OBVIOUS
<1>7. /\ n \in 0..MaxLen /\ n + 1 \in 0..MaxLen /\ n < f.arr /\ n + 1 <= f.arr
      /\ f.len - readRemaining' = n + 1 /\ readRemaining' \in 0..MaxLen /\ readRemaining' <= f.len
      /\ (readRemaining' = 0 => n + 1 = f.len /\ f.arr = f.len) /\ Offset = n
  <2>1. Offset = n
    BY <1>2, <1>6 DEF Offset
  <2>2. n < f.arr /\ readRemaining' = readRemaining - 1
    BY <1>1, <1>2, <2>1
  <2>3. PICK q : q = readRemaining
    OBVIOUS
  <2>4. PICK l : l = f.len
    OBVIOUS
  <2>5. PICK a : a = f.arr
    OBVIOUS
  <2>6. MaxLen \in Nat /\ l \in 0..MaxLen /\ a \in 0..MaxLen /\ a <= l /\ q \in 1..l /\ n = l - q /\ n < a
    BY <1>4, <1>6, <2>2, <2>3, <2>4, <2>5, WebSocketAssumption
  <2>7. /\ n \in 0..MaxLen /\ n + 1 \in 0..MaxLen /\ n + 1 <= a
        /\ l - (q - 1) = n + 1 /\ q - 1 \in 0..MaxLen /\ q - 1 <= l
        /\ (q - 1 = 0 => n + 1 = l /\ a = l)
    BY <2>6
  <2> QED
    BY <2>1, <2>2, <2>3, <2>4, <2>5, <2>7
<1>8. buf' = s.text \o Payload(r, n + 1)
  <2>1. s.text \o Payload(r, n + 1) = Append(s.text \o Payload(r, n), <<r, n + 1>>)
    BY <1>4, <1>7, PayloadNext
  <2> QED
    BY <2>1, <1>1, <1>4, <1>6, <1>7
<1>9. buf' \in Message
  <2>1. Payload(r, n + 1) \in Message
    BY <1>4, <1>7, PayloadUnits
  <2> QED
    BY <2>1, <1>4, <1>8 DEF Message
<1>10. ReaderOK'
  BY <1>1, <1>5, <1>7, <1>9, ConnParts DEF ReaderOK
<1>11. AtFrameEnd'
  <2> SUFFICES ASSUME readRemaining' = 0
               PROVE  /\ readFinal' => Until(r)'.msgs = Append(got', buf') /\ Between(Until(r)')
                      /\ ~ readFinal' => /\ Until(r)'.msgs = got' /\ Until(r)'.text = buf'
                                         /\ Until(r)'.open /\ ~ Until(r)'.over
    BY <1>1 DEF AtFrameEnd, Between
  <2>1. f.arr = f.len /\ buf' = s.text \o Payload(r, f.len)
    BY <1>7, <1>8
  <2>2. FrameSaid(f, r, s, buf')
    BY <2>1, <1>4, HearData
  <2> QED
    BY <2>2, <1>1, <1>4, <1>5 DEF FrameSaid
<1>12. InPayload'
  <2> SUFFICES /\ r' > 0 /\ readRemaining' <= frames'[r'].len
               /\ frames'[r'].len - readRemaining' <= frames'[r'].arr
               /\ frames'[r'].op = IF said'[r'].open THEN "cont" ELSE "text"
               /\ readFinal' = frames'[r'].fin
               /\ ~ said'[r'].over /\ said'[r'].msgs = got'
               /\ buf' = said'[r'].text \o Payload(r', frames'[r'].len - readRemaining')
    BY DEF InPayload, Offset, Payload
  <2>1. r' = r /\ frames'[r'] = f /\ said'[r'] = s /\ r > 0
    BY <1>2, <1>3, <1>4, <1>5
  <2> QED
    BY <2>1, <1>1, <1>4, <1>7, <1>8 DEF Fits
<1>13. NothingSkipped' /\ AfterError'
  BY <1>1 DEF NothingSkipped, AfterError
<1> QED
  BY <1>5, <1>10, <1>11, <1>12, <1>13 DEF ConnInv, TypeOK, NetOK, ReaderOK, WriterOK

\* The connection ends within a payload: the frame has said nothing.
LEMMA CutPayloadKeepsInv == ASSUME ConnInv, CutPayload PROVE ConnInv'
<1>1. /\ rpc = "read" /\ readErr = "nil" /\ readRemaining > 0 /\ Offset = frames[r].arr
      /\ UNCHANGED <<r, writer, network>>
  BY DEF CutPayload
<1>2. PICK f : f = frames[r]
  OBVIOUS
<1>3. PICK s : s = said[r]
  OBVIOUS
<1>4. /\ r \in 1..MaxFrames /\ r \in Nat /\ f \in Frame /\ s \in Said
      /\ f.len \in 0..MaxLen /\ readRemaining \in 1..f.len /\ s.msgs = got /\ Until(r) = Hear(f, r, s)
  BY <1>1, <1>2, <1>3, PayloadFacts
<1>5. got = Until(r).msgs
  <2>1. f.arr < f.len
    BY <1>1, <1>2, <1>4, WebSocketAssumption DEF Offset
  <2> QED
    BY <2>1, <1>4, HearEnds
<1>6. CASE ended = "eof" /\ readErr' = "EOF" /\ got' = Append(got, buf) /\ rpc' = "next" /\ UNCHANGED <<readRemaining, readFinal, buf>>
  <2>1. /\ NetOK' /\ WriterOK' /\ CloseOnce' /\ OneCloseAndAllPongs' /\ r' = r
        /\ r' \in 0..Len(frames') /\ Until(r)' = Until(r)
    BY <1>1, <1>6, QuietStep
  <2>2. ReaderOK'
    <3>1. buf \in Message /\ got \in Seq(Message)
      BY ConnParts DEF ReaderOK
    <3>2. Append(got, buf) \in Seq(Message) /\ "EOF" \in Errors
      BY <3>1 DEF Errors
    <3> QED
      BY <1>6, <2>1, <3>2, ConnParts DEF ReaderOK
  <2>3. NothingSkipped' /\ AtFrameEnd' /\ InPayload'
    BY <1>6 DEF NothingSkipped, AtFrameEnd, InPayload
  <2>4. AfterError'
    BY <1>1, <1>5, <1>6, <2>1 DEF AfterError
  <2> QED
    BY <2>1, <2>2, <2>3, <2>4 DEF ConnInv, TypeOK, NetOK, ReaderOK, WriterOK
<1>7. CASE Fail("reset")
  <2>1. rpc \in {"next", "read"} /\ rpc' # "stopped"
    BY <1>1, <1>7 DEF Fail
  <2>2. NetOK' /\ SameUpTo(r) /\ WriterOK' /\ CloseOnce' /\ OneCloseAndAllPongs' /\ r' = r
    BY <1>1, <2>1, QuietStep
  <2>3. PICK e \in Errors : e # "nil" /\ Fail(e)
    BY <1>7 DEF Errors
  <2>4. got = said[r + 1].msgs
    BY <1>5 DEF Until
  <2> QED
    BY <1>4, <2>2, <2>3, <2>4, FailKeepsInv
<1> QED
  BY <1>6, <1>7 DEF CutPayload

\* The goroutine leaves its loop, and Stop() writes the close frame.
LEMMA LeavingKeepsInv == ASSUME ConnInv, NextReaderFails \/ Stop PROVE ConnInv'
<1>1. /\ \/ rpc = "next" /\ readErr # "nil" /\ rpc' = "stopping"
         \/ rpc = "stopping" /\ rpc' = "stopped"
      /\ UNCHANGED <<r, readRemaining, readFinal, readErr, buf, got>>
  BY DEF NextReaderFails, Stop
<1>2. rpc' \in {"stopping", "stopped"} /\ readErr # "nil" /\ readErr' = readErr
  BY <1>1, ConnParts DEF AfterError
<1>3. r' = r /\ r \in Nat /\ r \in 0..Len(frames) /\ NoPing
  BY <1>1, ConnParts DEF ReaderOK, NoPing
<1>4. NetOK' /\ SameUpTo(r') /\ WriterOK' /\ CloseOnce' /\ OneCloseAndAllPongs'
  <2>1. CASE NextReaderFails
    <3>1. rpc \in {"next", "read"} /\ rpc' # "stopped" /\ UNCHANGED <<r, writer, network>>
      BY <2>1 DEF NextReaderFails
    <3> QED
      BY <3>1, <1>3, QuietStep
  <2>2. CASE Stop
    <3>1. WriteControl(<<"close", 0>>)
      BY <2>2 DEF Stop
    <3>2. NetOK' /\ SameUpTo(r')
      BY <3>1, <1>3, ConnParts, WriteKeepsNet
    <3>3. r' \in Nat
      BY <1>3
    <3> QED
      BY <1>2, <1>3, <3>1, <3>2, <3>3, ConnParts, CloseKeepsWriter
  <2> QED
    BY <2>1, <2>2
<1>5. Until(r)' = Until(r)
  <2>1. SameUpTo(r) /\ r + 1 \in 1..(r + 1)
    BY <1>3, <1>4
  <2>2. said'[r + 1] = said[r + 1]
    BY <2>1 DEF SameUpTo
  <2> QED
    BY <2>2, <1>3 DEF Until
<1>6. ReaderOK'
  <2>1. r' \in 0..Len(frames')
    BY <1>4 DEF SameUpTo
  <2> QED
    BY <1>1, <1>2, <2>1, ConnParts DEF ReaderOK
<1>7. NothingSkipped' /\ AtFrameEnd' /\ InPayload'
  BY <1>2 DEF NothingSkipped, AtFrameEnd, InPayload
<1>8. AfterError'
  <2>1. AfterError
    BY ConnParts
  <2> QED
    BY <1>1, <1>2, <1>5, <2>1 DEF AfterError
<1> QED
  BY <1>4, <1>6, <1>7, <1>8 DEF ConnInv, TypeOK, NetOK, ReaderOK, WriterOK

\* Every step keeps ConnInv.
LEMMA NextConnInv == ASSUME ConnInv, [Next]_vars PROVE ConnInv'
<1>1. CASE PeerSend \/ PeerCut \/ PeerEnd
  BY <1>1, PeersKeepInv
<1>2. CASE advanceFrame
  BY <1>2, AdvanceKeepsInv
<1>3. CASE NoHeader
  BY <1>3, NoHeaderKeepsInv
<1>4. CASE EndOfMessage
  BY <1>4, EndOfMessageKeepsInv
<1>5. CASE ReadUnit
  BY <1>5, ReadUnitKeepsInv
<1>6. CASE CutPayload
  BY <1>6, CutPayloadKeepsInv
<1>7. CASE NextReaderFails \/ Stop
  BY <1>7, LeavingKeepsInv
<1>8. CASE UNCHANGED vars
  <2>1. UNCHANGED network /\ UNCHANGED <<reader, writer>>
    BY <1>8 DEF vars, network, reader, writer
  <2>2. NetOK /\ r \in 0..Len(frames)
    BY ConnParts DEF ReaderOK
  <2>3. NetOK' /\ SameUpTo(r)
    BY <2>1, <2>2, NetStays
  <2> QED
    BY <2>1, <2>3, PeerKeepsInv
<1> QED
  BY <1>1, <1>2, <1>3, <1>4, <1>5, <1>6, <1>7, <1>8 DEF Next, Reader

-----------------------------------------------------------------------------
(* The theorems.                                                           *)

\* The goroutine's buffer, its place in a frame and the messages it has returned
\* agree with what the peer has said, and what is written with what has been read.
THEOREM ConnInvariant == Spec => []ConnInv
<1>1. ConnInv /\ [Next]_vars => ConnInv'
  BY NextConnInv
<1> QED
  BY InitConnInv, <1>1, PTL DEF Spec

\* The variables have their types: no frame is read past its end.
THEOREM ConnTypeCorrect == Spec => []TypeOK
<1>1. ConnInv => TypeOK
  BY DEF ConnInv
<1> QED
  BY ConnInvariant, <1>1, PTL

\* A sequence and the one with one element more.
LEMMA AppendPrefix ==
  ASSUME NEW s \in Seq(Message), NEW m \in Message
  PROVE  IsPrefixOf(s, s) /\ IsPrefixOf(s, Append(s, m))
<1>1. PICK t : t = Append(s, m)
  OBVIOUS
<1>2. Len(t) = Len(s) + 1 /\ (\A i \in 1..Len(s) : t[i] = s[i]) /\ DOMAIN s = 1..Len(s) /\ Len(s) \in Nat
  BY <1>1, AppendProperties
<1> QED
  BY <1>1, <1>2 DEF IsPrefixOf

\* The messages returned and the peer's, by place.
LEMMA ReturnedSoFar ==
  ASSUME ConnInv
  PROVE  /\ \/ IsPrefixOf(got, Until(r).msgs)
            \/ readErr = "EOF" /\ readRemaining > 0 /\ got = Append(Until(r).msgs, buf)
         /\ rpc # "read" => IsPrefixOf(Until(r).msgs, got)
<1>1. got \in Seq(Message) /\ buf \in Message /\ rpc \in {"next", "read", "stopping", "stopped"}
  BY ConnParts DEF ReaderOK
<1>2. Until(r).msgs \in Seq(Message)
  <2>1. said[r + 1] \in Said
    <3>1. NetOK /\ r \in 0..Len(frames) /\ Len(frames) \in Nat
      BY ConnParts, NetShapes DEF ReaderOK
    <3>2. r + 1 \in 1..(Len(frames) + 1)
      BY <3>1
    <3> QED
      BY <3>1, <3>2, NetShapes
  <2> QED
    BY <2>1 DEF Until, Said
<1>3. CASE got = Until(r).msgs
  BY <1>1, <1>3, AppendPrefix
<1>4. CASE readErr = "EOF" /\ readRemaining > 0 /\ got = Append(Until(r).msgs, buf)
  BY <1>1, <1>2, <1>4, AppendPrefix
<1>5. CASE readErr = "nil" /\ rpc = "read"
  <2>1. CASE readRemaining = 0
    <3>1. Until(r).msgs = Append(got, buf) \/ Until(r).msgs = got
      BY <1>5, <2>1, ConnParts DEF AtFrameEnd
    <3> QED
      BY <3>1, <1>1, <1>5, AppendPrefix
  <2>2. CASE readRemaining # 0
    <3>1. readRemaining > 0
      BY <2>2, ConnParts, WebSocketAssumption DEF ReaderOK
    <3>2. PICK f : f = frames[r]
      OBVIOUS
    <3>3. PICK s : s = said[r]
      OBVIOUS
    <3>4. /\ r \in 1..MaxFrames /\ f \in Frame /\ s \in Said /\ Fits(f, s) /\ ~ s.over /\ s.msgs = got
          /\ f.arr \in 0..MaxLen /\ f.len \in 0..MaxLen /\ f.arr <= f.len /\ Until(r) = Hear(f, r, s)
      BY <1>5, <3>1, <3>2, <3>3, PayloadFacts
    <3>5. CASE f.arr < f.len
      <4>1. Until(r).msgs = got
        BY <3>4, <3>5, HearEnds
      <4> QED
        BY <4>1, <1>1, <1>5, AppendPrefix
    <3>6. CASE f.arr = f.len
      <4>1. PICK t : t = s.text \o Payload(r, f.len)
        OBVIOUS
      <4>2. FrameSaid(f, r, s, t)
        BY <4>1, <3>4, <3>6, HearData
      <4>3. Until(r).msgs = Append(got, t) \/ Until(r).msgs = got
        BY <4>2, <3>4 DEF FrameSaid
      <4>4. t \in Message
        <5>1. Payload(r, f.len) \in Message /\ s.text \in Message
          BY <3>4, PayloadUnits DEF Said
        <5> QED
          BY <5>1, <4>1 DEF Message
      <4> QED
        BY <4>3, <4>4, <1>1, <1>5, AppendPrefix
    <3> QED
      BY <3>4, <3>5, <3>6, WebSocketAssumption
  <2> QED
    BY <2>1, <2>2
<1>6. CASE readErr = "nil" /\ rpc # "read"
  <2>1. got = Until(r).msgs
    BY <1>1, <1>6, ConnParts DEF AfterError, NothingSkipped
  <2> QED
    BY <2>1, <1>3
<1> QED
  BY <1>3, <1>4, <1>5, <1>6, ConnParts DEF AfterError

\* ReadMessage() returns the peer's messages, in order and whole, but for the one
\* that the end of the connection cuts off.
THEOREM DeliversWholeAlways == Spec => []DeliversWhole
<1>1. ConnInv => DeliversWhole
  BY ReturnedSoFar DEF DeliversWhole
<1> QED
  BY ConnInvariant, <1>1, PTL

\* No message is passed over.
THEOREM NothingLostAlways == Spec => []NothingLost
<1>1. ConnInv => NothingLost
  BY ReturnedSoFar DEF NothingLost
<1> QED
  BY ConnInvariant, <1>1, PTL

\* One close frame, nothing after it, and before it every ping is answered once.
THEOREM ClosesOnce == Spec => []OneCloseAndAllPongs
<1>1. ConnInv => OneCloseAndAllPongs
  BY DEF ConnInv
<1> QED
  BY ConnInvariant, <1>1, PTL

-----------------------------------------------------------------------------
(* The connection implements MessageStream.                                *)

\* Prefixes of prefixes.
LEMMA PrefixTransitive ==
  ASSUME NEW s \in Seq(Message), NEW t \in Seq(Message), NEW u \in Seq(Message),
         IsPrefixOf(s, t), IsPrefixOf(t, u)
  PROVE  IsPrefixOf(s, u)
<1>1. /\ DOMAIN s = 1..Len(s) /\ DOMAIN t = 1..Len(t) /\ Len(s) \in Nat /\ Len(t) \in Nat /\ Len(u) \in Nat
      /\ Len(s) <= Len(t) /\ Len(t) <= Len(u)
  BY DEF IsPrefixOf
<1>2. \A i \in 1..Len(s) : i \in 1..Len(t)
  BY <1>1
<1> QED
  BY <1>1, <1>2 DEF IsPrefixOf

\* The two modules mean the same by a prefix.
LEMMA PrefixStarts ==
  ASSUME NEW s \in Seq(Message), NEW t \in Seq(Message), IsPrefixOf(s, t)
  PROVE  Stream!Starts(s, t)
<1>1. DOMAIN s = 1..Len(s)
  OBVIOUS
<1> QED
  BY <1>1 DEF IsPrefixOf, Stream!Starts

\* A frame completes one message at most.
LEMMA HearCompletes ==
  ASSUME NEW f \in Frame, NEW i \in 1..MaxFrames, NEW s \in Said
  PROVE  \/ Hear(f, i, s).msgs = s.msgs
         \/ \E t \in Message : Hear(f, i, s).msgs = Append(s.msgs, t)
<1>1. CASE s.over \/ f.arr < f.len \/ ~ (Fits(f, s) \/ f.op \in {"ping", "pong"})
  BY <1>1, HearEnds
<1>2. CASE ~ (s.over \/ f.arr < f.len \/ ~ (Fits(f, s) \/ f.op \in {"ping", "pong"}))
  <2>1. f.arr = f.len /\ ~ s.over
    BY <1>2, WebSocketAssumption DEF Frame
  <2>2. CASE Fits(f, s)
    <3>1. PICK t : t = s.text \o Payload(i, f.len)
      OBVIOUS
    <3>2. FrameSaid(f, i, s, t)
      BY <2>1, <2>2, <3>1, HearData
    <3>3. t \in Message
      <4>1. Payload(i, f.len) \in Message /\ s.text \in Message
        <5>1. f.len \in 0..MaxLen
          BY DEF Frame
        <5> QED
          BY <5>1, PayloadUnits DEF Said
      <4> QED
        BY <4>1, <3>1 DEF Message
    <3> QED
      BY <3>2, <3>3 DEF FrameSaid
  <2>3. CASE f.op \in {"ping", "pong"}
    BY <2>1, <2>3, HearNothing
  <2> QED
    BY <1>2, <2>2, <2>3
<1> QED
  BY <1>1, <1>2

\* What has been said in all.
LEMMA ToldFacts ==
  ASSUME NetOK
  PROVE  /\ told = said[Len(frames) + 1].msgs /\ told \in Seq(Message)
         /\ \A i \in 1..(Len(frames) + 1) : said[i].msgs \in Seq(Message)
<1>1. Len(said) = Len(frames) + 1 /\ Len(frames) \in Nat
  BY NetShapes DEF NetOK
<1>2. \A i \in 1..(Len(frames) + 1) : said[i].msgs \in Seq(Message)
  BY NetShapes DEF Said
<1>3. Len(frames) + 1 \in 1..(Len(frames) + 1)
  BY <1>1
<1> QED
  BY <1>1, <1>2, <1>3 DEF told

\* The next message, if frame f completes one, is added to what was said.
LEMMA SendTells ==
  ASSUME NetOK, SaidGrows, NEW f \in Frame, Send(f)
  PROVE  SaidGrows' /\ (told' = told \/ Stream!OneMore(told, told'))
<1>0. /\ Len(frames) \in Nat /\ MaxFrames \in Nat /\ frames \in Seq(Frame) /\ said \in Seq(Said)
      /\ Len(said) = Len(frames) + 1 /\ DOMAIN said = 1..(Len(frames) + 1)
  BY NetShapes DEF NetOK
<1>1. PICK k : k = Len(frames) + 1
  OBVIOUS
<1>2. PICK h : h = Hear(f, k, said[k])
  OBVIOUS
<1>3. k \in 1..MaxFrames /\ said[k] \in Said /\ k \in Nat /\ k \in 1..k
  BY <1>0, <1>1, NetShapes DEF Send
<1>4. h \in Said
  BY <1>2, <1>3, HearType
<1>5. said' = Append(said, h)
  BY <1>0, <1>1, <1>2 DEF Send
<1>6. /\ Len(said') = k + 1 /\ said'[k + 1] = h /\ DOMAIN said' = 1..(k + 1)
      /\ \A i \in 1..k : said'[i] = said[i]
  BY <1>0, <1>1, <1>4, <1>5, AppendProperties
<1>7. PICK a : a = said[k].msgs
  OBVIOUS
<1>8. PICK b : b = h.msgs
  OBVIOUS
<1>9. a \in Seq(Message) /\ b \in Seq(Message)
  BY <1>3, <1>4, <1>7, <1>8 DEF Said
<1>10. b = a \/ \E t \in Message : b = Append(a, t)
  BY <1>2, <1>3, <1>7, <1>8, HearCompletes
<1>11. IsPrefixOf(a, b) /\ IsPrefixOf(b, b)
  <2>1. <<>> \in Message
    BY DEF Message
  <2> QED
    BY <2>1, <1>9, <1>10, AppendPrefix
<1>12. told = a /\ told' = b
  BY <1>0, <1>1, <1>6, <1>7, <1>8 DEF told
<1>13. b = a \/ Stream!OneMore(a, b)
  <2>1. SUFFICES ASSUME NEW t \in Message, b = Append(a, t) PROVE Stream!OneMore(a, b)
    BY <1>10
  <2>2. Len(b) = Len(a) + 1
    BY <1>9, <2>1, AppendProperties
  <2>3. Stream!Starts(a, b)
    BY <1>9, <1>11, PrefixStarts
  <2> QED
    BY <2>2, <2>3 DEF Stream!OneMore
<1>14. SaidGrows'
  <2> SUFFICES ASSUME NEW i \in 1..(k + 1), NEW j \in 1..(k + 1), i <= j
               PROVE  IsPrefixOf(said'[i].msgs, said'[j].msgs)
    BY <1>6 DEF SaidGrows, IsPrefixOf
  <2>1. CASE i \in 1..k /\ j \in 1..k
    BY <2>1, <1>0, <1>1, <1>6 DEF SaidGrows
  <2>2. CASE i \in 1..k /\ j = k + 1
    <3>1. PICK c : c = said[i].msgs
      OBVIOUS
    <3>2. c \in Seq(Message) /\ IsPrefixOf(c, a)
      <4>1. i <= k /\ i \in 1..(Len(frames) + 1) /\ k \in 1..(Len(frames) + 1)
        BY <2>2, <1>0, <1>1, <1>3
      <4> QED
        BY <4>1, <3>1, <1>0, <1>7, ToldFacts DEF SaidGrows
    <3>3. IsPrefixOf(c, b)
      BY <3>2, <1>9, <1>11, PrefixTransitive
    <3>4. said'[i].msgs = c /\ said'[j].msgs = b
      BY <2>2, <3>1, <1>6, <1>8
    <3> QED
      BY <3>3, <3>4
  <2>3. CASE i = k + 1 /\ j = k + 1
    BY <2>3, <1>6, <1>8, <1>11
  <2> QED
    BY <2>1, <2>2, <2>3, <1>3
<1> QED
  BY <1>12, <1>13, <1>14

\* A write that closes the connection loses the last messages, if any, and none of
\* those up to frame m, which has been read.
LEMMA PartialLoses ==
  ASSUME NetOK, SaidGrows, CutIsLast, PartialWrite, NEW m \in 0..Len(frames), r' = m
  PROVE  /\ SaidGrows' /\ CutIsLast'
         /\ IsPrefixOf(told', told) /\ IsPrefixOf(said[m + 1].msgs, told')
         /\ m = Len(frames) => told' = told
<1>0. /\ Len(frames) \in Nat /\ frames \in Seq(Frame) /\ said \in Seq(Said)
      /\ Len(said) = Len(frames) + 1 /\ DOMAIN frames = 1..Len(frames) /\ DOMAIN said = 1..(Len(frames) + 1)
  BY NetShapes DEF NetOK
<1>1. PICK n \in m..Len(frames) : frames' = SubSeq(frames, 1, n) /\ said' = SubSeq(said, 1, n + 1)
  BY DEF PartialWrite
<1>2. /\ n \in 0..Len(frames) /\ n \in Nat /\ m \in Nat /\ n + 1 \in 0..Len(said) /\ m <= n /\ n <= Len(frames)
      /\ m + 1 \in 1..(n + 1) /\ n + 1 \in 1..(Len(frames) + 1) /\ m + 1 \in 1..(Len(frames) + 1)
      /\ Len(frames) + 1 \in 1..(Len(frames) + 1)
  BY <1>0
<1>3. /\ Len(frames') = n /\ DOMAIN frames' = 1..n
      /\ \A i \in 1..n : frames'[i] = frames[i]
  BY <1>0, <1>1, <1>2, SubSeqProperties
<1>4. /\ Len(said') = n + 1 /\ DOMAIN said' = 1..(n + 1)
      /\ \A i \in 1..(n + 1) : said'[i] = said[i]
  BY <1>0, <1>1, <1>2, SubSeqProperties
<1>5. \A i \in 1..(n + 1) : i \in 1..(Len(frames) + 1)
  BY <1>0, <1>2
<1>6. SaidGrows'
  <2> SUFFICES ASSUME NEW i \in 1..(n + 1), NEW j \in 1..(n + 1), i <= j
               PROVE  IsPrefixOf(said'[i].msgs, said'[j].msgs)
    BY <1>4 DEF SaidGrows, IsPrefixOf
  <2> QED
    BY <1>0, <1>4, <1>5 DEF SaidGrows
<1>7. CutIsLast'
  <2>1. ended' = "reset"
    BY DEF PartialWrite
  <2> SUFFICES ASSUME NEW i \in 1..n, frames'[i].arr < frames'[i].len
               PROVE  i = Len(frames') /\ ended' # "no"
    BY <1>3 DEF CutIsLast
  <2>2. i \in DOMAIN frames /\ frames[i].arr < frames[i].len
    BY <1>0, <1>2, <1>3
  <2>3. i = Len(frames)
    BY <2>2 DEF CutIsLast
  <2> QED
    BY <2>1, <2>3, <1>0, <1>2, <1>3
<1>8. told' = said[n + 1].msgs /\ told = said[Len(frames) + 1].msgs
  <2>1. n + 1 \in 1..(n + 1)
    BY <1>2
  <2> QED
    BY <2>1, <1>0, <1>4 DEF told
<1>9. IsPrefixOf(said[n + 1].msgs, said[Len(frames) + 1].msgs)
  BY <1>0, <1>2 DEF SaidGrows
<1>10. IsPrefixOf(said[m + 1].msgs, said[n + 1].msgs)
  BY <1>0, <1>2 DEF SaidGrows
<1>11. m = Len(frames) => n = Len(frames)
  BY <1>0, <1>2
<1> QED
  BY <1>6, <1>7, <1>8, <1>9, <1>10, <1>11

\* The network under a step of the goroutine that reads up to frame m.
LEMMA ReadingLoses ==
  ASSUME NetOK, SaidGrows, CutIsLast, UNCHANGED network \/ PartialWrite,
         NEW m \in 0..Len(frames), r' = m
  PROVE  /\ SaidGrows' /\ CutIsLast' /\ told' \in Seq(Message)
         /\ IsPrefixOf(told', told) /\ IsPrefixOf(said[m + 1].msgs, told')
         /\ m = Len(frames) => told' = told
<1>0. NetOK' /\ told \in Seq(Message) /\ <<>> \in Message
  BY WriteKeepsNet, NetStays, PartialKeepsNet, ToldFacts DEF Message
<1>1. told' \in Seq(Message)
  <2>1. said' \in Seq(Said) /\ Len(said') \in Nat /\ Len(said') = Len(frames') + 1 /\ Len(frames') \in Nat
    BY <1>0 DEF NetOK
  <2>2. said'[Len(said')] \in Said
    BY <2>1
  <2> QED
    BY <2>2 DEF told, Said
<1>2. CASE PartialWrite
  BY <1>1, <1>2, PartialLoses
<1>3. CASE UNCHANGED network
  <2>1. UNCHANGED <<frames, ended, said>>
    BY <1>3 DEF network
  <2>2. SaidGrows' /\ CutIsLast' /\ told' = told
    BY <2>1 DEF SaidGrows, CutIsLast, told, IsPrefixOf
  <2>3. IsPrefixOf(told, told)
    BY <1>0, AppendPrefix
  <2>4. IsPrefixOf(said[m + 1].msgs, told)
    <3>1. /\ m + 1 \in 1..(Len(frames) + 1) /\ Len(frames) + 1 \in 1..(Len(frames) + 1)
          /\ m + 1 <= Len(frames) + 1 /\ DOMAIN said = 1..(Len(frames) + 1)
      BY NetShapes
    <3> QED
      BY <3>1, ToldFacts DEF SaidGrows
  <2> QED
    BY <1>1, <2>2, <2>3, <2>4
<1> QED
  BY <1>2, <1>3

\* Frames arrive: the peer has told a message more, or the same ones.
LEMMA PeerTells ==
  ASSUME StreamInv, PeerSend \/ PeerCut \/ PeerEnd
  PROVE  /\ SaidGrows' /\ CutIsLast' /\ CutIsReturnedLast'
         /\ Stream!Tell \/ UNCHANGED <<told, got, state>>
<1>0. /\ ConnInv /\ SaidGrows /\ CutIsLast /\ CutIsReturnedLast /\ NetOK /\ Len(frames) \in Nat
      /\ DOMAIN frames = 1..Len(frames) /\ r \in 0..Len(frames) /\ frames \in Seq(Frame)
  BY ConnParts, NetShapes DEF StreamInv, ReaderOK, NetOK
<1>1. ended = "no" /\ UNCHANGED reader
  BY DEF PeerSend, PeerCut, PeerEnd, Send
<1>2. UNCHANGED <<r, readRemaining, readErr, got>>
  BY <1>1 DEF reader
<1>3. CutIsReturnedLast'
  BY <1>0, <1>1, <1>2 DEF CutIsReturnedLast
<1>4. state' = state
  BY <1>2 DEF state
<1>5. \A i \in 1..Len(frames) : ~ (frames[i].arr < frames[i].len)
  BY <1>0, <1>1 DEF CutIsLast
<1>6. CASE PeerEnd
  <2>1. UNCHANGED <<frames, said>>
    BY <1>6 DEF PeerEnd
  <2>2. SaidGrows' /\ told' = told
    BY <2>1, <1>0 DEF SaidGrows, told, IsPrefixOf
  <2>3. CutIsLast'
    BY <2>1, <1>0, <1>5 DEF CutIsLast
  <2> QED
    BY <2>2, <2>3, <1>2, <1>3, <1>4
<1>7. CASE PeerSend \/ PeerCut
  <2>1. PICK f \in Frame : Send(f) /\ (f.arr = f.len \/ (f.arr < f.len /\ ended' # "no"))
    BY <1>7 DEF PeerSend, PeerCut
  <2>2. SaidGrows' /\ (told' = told \/ Stream!OneMore(told, told'))
    BY <2>1, <1>0, SendTells
  <2>3. CutIsLast'
    <3>1. PICK n : n = Len(frames)
      OBVIOUS
    <3>2. frames' = Append(frames, f)
      BY <2>1 DEF Send
    <3>3. /\ Len(frames') = n + 1 /\ frames'[n + 1] = f /\ DOMAIN frames' = 1..(n + 1) /\ n \in Nat
          /\ \A i \in 1..n : frames'[i] = frames[i]
      BY <3>1, <3>2, <1>0, AppendProperties
    <3> SUFFICES ASSUME NEW i \in 1..(n + 1), frames'[i].arr < frames'[i].len
                 PROVE  i = Len(frames') /\ ended' # "no"
      BY <3>3 DEF CutIsLast
    <3>4. i = n + 1
      BY <3>1, <3>3, <1>5
    <3>5. f.arr < f.len
      BY <3>3, <3>4
    <3>6. f.arr \in Nat /\ f.len \in Nat
      BY WebSocketAssumption DEF Frame
    <3> QED
      BY <2>1, <3>3, <3>4, <3>5, <3>6
  <2>4. Stream!Starts(got, told)
    <3>1. IsPrefixOf(got, Until(r).msgs)
      BY <1>0, <1>1, ReturnedSoFar DEF CutIsReturnedLast
    <3>2. /\ r + 1 \in 1..(Len(frames) + 1) /\ Len(frames) + 1 \in 1..(Len(frames) + 1) /\ r + 1 <= Len(frames) + 1
          /\ DOMAIN said = 1..(Len(frames) + 1)
      BY <1>0, NetShapes
    <3>3. IsPrefixOf(said[r + 1].msgs, told) /\ said[r + 1].msgs \in Seq(Message) /\ told \in Seq(Message)
      BY <1>0, <3>2, ToldFacts DEF SaidGrows
    <3>4. got \in Seq(Message)
      BY <1>0, ConnParts DEF ReaderOK
    <3>5. IsPrefixOf(got, told)
      BY <3>1, <3>3, <3>4, PrefixTransitive DEF Until
    <3> QED
      BY <3>3, <3>4, <3>5, PrefixStarts
  <2> QED
    BY <2>2, <2>3, <2>4, <1>2, <1>3, <1>4 DEF Stream!Tell
<1> QED
  BY <1>6, <1>7

\* A header is read: the messages stay the same, or the connection has failed.
LEMMA HeaderLoses ==
  ASSUME StreamInv, advanceFrame
  PROVE  /\ SaidGrows' /\ CutIsLast' /\ CutIsReturnedLast'
         /\ Stream!Lose \/ Stream!Close
<1>0. /\ ConnInv /\ SaidGrows /\ CutIsLast /\ NetOK /\ Len(frames) \in Nat
      /\ r \in 0..Len(frames) /\ got \in Seq(Message)
  BY ConnParts, NetShapes DEF StreamInv, ReaderOK
<1>1. Advancing /\ r < Len(frames) /\ r' = r + 1 /\ readErr = "nil" /\ readRemaining = 0
  BY DEF advanceFrame, Advancing
<1>2. PICK f : /\ f = frames[r + 1]
               /\ \/ DataFrame(f) \/ ProtocolError(f) \/ Ping(f) \/ Pong(f) \/ Close(f) \/ CutControl(f)
  BY DEF advanceFrame
<1>3. got' = got /\ (UNCHANGED network \/ PartialWrite)
  BY <1>2 DEF DataFrame, ProtocolError, Ping, Pong, Close, CutControl, Fail, WriteControl
<1>4. readErr' = "nil" \/ readRemaining' = 0
  BY <1>1, <1>2 DEF DataFrame, ProtocolError, Ping, Pong, Close, CutControl, Fail
<1>5. CutIsReturnedLast'
  BY <1>4 DEF CutIsReturnedLast
<1>6. PICK m : m = r + 1
  OBVIOUS
<1>7. /\ m \in 0..Len(frames) /\ r' = m /\ r + 1 \in 1..(Len(frames) + 1) /\ m + 1 \in 1..(Len(frames) + 1)
      /\ r + 1 <= m + 1
  BY <1>0, <1>1, <1>6
<1>8. /\ SaidGrows' /\ CutIsLast' /\ told' \in Seq(Message)
      /\ IsPrefixOf(told', told) /\ IsPrefixOf(said[m + 1].msgs, told')
  BY <1>0, <1>3, <1>7, ReadingLoses
<1>9. IsPrefixOf(got, told')
  <2>1. got = said[r + 1].msgs
    BY <1>0, <1>1, AdvanceFacts DEF Until
  <2>2. IsPrefixOf(said[r + 1].msgs, said[m + 1].msgs) /\ said[m + 1].msgs \in Seq(Message)
    BY <1>0, <1>7, NetShapes, ToldFacts DEF SaidGrows
  <2> QED
    BY <2>1, <2>2, <1>0, <1>8, PrefixTransitive
<1>10. Stream!Starts(got, told') /\ Stream!Starts(told', told)
  BY <1>0, <1>8, <1>9, PrefixStarts, ToldFacts
<1>11. state = "open" /\ state' \in {"open", "closed"}
  BY <1>1 DEF state
<1>12. CASE state' = "open"
  BY <1>3, <1>5, <1>8, <1>10, <1>11, <1>12 DEF Stream!Lose
<1>13. CASE state' = "closed"
  BY <1>3, <1>5, <1>8, <1>10, <1>11, <1>13 DEF Stream!Close
<1> QED
  BY <1>5, <1>8, <1>11, <1>12, <1>13

\* What has been read is the beginning of what was told.
LEMMA ReadIsTold ==
  ASSUME StreamInv
  PROVE  IsPrefixOf(Until(r).msgs, told) /\ Until(r).msgs \in Seq(Message) /\ told \in Seq(Message)
<1>1. SaidGrows /\ NetOK /\ Len(frames) \in Nat /\ r \in 0..Len(frames)
  BY ConnParts, NetShapes DEF StreamInv, ReaderOK
<1>2. /\ r + 1 \in 1..(Len(frames) + 1) /\ Len(frames) + 1 \in 1..(Len(frames) + 1) /\ r + 1 <= Len(frames) + 1
      /\ DOMAIN said = 1..(Len(frames) + 1)
  BY <1>1, NetShapes
<1> QED
  BY <1>1, <1>2, ToldFacts DEF SaidGrows, Until

\* The steps that leave the network alone.
LEMMA QuietKeepsStream ==
  ASSUME StreamInv, UNCHANGED network
  PROVE  SaidGrows' /\ CutIsLast' /\ told' = told
<1>1. UNCHANGED <<frames, ended, said>>
  BY DEF network
<1> QED
  BY <1>1 DEF StreamInv, SaidGrows, CutIsLast, told, IsPrefixOf

\* The connection has ended where a header should come.
LEMMA NoHeaderCloses ==
  ASSUME StreamInv, NoHeader
  PROVE  SaidGrows' /\ CutIsLast' /\ CutIsReturnedLast' /\ Stream!Close
<1>1. /\ ConnInv /\ Advancing /\ readErr = "nil" /\ readRemaining = 0 /\ got \in Seq(Message)
      /\ Fail(EndError) /\ UNCHANGED network
  BY ConnParts DEF StreamInv, NoHeader, Advancing, ReaderOK
<1>2. got' = got /\ readRemaining' = 0 /\ state = "open" /\ state' = "closed"
  BY <1>1 DEF Fail, EndError, state
<1>3. got = Until(r).msgs
  BY <1>1, AdvanceFacts
<1>4. Stream!Starts(got, told) /\ Stream!Starts(told, told)
  <2>1. IsPrefixOf(told, told)
    <3>1. <<>> \in Message /\ told \in Seq(Message)
      BY ReadIsTold DEF Message
    <3> QED
      BY <3>1, AppendPrefix
  <2> QED
    BY <2>1, <1>3, ReadIsTold, PrefixStarts
<1>5. SaidGrows' /\ CutIsLast' /\ told' = told
  BY <1>1, QuietKeepsStream
<1>6. CutIsReturnedLast'
  BY <1>2 DEF CutIsReturnedLast
<1> QED
  BY <1>2, <1>4, <1>5, <1>6 DEF Stream!Close

\* A message is returned: it is the next one that was told.
LEMMA EndOfMessageDelivers ==
  ASSUME StreamInv, EndOfMessage
  PROVE  SaidGrows' /\ CutIsLast' /\ CutIsReturnedLast' /\ Stream!Deliver
<1>1. /\ ConnInv /\ rpc = "read" /\ readErr = "nil" /\ readRemaining = 0 /\ readFinal
      /\ got' = Append(got, buf) /\ readErr' = readErr /\ UNCHANGED network
      /\ got \in Seq(Message) /\ buf \in Message
  BY ConnParts DEF StreamInv, EndOfMessage, ReaderOK
<1>2. Until(r).msgs = Append(got, buf)
  BY <1>1, ConnParts DEF AtFrameEnd
<1>3. PICK a : a = Append(got, buf)
  OBVIOUS
<1>4. PICK t : t = told
  OBVIOUS
<1>5. IsPrefixOf(a, t) /\ t \in Seq(Message) /\ a \in Seq(Message)
  BY <1>2, <1>3, <1>4, ReadIsTold
<1>6. PICK n : n = Len(got)
  OBVIOUS
<1>7. n \in Nat /\ Len(a) = n + 1 /\ a[n + 1] = buf /\ DOMAIN a = 1..(n + 1)
  BY <1>1, <1>3, <1>6, AppendProperties
<1>8. n < Len(t) /\ t[n + 1] = buf
  <2>1. n + 1 <= Len(t) /\ n + 1 \in 1..(n + 1) /\ Len(t) \in Nat
    BY <1>5, <1>7 DEF IsPrefixOf
  <2> QED
    BY <2>1, <1>5, <1>7 DEF IsPrefixOf
<1>9. SaidGrows' /\ CutIsLast' /\ told' = told
  BY <1>1, QuietKeepsStream
<1>10. CutIsReturnedLast'
  BY <1>1 DEF CutIsReturnedLast
<1>11. state = "open" /\ state' = state
  BY <1>1 DEF state
<1> QED
  BY <1>1, <1>4, <1>6, <1>8, <1>9, <1>10, <1>11 DEF Stream!Deliver

\* The payload was cut off: all that was told has been returned, and nothing follows.
LEMMA CutPayloadCloses ==
  ASSUME StreamInv, CutPayload
  PROVE  /\ SaidGrows' /\ CutIsLast' /\ CutIsReturnedLast'
         /\ Stream!DeliverUnfinished \/ Stream!Close
<1>1. /\ ConnInv /\ CutIsLast /\ rpc = "read" /\ readErr = "nil" /\ readRemaining > 0 /\ Offset = frames[r].arr
      /\ UNCHANGED network /\ r' = r /\ got \in Seq(Message) /\ buf \in Message
  BY ConnParts DEF StreamInv, CutPayload, ReaderOK
<1>2. PICK f : f = frames[r]
  OBVIOUS
<1>3. PICK s : s = said[r]
  OBVIOUS
<1>4. /\ r \in 1..MaxFrames /\ r \in Nat /\ f \in Frame /\ s \in Said
      /\ f.len \in 0..MaxLen /\ readRemaining \in 1..f.len /\ s.msgs = got /\ Until(r) = Hear(f, r, s)
  BY <1>1, <1>2, <1>3, PayloadFacts
<1>5. f.arr < f.len
  BY <1>1, <1>2, <1>4, WebSocketAssumption DEF Offset
<1>6. got = Until(r).msgs
  BY <1>4, <1>5, HearEnds
<1>7. r = Len(frames) /\ ended # "no"
  <2>1. NetOK /\ r \in 0..Len(frames)
    BY <1>1, ConnParts DEF ReaderOK
  <2>2. r \in DOMAIN frames
    BY <2>1, <1>4, NetShapes
  <2> QED
    BY <2>2, <1>1, <1>2, <1>5 DEF CutIsLast
<1>8. told = got
  <2>1. NetOK
    BY <1>1, ConnParts
  <2> QED
    BY <2>1, <1>6, <1>7, ToldFacts DEF Until
<1>9. SaidGrows' /\ CutIsLast' /\ told' = told
  BY <1>1, QuietKeepsStream
<1>10. CutIsReturnedLast'
  BY <1>1, <1>7 DEF CutIsReturnedLast, network
<1>11. IsPrefixOf(got, got) /\ IsPrefixOf(got, Append(got, buf))
  BY <1>1, AppendPrefix
<1>12. state = "open"
  BY <1>1 DEF state
<1>13. CASE readErr' = "EOF" /\ got' = Append(got, buf)
  <2>1. Append(got, buf) \in Seq(Message) /\ Len(Append(got, buf)) = Len(got) + 1
    BY <1>1, AppendProperties
  <2>2. Stream!Starts(got, Append(got, buf))
    BY <2>1, <1>1, <1>11, PrefixStarts
  <2>3. state' = "closed"
    BY <1>13 DEF state
  <2>4. Stream!DeliverUnfinished
    BY <2>1, <2>2, <2>3, <1>8, <1>9, <1>12, <1>13 DEF Stream!DeliverUnfinished, Stream!OneMore
  <2> QED
    BY <2>4, <1>9, <1>10
<1>14. CASE Fail("reset")
  <2>1. got' = got /\ state' = "closed"
    BY <1>14 DEF Fail, state
  <2>2. Stream!Starts(got, got)
    BY <1>1, <1>11, PrefixStarts
  <2>3. Stream!Close
    BY <2>1, <2>2, <1>8, <1>9, <1>12 DEF Stream!Close
  <2> QED
    BY <2>3, <1>9, <1>10
<1> QED
  BY <1>13, <1>14 DEF CutPayload

\* Stop() may lose what has not been read, and nothing that was returned.
LEMMA StopLoses ==
  ASSUME StreamInv, Stop
  PROVE  /\ SaidGrows' /\ CutIsLast' /\ CutIsReturnedLast'
         /\ Stream!Lose \/ UNCHANGED <<told, got, state>>
<1>1. /\ ConnInv /\ SaidGrows /\ CutIsLast /\ CutIsReturnedLast /\ NetOK /\ r \in 0..Len(frames) /\ Len(frames) \in Nat
      /\ rpc = "stopping" /\ UNCHANGED <<r, readRemaining, readErr, got>>
      /\ got \in Seq(Message) /\ WriteControl(<<"close", 0>>)
  BY ConnParts, NetShapes DEF StreamInv, Stop, ReaderOK
<1>2. UNCHANGED network \/ PartialWrite
  BY <1>1 DEF WriteControl
<1>3. PICK m : m = r
  OBVIOUS
<1>4. m \in 0..Len(frames) /\ r' = m
  BY <1>1, <1>3
<1>5. /\ SaidGrows' /\ CutIsLast' /\ told' \in Seq(Message)
      /\ IsPrefixOf(told', told) /\ IsPrefixOf(said[m + 1].msgs, told')
      /\ m = Len(frames) => told' = told
  BY <1>1, <1>2, <1>4, ReadingLoses
<1>6. state' = state
  BY <1>1 DEF state
<1>7. CutIsReturnedLast'
  <2> SUFFICES ASSUME readErr = "EOF", readRemaining > 0 PROVE r' = Len(frames') /\ ended' # "no"
    BY <1>1 DEF CutIsReturnedLast
  <2>1. r = Len(frames) /\ ended # "no"
    BY <1>1 DEF CutIsReturnedLast
  <2>2. CASE UNCHANGED network
    BY <2>1, <2>2, <1>1 DEF network
  <2>3. CASE PartialWrite
    <3>1. PICK n \in m..Len(frames) : frames' = SubSeq(frames, 1, n)
      BY <2>3, <1>4 DEF PartialWrite
    <3>2. n = Len(frames) /\ frames \in Seq(Frame)
      BY <3>1, <2>1, <1>1, <1>3 DEF NetOK
    <3>3. Len(frames') = n
      BY <3>1, <3>2, <1>1, SubSeqProperties
    <3>4. ended' = "reset"
      BY <2>3 DEF PartialWrite
    <3> QED
      BY <3>2, <3>3, <3>4, <2>1, <1>1
  <2> QED
    BY <2>2, <2>3, <1>2
<1>8. CASE got = Until(r).msgs
  <2>1. IsPrefixOf(got, told')
    BY <1>3, <1>5, <1>8 DEF Until
  <2>2. Stream!Starts(got, told') /\ Stream!Starts(told', told)
    BY <2>1, <1>1, <1>5, ReadIsTold, PrefixStarts
  <2> QED
    BY <2>2, <1>1, <1>5, <1>6, <1>7 DEF Stream!Lose
<1>9. CASE readErr = "EOF" /\ readRemaining > 0
  <2>1. m = Len(frames)
    BY <1>1, <1>3, <1>9 DEF CutIsReturnedLast
  <2> QED
    BY <2>1, <1>1, <1>5, <1>6, <1>7
<1> QED
  BY <1>1, <1>8, <1>9, ConnParts DEF AfterError

\* Every step is a step of the stream or changes nothing of it.
LEMMA NextStream ==
  ASSUME StreamInv, [Next]_vars
  PROVE  StreamInv' /\ [Stream!Next]_(Stream!vars)
<1>1. ConnInv'
  BY NextConnInv DEF StreamInv
<1>2. CASE PeerSend \/ PeerCut \/ PeerEnd
  BY <1>1, <1>2, PeerTells DEF StreamInv, Stream!Next, Stream!vars
<1>3. CASE advanceFrame
  BY <1>1, <1>3, HeaderLoses DEF StreamInv, Stream!Next
<1>4. CASE NoHeader
  BY <1>1, <1>4, NoHeaderCloses DEF StreamInv, Stream!Next
<1>5. CASE EndOfMessage
  BY <1>1, <1>5, EndOfMessageDelivers DEF StreamInv, Stream!Next
<1>6. CASE CutPayload
  BY <1>1, <1>6, CutPayloadCloses DEF StreamInv, Stream!Next
<1>7. CASE Stop
  BY <1>1, <1>7, StopLoses DEF StreamInv, Stream!Next, Stream!vars
<1>8. CASE ReadUnit \/ NextReaderFails \/ UNCHANGED vars
  <2>1. UNCHANGED network /\ UNCHANGED <<r, readErr, got>>
    BY <1>8 DEF ReadUnit, NextReaderFails, vars, network
  <2>2. SaidGrows' /\ CutIsLast' /\ told' = told /\ state' = state
    BY <2>1, QuietKeepsStream DEF state
  <2>3. CutIsReturnedLast'
    <3>1. CASE ReadUnit
      BY <3>1, <2>1 DEF ReadUnit, CutIsReturnedLast
    <3>2. CASE NextReaderFails \/ UNCHANGED vars
      <4>1. readRemaining' = readRemaining
        BY <3>2 DEF NextReaderFails, vars
      <4> QED
        BY <4>1, <2>1 DEF StreamInv, CutIsReturnedLast, network
    <3> QED
      BY <3>1, <3>2, <1>8
  <2> QED
    BY <1>1, <2>1, <2>2, <2>3 DEF StreamInv, Stream!vars
<1> QED
  BY <1>2, <1>3, <1>4, <1>5, <1>6, <1>7, <1>8 DEF Next, Reader

\* At first nothing has been told.
LEMMA InitStream == Init => StreamInv /\ Stream!Init
<1> SUFFICES ASSUME Init PROVE StreamInv /\ Stream!Init
  OBVIOUS
<1>1. PICK s0 : s0 = [msgs |-> <<>>, open |-> FALSE, text |-> <<>>, over |-> FALSE]
  OBVIOUS
<1>2. s0.msgs = <<>>
  BY <1>1
<1>3. said = <<s0>> /\ Len(said) = 1 /\ DOMAIN said = {1} /\ said[1] = s0 /\ frames = <<>>
  BY <1>1 DEF Init
<1>4. told = <<>> /\ got = <<>> /\ state = "open"
  BY <1>2, <1>3 DEF Init, told, state
<1>5. SaidGrows
  <2>1. IsPrefixOf(<<>>, <<>>)
    BY DEF IsPrefixOf
  <2> QED
    BY <2>1, <1>2, <1>3 DEF SaidGrows
<1>6. CutIsLast /\ CutIsReturnedLast
  BY <1>3 DEF Init, CutIsLast, CutIsReturnedLast
<1> QED
  BY <1>4, <1>5, <1>6, InitConnInv DEF StreamInv, Stream!Init

\* The connection's frames, buffers and errors implement the stream of messages:
\* every step of advanceFrame(), Read() and the peer, with writes that fail and a
\* connection that ends anywhere, returns the next message, loses last ones that
\* have not been returned, or leaves the stream as it is.
THEOREM ConnectionIsStream == Spec => ImplementsMessageStream
<1>1. Init => StreamInv /\ Stream!Init
  BY InitStream
<1>2. StreamInv /\ [Next]_vars => StreamInv' /\ [Stream!Next]_(Stream!vars)
  BY NextStream
<1> QED
  BY <1>1, <1>2, PTL DEF Spec, ImplementsMessageStream, Stream!Spec
==============================================================================
