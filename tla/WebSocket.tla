----------------------------- MODULE WebSocket -----------------------------
(***************************************************************************)
(* The executor's side of its websocket: Conn of gorilla/websocket as the  *)
(* event router uses it.  One goroutine calls ReadMessage() in a loop,     *)
(* which reads frames, puts a message together from its fragments and      *)
(* answers control frames on the way; after the first error Stop() writes  *)
(* a close frame.                                                          *)
(*                                                                         *)
(* The peer is not restricted to what RFC 6455 allows: it sends any frames *)
(* in any order, and the connection may end between two frames or within   *)
(* the payload of one.  A payload is a number of units; unit u of frame i  *)
(* is <<i, u>>.  A header arrives as a whole or not at all: readFull() is  *)
(* the same for a header of which a part arrived.                          *)
(*                                                                         *)
(* Lengths are below 2^63: the 64-bit length of a header, whose first bit  *)
(* RFC 6455 keeps at zero, is converted to int64, and a larger one would   *)
(* count as an empty payload.                                              *)
(*                                                                         *)
(* ReadAll() takes a message from its reader unit by unit, and no read     *)
(* limit or deadline is set.  The part of advanceFrame() that skips the    *)
(* rest of a frame is left out: ReadMessage() leaves no rest (see          *)
(* NothingSkipped).                                                        *)
(***************************************************************************)
EXTENDS Naturals, Sequences

CONSTANTS
    MaxFrames,   \* bound on the frames of the peer
    MaxLen       \* the longest payload of a data frame

ASSUME WebSocketAssumption == MaxFrames \in Nat /\ MaxLen \in Nat

\* "bad": reserved bits, an unknown opcode, a mask, a control frame that is too
\* long or fragmented; "close": a normal closure, which has a code as its payload,
\* "closeErr": any other.
Control == {"ping", "pong", "close", "closeErr"}
Op == {"text", "cont", "bad"} \cup Control

\* arr: how much of the payload arrives.  The payload of a control frame is read as
\* a whole, that of a bad one not at all.
Frame == {f \in [op : Op, fin : BOOLEAN, len : 0..MaxLen, arr : 0..MaxLen] :
             /\ f.arr <= f.len
             /\ f.op \in Control => f.fin /\ f.len <= 1
             /\ f.op = "close" => f.len = 1
             /\ f.op = "bad" => f.fin /\ f.len = 0}

Unit == (1..MaxFrames) \X (1..MaxLen)
Message == Seq(Unit)

VARIABLES
    frames,        \* the frames that have arrived
    ended,         \* is the connection up ("no"), at its end, or reset?
    said,          \* history: what the peer has said, see Said
    rpc,           \* where the goroutine of Start() is
    r,             \* the frames whose header has been read
    readRemaining, \* the units of frame r not yet read
    readFinal,     \* is frame r's message complete with frame r?
    readErr,       \* the error of the connection, kept for good
    buf,           \* ReadAll()'s buffer
    got,           \* the messages ReadMessage() has returned
    closeSent,     \* has the writing of a close frame been begun?
    out,           \* the control frames written
    writeFailed    \* history: has a write failed?

vars == <<frames, ended, said, rpc, r, readRemaining, readFinal, readErr, buf, got,
          closeSent, out, writeFailed>>

network == <<frames, ended, said>>
reader == <<rpc, r, readRemaining, readFinal, readErr, buf, got>>
writer == <<closeSent, out, writeFailed>>

(* What the peer has said after each frame, as RFC 6455 reads it: its complete   *)
(* messages, the message it is in the middle of, and whether it may go on.       *)
Said == [msgs : Seq(Message), open : BOOLEAN, text : Message, over : BOOLEAN]

Errors == {"nil", "EOF", "unexpectedEOF", "reset", "close", "protocol"}

\* pong: the number of the ping answered.
Written == {<<"close", 0>>} \cup ({"pong"} \X (1..MaxFrames))

TypeOK == /\ frames \in Seq(Frame) /\ Len(frames) <= MaxFrames
          /\ ended \in {"no", "eof", "reset"}
          /\ said \in Seq(Said) /\ Len(said) = Len(frames) + 1
          /\ rpc \in {"next", "read", "stopping", "stopped"}
          /\ r \in 0..Len(frames)
          /\ readRemaining \in 0..MaxLen
          /\ readFinal \in BOOLEAN
          /\ readErr \in Errors
          /\ buf \in Message
          /\ got \in Seq(Message)
          /\ closeSent \in BOOLEAN
          /\ out \in Seq(Written)
          /\ writeFailed \in BOOLEAN

\* newConn().
Init == /\ frames = <<>>
        /\ ended = "no"
        /\ said = <<[msgs |-> <<>>, open |-> FALSE, text |-> <<>>, over |-> FALSE]>>
        /\ rpc = "next"
        /\ r = 0
        /\ readRemaining = 0
        /\ readFinal = TRUE
        /\ readErr = "nil"
        /\ buf = <<>>
        /\ got = <<>>
        /\ closeSent = FALSE
        /\ out = <<>>
        /\ writeFailed = FALSE

-----------------------------------------------------------------------------
(* The peer and the network (external).                                    *)

Payload(i, n) == [u \in 1..n |-> <<i, u>>]

\* RFC 6455: frame f, as the i-th one, after what was said before.
Hear(f, i, s) ==
    LET fits == f.op = IF s.open THEN "cont" ELSE "text"
        ends == s.over \/ f.arr < f.len \/ ~ (fits \/ f.op \in {"ping", "pong"})
        text == s.text \o Payload(i, f.len)
    IN CASE ends -> [s EXCEPT !.over = TRUE]
         [] ~ ends /\ ~ fits -> s
         [] ~ ends /\ fits /\ ~ f.fin -> [s EXCEPT !.open = TRUE, !.text = text]
         [] ~ ends /\ fits /\ f.fin ->
               [s EXCEPT !.msgs = Append(@, text), !.open = FALSE, !.text = <<>>]

Send(f) == /\ ended = "no"
           /\ Len(frames) < MaxFrames
           /\ frames' = Append(frames, f)
           /\ said' = Append(said, Hear(f, Len(frames) + 1, said[Len(said)]))
           /\ UNCHANGED <<reader, writer>>

\* A frame arrives.
PeerSend == \E f \in Frame : f.arr = f.len /\ Send(f) /\ UNCHANGED ended

\* The connection ends within a payload.
PeerCut == \E f \in Frame : f.arr < f.len /\ Send(f) /\ ended' \in {"eof", "reset"}

\* The connection ends between two frames.
PeerEnd == /\ ended = "no"
           /\ ended' \in {"eof", "reset"}
           /\ UNCHANGED <<frames, said, reader, writer>>

-----------------------------------------------------------------------------
(* WriteControl(), by the goroutine that reads.                            *)

\* Mutant: closeSent is not looked at.
WriteControlAlways(w) ==
    /\ closeSent' = (w[1] = "close")
    /\ out' = Append(out, w)
    /\ UNCHANGED <<writeFailed, network>>

\* A write that has written a part closes the connection: only the frames that have
\* been read from it already are left.
PartialWrite == /\ ended' = "reset"
                /\ \E n \in r'..Len(frames) : /\ frames' = SubSeq(frames, 1, n)
                                              /\ said' = SubSeq(said, 1, n + 1)

\* After a close frame nothing is written.  The deadline may pass before the write
\* begins: then closeSent is not set, and a later close frame is still written.
WriteControl(w) ==
    \/ /\ closeSent
       /\ UNCHANGED <<writer, network>>
    \/ /\ ~ closeSent
       /\ closeSent' = (w[1] = "close")
       /\ \/ out' = Append(out, w) /\ UNCHANGED <<writeFailed, network>>
          \/ writeFailed' = TRUE /\ (UNCHANGED network \/ PartialWrite) /\ UNCHANGED out
    \/ /\ ~ closeSent
       /\ writeFailed' = TRUE
       /\ UNCHANGED <<closeSent, out, network>>

-----------------------------------------------------------------------------
(* advanceFrame(), called by NextReader() ("next") and by Read() ("read").  *)

\* The error is kept; ReadMessage() returns it and Start() leaves its loop.
Fail(e) == /\ readErr' = e
           /\ rpc' = "stopping"
           /\ UNCHANGED <<readRemaining, readFinal, buf, got>>

\* Mutant: a text frame within a message is taken.
DataFrameUnchecked(f) ==
    /\ f.op \in {"text", "cont"}
    /\ readRemaining' = f.len
    /\ readFinal' = f.fin
    /\ rpc' = "read"
    /\ buf' = IF f.op = "text" THEN <<>> ELSE buf
    /\ UNCHANGED <<readErr, got, writer, network>>

\* A new message, or the next fragment of the current one.
DataFrame(f) == /\ f.op = IF readFinal THEN "text" ELSE "cont"
                /\ readRemaining' = f.len
                /\ readFinal' = f.fin
                /\ rpc' = "read"
                /\ buf' = IF f.op = "text" THEN <<>> ELSE buf
                /\ UNCHANGED <<readErr, got, writer, network>>

\* handleProtocolError().
ProtocolError(f) == /\ \/ f.op = "bad"
                       \/ f.op = "text" /\ ~ readFinal
                       \/ f.op = "cont" /\ readFinal
                    /\ Fail("protocol")
                    /\ WriteControl(<<"close", 0>>)

\* The handlers for ping and pong.
Ping(f) == /\ f.op = "ping" /\ f.arr = f.len
           /\ WriteControl(<<"pong", r'>>)
           /\ UNCHANGED <<rpc, readRemaining, readFinal, readErr, buf, got>>

Pong(f) == /\ f.op = "pong" /\ f.arr = f.len
           /\ UNCHANGED <<rpc, readRemaining, readFinal, readErr, buf, got, writer, network>>

\* The close frame is answered.  Its io.EOF ends NextReader(), and within a message
\* Read() makes an unexpected end of it.
Close(f) == /\ f.op \in {"close", "closeErr"} /\ f.arr = f.len
            /\ Fail(CASE f.op = "closeErr" -> "close"
                      [] f.op = "close" /\ rpc = "next" -> "EOF"
                      [] f.op = "close" /\ rpc = "read" -> "unexpectedEOF")
            /\ WriteControl(<<"close", 0>>)

\* What the end of the connection is to readFull().
EndError == IF ended = "eof" THEN "unexpectedEOF" ELSE "reset"

\* The payload of a control frame does not arrive.
CutControl(f) == /\ f.op \in Control /\ f.arr < f.len
                 /\ Fail(EndError)
                 /\ UNCHANGED <<writer, network>>

Advancing == /\ rpc \in {"next", "read"}
             /\ readErr = "nil"
             /\ readRemaining = 0
             /\ rpc = "read" => ~ readFinal

advanceFrame == /\ Advancing
                /\ r < Len(frames)
                /\ r' = r + 1
                /\ LET f == frames[r + 1]
                   IN \/ DataFrame(f) \/ ProtocolError(f) \/ Ping(f) \/ Pong(f)
                      \/ Close(f) \/ CutControl(f)

\* Mutant: the end of the connection is waited out.
NoHeaderReset == /\ Advancing
                 /\ r = Len(frames)
                 /\ ended = "eof"
                 /\ Fail(EndError)
                 /\ UNCHANGED <<r, writer, network>>

\* No further header: readFull() fails.
NoHeader == /\ Advancing
            /\ r = Len(frames)
            /\ ended # "no"
            /\ Fail(EndError)
            /\ UNCHANGED <<r, writer, network>>

-----------------------------------------------------------------------------
(* Read() of the message's reader, called by ReadAll().                    *)

\* Mutant: a message without a payload is not returned.
SkipEmpty == /\ rpc = "read" /\ readErr = "nil"
             /\ readRemaining = 0
             /\ readFinal
             /\ got' = IF buf = <<>> THEN got ELSE Append(got, buf)
             /\ rpc' = "next"
             /\ UNCHANGED <<r, readRemaining, readFinal, readErr, buf, writer, network>>

\* io.EOF at the end of the message: ReadMessage() returns it.
EndOfMessage == /\ rpc = "read" /\ readErr = "nil"
                /\ readRemaining = 0
                /\ readFinal
                /\ got' = Append(got, buf)
                /\ rpc' = "next"
                /\ UNCHANGED <<r, readRemaining, readFinal, readErr, buf, writer, network>>

\* The units of frame r that have been read.
Offset == frames[r].len - readRemaining

ReadUnit == /\ rpc = "read" /\ readErr = "nil"
            /\ readRemaining > 0
            /\ Offset < frames[r].arr
            /\ buf' = Append(buf, <<r, Offset + 1>>)
            /\ readRemaining' = readRemaining - 1
            /\ UNCHANGED <<rpc, r, readFinal, readErr, got, writer, network>>

\* The connection ends within the payload.  Read() returns its error as it is, and
\* ReadAll() takes io.EOF for the end of the message.
CutPayload == /\ rpc = "read" /\ readErr = "nil"
              /\ readRemaining > 0
              /\ Offset = frames[r].arr
              /\ \/ /\ ended = "eof"
                    /\ readErr' = "EOF"
                    /\ got' = Append(got, buf)
                    /\ rpc' = "next"
                    /\ UNCHANGED <<readRemaining, readFinal, buf>>
                 \/ /\ ended = "reset"
                    /\ Fail("reset")
              /\ UNCHANGED <<r, writer, network>>

\* NextReader() of a connection that has failed.
NextReaderFails == /\ rpc = "next"
                   /\ readErr # "nil"
                   /\ rpc' = "stopping"
                   /\ UNCHANGED <<r, readRemaining, readFinal, readErr, buf, got, writer, network>>

\* The deferred router.Stop().
Stop == /\ rpc = "stopping"
        /\ rpc' = "stopped"
        /\ UNCHANGED <<r, readRemaining, readFinal, readErr, buf, got>>
        /\ WriteControl(<<"close", 0>>)

Reader == \/ advanceFrame \/ NoHeader \/ EndOfMessage \/ ReadUnit \/ CutPayload
          \/ NextReaderFails \/ Stop

Next == PeerSend \/ PeerCut \/ PeerEnd \/ Reader

Spec == Init /\ [][Next]_vars

\* The goroutine runs whenever it can.
FairSpec == Spec /\ WF_vars(Reader)

-----------------------------------------------------------------------------
(* Properties.                                                             *)

\* What the peer has said, up to frame n.
Until(n) == said[n + 1]

IsPrefixOf(s, t) == /\ Len(s) <= Len(t)
                    /\ \A i \in DOMAIN s : s[i] = t[i]

\* Every message ReadMessage() returns is the peer's next one, whole, whatever it
\* is made of and whatever control frames come between its fragments (advanceFrame,
\* Read).  There is one exception: when the connection ends within a payload, what
\* has arrived of that message is returned as the last one.
DeliversWhole ==
    \/ IsPrefixOf(got, Until(r).msgs)
    \/ /\ readErr = "EOF" /\ readRemaining > 0
       /\ got = Append(Until(r).msgs, buf)

\* The same without the exception: a message ends where the peer ended it.
MessagesAreWhole == IsPrefixOf(got, Until(r).msgs)

\* No message of the peer is passed over: when the goroutine waits for the next
\* frame, or has stopped, every message that was complete by then has been returned.
NothingLost ==
    (rpc \in {"stopping", "stopped"} \/ (rpc = "next" /\ r = Len(frames))) =>
        IsPrefixOf(Until(r).msgs, got)

IsPing(i) == frames[i].op = "ping" /\ frames[i].arr = frames[i].len

\* Three parts of the code write close frames: the answer to one, the protocol error
\* and Stop().  At most one is written and nothing after it, and unless a write has
\* failed there is one in the end.  Before it the pings are answered in order, those
\* between two fragments too, none twice and, unless a write has failed, all of them.
OneCloseAndAllPongs ==
    /\ \A i \in DOMAIN out : out[i][1] = "close" => i = Len(out)
    /\ \A i \in DOMAIN out : out[i][1] = "pong" => out[i][2] <= r /\ IsPing(out[i][2])
    /\ \A i, j \in DOMAIN out : out[j][1] = "pong" /\ i < j => out[i][2] < out[j][2]
    /\ ~ writeFailed =>
          /\ rpc = "stopped" => \E i \in DOMAIN out : out[i][1] = "close"
          /\ \A n \in 1..r : IsPing(n) => \E i \in DOMAIN out : out[i] = <<"pong", n>>

\* When the connection has ended, the goroutine stops in the end and main() with
\* it: no frame, however it was cut off, makes it wait for ever.
EndIsNoticed == ended # "no" ~> rpc = "stopped"

\* The messages the peer has completed.
told == said[Len(said)].msgs

state == IF readErr = "nil" THEN "open" ELSE "closed"

Stream == INSTANCE MessageStream

\* What ReadMessage() returns, step by step, is the peer's stream of messages:
\* whatever frames carry them and wherever the connection ends, the next message is
\* returned or an error ends them (ReadMessage, NextReader, Read).
ImplementsMessageStream == Stream!Spec

-----------------------------------------------------------------------------
(* The strengthening of the invariants that is inductive.                  *)

Heard == \A i \in DOMAIN frames : said[i + 1] = Hear(frames[i], i, said[i])

\* The peer is between two messages.
Between(s) == ~ s.open /\ ~ s.over /\ s.text = <<>>

\* NextReader() is called with every message read to its end.
NothingSkipped ==
    rpc = "next" /\ readErr = "nil" =>
        readRemaining = 0 /\ readFinal /\ got = Until(r).msgs /\ Between(Until(r))

\* Between two frames of a message, or at its end.
AtFrameEnd ==
    rpc = "read" /\ readRemaining = 0 =>
        /\ readFinal => Until(r).msgs = Append(got, buf) /\ Between(Until(r))
        /\ ~ readFinal => /\ Until(r).msgs = got /\ Until(r).text = buf
                          /\ Until(r).open /\ ~ Until(r).over

\* Within the payload of frame r, which fits what was said before.
InPayload ==
    rpc = "read" /\ readRemaining > 0 =>
        /\ r > 0 /\ readRemaining <= frames[r].len /\ Offset <= frames[r].arr
        /\ frames[r].op = IF said[r].open THEN "cont" ELSE "text"
        /\ readFinal = frames[r].fin
        /\ ~ said[r].over /\ said[r].msgs = got
        /\ buf = said[r].text \o Payload(r, Offset)

\* After an error there is only the message that was cut off.
AfterError ==
    /\ rpc = "read" => readErr = "nil"
    /\ rpc \in {"stopping", "stopped"} => readErr # "nil"
    /\ readErr # "nil" =>
          \/ got = Until(r).msgs
          \/ readErr = "EOF" /\ readRemaining > 0 /\ got = Append(Until(r).msgs, buf)

\* A close frame is written on the way out only.
CloseOnce ==
    /\ closeSent => rpc \in {"stopping", "stopped"}
    /\ (\E i \in DOMAIN out : out[i][1] = "close") => closeSent
    /\ closeSent /\ ~ writeFailed => \E i \in DOMAIN out : out[i][1] = "close"

ConnInv == /\ TypeOK /\ Heard
           /\ NothingSkipped /\ AtFrameEnd /\ InPayload /\ AfterError
           /\ CloseOnce /\ OneCloseAndAllPongs

\* No message is taken back: what was said up to a frame stays said.
SaidGrows == \A i, j \in DOMAIN said : i <= j => IsPrefixOf(said[i].msgs, said[j].msgs)

\* A payload is cut off by the end of the connection only.
CutIsLast == \A i \in DOMAIN frames :
                frames[i].arr < frames[i].len => i = Len(frames) /\ ended # "no"

\* Nothing comes after the message that was cut off.
CutIsReturnedLast ==
    readErr = "EOF" /\ readRemaining > 0 => r = Len(frames) /\ ended # "no"

StreamInv == ConnInv /\ SaidGrows /\ CutIsLast /\ CutIsReturnedLast
=============================================================================
