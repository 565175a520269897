--------------------------- MODULE MessageStream ---------------------------
(***************************************************************************)
(* What ReadMessage() promises the event router: the messages of the peer, *)
(* one by one and in the peer's order, without a gap and without one       *)
(* twice, until the connection fails.  Two things may go wrong at the end. *)
(* Messages that have not been returned yet may be lost, always the last   *)
(* ones, and when all messages have been returned there may be one more    *)
(* that the peer did not finish.                                           *)
(***************************************************************************)
EXTENDS Naturals, Sequences

VARIABLES
    told,    \* the messages the peer has completed
    got,     \* the messages ReadMessage() has returned
    state    \* "open", or "closed" after an error, which is for good

vars == <<told, got, state>>

\* The first Len(s) elements of t are those of s.
Starts(s, t) == /\ Len(s) <= Len(t)
                /\ \A i \in 1..Len(s) : s[i] = t[i]

OneMore(s, t) == Len(t) = Len(s) + 1 /\ Starts(s, t)

Init == told = <<>> /\ got = <<>> /\ state = "open"

\* The peer completes a message.  After an unfinished one it says nothing more.
Tell == /\ Starts(got, told)
        /\ OneMore(told, told')
        /\ UNCHANGED <<got, state>>

\* The next message is returned.
Deliver == /\ state = "open"
           /\ Len(got) < Len(told)
           /\ got' = Append(got, told[Len(got) + 1])
           /\ UNCHANGED <<told, state>>

\* All have been returned, and what has arrived of the next one is returned too.
DeliverUnfinished == /\ state = "open"
                     /\ got = told
                     /\ OneMore(got, got')
                     /\ state' = "closed"
                     /\ UNCHANGED told

\* Messages that have not been returned are lost with the connection.
Lose == /\ Starts(got, told') /\ Starts(told', told)
        /\ UNCHANGED <<got, state>>

\* The connection has failed, with or without the loss of messages.
Close == /\ state = "open"
         /\ Starts(got, told') /\ Starts(told', told)
         /\ state' = "closed"
         /\ UNCHANGED got

Next == Tell \/ Deliver \/ DeliverUnfinished \/ Lose \/ Close

Spec == Init /\ [][Next]_vars
=============================================================================
