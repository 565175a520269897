------------------------------- MODULE Locks -------------------------------
(***************************************************************************)
(* Package locks of go-machine-service: the per-resource lock that keeps   *)
(* two events of one resource from being handled at once.                  *)
(*                                                                         *)
(* One goroutine, locker(), owns the map lockedItems.  Lock() and Unlock() *)
(* send it requests over an unbuffered channel: a send completes when      *)
(* locker() receives.  Lock() then waits for its answer on a channel of    *)
(* its own with room for one value; Unlock() returns at the rendezvous,    *)
(* BEFORE locker() has deleted the key.                                    *)
(***************************************************************************)
EXTENDS Naturals, Sequences, FiniteSets

CONSTANTS Client, \* the goroutines that call the package (workers)
          Key     \* the keys they lock (resource ids)

VARIABLES
    lockedItems, \* locker()'s local map, used as a set
    lockReq,     \* the request locker() holds: {} while it blocks on receive
    sendq,       \* the senders blocked on lockRequests, in arrival order
    pc,          \* pc[c]: where client c is
    key,         \* key[c]: the key of c's last call of Lock()
    response     \* response[c]: the content of the channel of c's request

vars == <<lockedItems, lockReq, sendq, pc, key, response>>

\* type lockRequest; the client stands for the identity of its channel.
Request == [op : {"LOCK", "UNLOCK"}, key : Key, client : Client]

PC == {"idle", "sendLock", "waitResponse", "locked", "sendUnlock"}

TypeOK == /\ lockedItems \subseteq Key
          /\ lockReq \subseteq Request
          /\ \A r, s \in lockReq : r = s
          /\ sendq \in Seq(Request)
          /\ pc \in [Client -> PC]
          /\ key \in [Client -> Key]
          /\ response \in [Client -> {"empty", "nil", "unlocker"}]

-----------------------------------------------------------------------------
\* init(): the channel and the goroutine exist before any client runs.
Init == /\ lockedItems = {}
        /\ lockReq = {}
        /\ sendq = <<>>
        /\ pc = [c \in Client |-> "idle"]
        /\ key \in [Client -> Key]
        /\ response = [c \in Client |-> "empty"]

newLockRequest(c, k, op) == [op |-> op, key |-> k, client |-> c]

\* Lock(key): a fresh request (and a fresh, empty response channel) is sent.
Lock(c, k) == /\ pc[c] = "idle"
              /\ pc' = [pc EXCEPT ![c] = "sendLock"]
              /\ key' = [key EXCEPT ![c] = k]
              /\ response' = [response EXCEPT ![c] = "empty"]
              /\ sendq' = Append(sendq, newLockRequest(c, k, "LOCK"))
              /\ UNCHANGED <<lockedItems, lockReq>>

\* return <-lockRequest.response
LockReturns(c) ==
    /\ pc[c] = "waitResponse"
    /\ response[c] # "empty"
    /\ pc' = [pc EXCEPT ![c] = IF response[c] = "unlocker" THEN "locked" ELSE "idle"]
    /\ response' = [response EXCEPT ![c] = "empty"]
    /\ UNCHANGED <<lockedItems, lockReq, sendq, key>>

\* Unlock(): the unlocker remembers the key it was given.
Unlock(c) == /\ pc[c] = "locked"
             /\ pc' = [pc EXCEPT ![c] = "sendUnlock"]
             /\ sendq' = Append(sendq, newLockRequest(c, key[c], "UNLOCK"))
             /\ UNCHANGED <<lockedItems, lockReq, key, response>>

\* Mutant: a second request is received before the first one is served.
ReceiveEagerly == /\ sendq # <<>>
                  /\ lockReq' = lockReq \cup {Head(sendq)}
                  /\ sendq' = Tail(sendq)
                  /\ pc' = [pc EXCEPT ![Head(sendq).client] =
                        IF Head(sendq).op = "LOCK" THEN "waitResponse" ELSE "idle"]
                  /\ UNCHANGED <<lockedItems, key, response>>

\* lockReq := <-lockRequests: the rendezvous.  It completes the send: Lock()
\* goes on to wait for its answer, Unlock() returns.
Receive == /\ lockReq = {}
           /\ sendq # <<>>
           /\ lockReq' = {Head(sendq)}
           /\ sendq' = Tail(sendq)
           /\ pc' = [pc EXCEPT ![Head(sendq).client] =
                        IF Head(sendq).op = "LOCK" THEN "waitResponse" ELSE "idle"]
           /\ UNCHANGED <<lockedItems, key, response>>

\* Mutant: the test of the map is forgotten, every LOCK gets an unlocker.
ServeLockUntested(r) == /\ r.op = "LOCK"
                        /\ lockedItems' = lockedItems \cup {r.key}
                        /\ response' = [response EXCEPT ![r.client] = "unlocker"]
                        /\ UNCHANGED <<sendq, pc, key>>

\* Mutant: locker() itself waits until the key is free.
ServeLockBlocking(r) == /\ r.op = "LOCK"
                        /\ r.key \notin lockedItems
                        /\ lockedItems' = lockedItems \cup {r.key}
                        /\ response' = [response EXCEPT ![r.client] = "unlocker"]
                        /\ UNCHANGED <<sendq, pc, key>>

\* case LOCK.  The answer never blocks: the channel has room for one.
ServeLock(r) ==
    /\ r.op = "LOCK"
    /\ lockedItems' = lockedItems \cup {r.key}
    /\ response' = [response EXCEPT ![r.client] =
                       IF r.key \in lockedItems THEN "nil" ELSE "unlocker"]
    /\ UNCHANGED <<sendq, pc, key>>

\* Mutant: the key is not deleted.
ServeUnlockForgets(r) == r.op = "UNLOCK" /\ UNCHANGED <<lockedItems, sendq, pc, key, response>>

\* case UNLOCK.
ServeUnlock(r) == /\ r.op = "UNLOCK"
                  /\ lockedItems' = lockedItems \ {r.key}
                  /\ UNCHANGED <<sendq, pc, key, response>>

\* One turn of locker()'s loop, after the receive.
Serve == \E r \in lockReq : /\ lockReq' = {}
                            /\ ServeLock(r) \/ ServeUnlock(r)

Next == \/ \E c \in Client : \/ \E k \in Key : Lock(c, k)
                             \/ LockReturns(c)
                             \/ Unlock(c)
        \/ Receive
        \/ Serve

Spec == Init /\ [][Next]_vars

\* locker() never stops, a client with an answer takes it, and a client that
\* holds a lock gives it back (DoWork defers Unlock).  No client is forced to
\* call Lock, and the queue of blocked senders is served in order by the
\* channel itself, so nothing stronger is needed.
Fairness == /\ WF_vars(Receive)
            /\ WF_vars(Serve)
            /\ \A c \in Client : WF_vars(LockReturns(c)) /\ WF_vars(Unlock(c))

FairSpec == Spec /\ Fairness

-----------------------------------------------------------------------------
\* Client c has been promised its key and has not given it back yet.
Owns(c) == \/ pc[c] \in {"locked", "sendUnlock"}
           \/ pc[c] = "waitResponse" /\ response[c] = "unlocker"

\* Two workers never own the same key, whatever the order in which requests,
\* answers and releases are served (locks.go:64-68: the test and the insertion
\* are one turn of locker()).
MutualExclusion ==
    \A c, d \in Client : Owns(c) /\ Owns(d) /\ key[c] = key[d] => c = d

\* A key stays in lockedItems only for an owner, or for the moment in which its
\* UNLOCK is being served: no order of calls leaves a resource locked for ever
\* (locks.go:49-51 sends the key that was locked, :71 deletes it).
NoLeakedLock ==
    \A k \in lockedItems : \/ \E c \in Client : Owns(c) /\ key[c] = k
                           \/ \E r \in lockReq : r.op = "UNLOCK" /\ r.key = k

\* No call is forgotten: a client that blocks in a send is in the queue of the channel,
\* and one that waits for its answer has it in its channel or has its request in
\* locker()'s hands, where the next turn answers it (locks.go:18-22, 41, 57-74).
NoCallIsLost ==
    /\ \A c \in Client : pc[c] \in {"sendLock", "sendUnlock"} =>
          \E i \in 1..Len(sendq) : sendq[i].client = c
    /\ \A c \in Client : pc[c] = "waitResponse" /\ response[c] = "empty" =>
          \E r \in lockReq : r.op = "LOCK" /\ r.client = c

\* Lock() is a try-lock: it always comes back with an answer, also while the
\* key is held (locks.go:15-22).  Unlock() comes back too: locker() never blocks on
\* an answer nobody reads, because the response channel is buffered (locks.go:41).
CallsReturn ==
    \A c \in Client : /\ pc[c] = "sendLock" ~> pc[c] \in {"idle", "locked"}
                      /\ pc[c] = "sendUnlock" ~> pc[c] = "idle"

-----------------------------------------------------------------------------
(* The strengthening of MutualExclusion and NoLeakedLock that is inductive. *)

\* Every blocked sender is where its request says, once.
QueueMatchesClients ==
    /\ \A i \in 1..Len(sendq) :
          LET r == sendq[i]
          IN  /\ pc[r.client] = IF r.op = "LOCK" THEN "sendLock" ELSE "sendUnlock"
              /\ key[r.client] = r.key
    /\ \A i, j \in 1..Len(sendq) : sendq[i].client = sendq[j].client => i = j

\* A LOCK that is being served has a client waiting for its answer.
ServedIsWaiting ==
    \A r \in lockReq : r.op = "LOCK" => /\ pc[r.client] = "waitResponse"
                                        /\ response[r.client] = "empty"
                                        /\ key[r.client] = r.key

\* An answer is in the channel only while its client waits for it.
AnswerIsAwaited == \A c \in Client : response[c] # "empty" => pc[c] = "waitResponse"

\* The map is exactly the owned keys, and the key whose UNLOCK is in locker()'s
\* hands, which nobody owns any more.
TableMatchesOwners ==
    /\ \A c \in Client : Owns(c) => key[c] \in lockedItems
    /\ \A r \in lockReq : r.op = "UNLOCK" =>
          \A c \in Client : Owns(c) => key[c] # r.key

LockInv == /\ TypeOK
           /\ QueueMatchesClients
           /\ ServedIsWaiting
           /\ AnswerIsAwaited
           /\ TableMatchesOwners
           /\ MutualExclusion
           /\ NoLeakedLock

-----------------------------------------------------------------------------
(* The refinement: the call is decided when locker() answers, and released  *)
(* at the rendezvous of Unlock(), although the map is changed only later.   *)

StatusOf(c) == CASE pc[c] = "idle" -> "idle"
                 [] pc[c] = "sendLock" -> "calling"
                 [] pc[c] = "waitResponse" /\ response[c] = "empty" -> "calling"
                 [] pc[c] = "waitResponse" /\ response[c] = "nil" -> "refused"
                 [] pc[c] = "waitResponse" /\ response[c] = "unlocker" -> "granted"
                 [] pc[c] = "locked" -> "holding"
                 [] pc[c] = "sendUnlock" -> "releasing"

absStatus == [c \in Client |-> StatusOf(c)]

Table == INSTANCE LockTable WITH status <- absStatus, key <- key

\* The package implements the lock table that its comment promises: a call is
\* refused only if at some instant of the call somebody owned the key, and
\* granted only if nobody did (locks.go:15-22, 57-74).
ImplementsLockTable == Table!Spec
=============================================================================
