----------------------------- MODULE LocksProofs -----------------------------
(***************************************************************************)
(* Proofs about package locks, for any set of clients and keys.            *)
(***************************************************************************)
EXTENDS Locks, TLAPS

-----------------------------------------------------------------------------
(* The inductive invariant. *)

\* In the initial state nobody owns, sends or waits (locks.go:5-8).
LEMMA InitLockInv == Init => LockInv
<1> SUFFICES ASSUME Init PROVE LockInv
  OBVIOUS
<1>1. TypeOK
  BY DEF Init, TypeOK, PC, Request
<1>2. QueueMatchesClients /\ ServedIsWaiting /\ AnswerIsAwaited /\ TableMatchesOwners
  BY DEF Init, QueueMatchesClients, ServedIsWaiting, AnswerIsAwaited, TableMatchesOwners, Owns
<1>3. MutualExclusion /\ NoLeakedLock
  BY DEF Init, MutualExclusion, NoLeakedLock, Owns
<1> QED
  BY <1>1, <1>2, <1>3 DEF LockInv

\* What Append does to a queue of requests.
LEMMA AppendRequest ==
  ASSUME NEW q \in Seq(Request), NEW r \in Request
  PROVE  /\ Append(q, r) \in Seq(Request)
         /\ Len(Append(q, r)) = Len(q) + 1
         /\ \A i \in 1..Len(q) : Append(q, r)[i] = q[i]
         /\ Append(q, r)[Len(q) + 1] = r
  OBVIOUS

\* What Head and Tail do to a queue of requests.
LEMMA TailRequest ==
  ASSUME NEW q \in Seq(Request), q # <<>>
  PROVE  /\ Head(q) \in Request
         /\ Head(q) = q[1]
         /\ 1 \in 1..Len(q)
         /\ Tail(q) \in Seq(Request)
         /\ Len(Tail(q)) = Len(q) - 1
         /\ \A i \in 1..Len(Tail(q)) : i + 1 \in 1..Len(q) /\ Tail(q)[i] = q[i + 1]
  OBVIOUS

\* The entries of a queue of requests are requests.
LEMMA QueueEntries ==
  ASSUME NEW q \in Seq(Request), NEW i \in 1..Len(q)
  PROVE  q[i] \in Request /\ q[i].client \in Client
<1>1. q[i] \in Request
  OBVIOUS
<1> QED
  BY <1>1 DEF Request

\* A client calls Lock() (locks.go:18-20).
LEMMA LockKeepsInv ==
  ASSUME LockInv, NEW c \in Client, NEW k \in Key, Lock(c, k)
  PROVE  LockInv'
<1> DEFINE r == newLockRequest(c, k, "LOCK")
<1> USE DEF LockInv, Lock
<1>1. r \in Request /\ r.client = c /\ r.op = "LOCK" /\ r.key = k
  BY DEF newLockRequest, Request
<1>2. sendq \in Seq(Request)
  BY DEF TypeOK
<1>3. /\ sendq' \in Seq(Request)
      /\ Len(sendq') = Len(sendq) + 1
      /\ \A i \in 1..Len(sendq) : sendq'[i] = sendq[i]
      /\ sendq'[Len(sendq) + 1] = r
  BY <1>1, <1>2, AppendRequest
<1>4. TypeOK'
  BY <1>3 DEF TypeOK, PC
<1>5. \A i \in 1..Len(sendq) : sendq[i].client \in Client /\ sendq[i].client # c
  BY <1>2, QueueEntries DEF QueueMatchesClients
<1>6. \A d \in Client : Owns(d)' <=> Owns(d)
  BY DEF TypeOK, Owns
<1>7. \A d \in Client : Owns(d) => d # c /\ key'[d] = key[d]
  BY DEF TypeOK, Owns
<1>8. QueueMatchesClients'
  <2>1. Len(sendq) \in Nat
    BY <1>2
  <2> HIDE DEF r
  <2>2. \A i \in 1..Len(sendq') : i \in 1..Len(sendq) \/ i = Len(sendq) + 1
    BY <1>3, <2>1
  <2>3. \A i \in 1..Len(sendq') :
           /\ pc'[sendq'[i].client] = IF sendq'[i].op = "LOCK" THEN "sendLock" ELSE "sendUnlock"
           /\ key'[sendq'[i].client] = sendq'[i].key
    BY <1>1, <1>3, <1>5, <2>2 DEF QueueMatchesClients, TypeOK
  <2>4. \A i, j \in 1..Len(sendq') : sendq'[i].client = sendq'[j].client => i = j
    BY <1>1, <1>3, <1>5, <2>2 DEF QueueMatchesClients
  <2> QED
    BY <2>3, <2>4 DEF QueueMatchesClients
<1>9. ServedIsWaiting' /\ AnswerIsAwaited'
  BY DEF ServedIsWaiting, AnswerIsAwaited, TypeOK, Request
<1>10. TableMatchesOwners'
  BY <1>6, <1>7 DEF TableMatchesOwners
<1>11. MutualExclusion'
  BY <1>6, <1>7 DEF MutualExclusion
<1>12. NoLeakedLock'
  BY <1>6, <1>7 DEF NoLeakedLock
<1> QED
  BY <1>4, <1>8, <1>9, <1>10, <1>11, <1>12

\* Lock() returns (locks.go:21).
LEMMA LockReturnsKeepsInv ==
  ASSUME LockInv, NEW c \in Client, LockReturns(c)
  PROVE  LockInv'
<1> USE DEF LockInv, LockReturns
<1>1. TypeOK'
  BY DEF TypeOK, PC
<1>2. \A d \in Client : Owns(d)' <=> Owns(d)
  BY DEF TypeOK, Owns
<1>3. QueueMatchesClients'
  BY DEF QueueMatchesClients, TypeOK, Request
<1>4. ServedIsWaiting' /\ AnswerIsAwaited'
  BY DEF ServedIsWaiting, AnswerIsAwaited, TypeOK, Request
<1>5. TableMatchesOwners' /\ MutualExclusion' /\ NoLeakedLock'
  BY <1>2 DEF TableMatchesOwners, MutualExclusion, NoLeakedLock
<1> QED
  BY <1>1, <1>3, <1>4, <1>5

\* A client calls Unlock() (locks.go:49-51).
LEMMA UnlockKeepsInv ==
  ASSUME LockInv, NEW c \in Client, Unlock(c)
  PROVE  LockInv'
<1> DEFINE r == newLockRequest(c, key[c], "UNLOCK")
<1> USE DEF LockInv, Unlock
<1>1. r \in Request /\ r.client = c /\ r.op = "UNLOCK" /\ r.key = key[c]
  BY DEF newLockRequest, Request, TypeOK
<1>2. sendq \in Seq(Request)
  BY DEF TypeOK
<1>3. /\ sendq' \in Seq(Request)
      /\ Len(sendq') = Len(sendq) + 1
      /\ \A i \in 1..Len(sendq) : sendq'[i] = sendq[i]
      /\ sendq'[Len(sendq) + 1] = r
  BY <1>1, <1>2, AppendRequest
<1>4. TypeOK'
  BY <1>3 DEF TypeOK, PC
<1>5. \A i \in 1..Len(sendq) : sendq[i].client \in Client /\ sendq[i].client # c
  BY <1>2, QueueEntries DEF QueueMatchesClients
<1>6. \A d \in Client : Owns(d)' <=> Owns(d)
  BY DEF TypeOK, Owns
<1>7. QueueMatchesClients'
  <2>1. Len(sendq) \in Nat
    BY <1>2
  <2> HIDE DEF r
  <2>2. \A i \in 1..Len(sendq') : i \in 1..Len(sendq) \/ i = Len(sendq) + 1
    BY <1>3, <2>1
  <2>3. \A i \in 1..Len(sendq') :
           /\ pc'[sendq'[i].client] = IF sendq'[i].op = "LOCK" THEN "sendLock" ELSE "sendUnlock"
           /\ key'[sendq'[i].client] = sendq'[i].key
    BY <1>1, <1>3, <1>5, <2>2 DEF QueueMatchesClients, TypeOK
  <2>4. \A i, j \in 1..Len(sendq') : sendq'[i].client = sendq'[j].client => i = j
    BY <1>1, <1>3, <1>5, <2>2 DEF QueueMatchesClients
  <2> QED
    BY <2>3, <2>4 DEF QueueMatchesClients
<1>8. ServedIsWaiting' /\ AnswerIsAwaited'
  BY DEF ServedIsWaiting, AnswerIsAwaited, TypeOK, Request
<1>9. TableMatchesOwners' /\ MutualExclusion' /\ NoLeakedLock'
  BY <1>6 DEF TableMatchesOwners, MutualExclusion, NoLeakedLock
<1> QED
  BY <1>4, <1>7, <1>8, <1>9

\* The rendezvous (locks.go:61): a LOCK's client starts to wait, an UNLOCK's
\* client stops owning its key, which only locker() now remembers.
LEMMA ReceiveKeepsInv ==
  ASSUME LockInv, Receive
  PROVE  LockInv'
<1> DEFINE n == Len(sendq')
<1> USE DEF LockInv, Receive
<1>0. PICK r \in Request : r = Head(sendq)
  BY TailRequest DEF TypeOK
<1>1. /\ r = sendq[1]
      /\ 1 \in 1..Len(sendq)
      /\ sendq' \in Seq(Request)
      /\ n = Len(sendq) - 1
      /\ \A i \in 1..n : i + 1 \in 1..Len(sendq) /\ sendq'[i] = sendq[i + 1]
  BY <1>0, TailRequest DEF TypeOK
<1>2. r.client \in Client /\ r.key \in Key /\ r.op \in {"LOCK", "UNLOCK"}
  BY DEF Request
<1>3. /\ pc[r.client] = IF r.op = "LOCK" THEN "sendLock" ELSE "sendUnlock"
      /\ key[r.client] = r.key
  BY <1>1 DEF QueueMatchesClients
<1>4. /\ lockReq' = {r}
      /\ pc' = [pc EXCEPT ![r.client] = IF r.op = "LOCK" THEN "waitResponse" ELSE "idle"]
  BY <1>0
<1>5. TypeOK'
  BY <1>1, <1>2, <1>4 DEF TypeOK, PC
<1>6. QueueMatchesClients'
  <2>1. \A i \in 1..n : sendq'[i].client \in Client /\ sendq'[i].client # r.client
    <3>1. \A i \in 1..n : i \in Nat /\ i + 1 # 1
      BY <1>1 DEF TypeOK
    <3> QED
      BY <1>1, <3>1, QueueEntries DEF QueueMatchesClients
  <2>2. \A i \in 1..n :
           /\ pc'[sendq'[i].client] = IF sendq'[i].op = "LOCK" THEN "sendLock" ELSE "sendUnlock"
           /\ key'[sendq'[i].client] = sendq'[i].key
    BY <1>1, <1>4, <2>1 DEF QueueMatchesClients, TypeOK
  <2>3. \A i, j \in 1..n : sendq'[i].client = sendq'[j].client => i = j
    BY <1>1 DEF QueueMatchesClients, TypeOK
  <2> QED
    BY <2>2, <2>3 DEF QueueMatchesClients
<1>7. r \in lockReq' /\ \A q \in lockReq' : q = r
  BY <1>4
<1>8. AnswerIsAwaited'
  <2>1. pc[r.client] # "waitResponse"
    BY <1>3
  <2> QED
    BY <1>2, <1>4, <2>1 DEF AnswerIsAwaited, TypeOK
<1>9. CASE r.op = "LOCK"
  <2>1. response[r.client] = "empty"
    BY <1>2, <1>3, <1>9 DEF AnswerIsAwaited, TypeOK
  <2>2. ServedIsWaiting'
    BY <1>2, <1>3, <1>4, <1>7, <1>9, <2>1 DEF ServedIsWaiting, TypeOK
  <2>3. \A d \in Client : Owns(d)' <=> Owns(d)
    BY <1>2, <1>3, <1>4, <1>9, <2>1 DEF Owns, TypeOK
  <2>4. TableMatchesOwners' /\ MutualExclusion'
    BY <1>7, <1>9, <2>3 DEF TableMatchesOwners, MutualExclusion
  <2>5. NoLeakedLock'
    BY <2>3 DEF NoLeakedLock
  <2> QED
    BY <1>5, <1>6, <1>8, <2>2, <2>4, <2>5
<1>10. CASE r.op = "UNLOCK"
  <2>1. Owns(r.client) /\ ~ Owns(r.client)'
    BY <1>2, <1>3, <1>4, <1>10 DEF Owns, TypeOK
  <2>2. \A d \in Client \ {r.client} : Owns(d)' <=> Owns(d)
    BY <1>2, <1>4 DEF Owns, TypeOK
  <2>3. ServedIsWaiting'
    BY <1>7, <1>10 DEF ServedIsWaiting
  <2>4. MutualExclusion'
    BY <2>1, <2>2 DEF MutualExclusion
  <2>5. TableMatchesOwners'
    BY <1>2, <1>3, <1>7, <2>1, <2>2 DEF TableMatchesOwners, MutualExclusion
  <2>6. NoLeakedLock'
    BY <1>2, <1>3, <1>7, <1>10, <2>1, <2>2 DEF NoLeakedLock
  <2> QED
    BY <1>5, <1>6, <1>8, <2>3, <2>4, <2>5, <2>6
<1> QED
  BY <1>2, <1>9, <1>10

\* locker() answers a LOCK (locks.go:63-69).
LEMMA ServeLockKeepsInv ==
  ASSUME LockInv, NEW r \in lockReq, lockReq' = {}, ServeLock(r)
  PROVE  LockInv'
<1> USE DEF LockInv, ServeLock
<1>1. r \in Request /\ r.client \in Client /\ r.key \in Key
  BY DEF TypeOK, Request
<1>2. pc[r.client] = "waitResponse" /\ response[r.client] = "empty" /\ key[r.client] = r.key
  BY DEF ServedIsWaiting
<1>3. TypeOK'
  BY <1>1 DEF TypeOK
<1>4. QueueMatchesClients' /\ ServedIsWaiting'
  BY DEF QueueMatchesClients, ServedIsWaiting
<1>5. AnswerIsAwaited'
  BY <1>1, <1>2 DEF AnswerIsAwaited, TypeOK
<1>6. \A d \in Client \ {r.client} : Owns(d)' <=> Owns(d)
  BY <1>1 DEF Owns, TypeOK
<1>7. Owns(r.client)' <=> r.key \notin lockedItems
  BY <1>1, <1>2 DEF Owns, TypeOK
<1>8. ~ Owns(r.client)
  BY <1>2 DEF Owns
<1>9. TableMatchesOwners'
  BY <1>1, <1>2, <1>6 DEF TableMatchesOwners
<1>10. MutualExclusion'
  BY <1>1, <1>2, <1>6, <1>7 DEF MutualExclusion, TableMatchesOwners
<1>11. NoLeakedLock'
  <2> SUFFICES ASSUME NEW k \in lockedItems'
               PROVE  \E c \in Client : Owns(c)' /\ key[c] = k
    BY DEF NoLeakedLock
  <2>1. CASE k \in lockedItems
    <3>1. \A q \in lockReq : q.op # "UNLOCK"
      BY DEF TypeOK
    <3>2. PICK c \in Client : Owns(c) /\ key[c] = k
      BY <2>1, <3>1 DEF NoLeakedLock
    <3> QED
      BY <1>6, <1>8, <3>2
  <2>2. CASE k \notin lockedItems
    BY <1>1, <1>2, <1>7, <2>2
  <2> QED
    BY <2>1, <2>2
<1> QED
  BY <1>3, <1>4, <1>5, <1>9, <1>10, <1>11

\* locker() serves an UNLOCK (locks.go:70-71).
LEMMA ServeUnlockKeepsInv ==
  ASSUME LockInv, NEW r \in lockReq, lockReq' = {}, ServeUnlock(r)
  PROVE  LockInv'
<1> USE DEF LockInv, ServeUnlock
<1>1. TypeOK'
  BY DEF TypeOK
<1>2. QueueMatchesClients' /\ ServedIsWaiting' /\ AnswerIsAwaited'
  BY DEF QueueMatchesClients, ServedIsWaiting, AnswerIsAwaited
<1>3. \A d \in Client : Owns(d)' <=> Owns(d)
  BY DEF Owns
<1>4. \A q \in lockReq : q = r
  BY DEF TypeOK
<1>5. TableMatchesOwners' /\ MutualExclusion'
  BY <1>3 DEF TableMatchesOwners, MutualExclusion
<1>6. NoLeakedLock'
  BY <1>3, <1>4 DEF NoLeakedLock
<1> QED
  BY <1>1, <1>2, <1>5, <1>6

\* LockInv holds in every reachable state, for any clients and keys: one step
\* per operation of the package.
THEOREM LockInvariant == Spec => []LockInv
<1>1. Init => LockInv
  BY InitLockInv
<1>2. LockInv /\ [Next]_vars => LockInv'
  <2> SUFFICES ASSUME LockInv, [Next]_vars PROVE LockInv'
    OBVIOUS
  <2>1. ASSUME NEW c \in Client, NEW k \in Key, Lock(c, k) PROVE LockInv'
    BY <2>1, LockKeepsInv
  <2>2. ASSUME NEW c \in Client, LockReturns(c) PROVE LockInv'
    BY <2>2, LockReturnsKeepsInv
  <2>3. ASSUME NEW c \in Client, Unlock(c) PROVE LockInv'
    BY <2>3, UnlockKeepsInv
  <2>4. CASE Receive
    BY <2>4, ReceiveKeepsInv
  <2>5. CASE Serve
    BY <2>5, ServeLockKeepsInv, ServeUnlockKeepsInv DEF Serve
  <2>6. CASE UNCHANGED vars
    BY <2>6 DEF vars, LockInv, TypeOK, QueueMatchesClients, ServedIsWaiting,
       AnswerIsAwaited, TableMatchesOwners, MutualExclusion, NoLeakedLock, Owns
  <2> QED
    BY <2>1, <2>2, <2>3, <2>4, <2>5, <2>6 DEF Next
<1> QED
  BY <1>1, <1>2, PTL DEF Spec

\* Every reachable state is well typed; in particular locker() holds at most one
\* request (locks.go:57-74).
THEOREM TypeCorrect == Spec => []TypeOK
<1>1. LockInv => TypeOK
  BY DEF LockInv
<1> QED
  BY <1>1, LockInvariant, PTL

\* Two workers never own the same key (locks.go:64-68).
THEOREM LocksExclude == Spec => []MutualExclusion
<1>1. LockInv => MutualExclusion
  BY DEF LockInv
<1> QED
  BY <1>1, LockInvariant, PTL

\* No key stays locked without an owner (locks.go:49-51, 70-71).
THEOREM LocksAreReleased == Spec => []NoLeakedLock
<1>1. LockInv => NoLeakedLock
  BY DEF LockInv
<1> QED
  BY <1>1, LockInvariant, PTL
-----------------------------------------------------------------------------
(* No call is forgotten. *)

\* A client joins the queue: it is its last entry, and the others keep theirs.
LEMMA JoiningIsNotLost ==
  ASSUME LockInv, NoCallIsLost, NEW c \in Client, NEW r \in Request, r.client = c,
         NEW q \in {"sendLock", "sendUnlock"}, pc' = [pc EXCEPT ![c] = q],
         sendq' = Append(sendq, r), UNCHANGED lockReq,
         \A d \in Client \ {c} : response'[d] = response[d]
  PROVE  NoCallIsLost'
<1>1. sendq \in Seq(Request) /\ pc \in [Client -> PC] /\ Len(sendq) \in Nat
  BY DEF LockInv, TypeOK
<1>2. /\ Len(sendq') = Len(sendq) + 1 /\ sendq'[Len(sendq) + 1] = r
      /\ \A i \in 1..Len(sendq) : sendq'[i] = sendq[i] /\ i \in 1..(Len(sendq) + 1)
      /\ Len(sendq) + 1 \in 1..(Len(sendq) + 1)
  BY <1>1, AppendRequest
<1>3. \A d \in Client \ {c} : pc'[d] = pc[d]
  BY <1>1
<1>4. ASSUME NEW d \in Client, pc'[d] \in {"sendLock", "sendUnlock"}
      PROVE  \E i \in 1..Len(sendq') : sendq'[i].client = d
  <2>1. CASE d = c
    BY <2>1, <1>2
  <2>2. CASE d # c
    <3>1. PICK i \in 1..Len(sendq) : sendq[i].client = d
      BY <2>2, <1>3, <1>4 DEF NoCallIsLost
    <3> QED
      BY <3>1, <1>2
  <2> QED
    BY <2>1, <2>2
<1>5. ASSUME NEW d \in Client, pc'[d] = "waitResponse", response'[d] = "empty"
      PROVE  \E s \in lockReq' : s.op = "LOCK" /\ s.client = d
  <2>1. d # c
    BY <1>1, <1>5
  <2> QED
    BY <2>1, <1>3, <1>5 DEF NoCallIsLost
<1> QED
  BY <1>4, <1>5 DEF NoCallIsLost

\* A client takes its answer.
LEMMA ReturningIsNotLost ==
  ASSUME LockInv, NoCallIsLost, NEW c \in Client, LockReturns(c)
  PROVE  NoCallIsLost'
<1>1. pc \in [Client -> PC] /\ response \in [Client -> {"empty", "nil", "unlocker"}]
  BY DEF LockInv, TypeOK
<1>2. pc'[c] \in {"locked", "idle"} /\ \A d \in Client \ {c} : pc'[d] = pc[d] /\ response'[d] = response[d]
  BY <1>1 DEF LockReturns
<1> QED
  BY <1>2 DEF NoCallIsLost, LockReturns

\* locker() receives: the sender has left the queue and is answered next.
LEMMA ReceivingIsNotLost ==
  ASSUME LockInv, NoCallIsLost, Receive
  PROVE  NoCallIsLost'
<1>1. sendq \in Seq(Request) /\ pc \in [Client -> PC] /\ sendq # <<>> /\ lockReq = {}
  BY DEF LockInv, TypeOK, Receive
<1>2. PICK h : h = Head(sendq)
  OBVIOUS
<1>3. PICK t : t = Tail(sendq)
  OBVIOUS
<1>4. /\ h \in Request /\ h.client \in Client /\ h = sendq[1] /\ Len(sendq) \in Nat /\ Len(t) = Len(sendq) - 1
      /\ \A i \in 1..Len(t) : t[i] = sendq[i + 1]
  BY <1>1, <1>2, <1>3, TailRequest, QueueEntries
<1>5. /\ sendq' = t /\ lockReq' = {h} /\ UNCHANGED response
      /\ pc' = [pc EXCEPT ![h.client] = IF h.op = "LOCK" THEN "waitResponse" ELSE "idle"]
  BY <1>2, <1>3 DEF Receive
<1>6. ASSUME NEW d \in Client, pc'[d] \in {"sendLock", "sendUnlock"}
      PROVE  \E i \in 1..Len(sendq') : sendq'[i].client = d
  <2>1. d # h.client /\ pc[d] = pc'[d]
    BY <1>1, <1>4, <1>5, <1>6
  <2>2. PICK i \in 1..Len(sendq) : sendq[i].client = d
    BY <2>1, <1>6 DEF NoCallIsLost
  <2>3. i # 1
    BY <2>1, <2>2, <1>4
  <2>4. PICK k \in 1..Len(t) : i = k + 1
    <3>1. i - 1 \in 1..Len(t) /\ i = (i - 1) + 1
      BY <2>3, <1>4
    <3> QED
      BY <3>1
  <2> QED
    BY <2>2, <2>4, <1>4, <1>5
<1>7. ASSUME NEW d \in Client, pc'[d] = "waitResponse", response'[d] = "empty"
      PROVE  \E s \in lockReq' : s.op = "LOCK" /\ s.client = d
  <2>1. CASE d = h.client
    <3>1. h.op = "LOCK"
      BY <2>1, <1>1, <1>4, <1>5, <1>7
    <3> QED
      BY <3>1, <2>1, <1>5
  <2>2. CASE d # h.client
    <3>1. pc[d] = "waitResponse" /\ response[d] = "empty"
      BY <2>2, <1>1, <1>5, <1>7
    <3> QED
      BY <3>1, <1>1 DEF NoCallIsLost
  <2> QED
    BY <2>1, <2>2
<1> QED
  BY <1>6, <1>7 DEF NoCallIsLost

\* locker() serves the request in its hands: if it is a LOCK, its client has its answer.
LEMMA ServingIsNotLost ==
  ASSUME LockInv, NoCallIsLost, Serve
  PROVE  NoCallIsLost'
<1>1. /\ response \in [Client -> {"empty", "nil", "unlocker"}] /\ lockReq \subseteq Request
      /\ \A r, s \in lockReq : r = s
  BY DEF LockInv, TypeOK
<1>2. PICK r \in lockReq : lockReq' = {} /\ (ServeLock(r) \/ ServeUnlock(r))
  BY DEF Serve
<1>3. r.client \in Client /\ UNCHANGED <<sendq, pc>>
  BY <1>1, <1>2 DEF Request, ServeLock, ServeUnlock
<1>4. ASSUME NEW d \in Client, pc[d] = "waitResponse", response'[d] = "empty" PROVE FALSE
  <2>1. CASE ServeUnlock(r)
    <3>1. response[d] = "empty"
      BY <2>1, <1>4 DEF ServeUnlock
    <3>2. PICK s \in lockReq : s.op = "LOCK"
      BY <3>1, <1>4 DEF NoCallIsLost
    <3> QED
      BY <2>1, <3>2, <1>1, <1>2 DEF ServeUnlock
  <2>2. CASE ServeLock(r)
    <3>1. d # r.client /\ response[d] = "empty"
      BY <2>2, <1>1, <1>3, <1>4 DEF ServeLock
    <3>2. PICK s \in lockReq : s.client = d
      BY <3>1, <1>4 DEF NoCallIsLost
    <3> QED
      BY <3>1, <3>2, <1>1, <1>2
  <2> QED
    BY <2>1, <2>2, <1>2
<1> QED
  BY <1>3, <1>4 DEF NoCallIsLost

\* A client that waits is in the queue, in locker()'s hands or has its answer: with
\* locker() in its loop, every call has its turn (locks.go:18-22, 41, 57-74).
THEOREM CallsAreServed == Spec => []NoCallIsLost
<1>1. Init => NoCallIsLost
  BY DEF Init, NoCallIsLost
<1>2. LockInv /\ NoCallIsLost /\ [Next]_vars => NoCallIsLost'
  <2> SUFFICES ASSUME LockInv, NoCallIsLost, [Next]_vars PROVE NoCallIsLost'
    OBVIOUS
  <2>1. ASSUME NEW c \in Client, NEW k \in Key, Lock(c, k) PROVE NoCallIsLost'
    <3>1. PICK r : r = newLockRequest(c, k, "LOCK")
      OBVIOUS
    <3>2. r \in Request /\ r.client = c
      BY <3>1 DEF newLockRequest, Request
    <3>3. /\ pc' = [pc EXCEPT ![c] = "sendLock"] /\ sendq' = Append(sendq, r) /\ UNCHANGED lockReq
          /\ \A d \in Client \ {c} : response'[d] = response[d]
      BY <2>1, <3>1 DEF Lock, LockInv, TypeOK
    <3> QED
      BY <3>2, <3>3, JoiningIsNotLost
  <2>2. ASSUME NEW c \in Client, Unlock(c) PROVE NoCallIsLost'
    <3>1. PICK r : r = newLockRequest(c, key[c], "UNLOCK")
      OBVIOUS
    <3>2. r \in Request /\ r.client = c
      BY <3>1 DEF newLockRequest, Request, LockInv, TypeOK
    <3>3. /\ pc' = [pc EXCEPT ![c] = "sendUnlock"] /\ sendq' = Append(sendq, r) /\ UNCHANGED lockReq
          /\ \A d \in Client \ {c} : response'[d] = response[d]
      BY <2>2, <3>1 DEF Unlock
    <3> QED
      BY <3>2, <3>3, JoiningIsNotLost
  <2>3. ASSUME NEW c \in Client, LockReturns(c) PROVE NoCallIsLost'
    BY <2>3, ReturningIsNotLost
  <2>4. CASE Receive
    BY <2>4, ReceivingIsNotLost
  <2>5. CASE Serve
    BY <2>5, ServingIsNotLost
  <2>6. CASE UNCHANGED vars
    BY <2>6 DEF vars, NoCallIsLost
  <2> QED
    BY <2>1, <2>2, <2>3, <2>4, <2>5, <2>6 DEF Next
<1> QED
  BY <1>1, <1>2, LockInvariant, PTL DEF Spec

-----------------------------------------------------------------------------
(* The refinement. *)

\* A step that moves one client moves one entry of the abstract status.
LEMMA OneStatusMoves ==
  ASSUME NEW c \in Client, NEW v, StatusOf(c)' = v,
         \A d \in Client \ {c} : StatusOf(d)' = StatusOf(d)
  PROVE  absStatus' = [absStatus EXCEPT ![c] = v]
  BY DEF absStatus

\* The abstract owners are the clients that own a key.
LEMMA OwnersAgree ==
  ASSUME TypeOK
  PROVE  Table!Owned = {key[c] : c \in {d \in Client : Owns(d)}}
<1>1. ASSUME NEW c \in Client PROVE absStatus[c] \in Table!Owning <=> Owns(c)
  BY DEF TypeOK, PC, absStatus, StatusOf, Table!Owning, Owns
<1> QED
  BY <1>1 DEF Table!Owned

\* Every step of the package is a step of the lock table or changes nothing in it.
LEMMA StepRefines ==
  ASSUME LockInv, [Next]_vars
  PROVE  [Table!Next]_(Table!vars)
<1> USE DEF LockInv
<1>1. ASSUME NEW c \in Client, NEW k \in Key, Lock(c, k)
      PROVE  Table!Call(c, k)
  <2>1. StatusOf(c) = "idle" /\ StatusOf(c)' = "calling"
    BY <1>1 DEF Lock, StatusOf, TypeOK
  <2>2. \A d \in Client \ {c} : StatusOf(d)' = StatusOf(d)
    BY <1>1 DEF Lock, StatusOf, TypeOK
  <2>3. absStatus' = [absStatus EXCEPT ![c] = "calling"]
    BY <2>1, <2>2, OneStatusMoves
  <2> QED
    BY <1>1, <2>1, <2>3 DEF Table!Call, Lock, absStatus
<1>2. ASSUME NEW c \in Client, LockReturns(c)
      PROVE  Table!Return(c)
  <2>1. \/ StatusOf(c) = "granted" /\ StatusOf(c)' = "holding"
        \/ StatusOf(c) = "refused" /\ StatusOf(c)' = "idle"
    BY <1>2 DEF LockReturns, StatusOf, TypeOK
  <2>2. \A d \in Client \ {c} : StatusOf(d)' = StatusOf(d)
    BY <1>2 DEF LockReturns, StatusOf, TypeOK
  <2>3. absStatus' = [absStatus EXCEPT ![c] = StatusOf(c)']
    BY <2>2, OneStatusMoves
  <2>4. UNCHANGED key
    BY <1>2 DEF LockReturns
  <2> QED
    BY <2>1, <2>3, <2>4 DEF Table!Return, absStatus
<1>3. ASSUME NEW c \in Client, Unlock(c)
      PROVE  Table!Unlock(c)
  <2>1. StatusOf(c) = "holding" /\ StatusOf(c)' = "releasing"
    BY <1>3 DEF Unlock, StatusOf, TypeOK
  <2>2. \A d \in Client \ {c} : StatusOf(d)' = StatusOf(d)
    BY <1>3 DEF Unlock, StatusOf, TypeOK
  <2>3. absStatus' = [absStatus EXCEPT ![c] = "releasing"]
    BY <2>1, <2>2, OneStatusMoves
  <2> QED
    BY <1>3, <2>1, <2>3 DEF Table!Unlock, Unlock, absStatus
<1>4. ASSUME Receive
      PROVE  (\E c \in Client : Table!Release(c)) \/ UNCHANGED Table!vars
  <2>1. PICK r \in Request : r = Head(sendq) /\ r = sendq[1] /\ 1 \in 1..Len(sendq)
    BY <1>4, TailRequest DEF Receive, TypeOK
  <2>2. r.client \in Client /\ r.op \in {"LOCK", "UNLOCK"}
    BY DEF Request
  <2>3. /\ pc[r.client] = IF r.op = "LOCK" THEN "sendLock" ELSE "sendUnlock"
        /\ pc' = [pc EXCEPT ![r.client] = IF r.op = "LOCK" THEN "waitResponse" ELSE "idle"]
        /\ UNCHANGED <<response, key>>
    BY <1>4, <2>1 DEF QueueMatchesClients, Receive
  <2>4. \A d \in Client \ {r.client} : StatusOf(d)' = StatusOf(d)
    BY <2>2, <2>3 DEF StatusOf, TypeOK
  <2>5. CASE r.op = "LOCK"
    <3>1. response[r.client] = "empty"
      BY <2>2, <2>3, <2>5 DEF AnswerIsAwaited, TypeOK
    <3>2. StatusOf(r.client)' = StatusOf(r.client)
      BY <2>2, <2>3, <2>5, <3>1 DEF StatusOf, TypeOK
    <3> QED
      BY <2>2, <2>3, <2>4, <3>2 DEF Table!vars, absStatus
  <2>6. CASE r.op = "UNLOCK"
    <3>1. StatusOf(r.client) = "releasing" /\ StatusOf(r.client)' = "idle"
      BY <2>2, <2>3, <2>6 DEF StatusOf, TypeOK
    <3>2. absStatus' = [absStatus EXCEPT ![r.client] = "idle"]
      BY <2>2, <2>4, <3>1, OneStatusMoves
    <3>3. Table!Release(r.client)
      BY <2>2, <2>3, <3>1, <3>2 DEF Table!Release, absStatus
    <3> QED
      BY <2>2, <3>3
  <2> QED
    BY <2>2, <2>5, <2>6
<1>5. ASSUME NEW r \in lockReq, ServeLock(r)
      PROVE  r.client \in Client /\ (Table!Grant(r.client) \/ Table!Refuse(r.client))
  <2>1. r.client \in Client /\ r.op = "LOCK"
    BY <1>5 DEF ServeLock, TypeOK, Request
  <2>2. pc[r.client] = "waitResponse" /\ response[r.client] = "empty" /\ key[r.client] = r.key
    BY <2>1 DEF ServedIsWaiting
  <2>3. \A d \in Client \ {r.client} : StatusOf(d)' = StatusOf(d)
    BY <1>5, <2>1 DEF ServeLock, StatusOf, TypeOK
  <2>4. StatusOf(r.client) = "calling"
    BY <2>1, <2>2 DEF StatusOf
  <2>5. CASE r.key \in lockedItems
    <3>1. StatusOf(r.client)' = "refused"
      BY <1>5, <2>1, <2>2, <2>5 DEF ServeLock, StatusOf, TypeOK
    <3>2. absStatus' = [absStatus EXCEPT ![r.client] = "refused"]
      BY <2>1, <2>3, <3>1, OneStatusMoves
    <3>3. \A q \in lockReq : q.op # "UNLOCK"
      BY <2>1 DEF TypeOK
    <3>4. key[r.client] \in Table!Owned
      BY <2>2, <2>5, <3>3, OwnersAgree DEF NoLeakedLock
    <3> QED
      BY <1>5, <2>1, <2>4, <3>2, <3>4 DEF Table!Refuse, ServeLock, absStatus
  <2>6. CASE r.key \notin lockedItems
    <3>1. StatusOf(r.client)' = "granted"
      BY <1>5, <2>1, <2>2, <2>6 DEF ServeLock, StatusOf, TypeOK
    <3>2. absStatus' = [absStatus EXCEPT ![r.client] = "granted"]
      BY <2>1, <2>3, <3>1, OneStatusMoves
    <3>3. key[r.client] \notin Table!Owned
      BY <2>2, <2>6, OwnersAgree DEF TableMatchesOwners
    <3> QED
      BY <1>5, <2>1, <2>4, <3>2, <3>3 DEF Table!Grant, ServeLock, absStatus
  <2> QED
    BY <2>1, <2>5, <2>6
<1>6. ASSUME NEW r \in lockReq, ServeUnlock(r)
      PROVE  UNCHANGED Table!vars
  BY <1>6 DEF ServeUnlock, Table!vars, absStatus, StatusOf
<1>7. CASE UNCHANGED vars
  BY <1>7 DEF vars, Table!vars, absStatus, StatusOf
<1>8. CASE \E c \in Client : \/ \E k \in Key : Lock(c, k)
                             \/ LockReturns(c)
                             \/ Unlock(c)
  BY <1>1, <1>2, <1>3, <1>8 DEF Table!Next
<1>9. CASE Receive
  BY <1>4, <1>9 DEF Table!Next
<1>10. CASE Serve
  BY <1>5, <1>6, <1>10 DEF Serve, Table!Next
<1> QED
  BY <1>7, <1>8, <1>9, <1>10 DEF Next

\* The locker goroutine and its channels implement the lock table promised by
\* the comment on Lock() (locks.go:15-22), for any clients and keys.
THEOREM LocksRefine == Spec => ImplementsLockTable
<1>1. Init => Table!Init
  BY DEF Init, Table!Init, absStatus, StatusOf
<1>2. LockInv /\ [Next]_vars => [Table!Next]_(Table!vars)
  BY StepRefines
<1> QED
  BY <1>1, <1>2, LockInvariant, PTL DEF Spec, Table!Spec, ImplementsLockTable
=============================================================================
