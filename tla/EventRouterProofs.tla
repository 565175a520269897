-------------------------- MODULE EventRouterProofs --------------------------
(***************************************************************************)
(* Proofs about the executor process, for any pool, any deliveries, any    *)
(* number of restarts and any losses.                                      *)
(***************************************************************************)
EXTENDS EventRouter, TLAPS

-----------------------------------------------------------------------------
(* Facts about single workers. *)

\* A busy worker has a message, and its resource is a resource.
LEMMA BusyHasMessage ==
  ASSUME TypeOK, NEW w \in Worker, pc[w] # "free"
  PROVE  job[w] \in Message /\ Target(w) \in Resource
  BY RouterAssumption DEF TypeOK, Target

\* What Publish adds to the replies (common.go:13-16).
LEMMA PublishAdds ==
  ASSUME TypeOK, NEW w \in Worker, pc[w] # "free",
         NEW kind \in {"yes", "done", "error"}, NEW outcome, Publish(w, kind, outcome)
  PROVE  /\ replies \subseteq replies' /\ replies' \subseteq Reply
         /\ \A p \in replies' \ replies : /\ p \in Reply /\ p.msg = job[w] /\ p.kind = kind
                                          /\ p.acked => outcome = "acked"
<1> DEFINE new == [msg |-> job[w], kind |-> kind, acked |-> (outcome = "acked")]
<1>1. job[w] \in Message
  BY BusyHasMessage
<1>2. new \in Reply
  BY <1>1 DEF Reply
<1>3. replies' = replies \/ replies' = replies \cup {new}
  BY DEF Publish
<1>4. replies \subseteq Reply
  BY DEF TypeOK
<1>5. new.msg = job[w] /\ new.kind = kind /\ (new.acked <=> outcome = "acked")
  OBVIOUS
<1> QED
  BY <1>2, <1>3, <1>4, <1>5

\* A step inside the handler: the worker keeps its lock, and the only new replies
\* are about its own message.  The lock, the pool and the messages stay in order.
LEMMA HandlerStep ==
  ASSUME RouterInv, NEW w \in Worker, NEW q \in Holding, Holds(w), Goto(w, q),
         UNCHANGED <<Router, job, lockedItems>>,
         created \subseteq created', created' \subseteq Resource,
         replies \subseteq replies', replies' \subseteq Reply,
         \A p \in replies' \ replies : p.msg = job[w]
  PROVE  /\ TypeOK' /\ MutualExclusion' /\ LocksMatchHolders' /\ PoolIntact'
         /\ DownIsIdle' /\ MessagesAreUnique'
<1> USE DEF RouterInv
<1>1. pc' = [pc EXCEPT ![w] = q] /\ pc \in [Worker -> PC] /\ q \in PC
  BY DEF Goto, TypeOK, PC
<1>2. \A v \in Worker : Holds(v)' <=> Holds(v)
  BY <1>1 DEF Holds
<1>3. \A v \in Worker : pc'[v] = "free" <=> pc[v] = "free"
  BY <1>1 DEF Holds, Holding
<1>4. \A v \in Worker : Target(v)' = Target(v)
  BY DEF Target
<1>5. TypeOK'
  BY <1>1, <1>3 DEF TypeOK, Router
<1>6. MutualExclusion'
  BY <1>2, <1>4 DEF MutualExclusion
<1>7. LocksMatchHolders'
  BY <1>2, <1>4 DEF LocksMatchHolders
<1>8. PoolIntact' /\ DownIsIdle'
  BY <1>3 DEF PoolIntact, DownIsIdle, Router
<1>9. MessagesAreUnique'
  <2>1. pc[w] # "free"
    BY DEF Holds, Holding
  <2>2. job[w] \in sent /\ \A i \in 1..Len(wire) : wire[i] # job[w]
    BY <2>1 DEF MessagesAreUnique
  <2>3. \A p \in replies' : p.msg \in sent /\ \A i \in 1..Len(wire) : wire[i] # p.msg
    BY <2>2 DEF MessagesAreUnique
  <2> QED
    BY <1>3, <2>3 DEF MessagesAreUnique, Router
<1> QED
  BY <1>5, <1>6, <1>7, <1>8, <1>9

\* Before its last steps a delivery has no final reply.
LEMMA NotFinalYet ==
  ASSUME RouterInv, NEW w \in Worker, Holds(w), pc[w] # "unlock",
         NEW p \in replies, p.msg = job[w]
  PROVE  ~ Final(p)
  BY DEF RouterInv, FinalIsLast, Holds, Holding

\* Whoever works on the message of a worker is that worker.
LEMMA SameMessageSameWorker ==
  ASSUME RouterInv, NEW v \in Worker, NEW w \in Worker, pc[w] # "free", job[v] = job[w]
  PROVE  v = w
  BY DEF RouterInv, MessagesAreUnique

\* A step inside the handler that publishes nothing final.
LEMMA QuietStep ==
  ASSUME RouterInv, NEW w \in Worker, NEW q \in Holding, Holds(w), pc[w] # "unlock",
         Goto(w, q), UNCHANGED <<Router, job, lockedItems>>,
         created \subseteq created', created' \subseteq Resource,
         replies \subseteq replies', replies' \subseteq Reply,
         \A p \in replies' \ replies : p.msg = job[w] /\ p.kind = "yes",
         q = "emptyReply" => Target(w) \in created' \/ ComposeOf[Target(w)] = "empty"
  PROVE  RouterInv'
<1> USE DEF RouterInv
<1>1. /\ TypeOK' /\ MutualExclusion' /\ LocksMatchHolders' /\ PoolIntact'
      /\ DownIsIdle' /\ MessagesAreUnique'
  BY HandlerStep
<1>2. pc' = [pc EXCEPT ![w] = q] /\ pc \in [Worker -> PC]
  BY DEF Goto, TypeOK
<1>3. FinalIsLast'
  <2> SUFFICES ASSUME NEW v \in Worker, NEW p \in replies', job[v] = p.msg, Final(p)
               PROVE  pc'[v] \in {"unlock", "return"}
    BY DEF FinalIsLast, Final
  <2>1. p \in replies
    BY DEF Final
  <2>2. v # w
    BY <2>1, NotFinalYet
  <2> QED
    BY <1>2, <2>1, <2>2 DEF FinalIsLast
<1>4. ReadyToReply'
  <2> SUFFICES ASSUME NEW v \in Worker, pc'[v] = "emptyReply"
               PROVE  Target(v) \in created' \/ ComposeOf[Target(v)] = "empty"
    BY DEF ReadyToReply, Target
  <2>1. CASE v = w
    BY <1>2, <2>1
  <2>2. CASE v # w
    BY <1>2, <2>2 DEF ReadyToReply
  <2> QED
    BY <2>1, <2>2
<1>5. DoneImpliesCreated'
  BY DEF DoneImpliesCreated
<1> QED
  BY <1>1, <1>3, <1>4, <1>5

-----------------------------------------------------------------------------
(* The invariant is kept by every action. *)

\* Before the first start there is nothing.
LEMMA InitRouterInv == Init => RouterInv
<1> SUFFICES ASSUME Init PROVE RouterInv
  OBVIOUS
<1>1. TypeOK
  <2>1. up \in BOOLEAN
    BY Zenon DEF Init
  <2>2. wire \in Seq(Message)
    BY DEF Init
  <2>3. exits \in 0..MaxExits
    BY RouterAssumption DEF Init
  <2>4. /\ pc \in [Worker -> PC]
        /\ job \in [Worker -> Message \cup {NoMessage}]
        /\ \A w \in Worker : job[w] = NoMessage <=> pc[w] = "free"
    BY DEF Init, PC
  <2> QED
    BY <2>1, <2>2, <2>3, <2>4 DEF Init, TypeOK
<1>2. MutualExclusion /\ LocksMatchHolders /\ PoolIntact /\ DownIsIdle
  BY DEF Init, MutualExclusion, LocksMatchHolders, PoolIntact, DownIsIdle, Holds, Holding
<1>3. MessagesAreUnique /\ FinalIsLast /\ ReadyToReply /\ DoneImpliesCreated
  BY DEF Init, MessagesAreUnique, FinalIsLast, ReadyToReply, DoneImpliesCreated
<1> QED
  BY <1>1, <1>2, <1>3 DEF RouterInv

\* Cattle sends a message that is new to the wire, the workers and the replies.
LEMMA CattleSendKeepsInv ==
  ASSUME RouterInv, NEW m \in Message, CattleSend(m)
  PROVE  RouterInv'
<1> USE DEF RouterInv, CattleSend
<1>1. /\ wire' \in Seq(Message)
      /\ Len(wire) \in Nat
      /\ Len(wire') = Len(wire) + 1
      /\ \A i \in 1..Len(wire) : wire'[i] = wire[i]
      /\ wire'[Len(wire) + 1] = m
  BY DEF TypeOK
<1>2. TypeOK'
  BY <1>1 DEF TypeOK
<1>3. MutualExclusion' /\ LocksMatchHolders' /\ PoolIntact' /\ DownIsIdle'
  BY DEF MutualExclusion, LocksMatchHolders, PoolIntact, DownIsIdle, Holds, Target
<1>4. MessagesAreUnique'
  <2>1. \A i \in 1..Len(wire') : i \in 1..Len(wire) \/ i = Len(wire) + 1
    BY <1>1
  <2>2. \A i \in 1..Len(wire) : wire[i] # m
    BY DEF MessagesAreUnique
  <2>3. /\ \A i \in 1..Len(wire') : wire'[i] \in sent'
        /\ \A i, j \in 1..Len(wire') : wire'[i] = wire'[j] => i = j
    BY <1>1, <2>1, <2>2 DEF MessagesAreUnique
  <2>4. \A w \in Worker : pc[w] # "free" => /\ job[w] \in sent'
                                            /\ \A i \in 1..Len(wire') : wire'[i] # job[w]
    BY <1>1, <2>1 DEF MessagesAreUnique
  <2>5. \A p \in replies : p.msg \in sent' /\ \A i \in 1..Len(wire') : wire'[i] # p.msg
    BY <1>1, <2>1 DEF MessagesAreUnique
  <2> QED
    BY <2>3, <2>4, <2>5 DEF MessagesAreUnique
<1>5. FinalIsLast' /\ ReadyToReply' /\ DoneImpliesCreated'
  BY DEF FinalIsLast, ReadyToReply, DoneImpliesCreated, Target, Final
<1> QED
  BY <1>2, <1>3, <1>4, <1>5

\* The process starts with a full pool (listener.go:47-51).
LEMMA StartKeepsInv ==
  ASSUME RouterInv, Start
  PROVE  RouterInv'
<1> USE DEF RouterInv, Start
<1>1. TypeOK'
  BY DEF TypeOK
<1>2. MutualExclusion' /\ LocksMatchHolders' /\ PoolIntact' /\ DownIsIdle'
  BY DEF MutualExclusion, LocksMatchHolders, PoolIntact, DownIsIdle, Holds, Target
<1>3. MessagesAreUnique' /\ FinalIsLast' /\ ReadyToReply' /\ DoneImpliesCreated'
  BY DEF MessagesAreUnique, FinalIsLast, ReadyToReply, DoneImpliesCreated, Target, Final
<1> QED
  BY <1>1, <1>2, <1>3

\* The process ends and takes its memory with it (listener.go:110-114, main.go:39-43).
LEMMA ExitKeepsInv ==
  ASSUME RouterInv, Exit
  PROVE  RouterInv'
<1> USE DEF RouterInv, Exit, ProcessEnds
<1>1. TypeOK'
  <2>1. up' \in BOOLEAN
    BY Zenon
  <2>2. wire' \in Seq(Message)
    OBVIOUS
  <2>3. exits' \in 0..MaxExits
    BY RouterAssumption DEF TypeOK
  <2>4. /\ pc' \in [Worker -> PC]
        /\ job' \in [Worker -> Message \cup {NoMessage}]
        /\ \A w \in Worker : job'[w] = NoMessage <=> pc'[w] = "free"
    BY DEF PC
  <2> QED
    BY <2>1, <2>2, <2>3, <2>4 DEF TypeOK
<1>2. MutualExclusion' /\ LocksMatchHolders' /\ PoolIntact' /\ DownIsIdle'
  BY DEF MutualExclusion, LocksMatchHolders, PoolIntact, DownIsIdle, Holds, Holding, Target
<1>3. MessagesAreUnique'
  BY RouterAssumption DEF MessagesAreUnique
<1>4. FinalIsLast'
  BY RouterAssumption DEF FinalIsLast, TypeOK, Reply
<1>5. ReadyToReply' /\ DoneImpliesCreated'
  BY DEF ReadyToReply, DoneImpliesCreated
<1> QED
  BY <1>1, <1>2, <1>3, <1>4, <1>5

\* A panic is an exit: only a process that is up has a goroutine to panic.
LEMMA PanicIsExit ==
  ASSUME RouterInv, NEW w \in Worker, Panic(w)
  PROVE  Exit
<1>1. pc[w] # "free"
  BY DEF Panic
<1>2. up
  BY <1>1 DEF RouterInv, DownIsIdle
<1> QED
  BY <1>2 DEF Panic, Exit

\* The read loop drops a message or gives it to a free worker (listener.go:109-129).
LEMMA ReadMessageKeepsInv ==
  ASSUME RouterInv, ReadMessage
  PROVE  RouterInv'
<1> USE DEF RouterInv, ReadMessage
<1> DEFINE n == Len(wire')
<1>1. PICK m \in Message : m = Head(wire)
  BY DEF TypeOK
<1>2. /\ wire' \in Seq(Message)
      /\ m = wire[1] /\ 1 \in 1..Len(wire)
      /\ n = Len(wire) - 1 /\ Len(wire) \in Nat
      /\ \A i \in 1..n : i \in Nat /\ i + 1 \in 1..Len(wire) /\ i + 1 # 1 /\ wire'[i] = wire[i + 1]
  BY <1>1 DEF TypeOK
<1> HIDE DEF n
<1>3. /\ m \in sent
      /\ \A i \in 1..n : wire'[i] \in sent /\ wire'[i] # m
      /\ \A i, j \in 1..n : wire'[i] = wire'[j] => i = j
  BY <1>2 DEF MessagesAreUnique
<1>4. \A v \in Worker : pc[v] # "free" =>
         job[v] \in sent /\ job[v] # m /\ \A i \in 1..n : wire'[i] # job[v]
  BY <1>2 DEF MessagesAreUnique
<1>5. \A p \in replies : p.msg \in sent /\ p.msg # m /\ \A i \in 1..n : wire'[i] # p.msg
  BY <1>2 DEF MessagesAreUnique
<1>6. CASE UNCHANGED <<workers, pc, job>>
  <2>1. TypeOK'
    BY <1>2, <1>6 DEF TypeOK
  <2>2. MutualExclusion' /\ LocksMatchHolders' /\ PoolIntact' /\ DownIsIdle'
    BY <1>6 DEF MutualExclusion, LocksMatchHolders, PoolIntact, DownIsIdle, Holds, Target
  <2>3. MessagesAreUnique'
    BY <1>3, <1>4, <1>5, <1>6 DEF MessagesAreUnique, n
  <2>4. FinalIsLast' /\ ReadyToReply' /\ DoneImpliesCreated'
    BY <1>6 DEF FinalIsLast, ReadyToReply, DoneImpliesCreated, Target, Final
  <2> QED
    BY <2>1, <2>2, <2>3, <2>4
<1>7. ASSUME NEW w \in workers,
             workers' = workers \ {w},
             pc' = [pc EXCEPT ![w] = "lock"],
             job' = [job EXCEPT ![w] = m]
      PROVE  RouterInv'
  <2> USE <1>7
  <2>1. w \in Worker /\ pc[w] = "free" /\ pc \in [Worker -> PC]
        /\ job \in [Worker -> Message \cup {NoMessage}]
    BY DEF TypeOK, PoolIntact
  <2>2. TypeOK'
    BY <1>2, <2>1, RouterAssumption DEF TypeOK, PC
  <2>3. \A v \in Worker : Holds(v)' <=> Holds(v)
    BY <2>1 DEF Holds, Holding
  <2>4. \A v \in Worker : Holds(v) => v # w /\ Target(v)' = Target(v)
    BY <2>1 DEF Holds, Holding, Target
  <2>5. MutualExclusion' /\ LocksMatchHolders'
    BY <2>3, <2>4 DEF MutualExclusion, LocksMatchHolders
  <2>6. PoolIntact' /\ DownIsIdle'
    BY <2>1 DEF PoolIntact, DownIsIdle
  <2>7. MessagesAreUnique'
    <3>1. \A v \in Worker : pc'[v] # "free" =>
             job'[v] \in sent /\ \A i \in 1..n : wire'[i] # job'[v]
      BY <1>3, <1>4, <2>1
    <3>2. \A u, v \in Worker : pc'[u] # "free" /\ job'[u] = job'[v] => u = v
      <4> SUFFICES ASSUME NEW u \in Worker, NEW v \in Worker,
                          pc'[u] # "free", job'[u] = job'[v], u # v
                   PROVE  FALSE
        OBVIOUS
      <4>1. CASE u = w
        <5>1. job[v] = m
          BY <2>1, <4>1
        <5>2. pc[v] # "free"
          BY <5>1, RouterAssumption DEF TypeOK
        <5> QED
          BY <1>4, <5>1, <5>2
      <4>2. CASE v = w
        BY <1>4, <2>1, <4>2
      <4>3. CASE u # w /\ v # w
        BY <2>1, <4>3 DEF MessagesAreUnique
      <4> QED
        BY <4>1, <4>2, <4>3
    <3> QED
      BY <1>3, <1>5, <3>1, <3>2 DEF MessagesAreUnique, n
  <2>8. FinalIsLast'
    BY <1>5, <2>1 DEF FinalIsLast, Final
  <2>9. ReadyToReply' /\ DoneImpliesCreated'
    BY <2>1 DEF ReadyToReply, DoneImpliesCreated, Target
  <2> QED
    BY <2>2, <2>5, <2>6, <2>7, <2>8, <2>9
<1> QED
  BY <1>1, <1>6, <1>7

\* A worker obtains the lock of its resource, or drops its event (listener.go:156-175).
LEMMA LockKeepsInv ==
  ASSUME RouterInv, NEW w \in Worker, Lock(w)
  PROVE  RouterInv'
<1> USE DEF RouterInv, Lock, Goto
<1>1. /\ pc \in [Worker -> PC] /\ pc[w] = "lock"
      /\ pc' = [pc EXCEPT ![w] = pc'[w]] /\ pc'[w] \in {"dispatch", "return"}
  BY DEF TypeOK
<1>2. UNCHANGED <<up, sent, wire, workers, exits, job, created, replies>>
  BY DEF Router
<1>3. \A v \in Worker : pc'[v] = "free" <=> pc[v] = "free"
  BY <1>1
<1>4. \A v \in Worker : Target(v)' = Target(v)
  BY <1>2 DEF Target
<1>5. Target(w) \in Resource
  BY <1>1, BusyHasMessage
<1>6. TypeOK'
  BY <1>1, <1>2, <1>3, <1>5 DEF TypeOK, PC, Holding
<1>7. PoolIntact' /\ DownIsIdle' /\ MessagesAreUnique'
  BY <1>2, <1>3 DEF PoolIntact, DownIsIdle, MessagesAreUnique
<1>8. FinalIsLast'
  BY <1>1, <1>2 DEF FinalIsLast, Final
<1>9. ReadyToReply' /\ DoneImpliesCreated'
  BY <1>1, <1>2 DEF ReadyToReply, DoneImpliesCreated, Target
<1>10. ~ Holds(w) /\ \A v \in Worker \ {w} : Holds(v)' <=> Holds(v)
  BY <1>1 DEF Holds, Holding
<1>11. CASE pc'[w] = "dispatch"
  <2>1. Target(w) \notin lockedItems /\ lockedItems' = lockedItems \cup {Target(w)}
    BY <1>1, <1>11
  <2>2. Holds(w)'
    BY <1>11 DEF Holds, Holding
  <2>3. MutualExclusion'
    BY <1>4, <1>10, <2>1 DEF MutualExclusion, LocksMatchHolders
  <2>4. LocksMatchHolders'
    BY <1>4, <1>10, <2>1, <2>2 DEF LocksMatchHolders
  <2> QED
    BY <1>6, <1>7, <1>8, <1>9, <2>3, <2>4
<1>12. CASE pc'[w] = "return"
  <2>1. lockedItems' = lockedItems
    BY <1>1, <1>12
  <2>2. ~ Holds(w)'
    BY <1>12 DEF Holds, Holding
  <2>3. MutualExclusion' /\ LocksMatchHolders'
    BY <1>4, <1>10, <2>1, <2>2 DEF MutualExclusion, LocksMatchHolders
  <2> QED
    BY <1>6, <1>7, <1>8, <1>9, <2>3
<1> QED
  BY <1>1, <1>11, <1>12

\* The handler is looked up (listener.go:178-205).
LEMMA DispatchKeepsInv ==
  ASSUME RouterInv, NEW w \in Worker, Dispatch(w)
  PROVE  RouterInv'
<1> PICK q \in {"byId", "unlock"} : Goto(w, q)
  BY DEF Dispatch
<1>1. Holds(w) /\ pc[w] # "unlock" /\ q \in Holding
  BY DEF Dispatch, Holds, Holding
<1>2. UNCHANGED <<Router, job, lockedItems, created, replies>>
  BY DEF Dispatch
<1> QED
  BY <1>1, <1>2, QuietStep DEF RouterInv, TypeOK

\* The stack is read (create_handler.go:34-45).
LEMMA ByIdKeepsInv ==
  ASSUME RouterInv, NEW w \in Worker, ById(w)
  PROVE  RouterInv'
<1> PICK q \in {"emptyReply", "construct", "failTransition"} :
            Goto(w, q) /\ (q = "emptyReply" => ComposeOf[Target(w)] = "empty")
  BY DEF ById
<1>1. Holds(w) /\ pc[w] # "unlock" /\ q \in Holding
  BY DEF ById, Holds, Holding
<1>2. UNCHANGED <<Router, job, lockedItems, created, replies>>
  BY DEF ById
<1> QED
  BY <1>1, <1>2, QuietStep DEF RouterInv, TypeOK

\* The project is built and parsed (create_handler.go:47-50, 61-83).
LEMMA ConstructKeepsInv ==
  ASSUME RouterInv, NEW w \in Worker, constructProject(w)
  PROVE  RouterInv'
<1> PICK q \in {"creatingReply", "failTransition"} : Goto(w, q)
  BY DEF constructProject
<1>1. Holds(w) /\ pc[w] # "unlock" /\ q \in Holding
  BY DEF constructProject, Holds, Holding
<1>2. UNCHANGED <<Router, job, lockedItems, created, replies>>
  BY DEF constructProject
<1> QED
  BY <1>1, <1>2, QuietStep DEF RouterInv, TypeOK

\* The stack is created, or not (create_handler.go:54-56).
LEMMA ProjectCreateKeepsInv ==
  ASSUME RouterInv, NEW w \in Worker, projectCreate(w)
  PROVE  RouterInv'
<1>1. Holds(w) /\ pc[w] # "unlock" /\ pc[w] # "free"
  BY DEF projectCreate, Holds, Holding
<1>2. UNCHANGED <<Router, job, lockedItems, replies>>
  BY DEF projectCreate
<1>3. Target(w) \in Resource /\ created \subseteq Resource /\ replies \subseteq Reply
  BY <1>1, BusyHasMessage DEF RouterInv, TypeOK
<1>4. CASE Goto(w, "emptyReply") /\ created' = created \cup {Target(w)}
  BY <1>1, <1>2, <1>3, <1>4, QuietStep DEF Holding
<1>5. CASE Goto(w, "failTransition") /\ UNCHANGED created
  BY <1>1, <1>2, <1>3, <1>5, QuietStep DEF Holding
<1> QED
  BY <1>4, <1>5 DEF projectCreate

\* A transition message is published (create_handler.go:25, 52, common.go:18-24).
LEMMA TransitionReplyKeepsInv ==
  ASSUME RouterInv, NEW w \in Worker, CreatingReply(w) \/ failTransition(w)
  PROVE  RouterInv'
<1>1. Holds(w) /\ pc[w] # "unlock" /\ pc[w] # "free"
  BY DEF CreatingReply, failTransition, Holds, Holding
<1>2. UNCHANGED <<Router, job, lockedItems, created>> /\ created \subseteq Resource
  BY DEF CreatingReply, failTransition, RouterInv, TypeOK
<1>3. PICK outcome \in PublishOutcomes : Publish(w, "yes", outcome)
  BY DEF CreatingReply, failTransition
<1>4. /\ replies \subseteq replies' /\ replies' \subseteq Reply
      /\ \A p \in replies' \ replies : p.msg = job[w] /\ p.kind = "yes"
  BY <1>1, <1>3, PublishAdds DEF RouterInv
<1>5. PICK q \in {"projectCreate", "errorReply"} : Goto(w, q)
  BY DEF CreatingReply, failTransition
<1>6. q \in Holding /\ q # "emptyReply"
  BY <1>5 DEF Holding
<1> QED
  BY <1>1, <1>2, <1>4, <1>5, <1>6, QuietStep

\* The reply that ends the transition: acknowledged, it is the last one; not
\* acknowledged, it is not final and the handler goes on to report an error
\* (create_handler.go:58, common.go:8-16).
LEMMA EmptyReplyKeepsInv ==
  ASSUME RouterInv, NEW w \in Worker, emptyReply(w)
  PROVE  RouterInv'
<1> USE DEF RouterInv
<1>1. Holds(w) /\ pc[w] = "emptyReply" /\ pc[w] # "free" /\ pc[w] # "unlock"
  BY DEF emptyReply, Holds, Holding
<1>2. UNCHANGED <<Router, job, lockedItems, created>> /\ created \subseteq Resource
  BY DEF emptyReply, TypeOK
<1>3. PICK outcome \in PublishOutcomes :
         /\ Publish(w, "done", outcome)
         /\ Goto(w, IF outcome = "acked" THEN "unlock" ELSE "failTransition")
  BY DEF emptyReply
<1>4. /\ replies \subseteq replies' /\ replies' \subseteq Reply
      /\ \A p \in replies' \ replies : /\ p.msg = job[w] /\ p.kind = "done"
                                       /\ p.acked => outcome = "acked"
  BY <1>1, <1>3, PublishAdds
<1>5. PICK q \in {"unlock", "failTransition"} : Goto(w, q) /\ (outcome = "acked" => q = "unlock")
  BY <1>3
<1>6. /\ TypeOK' /\ MutualExclusion' /\ LocksMatchHolders' /\ PoolIntact'
      /\ DownIsIdle' /\ MessagesAreUnique'
  BY <1>1, <1>2, <1>4, <1>5, HandlerStep DEF Holding
<1>7. pc' = [pc EXCEPT ![w] = q] /\ pc \in [Worker -> PC]
  BY <1>5 DEF Goto, TypeOK
<1>8. FinalIsLast'
  <2> SUFFICES ASSUME NEW v \in Worker, NEW p \in replies', job[v] = p.msg, Final(p)
               PROVE  pc'[v] \in {"unlock", "return"}
    BY <1>2 DEF FinalIsLast, Final
  <2>1. CASE p \in replies
    <3>1. v # w
      BY <1>1, <2>1, NotFinalYet
    <3> QED
      BY <1>7, <2>1, <3>1 DEF FinalIsLast
  <2>2. CASE p \notin replies
    <3>1. v = w
      BY <1>1, <1>4, <2>2, SameMessageSameWorker
    <3>2. outcome = "acked"
      BY <1>4, <2>2 DEF Final
    <3> QED
      BY <1>5, <1>7, <3>1, <3>2
  <2> QED
    BY <2>1, <2>2
<1>9. ReadyToReply'
  BY <1>2, <1>5, <1>7 DEF ReadyToReply, Target
<1>10. DoneImpliesCreated'
  BY <1>1, <1>2, <1>4 DEF DoneImpliesCreated, ReadyToReply, Target
<1> QED
  BY <1>6, <1>8, <1>9, <1>10

\* The "error" reply is the last one of its delivery (listener.go:188-199).
LEMMA ErrorReplyKeepsInv ==
  ASSUME RouterInv, NEW w \in Worker, ErrorReply(w)
  PROVE  RouterInv'
<1> USE DEF RouterInv
<1>1. Holds(w) /\ pc[w] # "free" /\ pc[w] # "unlock"
  BY DEF ErrorReply, Holds, Holding
<1>2. UNCHANGED <<Router, job, lockedItems, created>> /\ created \subseteq Resource
  BY DEF ErrorReply, TypeOK
<1>3. PICK outcome \in PublishOutcomes : Publish(w, "error", outcome)
  BY DEF ErrorReply
<1>4. /\ replies \subseteq replies' /\ replies' \subseteq Reply
      /\ \A p \in replies' \ replies : p.msg = job[w] /\ p.kind = "error"
  BY <1>1, <1>3, PublishAdds
<1>5. Goto(w, "unlock")
  BY DEF ErrorReply
<1>6. /\ TypeOK' /\ MutualExclusion' /\ LocksMatchHolders' /\ PoolIntact'
      /\ DownIsIdle' /\ MessagesAreUnique'
  BY <1>1, <1>2, <1>4, <1>5, HandlerStep DEF Holding
<1>7. pc' = [pc EXCEPT ![w] = "unlock"] /\ pc \in [Worker -> PC]
  BY <1>5 DEF Goto, TypeOK
<1>8. FinalIsLast'
  <2> SUFFICES ASSUME NEW v \in Worker, NEW p \in replies', job[v] = p.msg, Final(p)
               PROVE  pc'[v] \in {"unlock", "return"}
    BY <1>2 DEF FinalIsLast, Final
  <2>1. CASE p \in replies
    BY <1>7, <2>1 DEF FinalIsLast
  <2>2. CASE p \notin replies
    BY <1>1, <1>4, <1>7, <2>2, SameMessageSameWorker
  <2> QED
    BY <2>1, <2>2
<1>9. ReadyToReply'
  BY <1>2, <1>7 DEF ReadyToReply, Target
<1>10. DoneImpliesCreated'
  BY <1>2, <1>4 DEF DoneImpliesCreated
<1> QED
  BY <1>6, <1>8, <1>9, <1>10

\* The deferred Unlock(): nobody else holds the lock that is given back
\* (listener.go:176).
LEMMA UnlockKeepsInv ==
  ASSUME RouterInv, NEW w \in Worker, Unlock(w)
  PROVE  RouterInv'
<1> USE DEF RouterInv
<1>1. /\ pc \in [Worker -> PC] /\ pc[w] = "unlock"
      /\ pc' = [pc EXCEPT ![w] = "return"]
      /\ lockedItems' = lockedItems \ {Target(w)}
  BY DEF TypeOK, Unlock, Goto
<1>2. UNCHANGED <<up, sent, wire, workers, exits, job, created, replies>>
  BY DEF Unlock, Router
<1>3. \A v \in Worker : (pc'[v] = "free" <=> pc[v] = "free") /\ Target(v)' = Target(v)
  BY <1>1, <1>2 DEF Target
<1>4. Holds(w) /\ ~ Holds(w)' /\ \A v \in Worker \ {w} : Holds(v)' <=> Holds(v)
  BY <1>1 DEF Holds, Holding
<1>5. TypeOK'
  BY <1>1, <1>2, <1>3 DEF TypeOK, PC
<1>6. MutualExclusion'
  BY <1>3, <1>4 DEF MutualExclusion
<1>7. LocksMatchHolders'
  BY <1>1, <1>3, <1>4 DEF LocksMatchHolders, MutualExclusion
<1>8. PoolIntact' /\ DownIsIdle' /\ MessagesAreUnique'
  BY <1>2, <1>3 DEF PoolIntact, DownIsIdle, MessagesAreUnique
<1>9. FinalIsLast' /\ ReadyToReply' /\ DoneImpliesCreated'
  BY <1>1, <1>2 DEF FinalIsLast, ReadyToReply, DoneImpliesCreated, Target, Final
<1> QED
  BY <1>5, <1>6, <1>7, <1>8, <1>9

\* The worker goes back into the channel (listener.go:152).
LEMMA ReturnWorkerKeepsInv ==
  ASSUME RouterInv, NEW w \in Worker, ReturnWorker(w)
  PROVE  RouterInv'
<1> USE DEF RouterInv
<1>1. /\ pc \in [Worker -> PC] /\ pc[w] = "return"
      /\ pc' = [pc EXCEPT ![w] = "free"]
      /\ job \in [Worker -> Message \cup {NoMessage}]
      /\ job' = [job EXCEPT ![w] = NoMessage]
      /\ workers' = workers \cup {w}
  BY DEF TypeOK, ReturnWorker, Goto
<1>2. UNCHANGED <<up, sent, wire, exits, lockedItems, created, replies>>
  BY DEF ReturnWorker
<1>3. \A v \in Worker : Holds(v)' <=> Holds(v)
  BY <1>1 DEF Holds, Holding
<1>4. \A v \in Worker : Holds(v) => v # w /\ Target(v)' = Target(v)
  BY <1>1 DEF Holds, Holding, Target
<1>5. TypeOK'
  BY <1>1, <1>2 DEF TypeOK, PC
<1>6. MutualExclusion' /\ LocksMatchHolders'
  BY <1>2, <1>3, <1>4 DEF MutualExclusion, LocksMatchHolders
<1>7. PoolIntact' /\ DownIsIdle'
  BY <1>1, <1>2 DEF PoolIntact, DownIsIdle
<1>8. MessagesAreUnique'
  <2>1. \A v \in Worker : pc'[v] # "free" => v # w /\ job'[v] = job[v] /\ pc[v] # "free"
    BY <1>1
  <2>2. \A v \in Worker : pc'[v] # "free" => job'[v] # job'[w]
    BY <1>1, <2>1 DEF TypeOK
  <2> QED
    BY <1>1, <1>2, <2>1, <2>2 DEF MessagesAreUnique
<1>9. FinalIsLast'
  <2>1. \A p \in replies : p.msg # NoMessage
    BY RouterAssumption DEF TypeOK, Reply
  <2> QED
    BY <1>1, <1>2, <2>1 DEF FinalIsLast, Final
<1>10. ReadyToReply' /\ DoneImpliesCreated'
  BY <1>1, <1>2 DEF ReadyToReply, DoneImpliesCreated, Target
<1> QED
  BY <1>5, <1>6, <1>7, <1>8, <1>9, <1>10

-----------------------------------------------------------------------------
(* The theorems. *)

\* RouterInv holds in every reachable state, for any pool, deliveries, losses and
\* restarts: one lemma per action.
THEOREM RouterInvariant == Spec => []RouterInv
<1>1. Init => RouterInv
  BY InitRouterInv
<1>2. RouterInv /\ [Next]_vars => RouterInv'
  <2> SUFFICES ASSUME RouterInv, [Next]_vars PROVE RouterInv'
    OBVIOUS
  <2>1. ASSUME NEW m \in Message, CattleSend(m) PROVE RouterInv'
    BY <2>1, CattleSendKeepsInv
  <2>2. CASE Start
    BY <2>2, StartKeepsInv
  <2>3. CASE Exit
    BY <2>3, ExitKeepsInv
  <2>4. CASE ReadMessage
    BY <2>4, ReadMessageKeepsInv
  <2>5. ASSUME NEW w \in Worker, Work(w) PROVE RouterInv'
    BY <2>5, LockKeepsInv, DispatchKeepsInv, ByIdKeepsInv, ConstructKeepsInv,
       ProjectCreateKeepsInv, TransitionReplyKeepsInv, EmptyReplyKeepsInv,
       ErrorReplyKeepsInv, UnlockKeepsInv, ReturnWorkerKeepsInv DEF Work
  <2>6. CASE UNCHANGED vars
    BY <2>6 DEF vars, RouterInv, TypeOK, MutualExclusion, LocksMatchHolders, PoolIntact,
       DownIsIdle, MessagesAreUnique, FinalIsLast, ReadyToReply, DoneImpliesCreated,
       Holds, Target, Final
  <2> QED
    BY <2>1, <2>2, <2>3, <2>4, <2>5, <2>6, PanicIsExit DEF Next
<1> QED
  BY <1>1, <1>2, PTL DEF Spec

\* Every reachable state is well typed.
THEOREM RouterTypeCorrect == Spec => []TypeOK
<1>1. RouterInv => TypeOK
  BY DEF RouterInv
<1> QED
  BY <1>1, RouterInvariant, PTL

\* Two goroutines never handle events of one resource at once (listener.go:169-176).
THEOREM HandlersExclude == Spec => []MutualExclusion
<1>1. RouterInv => MutualExclusion
  BY DEF RouterInv
<1> QED
  BY <1>1, RouterInvariant, PTL

\* No way out of DoWork() leaves a resource locked (listener.go:170-176).
THEOREM LocksComeBack == Spec => []NoLeakedLock
<1>1. RouterInv => NoLeakedLock
  BY DEF RouterInv, LocksMatchHolders, NoLeakedLock
<1> QED
  BY <1>1, RouterInvariant, PTL

\* The pool neither loses nor duplicates a worker (listener.go:47-51, 121-123, 152).
THEOREM PoolStaysIntact == Spec => []PoolIntact
<1>1. RouterInv => PoolIntact
  BY DEF RouterInv
<1> QED
  BY <1>1, RouterInvariant, PTL

\* "done" is told only of a created or an empty stack (create_handler.go:43-58).
THEOREM DoneIsTrue == Spec => []DoneImpliesCreated
<1>1. RouterInv => DoneImpliesCreated
  BY DEF RouterInv
<1> QED
  BY <1>1, RouterInvariant, PTL

\* Only a worker inside its handler, with no final reply yet, publishes.
LEMMA RepliesOnlyFromHandlers ==
  ASSUME RouterInv, [Next]_vars
  PROVE  \/ UNCHANGED replies
         \/ \E w \in Worker : /\ Holds(w) /\ pc[w] # "unlock"
                              /\ \A p \in replies' \ replies : p.msg = job[w]
<1> USE DEF RouterInv
<1>1. ASSUME NEW w \in Worker, NEW kind \in {"yes", "done", "error"}, NEW outcome,
             Publish(w, kind, outcome), Holds(w), pc[w] # "unlock"
      PROVE  \A p \in replies' \ replies : p.msg = job[w]
  <2>1. pc[w] # "free"
    BY <1>1 DEF Holds, Holding
  <2> QED
    BY <1>1, <2>1, PublishAdds
<1>2. ASSUME NEW w \in Worker, Work(w), replies' # replies
      PROVE  /\ Holds(w) /\ pc[w] # "unlock"
             /\ \A p \in replies' \ replies : p.msg = job[w]
  <2>1. CASE CreatingReply(w)
    BY <1>1, <2>1 DEF CreatingReply, Holds, Holding
  <2>2. CASE emptyReply(w)
    BY <1>1, <2>2 DEF emptyReply, Holds, Holding
  <2>3. CASE failTransition(w)
    BY <1>1, <2>3 DEF failTransition, Holds, Holding
  <2>4. CASE ErrorReply(w)
    BY <1>1, <2>4 DEF ErrorReply, Holds, Holding
  <2> QED
    BY <1>2, <2>1, <2>2, <2>3, <2>4
       DEF Work, Lock, Dispatch, ById, constructProject, projectCreate, Unlock, ReturnWorker
<1> QED
  BY <1>2, PanicIsExit DEF Next, CattleSend, Start, Exit, ProcessEnds, ReadMessage, vars

\* After an acknowledged "done" or an "error" nothing more is published for that
\* delivery (create_handler.go:23-30, listener.go:180-200).
THEOREM VerdictsAreFinal == Spec => VerdictIsFinal
<1>1. RouterInv /\ [Next]_vars =>
        [\A p \in replies' \ replies : ~ \E q \in replies : q.msg = p.msg /\ Final(q)]_vars
  <2> SUFFICES ASSUME RouterInv, [Next]_vars, NEW p \in replies' \ replies,
                      NEW q \in replies, q.msg = p.msg, Final(q)
               PROVE  FALSE
    OBVIOUS
  <2>1. PICK w \in Worker : Holds(w) /\ pc[w] # "unlock" /\ p.msg = job[w]
    BY RepliesOnlyFromHandlers
  <2> QED
    BY <2>1, NotFinalYet
<1> QED
  BY <1>1, RouterInvariant, PTL DEF Spec, VerdictIsFinal

-----------------------------------------------------------------------------
(* Why an event is dropped, and with what it is let go. *)

\* A step of one worker leaves the wire, the others and what they work on alone.
LEMMA WorkIsLocal ==
  ASSUME TypeOK, NEW w \in Worker, Work(w)
  PROVE  /\ UNCHANGED <<up, wire>> /\ pc[w] # "free"
         /\ \A v \in Worker \ {w} : pc'[v] = pc[v]
<1>1. UNCHANGED <<up, wire>>
  BY DEF Work, Lock, Dispatch, ById, constructProject, CreatingReply, projectCreate, emptyReply,
     failTransition, ErrorReply, Unlock, ReturnWorker, Router
<1>2. pc[w] # "free"
  BY DEF Work, Lock, Dispatch, ById, constructProject, CreatingReply, projectCreate, emptyReply,
     failTransition, ErrorReply, Unlock, ReturnWorker
<1>3. PICK q : pc' = [pc EXCEPT ![w] = q]
  BY DEF Work, Lock, Dispatch, ById, constructProject, CreatingReply, projectCreate, emptyReply,
     failTransition, ErrorReply, Unlock, ReturnWorker, Goto
<1>4. pc \in [Worker -> PC]
  BY DEF TypeOK
<1> QED
  BY <1>1, <1>2, <1>3, <1>4

\* The wire gets shorter by a message only in the read loop, if the process goes on.
LEMMA OnlyTheLoopReads ==
  ASSUME RouterInv, Next, wire # <<>>, wire' = Tail(wire), up'
  PROVE  ReadMessage
<1>1. wire \in Seq(Message) /\ Len(wire) \in Nat /\ Len(wire) > 0 /\ Len(wire') = Len(wire) - 1
  BY DEF RouterInv, TypeOK
<1>2. ASSUME NEW m \in Message, CattleSend(m) PROVE FALSE
  <2>1. PICK a : a = Append(wire, m)
    OBVIOUS
  <2>2. Len(a) = Len(wire) + 1
    BY <1>1, <2>1
  <2>3. wire' = a
    BY <1>2, <2>1 DEF CattleSend
  <2> QED
    BY <1>1, <2>2, <2>3
<1>3. ~ Start
  <2> SUFFICES ASSUME Start PROVE FALSE
    OBVIOUS
  <2>1. wire' = wire
    BY DEF Start
  <2> QED
    BY <1>1, <2>1
<1>4. ~ Exit
  BY DEF Exit, ProcessEnds
<1>5. ASSUME NEW w \in Worker, Work(w) PROVE FALSE
  <2>1. wire' = wire
    BY <1>5, WorkIsLocal DEF RouterInv
  <2> QED
    BY <1>1, <2>1
<1> QED
  BY <1>2, <1>3, <1>4, <1>5, PanicIsExit DEF Next

\* The read loop finds the channel empty only when every worker is at work.
LEMMA LoopDropsForCause ==
  ASSUME RouterInv, ReadMessage, job' = job
  PROVE  KindOf[Head(wire)] = "blank" \/ \A w \in Worker : pc[w] # "free"
<1> SUFFICES ASSUME KindOf[Head(wire)] # "blank", workers # {} PROVE FALSE
  BY DEF RouterInv, PoolIntact, ReadMessage
<1>1. PICK w \in workers : job' = [job EXCEPT ![w] = Head(wire)]
  BY DEF ReadMessage
<1>2. w \in Worker /\ job \in [Worker -> Message \cup {NoMessage}] /\ pc[w] = "free" /\ Head(wire) \in Message
  BY DEF RouterInv, TypeOK, PoolIntact, ReadMessage
<1>3. job[w] = NoMessage
  BY <1>2 DEF RouterInv, TypeOK
<1>4. job'[w] = Head(wire)
  BY <1>1, <1>2
<1> QED
  BY <1>2, <1>3, <1>4, RouterAssumption

\* A worker finds its resource locked only when another one handles an event of it.
LEMMA WorkerDropsForCause ==
  ASSUME RouterInv, Next, NEW w \in Worker, pc[w] = "lock", pc'[w] = "return"
  PROVE  \/ KindOf[job[w]] = "garbage"
         \/ \E v \in Worker \ {w} : Holds(v) /\ Target(v) = Target(w)
<1>0. TypeOK /\ pc \in [Worker -> PC]
  BY DEF RouterInv, TypeOK
<1>1. ASSUME NEW u \in Worker, Work(u) PROVE u = w /\ Lock(w)
  <2>1. u = w
    BY <1>0, <1>1, WorkIsLocal
  <2> QED
    BY <1>1, <2>1 DEF Work, Dispatch, ById, constructProject, CreatingReply, projectCreate, emptyReply,
       failTransition, ErrorReply, Unlock, ReturnWorker
<1>2. ASSUME ReadMessage PROVE FALSE
  <2>1. CASE UNCHANGED pc
    BY <2>1
  <2>2. CASE \E v \in workers : pc' = [pc EXCEPT ![v] = "lock"]
    BY <2>2, <1>0
  <2> QED
    BY <1>2, <2>1, <2>2 DEF ReadMessage
<1>3. Lock(w)
  BY <1>1, <1>2, PanicIsExit DEF Next, CattleSend, Start, Exit, ProcessEnds
<1>4. KindOf[job[w]] = "garbage" \/ Target(w) \in lockedItems
  <2>1. pc'[w] # "dispatch"
    OBVIOUS
  <2> QED
    BY <1>0, <1>3, <2>1 DEF Lock, Goto
<1>5. CASE Target(w) \in lockedItems
  <2>1. PICK v \in Worker : Holds(v) /\ Target(v) = Target(w)
    BY <1>5 DEF RouterInv, LocksMatchHolders
  <2>2. v # w
    BY <2>1 DEF Holds, Holding
  <2> QED
    BY <2>1, <2>2
<1> QED
  BY <1>4, <1>5

\* An event is dropped only while every worker is at work or while another worker
\* handles an event of its resource (listener.go:121-128, 169-176).
THEOREM DropsHaveACause == Spec => DroppedForCause
<1> DEFINE Cause == /\ wire # <<>> /\ wire' = Tail(wire) /\ up' /\ job' = job =>
                          KindOf[Head(wire)] = "blank" \/ \A w \in Worker : pc[w] # "free"
                    /\ \A w \in Worker : pc[w] = "lock" /\ pc'[w] = "return" =>
                          \/ KindOf[job[w]] = "garbage"
                          \/ \E v \in Worker \ {w} : Holds(v) /\ Target(v) = Target(w)
<1>1. RouterInv /\ [Next]_vars => [Cause]_vars
  <2> SUFFICES ASSUME RouterInv, Next PROVE Cause
    OBVIOUS
  <2>1. wire # <<>> /\ wire' = Tail(wire) /\ up' /\ job' = job =>
           KindOf[Head(wire)] = "blank" \/ \A w \in Worker : pc[w] # "free"
    BY OnlyTheLoopReads, LoopDropsForCause
  <2>2. \A w \in Worker : pc[w] = "lock" /\ pc'[w] = "return" =>
           \/ KindOf[job[w]] = "garbage"
           \/ \E v \in Worker \ {w} : Holds(v) /\ Target(v) = Target(w)
    BY WorkerDropsForCause
  <2> QED
    BY <2>1, <2>2
<1> QED
  BY <1>1, RouterInvariant, PTL DEF Spec, DroppedForCause

\* A reply that is not lost is there afterwards.
LEMMA PublishArrives ==
  ASSUME NEW w, NEW kind, NEW outcome, Publish(w, kind, outcome), outcome # "lost"
  PROVE  \E p \in replies' : p.msg = job[w] /\ p.kind = kind /\ (outcome = "acked" => p.acked)
<1>1. PICK p : p = [msg |-> job[w], kind |-> kind, acked |-> outcome = "acked"]
  OBVIOUS
<1>2. p.msg = job[w] /\ p.kind = kind /\ (outcome = "acked" => p.acked)
  BY <1>1
<1>3. p \in replies'
  BY <1>1 DEF Publish
<1> QED
  BY <1>2, <1>3

\* How a create event comes to "unlock".
LEMMA UnlockAfterVerdict ==
  ASSUME RouterInv, Next, NEW w \in Worker, pc[w] # "unlock", pc'[w] = "unlock",
         KindOf[job[w]] = "create"
  PROVE  Answered(job[w])' \/ (pc[w] = "errorReply" /\ replies' = replies)
<1>0. TypeOK /\ pc \in [Worker -> PC]
  BY DEF RouterInv, TypeOK
<1>1. ASSUME NEW u \in Worker, Work(u) PROVE u = w
  BY <1>0, <1>1, WorkIsLocal
<1>2. ASSUME ReadMessage PROVE FALSE
  <2>1. CASE UNCHANGED pc
    BY <2>1
  <2>2. CASE \E v \in workers : pc' = [pc EXCEPT ![v] = "lock"]
    BY <2>2, <1>0
  <2> QED
    BY <1>2, <2>1, <2>2 DEF ReadMessage
<1>3. Work(w)
  BY <1>1, <1>2, PanicIsExit DEF Next, CattleSend, Start, Exit, ProcessEnds
<1>4. emptyReply(w) \/ ErrorReply(w)
  <2>1. PICK q : pc' = [pc EXCEPT ![w] = q] /\ q = "unlock"
    BY <1>0, <1>3 DEF Work, Lock, Dispatch, ById, constructProject, CreatingReply, projectCreate, emptyReply,
       failTransition, ErrorReply, Unlock, ReturnWorker, Goto
  <2> QED
    BY <1>0, <1>3, <2>1 DEF Work, Lock, Dispatch, ById, constructProject, CreatingReply, projectCreate,
       failTransition, Unlock, ReturnWorker, Goto
<1>5. job' = job
  BY <1>4 DEF emptyReply, ErrorReply
<1>6. CASE emptyReply(w)
  <2>1. PICK outcome \in PublishOutcomes :
           Publish(w, "done", outcome) /\ Goto(w, IF outcome = "acked" THEN "unlock" ELSE "failTransition")
    BY <1>6 DEF emptyReply
  <2>2. outcome = "acked"
    BY <2>1, <1>0 DEF Goto
  <2>3. PICK p \in replies' : p.msg = job[w] /\ p.kind = "done" /\ p.acked
    BY <2>1, <2>2, PublishArrives
  <2> QED
    BY <2>3, <1>5 DEF Answered, Final
<1>7. CASE ErrorReply(w)
  <2>1. PICK outcome \in PublishOutcomes : Publish(w, "error", outcome)
    BY <1>7 DEF ErrorReply
  <2>2. CASE outcome = "lost"
    BY <2>1, <2>2, <1>7 DEF Publish, ErrorReply
  <2>3. CASE outcome # "lost"
    <3>1. PICK p \in replies' : p.msg = job[w] /\ p.kind = "error"
      BY <2>1, <2>3, PublishArrives
    <3> QED
      BY <3>1, <1>5 DEF Answered, Final
  <2> QED
    BY <2>2, <2>3
<1> QED
  BY <1>4, <1>6, <1>7

\* The lock of a create event is given back with a verdict for Cattle, or after an
\* "error" reply that was lost (create_handler.go:23-30, listener.go:180-200).
THEOREM VerdictsComeFirst == Spec => VerdictBeforeUnlock
<1> DEFINE First == \A w \in Worker :
                       pc[w] # "unlock" /\ pc'[w] = "unlock" /\ KindOf[job[w]] = "create" =>
                           Answered(job[w])' \/ (pc[w] = "errorReply" /\ replies' = replies)
<1>1. RouterInv /\ [Next]_vars => [First]_vars
  BY UnlockAfterVerdict
<1> QED
  BY <1>1, RouterInvariant, PTL DEF Spec, VerdictBeforeUnlock

-----------------------------------------------------------------------------
(* The refinement. *)

\* A step inside the handler leaves the active deliveries as they are.
LEMMA SameActive ==
  ASSUME NEW w \in Worker, NEW q \in Holding, pc \in [Worker -> PC], Holds(w),
         Goto(w, q), UNCHANGED job
  PROVE  absActive' = absActive /\ job[w] \in absActive
<1>1. \A v \in Worker : Holds(v)' <=> Holds(v)
  BY DEF Goto, Holds
<1> QED
  BY <1>1 DEF absActive

\* Publishing is answering, or nothing if the reply is lost.
LEMMA PublishAnswers ==
  ASSUME NEW w \in Worker, NEW kind, NEW outcome, Publish(w, kind, outcome)
  PROVE  absAnswers' = absAnswers \/ absAnswers' = absAnswers \cup {<<job[w], kind>>}
<1> DEFINE new == [msg |-> job[w], kind |-> kind, acked |-> (outcome = "acked")]
<1>1. CASE replies' = replies
  BY <1>1 DEF absAnswers
<1>2. CASE replies' = replies \cup {new}
  <2>1. new.msg = job[w] /\ new.kind = kind
    OBVIOUS
  <2> HIDE DEF new
  <2> QED
    BY <1>2, <2>1 DEF absAnswers
<1> QED
  BY <1>1, <1>2 DEF Publish

\* A publishing step of the handler is an answer or changes nothing.
LEMMA PublishingStepRefines ==
  ASSUME RouterInv, NEW w \in Worker, NEW q \in Holding, Holds(w), Goto(w, q),
         NEW kind \in {"yes", "done", "error"}, NEW outcome, Publish(w, kind, outcome),
         UNCHANGED <<job, created>>,
         kind = "done" => Target(w) \in created \/ ComposeOf[Target(w)] = "empty"
  PROVE  [Abstract!Next]_(Abstract!vars)
<1>1. pc[w] # "free" /\ pc \in [Worker -> PC]
  BY DEF Holds, Holding, RouterInv, TypeOK
<1>2. job[w] \in Message /\ Target(w) \in Resource
  BY <1>1, BusyHasMessage DEF RouterInv
<1>3. absActive' = absActive /\ job[w] \in absActive
  BY <1>1, SameActive
<1>4. CASE absAnswers' = absAnswers
  BY <1>3, <1>4 DEF Abstract!vars
<1>5. CASE absAnswers' = absAnswers \cup {<<job[w], kind>>}
  <2>1. Abstract!Answer(job[w], kind)
    BY <1>2, <1>3, <1>5 DEF Abstract!Answer, Target
  <2> QED
    BY <1>2, <2>1 DEF Abstract!Next
<1> QED
  BY <1>4, <1>5, PublishAnswers

\* A step that leaves lock holders, jobs, replies and created stacks alone.
LEMMA IdleStepRefines ==
  ASSUME UNCHANGED <<created, replies>>, absActive' = absActive
  PROVE  UNCHANGED Abstract!vars
  BY DEF Abstract!vars, absAnswers

\* Every step of the process is a step of StackCreation or changes nothing in it.
LEMMA RouterStepRefines ==
  ASSUME RouterInv, [Next]_vars
  PROVE  [Abstract!Next]_(Abstract!vars)
<1> USE DEF RouterInv
<1>0. pc \in [Worker -> PC] /\ job \in [Worker -> Message \cup {NoMessage}]
  BY DEF TypeOK
<1>1. CASE (\E m \in Message : CattleSend(m)) \/ Start \/ UNCHANGED vars
  <2>1. UNCHANGED <<pc, job, created, replies>>
    BY <1>1 DEF CattleSend, Start, vars
  <2>2. absActive' = absActive
    BY <2>1 DEF absActive, Holds
  <2> QED
    BY <2>1, <2>2, IdleStepRefines
<1>2. CASE Exit
  <2>1. \A w \in Worker : ~ Holds(w)'
    BY <1>2 DEF Exit, ProcessEnds, Holds, Holding
  <2>2. absActive' = {}
    BY <2>1 DEF absActive
  <2>3. Abstract!Crash
    BY <1>2, <2>2 DEF Exit, ProcessEnds, Abstract!Crash, absAnswers
  <2> QED
    BY <2>3 DEF Abstract!Next
<1>3. CASE ReadMessage
  <2>1. UNCHANGED <<created, replies>>
    BY <1>3 DEF ReadMessage
  <2>2. CASE UNCHANGED <<workers, pc, job>>
    <3>1. absActive' = absActive
      BY <2>2 DEF absActive, Holds
    <3> QED
      BY <2>1, <3>1, IdleStepRefines
  <2>3. ASSUME NEW w \in workers, pc' = [pc EXCEPT ![w] = "lock"],
               job' = [job EXCEPT ![w] = Head(wire)]
        PROVE  absActive' = absActive
    <3>1. w \in Worker /\ pc[w] = "free"
      BY <1>3 DEF ReadMessage, PoolIntact, TypeOK
    <3>2. \A v \in Worker : /\ Holds(v)' <=> Holds(v)
                            /\ Holds(v) => job'[v] = job[v]
      BY <1>0, <2>3, <3>1 DEF Holds, Holding
    <3> QED
      BY <3>2 DEF absActive
  <2> QED
    BY <1>3, <2>1, <2>2, <2>3, IdleStepRefines DEF ReadMessage
<1>4. ASSUME NEW w \in Worker, Lock(w)
      PROVE  [Abstract!Next]_(Abstract!vars)
  <2>1. UNCHANGED <<job, created, replies>> /\ pc[w] = "lock"
    BY <1>4 DEF Lock
  <2>2. job[w] \in Message
    BY <2>1, BusyHasMessage
  <2>3. CASE Goto(w, "return")
    <3>1. \A v \in Worker : Holds(v)' <=> Holds(v)
      BY <1>0, <2>1, <2>3 DEF Holds, Holding, Goto
    <3>2. absActive' = absActive
      BY <2>1, <3>1 DEF absActive
    <3> QED
      BY <2>1, <3>2, IdleStepRefines
  <2>4. CASE Goto(w, "dispatch") /\ Target(w) \notin lockedItems
    <3>1. Holds(w)' /\ \A v \in Worker \ {w} : Holds(v)' <=> Holds(v)
      BY <1>0, <2>4 DEF Holds, Holding, Goto
    <3>2. absActive' = absActive \cup {job[w]}
      BY <2>1, <3>1 DEF absActive
    <3>3. \A n \in absActive : ResourceOf[n] # ResourceOf[job[w]]
      BY <2>4 DEF absActive, LocksMatchHolders, Target
    <3>4. Abstract!Begin(job[w])
      BY <2>1, <3>2, <3>3 DEF Abstract!Begin, absAnswers
    <3> QED
      BY <2>2, <3>4 DEF Abstract!Next
  <2> QED
    BY <1>4, <2>3, <2>4 DEF Lock
<1>5. ASSUME NEW w \in Worker, Dispatch(w) \/ ById(w) \/ constructProject(w)
      PROVE  [Abstract!Next]_(Abstract!vars)
  <2>1. Holds(w) /\ UNCHANGED <<job, created, replies>>
    BY <1>5 DEF Dispatch, ById, constructProject, Holds, Holding
  <2>2. PICK q \in Holding : Goto(w, q)
    BY <1>5 DEF Dispatch, ById, constructProject, Holding
  <2>3. absActive' = absActive
    BY <1>0, <2>1, <2>2, SameActive
  <2> QED
    BY <2>1, <2>3, IdleStepRefines
<1>6. ASSUME NEW w \in Worker, projectCreate(w)
      PROVE  [Abstract!Next]_(Abstract!vars)
  <2>1. Holds(w) /\ pc[w] # "free" /\ UNCHANGED <<job, replies>>
    BY <1>6 DEF projectCreate, Holds, Holding
  <2>2. PICK q \in Holding : Goto(w, q)
    BY <1>6 DEF projectCreate, Holding
  <2>3. absActive' = absActive /\ job[w] \in absActive
    BY <1>0, <2>1, <2>2, SameActive
  <2>4. job[w] \in Message
    BY <2>1, BusyHasMessage
  <2>5. CASE UNCHANGED created
    BY <2>1, <2>3, <2>5, IdleStepRefines
  <2>6. CASE created' = created \cup {Target(w)}
    <3>1. Abstract!Create(job[w])
      BY <2>1, <2>3, <2>6 DEF Abstract!Create, Target, absAnswers
    <3> QED
      BY <2>4, <3>1 DEF Abstract!Next
  <2> QED
    BY <1>6, <2>5, <2>6 DEF projectCreate
<1>7. ASSUME NEW w \in Worker, CreatingReply(w) \/ failTransition(w) \/ ErrorReply(w)
      PROVE  [Abstract!Next]_(Abstract!vars)
  <2>1. Holds(w) /\ UNCHANGED <<job, created>>
    BY <1>7 DEF CreatingReply, failTransition, ErrorReply, Holds, Holding
  <2>2. PICK q \in Holding : Goto(w, q)
    BY <1>7 DEF CreatingReply, failTransition, ErrorReply, Holding
  <2>3. PICK kind \in {"yes", "error"}, outcome \in PublishOutcomes : Publish(w, kind, outcome)
    BY <1>7 DEF CreatingReply, failTransition, ErrorReply
  <2> QED
    BY <2>1, <2>2, <2>3, PublishingStepRefines
<1>8. ASSUME NEW w \in Worker, emptyReply(w)
      PROVE  [Abstract!Next]_(Abstract!vars)
  <2>1. Holds(w) /\ UNCHANGED <<job, created>>
    BY <1>8 DEF emptyReply, Holds, Holding
  <2>2. PICK q \in Holding : Goto(w, q)
    BY <1>8 DEF emptyReply, Holding
  <2>3. PICK outcome \in PublishOutcomes : Publish(w, "done", outcome)
    BY <1>8 DEF emptyReply
  <2>4. Target(w) \in created \/ ComposeOf[Target(w)] = "empty"
    BY <1>8 DEF emptyReply, ReadyToReply
  <2> QED
    BY <2>1, <2>2, <2>3, <2>4, PublishingStepRefines
<1>9. ASSUME NEW w \in Worker, Unlock(w)
      PROVE  [Abstract!Next]_(Abstract!vars)
  <2>1. pc[w] = "unlock" /\ Goto(w, "return") /\ UNCHANGED <<job, created, replies>>
    BY <1>9 DEF Unlock
  <2>2. Holds(w) /\ ~ Holds(w)' /\ \A v \in Worker \ {w} : Holds(v)' <=> Holds(v)
    BY <1>0, <2>1 DEF Holds, Holding, Goto
  <2>3. \A v \in Worker \ {w} : job[v] # job[w]
    BY <2>1, SameMessageSameWorker
  <2>4. job[w] \in absActive /\ absActive' = absActive \ {job[w]}
    BY <2>1, <2>2, <2>3 DEF absActive
  <2>5. job[w] \in Message
    BY <2>1, BusyHasMessage
  <2>6. Abstract!End(job[w])
    BY <2>1, <2>4 DEF Abstract!End, absAnswers
  <2> QED
    BY <2>5, <2>6 DEF Abstract!Next
<1>10. ASSUME NEW w \in Worker, ReturnWorker(w)
       PROVE  [Abstract!Next]_(Abstract!vars)
  <2>1. /\ pc[w] = "return" /\ pc' = [pc EXCEPT ![w] = "free"]
        /\ job' = [job EXCEPT ![w] = NoMessage]
        /\ UNCHANGED <<created, replies>>
    BY <1>10 DEF ReturnWorker, Goto
  <2>2. \A v \in Worker : /\ Holds(v)' <=> Holds(v)
                          /\ Holds(v) => job'[v] = job[v]
    BY <1>0, <2>1 DEF Holds, Holding
  <2>3. absActive' = absActive
    BY <2>2 DEF absActive
  <2> QED
    BY <2>1, <2>3, IdleStepRefines
<1> QED
  BY <1>1, <1>2, <1>3, <1>4, <1>5, <1>6, <1>7, <1>8, <1>9, <1>10, PanicIsExit DEF Next, Work

\* The process keeps the promise of StackCreation, whatever is redelivered, lost or
\* killed (listener.go:150-206, create_handler.go:15-59).
THEOREM RouterRefines == Spec => ImplementsStackCreation
<1>1. Init => Abstract!Init
  BY DEF Init, Abstract!Init, absActive, absAnswers, Holds, Holding
<1>2. RouterInv /\ [Next]_vars => [Abstract!Next]_(Abstract!vars)
  BY RouterStepRefines
<1> QED
  BY <1>1, <1>2, RouterInvariant, PTL DEF Spec, Abstract!Spec, ImplementsStackCreation
=============================================================================
