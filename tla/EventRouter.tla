---------------------------- MODULE EventRouter ----------------------------
(***************************************************************************)
(* The executor process: main.go, the event loop and the worker pool of    *)
(* go-machine-service/events, and the handler of "environment.create" in   *)
(* handlers/.  Cattle writes events on a websocket; the read loop hands    *)
(* each one to a free worker or drops it; the worker takes the lock of the *)
(* event's resource or drops the event, runs the handler, reports failures *)
(* and gives lock and worker back.                                         *)
(*                                                                         *)
(* The lock is the lock table that module Locks is shown to implement.     *)
(* What project.Create() does inside is module ComposeProject's subject;   *)
(* here it succeeds, fails or, for a stack Compose calls "stuck", never    *)
(* returns.                                                                *)
(***************************************************************************)
EXTENDS Naturals, Sequences, FiniteSets

CONSTANTS
    Worker,      \* the workers of the pool (main.go asks for 10)
    Message,     \* the deliveries Cattle may make; a redelivered event is
                 \* another message with the same resource
    NoMessage,   \* what an idle worker works on
    Resource,    \* resource ids
    ResourceOf,  \* the resource id of the event in a message
    KindOf,      \* what a message is, see Kind
    ComposeOf,   \* what docker-compose text a resource has, see Compose
    ApiMayFail,  \* may a call of the Rancher API fail?
    PublishOutcomes, \* what may happen to a reply: see Publish
    MaxExits     \* bound: how often the process may end and be started again

\* "blank": white space; "garbage": not an event, the word null included; "other": no
\* handler for it.
Kind == {"create", "ping", "other", "garbage", "blank"}

\* "dollar": a text whose interpolation panics, see module Interpolation.
Compose == {"empty", "valid", "invalid", "dollar", "stuck"}

ASSUME RouterAssumption ==
    /\ NoMessage \notin Message
    /\ ResourceOf \in [Message -> Resource]
    /\ KindOf \in [Message -> Kind]
    /\ ComposeOf \in [Resource -> Compose]
    /\ ApiMayFail \in BOOLEAN
    /\ PublishOutcomes \subseteq {"acked", "unacked", "lost"}
    /\ MaxExits \in Nat

VARIABLES
    up,          \* is the process connected and in its read loop?
    sent,        \* the messages Cattle has sent
    wire,        \* the messages on the websocket, in order
    workers,     \* the content of the channel workers: the free ones
    pc,          \* pc[w]: where the goroutine of worker w is
    job,         \* job[w]: the message w works on
    lockedItems, \* the resources that are locked
    created,     \* the resources whose project.Create() has returned nil
    replies,     \* the replies Cattle has received
    exits        \* how often the process has ended

vars == <<up, sent, wire, workers, pc, job, lockedItems, created, replies, exits>>

Reply == [msg : Message, kind : {"yes", "done", "error"}, acked : BOOLEAN]

\* From "dispatch" to "unlock" the worker holds the lock of its resource.
Holding == {"dispatch", "byId", "construct", "creatingReply", "projectCreate",
            "emptyReply", "failTransition", "errorReply", "unlock"}

PC == {"free", "lock", "return"} \cup Holding

TypeOK == /\ up \in BOOLEAN
          /\ sent \subseteq Message
          /\ wire \in Seq(Message)
          /\ workers \subseteq Worker
          /\ pc \in [Worker -> PC]
          /\ job \in [Worker -> Message \cup {NoMessage}]
          /\ \A w \in Worker : job[w] = NoMessage <=> pc[w] = "free"
          /\ lockedItems \subseteq Resource
          /\ created \subseteq Resource
          /\ replies \subseteq Reply
          /\ exits \in 0..MaxExits

Holds(w) == pc[w] \in Holding
Target(w) == ResourceOf[job[w]]

-----------------------------------------------------------------------------
(* Cattle and the life of the process.                                     *)

Init == /\ up = FALSE
        /\ sent = {}
        /\ wire = <<>>
        /\ workers = {}
        /\ pc = [w \in Worker |-> "free"]
        /\ job = [w \in Worker |-> NoMessage]
        /\ lockedItems = {}
        /\ created = {}
        /\ replies = {}
        /\ exits = 0

\* Cattle delivers an event, for the first time or again.
CattleSend(m) == /\ up
                 /\ m \notin sent
                 /\ sent' = sent \cup {m}
                 /\ wire' = Append(wire, m)
                 /\ UNCHANGED <<up, workers, pc, job, lockedItems, created, replies, exits>>

\* main() and Start() up to the read loop: the pool is filled, the handler is
\* registered and the websocket opened.
Start == /\ ~ up
         /\ up' = TRUE
         /\ workers' = Worker
         /\ UNCHANGED <<sent, wire, pc, job, lockedItems, created, replies, exits>>

\* Every goroutine, the lock table and the unread messages are gone with the process.
ProcessEnds == /\ exits < MaxExits
               /\ exits' = exits + 1
               /\ up' = FALSE
               /\ wire' = <<>>
               /\ workers' = {}
               /\ pc' = [w \in Worker |-> "free"]
               /\ job' = [w \in Worker |-> NoMessage]
               /\ lockedItems' = {}
               /\ UNCHANGED <<sent, created, replies>>

\* ReadMessage() fails: Start() returns and main() with it.
Exit == up /\ ProcessEnds

\* Mutant: the worker is only looked at in the channel, not taken out of it.
ReadMessageKeepingWorker ==
    /\ up
    /\ wire # <<>>
    /\ wire' = Tail(wire)
    /\ IF KindOf[Head(wire)] = "blank" \/ workers = {}
       THEN UNCHANGED <<workers, pc, job>>
       ELSE \E w \in workers : /\ workers' = workers
                               /\ pc' = [pc EXCEPT ![w] = "lock"]
                               /\ job' = [job EXCEPT ![w] = Head(wire)]
    /\ UNCHANGED <<up, sent, lockedItems, created, replies, exits>>

\* Mutant: the last worker of the pool is never used.
ReadMessageSparing ==
    /\ up
    /\ wire # <<>>
    /\ wire' = Tail(wire)
    /\ IF KindOf[Head(wire)] = "blank" \/ \A v, w \in workers : v = w
       THEN UNCHANGED <<workers, pc, job>>
       ELSE \E w \in workers : /\ workers' = workers \ {w}
                               /\ pc' = [pc EXCEPT ![w] = "lock"]
                               /\ job' = [job EXCEPT ![w] = Head(wire)]
    /\ UNCHANGED <<up, sent, lockedItems, created, replies, exits>>

\* One turn of the read loop.  A blank message is skipped; without a free worker
\* the event is dropped.  Workers have no state, so which one is taken does not
\* matter.
ReadMessage ==
    /\ up
    /\ wire # <<>>
    /\ wire' = Tail(wire)
    /\ IF KindOf[Head(wire)] = "blank" \/ workers = {}
       THEN UNCHANGED <<workers, pc, job>>
       ELSE \E w \in workers : /\ workers' = workers \ {w}
                               /\ pc' = [pc EXCEPT ![w] = "lock"]
                               /\ job' = [job EXCEPT ![w] = Head(wire)]
    /\ UNCHANGED <<up, sent, lockedItems, created, replies, exits>>

-----------------------------------------------------------------------------
(* Worker.DoWork().                                                        *)

\* Worker w goes on to another point of its goroutine.
Goto(w, to) == pc' = [pc EXCEPT ![w] = to]

Router == <<up, sent, wire, workers, exits>>

\* Mutant: the answer of Lock() is not looked at.
LockUntested(w) == /\ pc[w] = "lock"
                   /\ Goto(w, "dispatch")
                   /\ lockedItems' = lockedItems \cup {Target(w)}
                   /\ UNCHANGED <<Router, job, created, replies>>

\* Unmarshalling, then locks.Lock(event.ResourceId).  What is no event and what
\* belongs to a locked resource is dropped.
Lock(w) ==
    /\ pc[w] = "lock"
    /\ \/ /\ KindOf[job[w]] # "garbage"
          /\ Target(w) \notin lockedItems
          /\ Goto(w, "dispatch")
          /\ lockedItems' = lockedItems \cup {Target(w)}
       \/ /\ KindOf[job[w]] = "garbage" \/ Target(w) \in lockedItems
          /\ Goto(w, "return")
          /\ UNCHANGED lockedItems
    /\ UNCHANGED <<Router, job, created, replies>>

\* The handler is looked up and called; ping's handler returns nil at once, and
\* an event without a handler is only logged.
Dispatch(w) == /\ pc[w] = "dispatch"
               /\ Goto(w, IF KindOf[job[w]] = "create" THEN "byId" ELSE "unlock")
               /\ UNCHANGED <<Router, job, lockedItems, created, replies>>

\* Mutant: for a failed event only the worker is given back, without a reply and
\* without the unlock.
ErrorReplyThenReturn(w) ==
    /\ pc[w] = "errorReply"
    /\ Goto(w, "return")
    /\ UNCHANGED <<Router, job, lockedItems, created, replies>>

\* Publish.Create(reply): the reply and its acknowledgement arrive ("acked"),
\* the reply arrives and the acknowledgement does not ("unacked"), or neither
\* ("lost").  The caller gets an error unless it is "acked".
Publish(w, kind, outcome) ==
    /\ outcome \in PublishOutcomes
    /\ replies' = IF outcome = "lost" THEN replies
                  ELSE replies \cup {[msg |-> job[w], kind |-> kind,
                                      acked |-> outcome = "acked"]}

\* Publish of the "error" reply; a failure to send it is only logged.
ErrorReply(w) == /\ pc[w] = "errorReply"
                 /\ Goto(w, "unlock")
                 /\ \E outcome \in PublishOutcomes : Publish(w, "error", outcome)
                 /\ UNCHANGED <<Router, job, lockedItems, created>>

\* defer unlocker.Unlock()
Unlock(w) == /\ pc[w] = "unlock"
             /\ Goto(w, "return")
             /\ lockedItems' = lockedItems \ {Target(w)}
             /\ UNCHANGED <<Router, job, created, replies>>

\* Mutant: the goroutine ends without giving its worker back.
ReturnWorkerLost(w) == /\ pc[w] = "return"
                       /\ Goto(w, "free")
                       /\ job' = [job EXCEPT ![w] = NoMessage]
                       /\ UNCHANGED <<Router, lockedItems, created, replies>>

\* defer func() { workers <- w }(), deferred first and so run last.
ReturnWorker(w) == /\ pc[w] = "return"
                   /\ Goto(w, "free")
                   /\ job' = [job EXCEPT ![w] = NoMessage]
                   /\ workers' = workers \cup {w}
                   /\ UNCHANGED <<up, sent, wire, exits, lockedItems, created, replies>>

-----------------------------------------------------------------------------
(* handlers.CreateEnvironment().                                           *)

\* Environment.ById(event.ResourceId), and the stack without compose text.
ById(w) == /\ pc[w] = "byId"
           /\ \/ /\ ComposeOf[Target(w)] = "empty"
                 /\ Goto(w, "emptyReply")
              \/ /\ ComposeOf[Target(w)] # "empty"
                 /\ Goto(w, "construct")
              \/ /\ ApiMayFail
                 /\ Goto(w, "failTransition")
           /\ UNCHANGED <<Router, job, lockedItems, created, replies>>

\* constructProject(): NewProject() calls the API, Parse() reads the text.
constructProject(w) ==
    /\ pc[w] = "construct"
    /\ \/ /\ ComposeOf[Target(w)] \notin {"invalid", "dollar"}
          /\ Goto(w, "creatingReply")
       \/ /\ ComposeOf[Target(w)] = "invalid" \/ ApiMayFail
          /\ Goto(w, "failTransition")
    /\ UNCHANGED <<Router, job, lockedItems, created, replies>>

\* publishTransitioningReply("Creating stack"): its errors are ignored.
CreatingReply(w) == /\ pc[w] = "creatingReply"
                    /\ Goto(w, "projectCreate")
                    /\ \E outcome \in PublishOutcomes : Publish(w, "yes", outcome)
                    /\ UNCHANGED <<Router, job, lockedItems, created>>

\* Mutant: the error of project.Create() is not looked at.
projectCreateUnchecked(w) ==
    /\ pc[w] = "projectCreate"
    /\ ComposeOf[Target(w)] # "stuck"
    /\ Goto(w, "emptyReply")
    /\ \/ created' = created \cup {Target(w)}
       \/ ApiMayFail /\ UNCHANGED created
    /\ UNCHANGED <<Router, job, lockedItems, replies>>

\* project.Create() returns.
projectCreate(w) ==
    /\ pc[w] = "projectCreate"
    /\ ComposeOf[Target(w)] # "stuck"
    /\ \/ /\ Goto(w, "emptyReply")
          /\ created' = created \cup {Target(w)}
       \/ /\ ApiMayFail
          /\ Goto(w, "failTransition")
          /\ UNCHANGED created
    /\ UNCHANGED <<Router, job, lockedItems, replies>>

\* Mutant: the handler publishes its verdict and then reports a failure.
emptyReplyThenFail(w) == /\ pc[w] = "emptyReply"
                         /\ Goto(w, "failTransition")
                         /\ \E outcome \in PublishOutcomes : Publish(w, "done", outcome)
                         /\ UNCHANGED <<Router, job, lockedItems, created>>

\* Mutant: the error of Publish is ignored here too.
emptyReplyUnchecked(w) == /\ pc[w] = "emptyReply"
                          /\ Goto(w, "unlock")
                          /\ \E outcome \in PublishOutcomes : Publish(w, "done", outcome)
                          /\ UNCHANGED <<Router, job, lockedItems, created>>

\* emptyReply(): the reply that ends the transition.  Here an error of Publish
\* is the handler's error, although the reply may have arrived.
emptyReply(w) ==
    /\ pc[w] = "emptyReply"
    /\ \E outcome \in PublishOutcomes :
          /\ Publish(w, "done", outcome)
          /\ Goto(w, IF outcome = "acked" THEN "unlock" ELSE "failTransition")
    /\ UNCHANGED <<Router, job, lockedItems, created>>

\* CreateEnvironment() publishes the error's text as a transition message,
\* ignoring errors, and returns the error to DoWork().
failTransition(w) == /\ pc[w] = "failTransition"
                     /\ Goto(w, "errorReply")
                     /\ \E outcome \in PublishOutcomes : Publish(w, "yes", outcome)
                     /\ UNCHANGED <<Router, job, lockedItems, created>>

-----------------------------------------------------------------------------
\* A panic of one goroutine ends all of them.  Unmarshal() makes a nil pointer of the
\* garbage null, and its Name is read next; Parse() interpolates a text that ends in a
\* single "$".
Panic(w) == /\ \/ pc[w] = "lock" /\ KindOf[job[w]] = "garbage"
               \/ pc[w] = "construct" /\ ComposeOf[Target(w)] = "dollar"
            /\ ProcessEnds

\* A step of the goroutine of worker w.
Work(w) == \/ Lock(w) \/ Dispatch(w) \/ ById(w) \/ constructProject(w)
           \/ CreatingReply(w) \/ projectCreate(w) \/ emptyReply(w)
           \/ failTransition(w) \/ ErrorReply(w) \/ Unlock(w) \/ ReturnWorker(w)

Next == \/ \E m \in Message : CattleSend(m)
        \/ Start
        \/ Exit
        \/ ReadMessage
        \/ \E w \in Worker : Work(w) \/ Panic(w)

Spec == Init /\ [][Next]_vars

\* The read loop and every goroutine run on.  That the API calls inside a step
\* return is Cattle's side of the bargain: the HTTP client has no timeout.
Fairness == /\ WF_vars(Start)
            /\ WF_vars(ReadMessage)
            /\ \A w \in Worker : WF_vars(Work(w) \/ Panic(w))

FairSpec == Spec /\ Fairness

-----------------------------------------------------------------------------
(* Safety.                                                                 *)

\* Two goroutines never handle events of the same resource at the same time,
\* whatever the order of deliveries, redeliveries and failures
\* (listener.go:169-176, "Resource locked. Dropping event").
MutualExclusion ==
    \A v, w \in Worker : Holds(v) /\ Holds(w) /\ Target(v) = Target(w) => v = w

\* A resource is locked only while a worker handles an event of it: no way out
\* of DoWork() leaves the stack locked, so that later events could only be
\* dropped (listener.go:170-176).
NoLeakedLock == \A r \in lockedItems : \E w \in Worker : Holds(w) /\ Target(w) = r

\* While the process runs, a worker is either in the channel or in a goroutine,
\* never in both and never in neither (listener.go:47-51, 121-123, 152).
PoolIntact == up => \A w \in Worker : w \in workers <=> pc[w] = "free"

\* Cattle is told that a stack is done only if project.Create() has returned nil
\* for it in this or an earlier delivery, or it has no compose text
\* (create_handler.go:43-58).
DoneImpliesCreated ==
    \A p \in replies : p.kind = "done" =>
        ResourceOf[p.msg] \in created \/ ComposeOf[ResourceOf[p.msg]] = "empty"

\* The verdicts after which a delivery is over.
Final(p) == p.kind = "error" \/ (p.kind = "done" /\ p.acked)

\* After an acknowledged "done" or an "error", nothing more is published for that
\* delivery: no transition message reopens what Cattle has closed
\* (create_handler.go:23-30, listener.go:180-200).
VerdictIsFinal ==
    [][\A p \in replies' \ replies : ~ \E q \in replies : q.msg = p.msg /\ Final(q)]_vars

\* An event is dropped for the two reasons the log names and for no other one: the
\* read loop drops it only while every worker is at work, whether its event has been
\* handled, has failed or was dropped itself, and a worker drops it only while another
\* one handles an event of the same resource (listener.go:121-128, 169-176).
DroppedForCause ==
    [][/\ wire # <<>> /\ wire' = Tail(wire) /\ up' /\ job' = job =>
             KindOf[Head(wire)] = "blank" \/ \A w \in Worker : pc[w] # "free"
       /\ \A w \in Worker : pc[w] = "lock" /\ pc'[w] = "return" =>
             \/ KindOf[job[w]] = "garbage"
             \/ \E v \in Worker \ {w} : Holds(v) /\ Target(v) = Target(w)]_vars

\* A delivery that has been answered for good.
Answered(m) == \E p \in replies : p.msg = m /\ Final(p)

\* A create event is not let go in silence: when its worker goes on to give the lock
\* back, Cattle has a verdict that ends the transition, also on the way that begins
\* with a "done" that was not acknowledged; only the loss of the "error" reply, after
\* which there is no further try, keeps it from Cattle
\* (create_handler.go:23-30, listener.go:180-200).
VerdictBeforeUnlock ==
    [][\A w \in Worker :
          pc[w] # "unlock" /\ pc'[w] = "unlock" /\ KindOf[job[w]] = "create" =>
              Answered(job[w])' \/ (pc[w] = "errorReply" /\ replies' = replies)]_vars

\* The refinement mapping: the deliveries whose lock is held are active.
absActive == {job[w] : w \in {v \in Worker : Holds(v)}}
absAnswers == {<<p.msg, p.kind>> : p \in replies}

Abstract == INSTANCE StackCreation
    WITH active <- absActive,
         answers <- absAnswers,
         Nothing <- {r \in Resource : ComposeOf[r] = "empty"}

\* The process keeps the promise of StackCreation, across workers, losses and
\* restarts (listener.go:150-206, create_handler.go:15-59).
ImplementsStackCreation == Abstract!Spec

-----------------------------------------------------------------------------
(* Liveness.                                                               *)

\* Every worker handed an event comes back to the pool (listener.go:152).
WorkersReturn == \A w \in Worker : pc[w] # "free" ~> w \in workers

\* A create event whose lock was obtained gets a verdict, "done" or "error",
\* if replies arrive (create_handler.go:23-30, listener.go:180-200).
HandledIsAnswered ==
    \A m \in Message : (\E w \in Worker : job[w] = m /\ pc[w] = "byId") ~> Answered(m)

\* Some worker handles an event of resource r.
InHand(r) == \E w \in Worker : Holds(w) /\ Target(w) = r

\* An event that has a worker for it and each event before it, on a resource no
\* worker is busy with, is not dropped for nothing: it, or an event of the same resource
\* that overtakes it, a redelivery or a ping, is handled (listener.go:121-128, 169-176).
IdleResourceIsHandled ==
    \A r \in Resource :
        (/\ \E i \in DOMAIN wire : /\ ResourceOf[wire[i]] = r
                                   /\ KindOf[wire[i]] \in {"create", "ping", "other"}
                                   /\ i <= Cardinality(workers)
         /\ \A w \in Worker : pc[w] # "free" => Target(w) # r)
        ~> InHand(r)

-----------------------------------------------------------------------------
(* The inductive invariant behind the safety properties.                   *)

\* The lock table is exactly the resources of the workers that hold a lock.
LocksMatchHolders == lockedItems = {Target(w) : w \in {v \in Worker : Holds(v)}}

\* Every message is in one place: not sent, on the wire once, with one worker,
\* or gone; replies exist only for what has been sent.
MessagesAreUnique ==
    /\ \A i \in 1..Len(wire) : wire[i] \in sent
    /\ \A i, j \in 1..Len(wire) : wire[i] = wire[j] => i = j
    /\ \A w \in Worker : pc[w] # "free" => /\ job[w] \in sent
                                           /\ \A i \in 1..Len(wire) : wire[i] # job[w]
    /\ \A v, w \in Worker : pc[v] # "free" /\ job[v] = job[w] => v = w
    /\ \A p \in replies : p.msg \in sent /\ \A i \in 1..Len(wire) : wire[i] # p.msg

\* A delivery with a final reply has nothing left but to unlock and to return.
FinalIsLast ==
    \A w \in Worker : \A p \in replies :
        job[w] = p.msg /\ Final(p) => pc[w] \in {"unlock", "return"}

\* A worker about to publish "done" has created the stack or has nothing to create.
ReadyToReply ==
    \A w \in Worker : pc[w] = "emptyReply" =>
        Target(w) \in created \/ ComposeOf[Target(w)] = "empty"

\* A process that is not up holds nothing.
DownIsIdle == ~ up => wire = <<>> /\ \A w \in Worker : pc[w] = "free"

RouterInv == /\ TypeOK
             /\ MutualExclusion
             /\ LocksMatchHolders
             /\ PoolIntact
             /\ DownIsIdle
             /\ MessagesAreUnique
             /\ FinalIsLast
             /\ ReadyToReply
             /\ DoneImpliesCreated
=============================================================================
