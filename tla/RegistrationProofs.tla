------------------------- MODULE RegistrationProofs -------------------------
(***************************************************************************)
(* Proofs about the registration of the executor, for any number of        *)
(* processes and exits.                                                    *)
(***************************************************************************)
EXTENDS Registration, SequenceTheorems, TLAPS

-----------------------------------------------------------------------------
(* Handlers.                                                               *)

\* What a change of a handler's state leaves alone.
LEMMA StateSet ==
  ASSUME NEW hs \in Seq(Handler), NEW i \in 1..Len(hs), NEW st \in State,
         NEW t, t = [hs EXCEPT ![i].state = st]
  PROVE  /\ t \in Seq(Handler) /\ Len(t) = Len(hs)
         /\ t[i].state = st /\ t[i].err = hs[i].err
         /\ \A j \in 1..Len(hs) : j # i => t[j] = hs[j]
<1>1. hs[i] \in Handler
  OBVIOUS
<1>2. PICK h : h = [hs[i] EXCEPT !.state = st]
  OBVIOUS
<1>3. h \in Handler /\ h.state = st /\ h.err = hs[i].err
  BY <1>1, <1>2 DEF Handler
<1>4. t = [hs EXCEPT ![i] = h]
  BY <1>2
<1> QED
  BY <1>3, <1>4, ExceptSeq

\* A new handler.
LEMMA HandlerAdded ==
  ASSUME NEW hs \in Seq(Handler), NEW h \in Handler
  PROVE  /\ Append(hs, h) \in Seq(Handler) /\ Len(Append(hs, h)) = Len(hs) + 1
         /\ Append(hs, h)[Len(hs) + 1] = h
         /\ \A j \in 1..Len(hs) : Append(hs, h)[j] = hs[j]
  OBVIOUS

-----------------------------------------------------------------------------
(* The inductive invariant.                                                *)

\* At first there is no handler and no process runs.
LEMMA InitRegInv == Init => RegInv
<1> SUFFICES ASSUME Init PROVE RegInv
  OBVIOUS
<1>1. handlers = << >> /\ DOMAIN handlers = {} /\ Len(handlers) = 0
  BY DEF Init
<1>2. TypeOK
  <2>1. handlers \in Seq(Handler) /\ pc \in [Proc -> PC]
    BY <1>1 DEF Init, PC
  <2>0. overlapped \in BOOLEAN
    BY DEF Init
  <2>2. /\ listed \in [Proc -> SUBSET (1..Len(handlers))] /\ todo \in [Proc -> SUBSET (1..Len(handlers))]
        /\ \A p \in Proc : todo[p] \subseteq listed[p]
    BY DEF Init
  <2>3. cur \in [Proc -> Nat] /\ exits \in 0..MaxExits
    BY RegistrationAssumption DEF Init
  <2>4. \A p \in Proc : pc[p] = "down"
    BY DEF Init
  <2> QED
    BY <2>0, <2>1, <2>2, <2>3, <2>4 DEF TypeOK
<1>3. ErrInTransition /\ OneUnlessOverlapped
  BY <1>1 DEF ErrInTransition, OneUnlessOverlapped, Current
<1>4. CurStage /\ OneOwner /\ RestIsGone
  BY DEF Init, CurStage, OneOwner, RestIsGone, Working
<1>5. OneRegisters /\ CurrentIsTodo
  BY DEF Init, OneRegisters, CurrentIsTodo, Registering
<1> QED
  BY <1>2, <1>3, <1>4, <1>5 DEF RegInv

\* Whether a state is one its place expects.
StageOf(to, h) == /\ to = "deactivate" => h.state \in {"deactivating", "inactive"}
                  /\ to = "look" => h.state = "inactive" \/ (h.state = "deactivating" /\ h.err)
                  /\ to = "remove" => h.state = "inactive"
                  /\ to = "removing" => h.state \in {"removing", "removed"}

Busy == {"deactivate", "look", "remove", "removing"}

\* A step of a process that changes nothing but where it is.
LEMMA MoveKeepsInv ==
  ASSUME RegInv, NEW p \in Proc, NEW to \in PC,
         pc' = [pc EXCEPT ![p] = to], UNCHANGED <<handlers, listed, todo, cur, overlapped>>,
         exits' \in 0..MaxExits,
         to \in Busy => pc[p] \in Busy,
         StageOf(to, handlers[cur[p]]),
         to \in {"create", "running"} => todo[p] = {},
         to \notin {"down", "list"} => /\ pc[p] \notin {"down", "list"}
                                       /\ pc[p] \in Busy /\ to \notin Busy => Gone(cur[p]),
         to \notin {"down", "list", "running"} =>
            to # "subscribe" /\ pc[p] \notin {"down", "list", "running", "subscribe"}
  PROVE  RegInv'
<1>0. /\ \A q \in Proc : pc'[q] = IF q = p THEN to ELSE pc[q]
      /\ pc \in [Proc -> PC]
  BY DEF RegInv, TypeOK
<1>1. TypeOK'
  BY <1>0 DEF RegInv, TypeOK, Busy
<1>2. ErrInTransition' /\ OneUnlessOverlapped'
  BY DEF RegInv, ErrInTransition, OneUnlessOverlapped, Current
<1>3. CurStage'
  BY <1>0 DEF RegInv, CurStage, StageOf
<1>4. OneOwner'
  BY <1>0 DEF RegInv, OneOwner, Working, Busy
<1>5. RestIsGone'
  <2> SUFFICES ASSUME NEW q \in Proc
               PROVE  /\ Working(q)' => cur[q] \notin todo[q]
                      /\ pc'[q] \in {"create", "subscribe", "running"} => todo[q] = {}
                      /\ pc'[q] \notin {"down", "list"} =>
                           \A i \in listed[q] \ todo[q] : Gone(i) \/ (Working(q)' /\ i = cur[q])
    BY DEF RestIsGone, Gone
  <2>1. CASE q = p
    BY <2>1, <1>0 DEF RegInv, RestIsGone, Working, Busy
  <2>2. CASE q # p
    BY <2>2, <1>0 DEF RegInv, RestIsGone, Working
  <2> QED
    BY <2>1, <2>2
<1>6. OneRegisters'
  BY <1>0 DEF RegInv, OneRegisters, Registering
<1>7. CurrentIsTodo'
  BY <1>0 DEF RegInv, CurrentIsTodo, Registering, Current
<1> QED
  BY <1>1, <1>2, <1>3, <1>4, <1>5, <1>6, <1>7 DEF RegInv

\* The steps of a process that only move it (Start() of main, waitForTransition(),
\* ById(), the loop's end, subscribeToEvents(), and the ends of a process).
LEMMA MovesKeepInv ==
  ASSUME RegInv, NEW p \in Proc,
         \/ Start(p)
         \/ waitForTransition(p, "deactivate", "look")
         \/ ById(p)
         \/ waitForTransition(p, "removing", "loop")
         \/ OldRemoved(p) \/ subscribeToEvents(p) \/ Refused(p) \/ Exit(p)
  PROVE  RegInv'
<1>0. /\ pc \in [Proc -> PC] /\ exits \in 0..MaxExits /\ MaxExits \in Nat
      /\ handlers \in Seq(Handler)
      /\ pc[p] \in Busy => cur[p] \in 1..Len(handlers) /\ handlers[cur[p]] \in Handler
  <2>1. /\ pc \in [Proc -> PC] /\ exits \in 0..MaxExits /\ MaxExits \in Nat
        /\ handlers \in Seq(Handler) /\ listed \in [Proc -> SUBSET (1..Len(handlers))]
        /\ pc[p] \in Busy => cur[p] \in listed[p]
    BY RegistrationAssumption DEF RegInv, TypeOK, Busy
  <2>2. pc[p] \in Busy => cur[p] \in 1..Len(handlers)
    BY <2>1
  <2> QED
    BY <2>1, <2>2
<1>1. CASE Start(p)
  BY <1>1, <1>0, MoveKeepsInv DEF Start, Goto, PC, Busy, StageOf
<1>2. CASE waitForTransition(p, "deactivate", "look")
  <2>1. StageOf("look", handlers[cur[p]])
    BY <1>2 DEF waitForTransition, InTransition, StageOf, RegInv, CurStage
  <2> QED
    BY <1>2, <2>1, <1>0, MoveKeepsInv DEF waitForTransition, Goto, PC, Busy
<1>3. CASE ById(p)
  <2> DEFINE to == IF handlers[cur[p]].state = "inactive" THEN "remove" ELSE "loop"
  <2>1. pc[p] = "look" /\ pc' = [pc EXCEPT ![p] = to]
        /\ UNCHANGED <<handlers, listed, todo, cur, exits, overlapped>>
    BY <1>3 DEF ById, Goto
  <2>2. to = "loop" => Gone(cur[p])
    BY <2>1 DEF Gone, RegInv, CurStage
  <2>3. StageOf(to, handlers[cur[p]]) /\ to \in {"remove", "loop"}
    BY DEF StageOf
  <2> HIDE DEF to
  <2> QED
    BY <2>1, <2>2, <2>3, <1>0, MoveKeepsInv DEF PC, Busy
<1>4. CASE waitForTransition(p, "removing", "loop")
  <2>1. Gone(cur[p])
    BY <1>4 DEF waitForTransition, InTransition, Gone, RegInv, CurStage
  <2> QED
    BY <1>4, <2>1, <1>0, MoveKeepsInv DEF waitForTransition, Goto, PC, Busy, StageOf
<1>5. CASE OldRemoved(p)
  BY <1>5, <1>0, MoveKeepsInv DEF OldRemoved, Goto, PC, Busy, StageOf
<1>6. CASE subscribeToEvents(p)
  <2>1. todo[p] = {}
    BY <1>6 DEF subscribeToEvents, RegInv, RestIsGone
  <2> QED
    BY <1>6, <2>1, <1>0, MoveKeepsInv DEF subscribeToEvents, Goto, PC, Busy, StageOf
<1>7. CASE Refused(p) \/ Exit(p)
  <2>1. exits' \in 0..MaxExits
    BY <1>7, <1>0 DEF Refused, Exit
  <2> QED
    BY <1>7, <2>1, <1>0, MoveKeepsInv DEF Refused, Exit, Down, Goto, PC, Busy, StageOf
<1> QED
  BY <1>1, <1>2, <1>3, <1>4, <1>5, <1>6, <1>7

\* ExternalHandler.List().
LEMMA ListKeepsInv ==
  ASSUME RegInv, NEW p \in Proc, List(p)
  PROVE  RegInv'
<1> DEFINE active == {i \in DOMAIN handlers : handlers[i].state = "active"}
<1>0. /\ pc \in [Proc -> PC] /\ handlers \in Seq(Handler) /\ DOMAIN handlers = 1..Len(handlers)
      /\ listed \in [Proc -> SUBSET (1..Len(handlers))] /\ todo \in [Proc -> SUBSET (1..Len(handlers))]
  BY DEF RegInv, TypeOK
<1>1. /\ pc[p] = "list" /\ pc' = [pc EXCEPT ![p] = "loop"]
      /\ listed' = [listed EXCEPT ![p] = active] /\ todo' = [todo EXCEPT ![p] = active]
      /\ UNCHANGED <<handlers, cur, exits>>
  BY DEF List, Goto
<1>2. \A q \in Proc : /\ pc'[q] = IF q = p THEN "loop" ELSE pc[q]
                      /\ listed'[q] = IF q = p THEN active ELSE listed[q]
                      /\ todo'[q] = IF q = p THEN active ELSE todo[q]
  BY <1>0, <1>1
<1>3. overlapped \in BOOLEAN /\ overlapped' \in BOOLEAN /\ (overlapped => overlapped')
  BY Zenon DEF List, RegInv, TypeOK
<1>4. ~ overlapped' => /\ \A q \in Proc : q # p => ~ Registering(q)
                       /\ \A i \in DOMAIN handlers : handlers[i].state # "activating"
  BY Zenon DEF List
<1>5. TypeOK'
  <2>1. handlers' \in Seq(Handler) /\ pc' \in [Proc -> PC] /\ exits' \in 0..MaxExits /\ cur' \in [Proc -> Nat]
    BY <1>1 DEF RegInv, TypeOK, PC
  <2>2. active \in SUBSET (1..Len(handlers))
    BY <1>0
  <2>3. /\ listed' \in [Proc -> SUBSET (1..Len(handlers'))] /\ todo' \in [Proc -> SUBSET (1..Len(handlers'))]
    BY <1>0, <1>1, <2>2
  <2>4. \A q \in Proc : /\ todo'[q] \subseteq listed'[q]
                        /\ pc'[q] \in {"deactivate", "look", "remove", "removing"} => cur'[q] \in listed'[q]
    BY <1>1, <1>2 DEF RegInv, TypeOK
  <2> QED
    BY <2>1, <2>3, <2>4, <1>3 DEF TypeOK
<1>6. ErrInTransition'
  BY <1>1 DEF RegInv, ErrInTransition
<1>7. CurStage' /\ OneOwner'
  BY <1>1, <1>2 DEF RegInv, CurStage, OneOwner, Working
<1>8. RestIsGone'
  BY <1>1, <1>2 DEF RegInv, RestIsGone, Working, Gone
<1>9. OneRegisters'
  BY <1>2, <1>3, <1>4 DEF RegInv, OneRegisters, Registering
<1>10. Current' = Current
  BY <1>1 DEF Current
<1>11. CurrentIsTodo'
  <2> SUFFICES ASSUME ~ overlapped', NEW q \in Proc, Registering(q)', pc'[q] # "subscribe"
               PROVE  Current \subseteq todo'[q]
    BY <1>10 DEF CurrentIsTodo
  <2>1. CASE q = p
    BY <2>1, <1>2, <1>4 DEF Current
  <2>2. CASE q # p
    BY <2>2, <1>2, <1>4 DEF Registering
  <2> QED
    BY <2>1, <2>2
<1>12. OneUnlessOverlapped'
  BY <1>3, <1>10 DEF RegInv, OneUnlessOverlapped
<1> QED
  BY <1>5, <1>6, <1>7, <1>8, <1>9, <1>11, <1>12 DEF RegInv

\* What holds of the handlers and the processes when handler i changes, is not current
\* afterwards unless it was, and was not gone.
LEMMA ChangeKeepsFacts ==
  ASSUME RegInv, NEW i \in 1..Len(handlers),
         handlers' \in Seq(Handler), Len(handlers') = Len(handlers),
         \A j \in 1..Len(handlers) : j # i => handlers'[j] = handlers[j],
         ~ Gone(i),
         i \in Current' => i \in Current,
         handlers'[i].err => handlers'[i].state \in {"activating", "deactivating", "removing"}
  PROVE  /\ ErrInTransition'
         /\ Current' \subseteq Current
         /\ \A j \in 1..Len(handlers) : Gone(j) => Gone(j)'
         /\ DOMAIN handlers = 1..Len(handlers) /\ DOMAIN handlers' = 1..Len(handlers)
<1>1. DOMAIN handlers = 1..Len(handlers) /\ DOMAIN handlers' = 1..Len(handlers)
  BY DEF RegInv, TypeOK
<1>2. ErrInTransition'
  BY <1>1 DEF RegInv, ErrInTransition
<1>3. Current' \subseteq Current
  BY <1>1 DEF Current
<1>4. \A j \in 1..Len(handlers) : Gone(j) => Gone(j)'
  BY DEF Gone
<1> QED
  BY <1>1, <1>2, <1>3, <1>4

\* A transition ends, well or badly.
LEMMA TransitionKeepsInv ==
  ASSUME RegInv, NEW i \in DOMAIN handlers, Transition(i)
  PROVE  RegInv'
<1>0. /\ pc \in [Proc -> PC] /\ handlers \in Seq(Handler) /\ i \in 1..Len(handlers)
      /\ listed \in [Proc -> SUBSET (1..Len(handlers))] /\ todo \in [Proc -> SUBSET (1..Len(handlers))]
      /\ handlers[i] \in Handler
  BY DEF RegInv, TypeOK
<1>1. InTransition(handlers[i]) /\ UNCHANGED <<pc, listed, todo, cur, exits, overlapped>>
  BY DEF Transition
<1>2. ~ handlers[i].err /\ handlers[i].state \in {"activating", "deactivating", "removing"}
  BY <1>1 DEF InTransition
<1>3. /\ handlers' \in Seq(Handler) /\ Len(handlers') = Len(handlers)
      /\ \A j \in 1..Len(handlers) : j # i => handlers'[j] = handlers[j]
      /\ \/ handlers'[i].state = After(handlers[i].state) /\ ~ handlers'[i].err
         \/ handlers'[i].state = handlers[i].state /\ handlers'[i].err
  <2>1. CASE handlers' = [handlers EXCEPT ![i].state = After(@)]
    <3>1. PICK st \in State : st = After(handlers[i].state)
      BY <1>2 DEF After, State
    <3>2. handlers' = [handlers EXCEPT ![i].state = st]
      BY <2>1, <3>1
    <3>3. /\ handlers' \in Seq(Handler) /\ Len(handlers') = Len(handlers)
          /\ handlers'[i].state = st /\ handlers'[i].err = handlers[i].err
          /\ \A j \in 1..Len(handlers) : j # i => handlers'[j] = handlers[j]
      BY <3>2, <1>0, StateSet
    <3> QED
      BY <3>1, <3>3, <1>2
  <2>2. CASE handlers' = [handlers EXCEPT ![i].err = TRUE]
    <3>1. PICK h : h = [handlers[i] EXCEPT !.err = TRUE]
      OBVIOUS
    <3>2. h \in Handler /\ h.state = handlers[i].state /\ h.err
      BY <1>0, <3>1 DEF Handler
    <3>3. handlers' = [handlers EXCEPT ![i] = h]
      BY <2>2, <3>1
    <3>4. /\ handlers' \in Seq(Handler) /\ Len(handlers') = Len(handlers)
          /\ handlers'[i] = h
          /\ \A j \in 1..Len(handlers) : j # i => handlers'[j] = handlers[j]
      BY <3>2, <3>3, <1>0, ExceptSeq
    <3> QED
      BY <3>2, <3>4
  <2> QED
    BY <2>1, <2>2 DEF Transition
<1>4. ~ Gone(i)
  BY <1>2 DEF Gone
<1>5. i \in Current' => i \in Current
  BY <1>0, <1>2, <1>3 DEF Current, After
<1>6. handlers'[i].err => handlers'[i].state \in {"activating", "deactivating", "removing"}
  BY <1>2, <1>3
<1>7. /\ ErrInTransition' /\ Current' \subseteq Current
      /\ \A j \in 1..Len(handlers) : Gone(j) => Gone(j)'
  BY <1>0, <1>3, <1>4, <1>5, <1>6, ChangeKeepsFacts
<1>8. TypeOK'
  BY <1>1, <1>3 DEF RegInv, TypeOK
<1>9. CurStage'
  <2> SUFFICES ASSUME NEW p \in Proc PROVE StageOf(pc[p], handlers'[cur[p]])
    BY <1>1 DEF CurStage, StageOf
  <2>1. StageOf(pc[p], handlers[cur[p]])
    BY DEF RegInv, CurStage, StageOf
  <2>2. pc[p] \in Busy => cur[p] \in 1..Len(handlers)
    BY <1>0 DEF RegInv, TypeOK, Busy
  <2>3. CASE cur[p] = i
    BY <2>1, <2>3, <1>2, <1>3 DEF StageOf, After
  <2>4. CASE cur[p] # i
    BY <2>1, <2>2, <2>4, <1>3 DEF StageOf, Busy
  <2> QED
    BY <2>3, <2>4
<1>10. OneOwner'
  BY <1>1 DEF RegInv, OneOwner, Working
<1>11. RestIsGone'
  <2> SUFFICES ASSUME NEW p \in Proc, pc[p] \notin {"down", "list"}, NEW j \in listed[p] \ todo[p]
               PROVE  Gone(j)' \/ (Working(p) /\ j = cur[p])
    BY <1>1 DEF RegInv, RestIsGone, Working
  <2>1. j \in 1..Len(handlers)
    BY <1>0
  <2> QED
    BY <2>1, <1>7 DEF RegInv, RestIsGone
<1>12. OneRegisters'
  BY <1>1 DEF RegInv, OneRegisters, Registering
<1>13. CurrentIsTodo'
  BY <1>1, <1>7 DEF RegInv, CurrentIsTodo, Registering
<1>14. OneUnlessOverlapped'
  BY <1>1, <1>7 DEF RegInv, OneUnlessOverlapped
<1> QED
  BY <1>7, <1>8, <1>9, <1>10, <1>11, <1>12, <1>13, <1>14 DEF RegInv

\* ActionDeactivate(): the handler was active, so no process was at it.
LEMMA DeactivateKeepsInv ==
  ASSUME RegInv, NEW p \in Proc, ActionDeactivate(p)
  PROVE  RegInv'
<1>0. /\ pc \in [Proc -> PC] /\ handlers \in Seq(Handler) /\ cur \in [Proc -> Nat]
      /\ listed \in [Proc -> SUBSET (1..Len(handlers))] /\ todo \in [Proc -> SUBSET (1..Len(handlers))]
      /\ \A q \in Proc : todo[q] \subseteq listed[q]
      /\ \A q \in Proc : pc[q] \in Busy => cur[q] \in listed[q]
  BY DEF RegInv, TypeOK, Busy
<1>1. PICK i \in todo[p] : /\ handlers[i].state = "active"
                           /\ handlers' = [handlers EXCEPT ![i].state = "deactivating"]
                           /\ todo' = [todo EXCEPT ![p] = @ \ {i}]
                           /\ cur' = [cur EXCEPT ![p] = i]
  BY DEF ActionDeactivate
<1>2. /\ pc[p] = "loop" /\ pc' = [pc EXCEPT ![p] = "deactivate"]
      /\ UNCHANGED <<listed, exits, overlapped>>
  BY DEF ActionDeactivate, Goto
<1>3. i \in 1..Len(handlers) /\ i \in listed[p] /\ i \in Nat
  BY <1>0
<1>4. /\ handlers' \in Seq(Handler) /\ Len(handlers') = Len(handlers)
      /\ handlers'[i].state = "deactivating" /\ handlers'[i].err = handlers[i].err
      /\ \A j \in 1..Len(handlers) : j # i => handlers'[j] = handlers[j]
  <2>1. PICK st \in State : st = "deactivating"
    BY DEF State
  <2>2. handlers' = [handlers EXCEPT ![i].state = st]
    BY <2>1, <1>1
  <2>3. /\ handlers' \in Seq(Handler) /\ Len(handlers') = Len(handlers)
        /\ handlers'[i].state = st /\ handlers'[i].err = handlers[i].err
        /\ \A j \in 1..Len(handlers) : j # i => handlers'[j] = handlers[j]
    <3>1. handlers \in Seq(Handler) /\ i \in 1..Len(handlers)
      BY <1>0, <1>3
    <3> QED
      BY <2>2, <3>1, StateSet
  <2> QED
    BY <2>1, <2>3
<1>5. DOMAIN handlers = 1..Len(handlers) /\ ~ handlers[i].err /\ handlers[i] \in Handler
  <2>1. DOMAIN handlers = 1..Len(handlers) /\ handlers[i] \in Handler
    BY <1>0, <1>3
  <2>2. handlers[i].err => handlers[i].state \in {"activating", "deactivating", "removing"}
    BY <2>1, <1>3 DEF RegInv, ErrInTransition
  <2> QED
    BY <2>1, <2>2, <1>1
<1>6. ~ Gone(i) /\ i \notin Current'
  BY <1>1, <1>4, <1>5 DEF Gone, Current
<1>7. /\ ErrInTransition' /\ Current' \subseteq Current
      /\ \A j \in 1..Len(handlers) : Gone(j) => Gone(j)'
  BY <1>3, <1>4, <1>5, <1>6, ChangeKeepsFacts
<1>8. \A q \in Proc : /\ pc'[q] = IF q = p THEN "deactivate" ELSE pc[q]
                      /\ todo'[q] = IF q = p THEN todo[p] \ {i} ELSE todo[q]
                      /\ cur'[q] = IF q = p THEN i ELSE cur[q]
  BY <1>0, <1>1, <1>2
<1>9. \A q \in Proc : pc[q] \in Busy => cur[q] # i /\ cur[q] \in 1..Len(handlers)
  BY <1>0, <1>1 DEF RegInv, CurStage, Busy
<1>10. TypeOK'
  <2>1. handlers' \in Seq(Handler) /\ pc' \in [Proc -> PC] /\ exits' \in 0..MaxExits /\ cur' \in [Proc -> Nat]
    BY <1>0, <1>1, <1>2, <1>3, <1>4 DEF RegInv, TypeOK, PC
  <2>2. /\ listed' \in [Proc -> SUBSET (1..Len(handlers'))] /\ todo' \in [Proc -> SUBSET (1..Len(handlers'))]
    BY <1>0, <1>1, <1>2, <1>4
  <2>3. \A q \in Proc : /\ todo'[q] \subseteq listed'[q]
                        /\ pc'[q] \in {"deactivate", "look", "remove", "removing"} => cur'[q] \in listed'[q]
    BY <1>0, <1>2, <1>3, <1>8 DEF Busy
  <2>4. overlapped' \in BOOLEAN
    BY <1>2 DEF RegInv, TypeOK
  <2> QED
    BY <2>1, <2>2, <2>3, <2>4 DEF TypeOK
<1>11. CurStage'
  <2> SUFFICES ASSUME NEW q \in Proc PROVE StageOf(pc'[q], handlers'[cur'[q]])
    BY DEF CurStage, StageOf
  <2>1. StageOf(pc[q], handlers[cur[q]])
    BY DEF RegInv, CurStage, StageOf
  <2>2. CASE q = p
    BY <2>2, <1>4, <1>8 DEF StageOf
  <2>3. CASE q # p
    BY <2>1, <2>3, <1>4, <1>8, <1>9 DEF StageOf, Busy
  <2> QED
    BY <2>2, <2>3
<1>12. OneOwner'
  BY <1>8, <1>9 DEF RegInv, OneOwner, Working, Busy
<1>13. RestIsGone'
  <2> SUFFICES ASSUME NEW q \in Proc
               PROVE  /\ Working(q)' => cur'[q] \notin todo'[q]
                      /\ pc'[q] \in {"create", "subscribe", "running"} => todo'[q] = {}
                      /\ pc'[q] \notin {"down", "list"} =>
                           \A j \in listed[q] \ todo'[q] : Gone(j)' \/ (Working(q)' /\ j = cur'[q])
    BY <1>2 DEF RestIsGone
  <2>1. \A j \in listed[q] : j \in 1..Len(handlers)
    BY <1>0
  <2>2. CASE q = p
    <3>1. \A j \in listed[p] \ todo[p] : Gone(j)
      BY <1>2 DEF RegInv, RestIsGone, Working
    <3>2. Working(q)' /\ cur'[q] = i /\ todo'[q] = todo[p] \ {i} /\ pc'[q] = "deactivate"
      BY <2>2, <1>8 DEF Working
    <3> QED
      BY <3>1, <3>2, <2>1, <2>2, <1>7
  <2>3. CASE q # p
    <3>1. pc'[q] = pc[q] /\ todo'[q] = todo[q] /\ cur'[q] = cur[q] /\ (Working(q)' <=> Working(q))
      BY <2>3, <1>8 DEF Working
    <3> QED
      BY <3>1, <2>1, <1>7 DEF RegInv, RestIsGone
  <2> QED
    BY <2>2, <2>3
<1>14. OneRegisters'
  BY <1>2, <1>8 DEF RegInv, OneRegisters, Registering
<1>15. CurrentIsTodo'
  <2> SUFFICES ASSUME ~ overlapped, NEW q \in Proc, Registering(q)', pc'[q] # "subscribe"
               PROVE  Current' \subseteq todo'[q]
    BY <1>2 DEF CurrentIsTodo
  <2>1. Registering(q) /\ pc[q] # "subscribe"
    BY <1>2, <1>8 DEF Registering
  <2>2. Current \subseteq todo[q]
    BY <2>1 DEF RegInv, CurrentIsTodo
  <2> QED
    BY <2>2, <1>6, <1>7, <1>8
<1>16. OneUnlessOverlapped'
  BY <1>2, <1>7 DEF RegInv, OneUnlessOverlapped
<1> QED
  BY <1>7, <1>10, <1>11, <1>12, <1>13, <1>14, <1>15, <1>16 DEF RegInv

\* ActionRemove(): nobody but p is at its handler.
LEMMA RemoveKeepsInv ==
  ASSUME RegInv, NEW p \in Proc, ActionRemove(p)
  PROVE  RegInv'
<1>0. /\ pc \in [Proc -> PC] /\ handlers \in Seq(Handler) /\ cur \in [Proc -> Nat]
      /\ listed \in [Proc -> SUBSET (1..Len(handlers))] /\ todo \in [Proc -> SUBSET (1..Len(handlers))]
      /\ \A q \in Proc : pc[q] \in Busy => cur[q] \in listed[q]
  BY DEF RegInv, TypeOK, Busy
<1>1. PICK i : i = cur[p]
  OBVIOUS
<1>2. /\ pc[p] = "remove" /\ pc' = [pc EXCEPT ![p] = "removing"]
      /\ handlers[i].state = "inactive" /\ handlers' = [handlers EXCEPT ![i].state = "removing"]
      /\ UNCHANGED <<listed, todo, cur, exits, overlapped>>
  BY <1>1 DEF ActionRemove, Goto
<1>3. i \in 1..Len(handlers) /\ i \in listed[p]
  BY <1>0, <1>1, <1>2 DEF Busy
<1>4. /\ handlers' \in Seq(Handler) /\ Len(handlers') = Len(handlers)
      /\ handlers'[i].state = "removing" /\ handlers'[i].err = handlers[i].err
      /\ \A j \in 1..Len(handlers) : j # i => handlers'[j] = handlers[j]
  <2>1. PICK st \in State : st = "removing"
    BY DEF State
  <2>2. handlers' = [handlers EXCEPT ![i].state = st]
    BY <2>1, <1>2
  <2>3. /\ handlers' \in Seq(Handler) /\ Len(handlers') = Len(handlers)
        /\ handlers'[i].state = st /\ handlers'[i].err = handlers[i].err
        /\ \A j \in 1..Len(handlers) : j # i => handlers'[j] = handlers[j]
    <3>1. handlers \in Seq(Handler) /\ i \in 1..Len(handlers)
      BY <1>0, <1>3
    <3> QED
      BY <2>2, <3>1, StateSet
  <2> QED
    BY <2>1, <2>3
<1>5. DOMAIN handlers = 1..Len(handlers) /\ ~ handlers[i].err /\ handlers[i] \in Handler
  <2>1. DOMAIN handlers = 1..Len(handlers) /\ handlers[i] \in Handler
    BY <1>0, <1>3
  <2>2. handlers[i].err => handlers[i].state \in {"activating", "deactivating", "removing"}
    BY <2>1, <1>3 DEF RegInv, ErrInTransition
  <2> QED
    BY <2>1, <2>2, <1>2
<1>6. ~ Gone(i) /\ i \notin Current'
  BY <1>2, <1>4, <1>5 DEF Gone, Current
<1>7. /\ ErrInTransition' /\ Current' \subseteq Current
      /\ \A j \in 1..Len(handlers) : Gone(j) => Gone(j)'
  BY <1>3, <1>4, <1>5, <1>6, ChangeKeepsFacts
<1>8. \A q \in Proc : pc'[q] = IF q = p THEN "removing" ELSE pc[q]
  BY <1>0, <1>2
<1>9. \A q \in Proc : q # p /\ pc[q] \in Busy => cur[q] # i /\ cur[q] \in 1..Len(handlers)
  BY <1>0, <1>1, <1>2 DEF RegInv, OneOwner, Working, Busy
<1>10. TypeOK'
  <2>1. handlers' \in Seq(Handler) /\ pc' \in [Proc -> PC] /\ exits' \in 0..MaxExits /\ cur' \in [Proc -> Nat]
    BY <1>0, <1>2, <1>4 DEF RegInv, TypeOK, PC
  <2>2. \A q \in Proc : pc'[q] \in {"deactivate", "look", "remove", "removing"} => cur[q] \in listed[q]
    BY <1>0, <1>2, <1>8 DEF Busy
  <2> QED
    BY <2>1, <2>2, <1>2, <1>4 DEF RegInv, TypeOK
<1>11. CurStage'
  <2> SUFFICES ASSUME NEW q \in Proc PROVE StageOf(pc'[q], handlers'[cur[q]])
    BY <1>2 DEF CurStage, StageOf
  <2>1. StageOf(pc[q], handlers[cur[q]])
    BY DEF RegInv, CurStage, StageOf
  <2>2. CASE q = p
    BY <2>2, <1>1, <1>4, <1>8 DEF StageOf
  <2>3. CASE q # p
    BY <2>1, <2>3, <1>4, <1>8, <1>9 DEF StageOf, Busy
  <2> QED
    BY <2>2, <2>3
<1>12. \A q \in Proc : Working(q)' <=> Working(q)
  BY <1>2, <1>8 DEF Working
<1>13. OneOwner'
  BY <1>2, <1>12 DEF RegInv, OneOwner
<1>14. RestIsGone'
  <2> SUFFICES ASSUME NEW q \in Proc
               PROVE  /\ Working(q) => cur[q] \notin todo[q]
                      /\ pc'[q] \in {"create", "subscribe", "running"} => todo[q] = {}
                      /\ pc'[q] \notin {"down", "list"} =>
                           \A j \in listed[q] \ todo[q] : Gone(j)' \/ (Working(q) /\ j = cur[q])
    BY <1>2, <1>12 DEF RestIsGone
  <2>1. \A j \in listed[q] : j \in 1..Len(handlers)
    BY <1>0
  <2>2. pc'[q] \in {"down", "list"} <=> pc[q] \in {"down", "list"}
    BY <1>2, <1>8
  <2>3. pc'[q] \in {"create", "subscribe", "running"} => pc[q] \in {"create", "subscribe", "running"}
    BY <1>2, <1>8
  <2> QED
    BY <2>1, <2>2, <2>3, <1>7 DEF RegInv, RestIsGone
<1>15. \A q \in Proc : /\ Registering(q)' <=> Registering(q)
                       /\ pc'[q] = "subscribe" <=> pc[q] = "subscribe"
  BY <1>2, <1>8 DEF Registering
<1>16. OneRegisters'
  BY <1>2, <1>15 DEF RegInv, OneRegisters
<1>17. CurrentIsTodo'
  BY <1>2, <1>7, <1>15 DEF RegInv, CurrentIsTodo
<1>18. OneUnlessOverlapped'
  BY <1>2, <1>7 DEF RegInv, OneUnlessOverlapped
<1> QED
  BY <1>7, <1>10, <1>11, <1>13, <1>14, <1>16, <1>17, <1>18 DEF RegInv

\* createNewHandler(): if nobody overlapped, there was no current handler.
LEMMA CreateKeepsInv ==
  ASSUME RegInv, NEW p \in Proc, createNewHandler(p)
  PROVE  RegInv'
<1>0. /\ pc \in [Proc -> PC] /\ handlers \in Seq(Handler) /\ cur \in [Proc -> Nat]
      /\ listed \in [Proc -> SUBSET (1..Len(handlers))] /\ todo \in [Proc -> SUBSET (1..Len(handlers))]
      /\ \A q \in Proc : pc[q] \in Busy => cur[q] \in listed[q]
      /\ Len(handlers) \in Nat /\ DOMAIN handlers = 1..Len(handlers)
  BY DEF RegInv, TypeOK, Busy
<1>1. PICK h : h = [state |-> "activating", err |-> FALSE]
  OBVIOUS
<1>2. /\ pc[p] = "create" /\ pc' = [pc EXCEPT ![p] = "subscribe"]
      /\ handlers' = Append(handlers, h)
      /\ UNCHANGED <<listed, todo, cur, exits, overlapped>>
  BY <1>1 DEF createNewHandler, Goto
<1>3. h \in Handler /\ h.state = "activating" /\ ~ h.err
  BY <1>1 DEF Handler, State
<1>4. /\ handlers' \in Seq(Handler) /\ Len(handlers') = Len(handlers) + 1
      /\ handlers'[Len(handlers) + 1] = h
      /\ \A j \in 1..Len(handlers) : handlers'[j] = handlers[j]
      /\ DOMAIN handlers' = 1..(Len(handlers) + 1)
  BY <1>0, <1>2, <1>3, HandlerAdded
<1>5. \A q \in Proc : pc'[q] = IF q = p THEN "subscribe" ELSE pc[q]
  BY <1>0, <1>2
<1>6. \A j \in DOMAIN handlers' : j = Len(handlers) + 1 \/ j \in 1..Len(handlers)
  BY <1>0, <1>4
<1>7. TypeOK'
  <2>1. handlers' \in Seq(Handler) /\ pc' \in [Proc -> PC] /\ exits' \in 0..MaxExits /\ cur' \in [Proc -> Nat]
    BY <1>0, <1>2, <1>4 DEF RegInv, TypeOK, PC
  <2>2. 1..Len(handlers) \subseteq 1..Len(handlers')
    BY <1>0, <1>4
  <2>3. /\ listed' \in [Proc -> SUBSET (1..Len(handlers'))] /\ todo' \in [Proc -> SUBSET (1..Len(handlers'))]
    BY <2>2, <1>0, <1>2
  <2>4. \A q \in Proc : /\ todo'[q] \subseteq listed'[q]
                        /\ pc'[q] \in {"deactivate", "look", "remove", "removing"} => cur'[q] \in listed'[q]
    BY <1>2, <1>5 DEF RegInv, TypeOK
  <2>5. overlapped' \in BOOLEAN
    BY <1>2 DEF RegInv, TypeOK
  <2> QED
    BY <2>1, <2>3, <2>4, <2>5 DEF TypeOK
<1>8. ErrInTransition'
  BY <1>0, <1>3, <1>4, <1>6 DEF RegInv, ErrInTransition
<1>9. CurStage'
  <2> SUFFICES ASSUME NEW q \in Proc PROVE StageOf(pc'[q], handlers'[cur[q]])
    BY <1>2 DEF CurStage, StageOf
  <2>1. StageOf(pc[q], handlers[cur[q]])
    BY DEF RegInv, CurStage, StageOf
  <2>2. pc[q] \in Busy => cur[q] \in 1..Len(handlers)
    BY <1>0
  <2> QED
    BY <2>1, <2>2, <1>4, <1>5 DEF StageOf, Busy
<1>10. \A q \in Proc : Working(q)' <=> Working(q)
  BY <1>2, <1>5 DEF Working
<1>11. OneOwner'
  BY <1>2, <1>10 DEF RegInv, OneOwner
<1>12. RestIsGone'
  <2> SUFFICES ASSUME NEW q \in Proc
               PROVE  /\ Working(q) => cur[q] \notin todo[q]
                      /\ pc'[q] \in {"create", "subscribe", "running"} => todo[q] = {}
                      /\ pc'[q] \notin {"down", "list"} =>
                           \A j \in listed[q] \ todo[q] : Gone(j)' \/ (Working(q) /\ j = cur[q])
    BY <1>2, <1>10 DEF RestIsGone
  <2>1. \A j \in listed[q] : Gone(j) => Gone(j)'
    BY <1>0, <1>4 DEF Gone
  <2>2. /\ pc'[q] \in {"down", "list"} <=> pc[q] \in {"down", "list"}
        /\ pc'[q] \in {"create", "subscribe", "running"} => pc[q] \in {"create", "subscribe", "running"}
    BY <1>2, <1>5
  <2> QED
    BY <2>1, <2>2 DEF RegInv, RestIsGone
<1>13. \A q \in Proc : Registering(q)' <=> Registering(q)
  BY <1>2, <1>5 DEF Registering
<1>14. OneRegisters'
  BY <1>2, <1>13 DEF RegInv, OneRegisters
<1>15. ~ overlapped => Current = {}
  BY <1>2 DEF RegInv, CurrentIsTodo, RestIsGone, Registering
<1>16. ~ overlapped => \A j \in Current' : j = Len(handlers) + 1
  BY <1>0, <1>4, <1>6, <1>15 DEF Current
<1>17. OneUnlessOverlapped'
  BY <1>2, <1>16 DEF OneUnlessOverlapped
<1>18. CurrentIsTodo'
  <2> SUFFICES ASSUME ~ overlapped, NEW q \in Proc, Registering(q)', pc'[q] # "subscribe"
               PROVE  FALSE
    BY <1>2 DEF CurrentIsTodo
  <2>1. Registering(q) /\ Registering(p) /\ q # p
    BY <1>2, <1>5, <1>13 DEF Registering
  <2> QED
    BY <2>1 DEF RegInv, OneRegisters
<1> QED
  BY <1>7, <1>8, <1>9, <1>11, <1>12, <1>14, <1>17, <1>18 DEF RegInv

\* A step that changes nothing.
LEMMA RegStutter == RegInv /\ UNCHANGED vars => RegInv'
<1> SUFFICES ASSUME RegInv, UNCHANGED vars PROVE RegInv'
  OBVIOUS
<1>1. UNCHANGED <<handlers, pc, listed, todo, cur, exits, overlapped>>
  BY DEF vars
<1>2. TypeOK' /\ ErrInTransition' /\ CurStage' /\ OneOwner'
  BY <1>1 DEF RegInv, TypeOK, ErrInTransition, CurStage, OneOwner, Working
<1>3. RestIsGone' /\ OneRegisters' /\ CurrentIsTodo' /\ OneUnlessOverlapped'
  BY <1>1 DEF RegInv, RestIsGone, Gone, Working, OneRegisters, Registering, CurrentIsTodo,
              OneUnlessOverlapped, Current
<1> QED
  BY <1>2, <1>3 DEF RegInv

-----------------------------------------------------------------------------
(* The theorems.                                                           *)

\* The strengthening holds in every state of every instance, for any number of
\* processes that list, deactivate and remove the same handlers (removeOldHandler)
\* and exit anywhere.
THEOREM RegInvariant == Spec => []RegInv
<1>1. RegInv /\ [Next]_vars => RegInv'
  <2> SUFFICES ASSUME RegInv, [Next]_vars PROVE RegInv'
    OBVIOUS
  <2>1. CASE UNCHANGED vars
    BY <2>1, RegStutter
  <2>2. ASSUME NEW i \in DOMAIN handlers, Transition(i) PROVE RegInv'
    BY <2>2, TransitionKeepsInv
  <2>3. ASSUME NEW p \in Proc, Step(p) \/ Exit(p) PROVE RegInv'
    <3>1. CASE List(p)
      BY <3>1, ListKeepsInv
    <3>2. CASE ActionDeactivate(p)
      BY <3>2, DeactivateKeepsInv
    <3>3. CASE ActionRemove(p)
      BY <3>3, RemoveKeepsInv
    <3>4. CASE createNewHandler(p)
      BY <3>4, CreateKeepsInv
    <3>5. CASE \/ Start(p)
               \/ waitForTransition(p, "deactivate", "look")
               \/ ById(p)
               \/ waitForTransition(p, "removing", "loop")
               \/ OldRemoved(p) \/ subscribeToEvents(p) \/ Refused(p) \/ Exit(p)
      BY <3>5, MovesKeepInv
    <3> QED
      BY <2>3, <3>1, <3>2, <3>3, <3>4, <3>5 DEF Step
  <2> QED
    BY <2>1, <2>2, <2>3 DEF Next
<1> QED
  BY InitRegInv, <1>1, PTL DEF Spec

\* The variables of Start() have their types, and the handler a process is at is one
\* it has found.
THEOREM RegistrationTypeCorrect == Spec => []TypeOK
<1>1. RegInv => TypeOK
  BY DEF RegInv
<1> QED
  BY RegInvariant, <1>1, PTL

\* createNewHandler() follows the end of every handler the process had found.
THEOREM OldIsGone == Spec => []OldGoneBeforeNew
<1>1. RegInv => OldGoneBeforeNew
  BY DEF RegInv, RestIsGone, OldGoneBeforeNew, Working, Gone
<1> QED
  BY RegInvariant, <1>1, PTL

\* Without an overlap there is at most one handler that is active or becomes so.
THEOREM OneHandler == Spec => []OneUnlessOverlapped
<1>1. RegInv => OneUnlessOverlapped
  BY DEF RegInv
<1> QED
  BY RegInvariant, <1>1, PTL

-----------------------------------------------------------------------------
(* No call is refused without an overlap. *)

\* A step after which the handlers that a registering process has before it are some
\* of those it had, and are as active as they were.
LEMMA TodoStays ==
  ASSUME TodoIsActive, ~ overlapped' => ~ overlapped,
         \A q \in Proc : Registering(q)' => Registering(q) /\ todo'[q] \subseteq todo[q],
         ASSUME NEW q \in Proc, NEW i \in todo[q], i \in todo'[q], Registering(q), ~ overlapped,
                handlers[i].state = "active"
         PROVE  handlers'[i].state = "active"
  PROVE  TodoIsActive'
  BY DEF TodoIsActive

\* The steps that leave the handlers alone.
LEMMA MovesKeepTodo ==
  ASSUME RegInv, TodoIsActive, NEW p \in Proc,
         \/ Start(p)
         \/ waitForTransition(p, "deactivate", "look")
         \/ ById(p)
         \/ waitForTransition(p, "removing", "loop")
         \/ OldRemoved(p) \/ subscribeToEvents(p) \/ Refused(p) \/ Exit(p)
  PROVE  TodoIsActive'
<1>1. UNCHANGED <<handlers, todo, overlapped>>
  BY DEF Start, waitForTransition, ById, OldRemoved, subscribeToEvents, Refused, Exit, Down
<1>2. pc \in [Proc -> PC]
  BY DEF RegInv, TypeOK
<1>3. \A q \in Proc : Registering(q)' => Registering(q)
  <2>1. PICK to : /\ pc' = [pc EXCEPT ![p] = to]
                  /\ to \notin {"down", "list", "running"} => pc[p] \notin {"down", "list", "running"}
    BY DEF Start, waitForTransition, ById, OldRemoved, subscribeToEvents, Refused, Exit, Down, Goto
  <2> QED
    BY <2>1, <1>2 DEF Registering
<1> QED
  BY <1>1, <1>3 DEF TodoIsActive

\* The list holds the active handlers.
LEMMA ListKeepsTodo ==
  ASSUME RegInv, TodoIsActive, NEW p \in Proc, List(p)
  PROVE  TodoIsActive'
<1>0. pc \in [Proc -> PC] /\ todo \in [Proc -> SUBSET (1..Len(handlers))]
  BY DEF RegInv, TypeOK
<1>1. PICK a : a = {i \in DOMAIN handlers : handlers[i].state = "active"}
  OBVIOUS
<1>2. /\ pc' = [pc EXCEPT ![p] = "loop"] /\ todo' = [todo EXCEPT ![p] = a] /\ UNCHANGED handlers
  BY <1>1 DEF List, Goto
<1>3. ~ overlapped' => ~ overlapped
  BY Zenon DEF List
<1> SUFFICES ASSUME ~ overlapped', NEW q \in Proc, Registering(q)', NEW i \in todo'[q]
             PROVE  handlers'[i].state = "active"
  BY DEF TodoIsActive
<1>4. CASE q = p
  BY <1>0, <1>1, <1>2, <1>4
<1>5. CASE q # p
  BY <1>0, <1>2, <1>3, <1>5 DEF TodoIsActive, Registering
<1> QED
  BY <1>4, <1>5

\* A process takes a handler from its own list, and it is the only one that registers.
LEMMA DeactivateKeepsTodo ==
  ASSUME RegInv, TodoIsActive, NEW p \in Proc, ActionDeactivate(p)
  PROVE  TodoIsActive'
<1>0. /\ pc \in [Proc -> PC] /\ todo \in [Proc -> SUBSET (1..Len(handlers))] /\ handlers \in Seq(Handler)
      /\ OneRegisters
  BY DEF RegInv, TypeOK
<1>1. pc[p] = "loop" /\ pc' = [pc EXCEPT ![p] = "deactivate"] /\ UNCHANGED overlapped
  BY DEF ActionDeactivate, Goto
<1>2. PICK i \in todo[p] : /\ handlers' = [handlers EXCEPT ![i].state = "deactivating"]
                           /\ todo' = [todo EXCEPT ![p] = @ \ {i}]
  BY DEF ActionDeactivate
<1>3. \A q \in Proc : Registering(q)' => Registering(q) /\ todo'[q] \subseteq todo[q]
  BY <1>0, <1>1, <1>2 DEF Registering
<1>4. ASSUME NEW q \in Proc, NEW j \in todo[q], j \in todo'[q], Registering(q), ~ overlapped,
             handlers[j].state = "active"
      PROVE  handlers'[j].state = "active"
  <2>1. q = p
    BY <1>0, <1>1, <1>4 DEF OneRegisters, Registering
  <2>2. j # i /\ j \in 1..Len(handlers) /\ i \in 1..Len(handlers)
    BY <2>1, <1>0, <1>2, <1>4
  <2>3. handlers'[j] = handlers[j]
    BY <2>2, <1>0, <1>2
  <2> QED
    BY <2>3, <1>4
<1> QED
  BY <1>1, <1>3, <1>4, TodoStays

\* ActionRemove() and Cattle's transitions change handlers that are not active.
LEMMA ChangesKeepTodo ==
  ASSUME RegInv, TodoIsActive,
         \/ \E p \in Proc : ActionRemove(p)
         \/ \E i \in DOMAIN handlers : Transition(i)
  PROVE  TodoIsActive'
<1>0. /\ pc \in [Proc -> PC] /\ todo \in [Proc -> SUBSET (1..Len(handlers))] /\ handlers \in Seq(Handler)
      /\ listed \in [Proc -> SUBSET (1..Len(handlers))] /\ DOMAIN handlers = 1..Len(handlers)
  BY DEF RegInv, TypeOK
<1>1. UNCHANGED <<todo, overlapped>> /\ \A q \in Proc : Registering(q)' => Registering(q)
  BY <1>0 DEF ActionRemove, Transition, Goto, Registering
<1>2. PICK i \in 1..Len(handlers) : /\ handlers[i].state # "active"
                                    /\ \A j \in 1..Len(handlers) : j # i => handlers'[j] = handlers[j]
  <2>1. CASE \E i \in DOMAIN handlers : Transition(i)
    <3>1. PICK i \in DOMAIN handlers : Transition(i)
      BY <2>1
    <3>2. i \in 1..Len(handlers) /\ handlers[i].state # "active"
      BY <3>1, <1>0 DEF Transition, InTransition
    <3>3. \A j \in 1..Len(handlers) : j # i => handlers'[j] = handlers[j]
      BY <3>1, <1>0 DEF Transition
    <3> QED
      BY <3>2, <3>3
  <2>2. CASE \E p \in Proc : ActionRemove(p)
    <3>1. PICK p \in Proc : ActionRemove(p)
      BY <2>2
    <3>2. PICK i : i = cur[p]
      OBVIOUS
    <3>3. /\ pc[p] = "remove" /\ handlers[i].state = "inactive"
          /\ handlers' = [handlers EXCEPT ![i].state = "removing"]
      BY <3>1, <3>2 DEF ActionRemove
    <3>4. i \in 1..Len(handlers)
      BY <3>2, <3>3, <1>0 DEF RegInv, TypeOK
    <3>5. \A j \in 1..Len(handlers) : j # i => handlers'[j] = handlers[j]
      BY <3>3, <3>4, <1>0
    <3> QED
      BY <3>3, <3>4, <3>5
  <2> QED
    BY <2>1, <2>2
<1>3. ASSUME NEW q \in Proc, NEW j \in todo[q], j \in todo'[q], Registering(q), ~ overlapped,
             handlers[j].state = "active"
      PROVE  handlers'[j].state = "active"
  BY <1>0, <1>2, <1>3
<1> QED
  BY <1>1, <1>3, TodoStays

\* A new handler is on nobody's list.
LEMMA CreateKeepsTodo ==
  ASSUME RegInv, TodoIsActive, NEW p \in Proc, createNewHandler(p)
  PROVE  TodoIsActive'
<1>0. /\ pc \in [Proc -> PC] /\ todo \in [Proc -> SUBSET (1..Len(handlers))] /\ handlers \in Seq(Handler)
  BY DEF RegInv, TypeOK
<1>1. UNCHANGED <<todo, overlapped>> /\ \A q \in Proc : Registering(q)' => Registering(q)
  BY <1>0 DEF createNewHandler, Goto, Registering
<1>2. PICK h : h = [state |-> "activating", err |-> FALSE]
  OBVIOUS
<1>3. h \in Handler /\ handlers' = Append(handlers, h)
  BY <1>2 DEF createNewHandler, Handler, State
<1>4. \A j \in 1..Len(handlers) : handlers'[j] = handlers[j]
  BY <1>0, <1>3, AppendProperties
<1>5. ASSUME NEW q \in Proc, NEW j \in todo[q], j \in todo'[q], Registering(q), ~ overlapped,
             handlers[j].state = "active"
      PROVE  handlers'[j].state = "active"
  BY <1>0, <1>4, <1>5
<1> QED
  BY <1>1, <1>5, TodoStays

\* A process that registers alone finds every handler as it was listed, and nobody
\* takes a handler from a process that has deactivated it (removeOldHandler).
THEOREM NoCallIsRefused == Spec => []RefusedNeedsOverlap
<1>1. Init => TodoIsActive
  BY DEF Init, TodoIsActive, Registering
<1>2. RegInv /\ TodoIsActive /\ [Next]_vars => TodoIsActive'
  <2> SUFFICES ASSUME RegInv, TodoIsActive, [Next]_vars PROVE TodoIsActive'
    OBVIOUS
  <2>1. ASSUME NEW p \in Proc, Step(p) \/ Exit(p) PROVE TodoIsActive'
    BY <2>1, MovesKeepTodo, ListKeepsTodo, DeactivateKeepsTodo, ChangesKeepTodo, CreateKeepsTodo DEF Step
  <2>2. CASE \E i \in DOMAIN handlers : Transition(i)
    BY <2>2, ChangesKeepTodo
  <2>3. CASE UNCHANGED vars
    BY <2>3 DEF vars, TodoIsActive, Registering
  <2> QED
    BY <2>1, <2>2, <2>3 DEF Next
<1>3. RegInv /\ TodoIsActive => RefusedNeedsOverlap
  BY DEF RegInv, CurStage, TodoIsActive, RefusedNeedsOverlap, Registering
<1> QED
  BY <1>1, <1>2, <1>3, RegInvariant, PTL DEF Spec
=============================================================================
