---------------------------- MODULE Registration ----------------------------
(***************************************************************************)
(* How EventRouter.Start() registers the process before it reads events:   *)
(* it removes the active handlers of its name one after the other          *)
(* (removeOldHandler), makes a new one (createNewHandler) and subscribes.  *)
(* All state that outlives a process is the handlers in Rancher.           *)
(*                                                                         *)
(* A handler becomes active, inactive and removed in transitions that take *)
(* Cattle some time and may end in an error.  Cattle offers "deactivate"   *)
(* on an active handler and "remove" on an inactive one, and refuses       *)
(* them otherwise.  Handlers of one name are told apart by their ids: all  *)
(* of them have the same Uuid, which Cattle is taken to accept.  If it did *)
(* not, an inactive leftover would keep every process from registering.    *)
(*                                                                         *)
(* Every error makes main() exit, and whoever runs the process starts it   *)
(* again.  Two processes may run at once, as when one replaces another.    *)
(***************************************************************************)
EXTENDS Naturals, Sequences, FiniteSets

CONSTANTS
    Proc,    \* the processes
    MaxExits \* bound on the exits other than by a refused call

ASSUME RegistrationAssumption == MaxExits \in Nat

VARIABLES
    handlers,  \* the handlers of the executor's name that were ever made
    pc,        \* pc[p]: where Start() of process p is
    listed,    \* listed[p]: handlers.Data, the active handlers p has found
    todo,      \* todo[p]: those p's loop has not come to yet
    cur,       \* cur[p]: the one it is at
    exits,     \* the number of these exits
    overlapped \* history: has a process looked for handlers while another one was
               \* registering, or while a handler was not active yet?

vars == <<handlers, pc, listed, todo, cur, exits, overlapped>>

State == {"activating", "active", "deactivating", "inactive", "removing", "removed"}

\* err: Transitioning is "error".
Handler == [state : State, err : BOOLEAN]

\* Transitioning = "yes".
InTransition(h) == h.state \in {"activating", "deactivating", "removing"} /\ ~ h.err

PC == {"down", "list", "loop", "deactivate", "look", "remove", "removing", "create",
       "subscribe", "running"}

TypeOK == /\ handlers \in Seq(Handler)
          /\ pc \in [Proc -> PC]
          /\ listed \in [Proc -> SUBSET (1..Len(handlers))]
          /\ todo \in [Proc -> SUBSET (1..Len(handlers))]
          /\ \A p \in Proc : todo[p] \subseteq listed[p]
          /\ cur \in [Proc -> Nat]
          /\ \A p \in Proc : pc[p] \in {"deactivate", "look", "remove", "removing"} =>
                                cur[p] \in listed[p]
          /\ exits \in 0..MaxExits
          /\ overlapped \in BOOLEAN

Init == /\ handlers = <<>>
        /\ pc = [p \in Proc |-> "down"]
        /\ listed = [p \in Proc |-> {}]
        /\ todo = [p \in Proc |-> {}]
        /\ cur = [p \in Proc |-> 0]
        /\ exits = 0
        /\ overlapped = FALSE

-----------------------------------------------------------------------------
(* Cattle (external): a transition ends.                                   *)

After(state) == CASE state = "activating" -> "active"
                  [] state = "deactivating" -> "inactive"
                  [] state = "removing" -> "removed"

Transition(i) ==
    /\ InTransition(handlers[i])
    /\ \/ handlers' = [handlers EXCEPT ![i].state = After(@)]
       \/ handlers' = [handlers EXCEPT ![i].err = TRUE]
    /\ UNCHANGED <<pc, listed, todo, cur, exits, overlapped>>

-----------------------------------------------------------------------------
(* Process p.                                                              *)

Goto(p, to) == pc' = [pc EXCEPT ![p] = to]

\* main() is started.
Start(p) == /\ pc[p] = "down"
            /\ Goto(p, "list")
            /\ UNCHANGED <<handlers, listed, todo, cur, exits, overlapped>>

Registering(p) == pc[p] \notin {"down", "list", "running"}

\* Mutant: without the filter by state.
ListAnyState(p) ==
    /\ pc[p] = "list"
    /\ Goto(p, "loop")
    /\ listed' = [listed EXCEPT ![p] = DOMAIN handlers]
    /\ todo' = [todo EXCEPT ![p] = DOMAIN handlers]
    /\ UNCHANGED <<handlers, cur, exits, overlapped>>

\* ExternalHandler.List(), by name and state.
List(p) ==
    LET active == {i \in DOMAIN handlers : handlers[i].state = "active"}
    IN /\ pc[p] = "list"
       /\ Goto(p, "loop")
       /\ listed' = [listed EXCEPT ![p] = active]
       /\ todo' = [todo EXCEPT ![p] = active]
       /\ overlapped' = \/ overlapped
                        \/ \E q \in Proc \ {p} : Registering(q)
                        \/ \E i \in DOMAIN handlers : handlers[i].state = "activating"
       /\ UNCHANGED <<handlers, cur, exits>>

\* Mutant: a handler that cannot be deactivated is passed over.
ActionDeactivateUnchecked(p) ==
    /\ pc[p] = "loop"
    /\ \E i \in todo[p] :
          /\ todo' = [todo EXCEPT ![p] = @ \ {i}]
          /\ IF handlers[i].state = "active"
             THEN /\ handlers' = [handlers EXCEPT ![i].state = "deactivating"]
                  /\ cur' = [cur EXCEPT ![p] = i]
                  /\ Goto(p, "deactivate")
             ELSE UNCHANGED <<handlers, cur, pc>>
    /\ UNCHANGED <<listed, exits, overlapped>>

\* The next handler: ActionDeactivate().  Its state was "active" in the list, so
\* "deactivate" is among its actions there, and the branch without is not taken.
ActionDeactivate(p) ==
    /\ pc[p] = "loop"
    /\ \E i \in todo[p] :
          /\ handlers[i].state = "active"
          /\ handlers' = [handlers EXCEPT ![i].state = "deactivating"]
          /\ todo' = [todo EXCEPT ![p] = @ \ {i}]
          /\ cur' = [cur EXCEPT ![p] = i]
    /\ Goto(p, "deactivate")
    /\ UNCHANGED <<listed, exits, overlapped>>

\* waitForTransition(): until the handler is no longer in transition, well or badly.
\* The limit MaxWait is one of the reasons to exit.
waitForTransition(p, from, to) ==
    /\ pc[p] = from
    /\ ~ InTransition(handlers[cur[p]])
    /\ Goto(p, to)
    /\ UNCHANGED <<handlers, listed, todo, cur, exits, overlapped>>

\* ById(): is "remove" offered?
ById(p) == /\ pc[p] = "look"
           /\ Goto(p, IF handlers[cur[p]].state = "inactive" THEN "remove" ELSE "loop")
           /\ UNCHANGED <<handlers, listed, todo, cur, exits, overlapped>>

ActionRemove(p) == /\ pc[p] = "remove"
                   /\ handlers[cur[p]].state = "inactive"
                   /\ handlers' = [handlers EXCEPT ![cur[p]].state = "removing"]
                   /\ Goto(p, "removing")
                   /\ UNCHANGED <<listed, todo, cur, exits, overlapped>>

\* Mutant: the loop is left early.
OldRemovedEarly(p) == /\ pc[p] = "loop"
                      /\ Goto(p, "create")
                      /\ UNCHANGED <<handlers, listed, todo, cur, exits, overlapped>>

\* The loop's end.
OldRemoved(p) == /\ pc[p] = "loop"
                 /\ todo[p] = {}
                 /\ Goto(p, "create")
                 /\ UNCHANGED <<handlers, listed, todo, cur, exits, overlapped>>

\* The POST.  That it fails is an Exit.
createNewHandler(p) == /\ pc[p] = "create"
                       /\ handlers' = Append(handlers, [state |-> "activating", err |-> FALSE])
                       /\ Goto(p, "subscribe")
                       /\ UNCHANGED <<listed, todo, cur, exits, overlapped>>

subscribeToEvents(p) == /\ pc[p] = "subscribe"
                        /\ Goto(p, "running")
                        /\ UNCHANGED <<handlers, listed, todo, cur, exits, overlapped>>

Down(p) == /\ Goto(p, "down")
           /\ UNCHANGED <<handlers, listed, todo, cur, overlapped>>

\* Cattle refuses ActionDeactivate(): another process was faster.  Start() returns
\* the error and main() exits.
Refused(p) == /\ pc[p] = "loop"
              /\ \E i \in todo[p] : handlers[i].state # "active"
              /\ Down(p)
              /\ UNCHANGED exits

\* The process ends at any point: a crash, the end of the connection, the limit of
\* waitForTransition(), or an API call that failed, before it or with its effect.
Exit(p) == /\ pc[p] # "down"
           /\ exits < MaxExits
           /\ exits' = exits + 1
           /\ Down(p)

Step(p) == \/ Start(p) \/ List(p) \/ ActionDeactivate(p)
           \/ waitForTransition(p, "deactivate", "look")
           \/ ById(p) \/ ActionRemove(p)
           \/ waitForTransition(p, "removing", "loop")
           \/ OldRemoved(p) \/ createNewHandler(p) \/ subscribeToEvents(p) \/ Refused(p)

Next == \/ \E i \in DOMAIN handlers : Transition(i)
        \/ \E p \in Proc : Step(p) \/ Exit(p)

Spec == Init /\ [][Next]_vars

\* Cattle ends its transitions, processes run and are started again.
FairSpec == /\ Spec
            /\ WF_vars(\E i \in DOMAIN handlers : Transition(i))
            /\ \A p \in Proc : WF_vars(Step(p))

-----------------------------------------------------------------------------
(* Properties.                                                             *)

\* A process makes its handler only when each one it has found is removed, or was
\* given up because a transition of it failed, although another process may have
\* found the same ones (removeOldHandler).
OldGoneBeforeNew ==
    \A p \in Proc : pc[p] \in {"create", "subscribe", "running"} =>
        \A i \in listed[p] : handlers[i].state = "removed" \/ handlers[i].err

Current == {i \in DOMAIN handlers : handlers[i].state \in {"activating", "active"}}

\* If no process looked for handlers while another one was registering or a handler
\* was not active yet, there is at most one handler that is active or becomes so,
\* whatever failed and wherever a process ended.
OneUnlessOverlapped == ~ overlapped => \A i, j \in Current : i = j

\* Cattle refuses no call of a process that registers alone, and never the removal of
\* a handler, by whomever else it has been found: a process does not exit over what it
\* or an earlier one has left behind half-done (removeOldHandler).
RefusedNeedsOverlap ==
    \A p \in Proc :
        /\ pc[p] = "loop" /\ ~ overlapped => \A i \in todo[p] : handlers[i].state = "active"
        /\ pc[p] = "remove" => handlers[cur[p]].state = "inactive"

\* When the processes no longer exit, there is an active handler in the end, for
\* good, unless a transition failed: processes do not go on removing each other's
\* handlers, and a refused one comes back and registers.
EndsRegistered ==
    <>[](\E i \in DOMAIN handlers : handlers[i].state = "active" \/ handlers[i].err)

-----------------------------------------------------------------------------
(* The strengthening of OldGoneBeforeNew and OneUnlessOverlapped that is   *)
(* inductive.                                                              *)

Working(p) == pc[p] \in {"deactivate", "look", "remove", "removing"}
Gone(i) == handlers[i].state = "removed" \/ handlers[i].err

\* Only a transition fails.
ErrInTransition ==
    \A i \in DOMAIN handlers :
        handlers[i].err => handlers[i].state \in {"activating", "deactivating", "removing"}

\* The handler a process is at is in the state its steps have brought it to: no
\* other process has taken it further.
CurStage ==
    \A p \in Proc :
        LET h == handlers[cur[p]]
        IN /\ pc[p] = "deactivate" => h.state \in {"deactivating", "inactive"}
           /\ pc[p] = "look" => h.state = "inactive" \/ (h.state = "deactivating" /\ h.err)
           /\ pc[p] = "remove" => h.state = "inactive"
           /\ pc[p] = "removing" => h.state \in {"removing", "removed"}

OneOwner == \A p, q \in Proc : Working(p) /\ Working(q) /\ cur[p] = cur[q] => p = q

\* What the loop has come to is gone, or the handler it is at.
RestIsGone ==
    \A p \in Proc :
        /\ Working(p) => cur[p] \notin todo[p]
        /\ pc[p] \in {"create", "subscribe", "running"} => todo[p] = {}
        /\ pc[p] \notin {"down", "list"} =>
              \A i \in listed[p] \ todo[p] : Gone(i) \/ (Working(p) /\ i = cur[p])

OneRegisters == ~ overlapped => \A p, q \in Proc : Registering(p) /\ Registering(q) => p = q

\* Until it makes its own, the process that registers knows every current handler.
CurrentIsTodo ==
    ~ overlapped =>
        \A p \in Proc : Registering(p) /\ pc[p] # "subscribe" => Current \subseteq todo[p]

\* What it has not come to is as it was found.
TodoIsActive ==
    ~ overlapped =>
        \A p \in Proc : Registering(p) => \A i \in todo[p] : handlers[i].state = "active"

RegInv == /\ TypeOK /\ ErrInTransition
          /\ CurStage /\ OneOwner /\ RestIsGone
          /\ OneRegisters /\ CurrentIsTodo /\ OneUnlessOverlapped
=============================================================================
