--------------------------- MODULE ComposeProject ---------------------------
(***************************************************************************)
(* project.Create() of libcompose, with the services of rancher-compose:   *)
(* how a stack is created from its compose file.                           *)
(*                                                                         *)
(* The caller's goroutine walks the dependency graph depth first           *)
(* (startService) and starts, on its way back, one goroutine per service   *)
(* (serviceWrapper.Do), which waits for the service's dependencies, makes  *)
(* it in Rancher and links it.  Then it waits for every goroutine and      *)
(* returns the first error (traverse).                                     *)
(*                                                                         *)
(* A service named in the label io.rancher.sidekicks of another one is a   *)
(* Sidekick: it depends on its primaries and its net/ipc namespace, and    *)
(* these dependencies are not optional; its Create() does nothing.  Any    *)
(* other one is a RancherService: it depends, optionally, on its links.    *)
(* It is taken to be of type "service": external, DNS and load balancer    *)
(* services are made with other calls in the same order.                   *)
(*                                                                         *)
(* The order of Go's map iterations and of the names in the file is        *)
(* arbitrary: every choice below is.  ErrRestart is returned by no service *)
(* of rancher-compose, so traverse() runs once.                            *)
(***************************************************************************)
EXTENDS Naturals, Sequences, FiniteSets

CONSTANTS
    Service,     \* the services of the compose file
    Missing,     \* names the file refers to and does not define, those of the
                 \* services of other stacks ("stack/service") among them
    Configs,     \* the compose files, see Config
    MayPreexist, \* may services of an earlier attempt already exist?
    ApiMayFail   \* may a call of the Rancher API fail?

Name == Service \cup Missing

\* links: a service's links; external: the ones that are looked up and no dependencies:
\* its external links, and links with blanks around the name, which only getLinks()
\* trims; label: the names in its label io.rancher.sidekicks;
\* ns: the services whose network or ipc namespace it joins.
Config == [links    : [Service -> SUBSET Name],
           external : [Service -> SUBSET Name],
           label    : [Service -> SUBSET Name],
           ns       : [Service -> SUBSET Service]]

ASSUME ProjectAssumption == /\ Service \cap Missing = {}
                            /\ Configs \subseteq Config
                            /\ MayPreexist \in BOOLEAN
                            /\ ApiMayFail \in BOOLEAN

VARIABLES
    cfg,      \* the compose file
    phase,    \* where the caller's goroutine is
    roots,    \* traverse(): the wrappers not yet passed to startService()
    path,     \* startService(): history, the services being visited
    todo,     \* todo[s]: the dependencies s's visit has still to look at
    launched, \* startService(): the services visited
    ignored,  \* ignored[s]: the dependencies s will not wait for
    gpc,      \* gpc[s]: where the goroutine of service s is
    err,      \* err[s]: did s's action fail?
    exists,   \* the services that exist in Rancher
    created,  \* the services made by this call of Create()
    toFind,   \* toFind[s]: the links getLinks() has still to look up
    found,    \* found[s]: the links getLinks() has found
    linked,   \* linked[s]: the service links set in Rancher
    waiting,  \* traverse(): the wrappers still to be waited for
    result    \* what Create() returns

vars == <<cfg, phase, roots, path, todo, launched, ignored, gpc, err, exists,
          created, toFind, found, linked, waiting, result>>

walk == <<roots, path, todo, launched, ignored>>
rancher == <<exists, created, toFind, found, linked>>

GPC == {"none", "deps", "find", "post", "links", "setLinks", "wait", "exited"}

TypeOK == /\ cfg \in Configs
          /\ phase \in {"start", "launch", "wait", "returned"}
          /\ roots \subseteq Service
          /\ path \in Seq(Service)
          /\ todo \in [Service -> SUBSET Name]
          /\ launched \subseteq Service
          /\ ignored \in [Service -> SUBSET Service]
          /\ gpc \in [Service -> GPC]
          /\ err \in [Service -> BOOLEAN]
          /\ exists \subseteq Service
          /\ created \subseteq exists
          /\ toFind \in [Service -> SUBSET Name]
          /\ found \in [Service -> SUBSET Service]
          /\ linked \in [Service -> SUBSET Service]
          /\ waiting \subseteq Service
          /\ result \in {"none", "nil", "error"}

-----------------------------------------------------------------------------
(* The dependency graph.                                                   *)

\* NewSidekickInfo(), RancherServiceFactory.Create(): who is a Sidekick.
IsSidekick(s) == \E p \in Service : s \in cfg.label[p]

\* DependentServices(): the targets of a service's dependencies.
Targets(s) == IF IsSidekick(s)
              THEN {p \in Service : s \in cfg.label[p]} \cup cfg.ns[s]
              ELSE cfg.links[s]

Optional(s) == ~ IsSidekick(s)

\* The dependencies that have a wrapper; the others are only logged.
Deps(s) == Targets(s) \cap Service

-----------------------------------------------------------------------------
Init == /\ cfg \in Configs
        /\ phase = "start"
        /\ roots = {}
        /\ path = <<>>
        /\ todo = [s \in Service |-> {}]
        /\ launched = {}
        /\ ignored = [s \in Service |-> {}]
        /\ gpc = [s \in Service |-> "none"]
        /\ err = [s \in Service |-> FALSE]
        /\ exists \in IF MayPreexist THEN SUBSET {s \in Service : ~ IsSidekick(s)} ELSE {{}}
        /\ created = {}
        /\ toFind = [s \in Service |-> {}]
        /\ found = [s \in Service |-> {}]
        /\ linked = [s \in Service |-> {}]
        /\ waiting = {}
        /\ result = "none"

\* Create(), perform(), forEach() and the first half of traverse(): a wrapper for
\* every service of the file, every one of them selected.
Create == /\ phase = "start"
          /\ phase' = "launch"
          /\ roots' = Service
          /\ UNCHANGED <<cfg, path, todo, launched, ignored, gpc, err, rancher, waiting, result>>

\* The body of startService() for a service that is not launched yet.
Visit(s) == /\ launched' = launched \cup {s}
            /\ path' = Append(path, s)
            /\ todo' = [todo EXCEPT ![s] = Targets(s)]

\* traverse()'s loop calls startService() for a wrapper.  A launched one is passed
\* over.
VisitRoot(s) == /\ phase = "launch"
                /\ path = <<>>
                /\ s \in roots
                /\ roots' = roots \ {s}
                /\ IF s \in launched THEN UNCHANGED <<launched, path, todo>> ELSE Visit(s)
                /\ UNCHANGED <<cfg, phase, ignored, gpc, err, rancher, waiting, result>>

Current == path[Len(path)]
History == {path[i] : i \in DOMAIN path}

\* Mutant: a dependency that was visited before is ignored, on a cycle or not.
IgnoreLaunched(s, t) ==
    /\ t \in launched
    /\ Optional(s)
    /\ ignored' = [ignored EXCEPT ![s] = @ \cup {t}]
    /\ todo' = [todo EXCEPT ![s] = @ \ {t}]
    /\ UNCHANGED <<path, launched>>

\* Mutant: a dependency that closes a cycle is passed over, but waited for.
PassOverCycle(s, t) ==
    /\ t \in History
    /\ Optional(s)
    /\ todo' = [todo EXCEPT ![s] = @ \ {t}]
    /\ UNCHANGED <<path, launched, ignored>>

\* A dependency on the path is a cycle; an optional one is not waited for.
IgnoreDep(s, t) == /\ t \in History
                   /\ Optional(s)
                   /\ ignored' = [ignored EXCEPT ![s] = @ \cup {t}]
                   /\ todo' = [todo EXCEPT ![s] = @ \ {t}]
                   /\ UNCHANGED <<path, launched>>

\* Mutant: no dependency is optional.
CycleAlwaysDetected(s, t) == /\ t \in History
                             /\ path' = <<>>
                             /\ UNCHANGED <<todo, launched, ignored>>

\* "Cycle detected in path": every startService() on the path returns the error,
\* and traverse() does not look at it.
CycleDetected(s, t) == /\ t \in History
                       /\ ~ Optional(s)
                       /\ path' = <<>>
                       /\ UNCHANGED <<todo, launched, ignored>>

\* A name without a wrapper is logged, a launched dependency passed over.
SkipDep(s, t) == /\ t \notin History
                 /\ t \in launched \cup Missing
                 /\ todo' = [todo EXCEPT ![s] = @ \ {t}]
                 /\ UNCHANGED <<path, launched, ignored>>

\* Mutant: a dependency that is launched already is visited again.
VisitDepAgain(s, t) ==
    /\ t \in Service \ History
    /\ launched' = launched \cup {t}
    /\ path' = Append(path, t)
    /\ todo' = [todo EXCEPT ![s] = @ \ {t}, ![t] = Targets(t)]
    /\ UNCHANGED ignored

\* The recursive call of startService().
VisitDep(s, t) == /\ t \in Service \ launched
                  /\ launched' = launched \cup {t}
                  /\ path' = Append(path, t)
                  /\ todo' = [todo EXCEPT ![s] = @ \ {t}, ![t] = Targets(t)]
                  /\ UNCHANGED ignored

\* One turn of startService()'s loop over DependentServices().
LookAtDep == /\ path # <<>>
             /\ \E t \in todo[Current] : \/ IgnoreDep(Current, t)
                                         \/ CycleDetected(Current, t)
                                         \/ SkipDep(Current, t)
                                         \/ VisitDep(Current, t)
             /\ UNCHANGED <<cfg, phase, roots, gpc, err, rancher, waiting, result>>

\* go action(wrapper, wrappers), and the return from startService().
Launch == /\ path # <<>>
          /\ todo[Current] = {}
          /\ gpc' = [gpc EXCEPT ![Current] = "deps"]
          /\ path' = SubSeq(path, 1, Len(path) - 1)
          /\ UNCHANGED <<cfg, phase, roots, todo, launched, ignored, err, rancher, waiting, result>>

\* traverse() has started everything and begins to wait.
EndLaunch == /\ phase = "launch"
             /\ path = <<>>
             /\ roots = {}
             /\ phase' = "wait"
             /\ waiting' = Service
             /\ UNCHANGED <<cfg, walk, gpc, err, rancher, result>>

-----------------------------------------------------------------------------
(* serviceWrapper.Do() of service s, in a goroutine of its own.            *)

Goto(s, to) == gpc' = [gpc EXCEPT ![s] = to]
Caller == <<cfg, phase, walk, waiting, result>>

\* Do() returns with the error of the action; done.Done() is deferred.
Leave(s, failed) == /\ Goto(s, "exited")
                    /\ err' = [err EXCEPT ![s] = failed]

\* Mutant: the service waits for one of its dependencies only.
waitForOneDep(s) ==
    /\ gpc[s] = "deps"
    /\ Deps(s) = {} \/ \E t \in Deps(s) : t \in ignored[s] \/ gpc[t] = "exited"
    /\ IF IsSidekick(s) THEN Leave(s, FALSE) ELSE Goto(s, "find") /\ UNCHANGED err
    /\ UNCHANGED <<Caller, rancher>>

\* Mutant: ignored dependencies are waited for as well.
waitForAllDeps(s) ==
    /\ gpc[s] = "deps"
    /\ \A t \in Deps(s) : gpc[t] = "exited"
    /\ IF IsSidekick(s) THEN Leave(s, FALSE) ELSE Goto(s, "find") /\ UNCHANGED err
    /\ UNCHANGED <<Caller, rancher>>

\* waitForDeps(): every dependency that is not ignored has ended, well or badly.
\* Then the action: a Sidekick's Create() is EmptyService's and returns nil.
waitForDeps(s) ==
    /\ gpc[s] = "deps"
    /\ \A t \in Deps(s) \ ignored[s] : gpc[t] = "exited"
    /\ IF IsSidekick(s) THEN Leave(s, FALSE) ELSE Goto(s, "find") /\ UNCHANGED err
    /\ UNCHANGED <<Caller, rancher>>

\* Mutant: a failed look-up counts as found.
findExistingUnchecked(s) == /\ gpc[s] = "find"
                            /\ \/ s \in exists /\ Leave(s, FALSE)
                               \/ s \notin exists /\ Goto(s, "post") /\ UNCHANGED err
                               \/ ApiMayFail /\ Leave(s, FALSE)
                            /\ UNCHANGED <<Caller, rancher>>

\* Create(): findExisting().  A service that exists is left as it is.
findExisting(s) == /\ gpc[s] = "find"
                   /\ \/ s \in exists /\ Leave(s, FALSE)
                      \/ s \notin exists /\ Goto(s, "post") /\ UNCHANGED err
                      \/ ApiMayFail /\ Leave(s, TRUE)
                   /\ UNCHANGED <<Caller, rancher>>

\* createService() up to the POST: it needs the configuration of every sidekick,
\* and a call that fails may or may not have made the service.
createService(s) ==
    /\ gpc[s] = "post"
    /\ \/ /\ cfg.label[s] \subseteq Service
          /\ Goto(s, "links") /\ UNCHANGED err
          /\ exists' = exists \cup {s} /\ created' = created \cup {s}
          /\ toFind' = [toFind EXCEPT ![s] = cfg.links[s] \cup cfg.external[s]]
       \/ /\ ~ (cfg.label[s] \subseteq Service)
          /\ Leave(s, TRUE)
          /\ UNCHANGED <<exists, created, toFind>>
       \/ /\ ApiMayFail
          /\ Leave(s, TRUE)
          /\ \/ UNCHANGED <<exists, created>>
             \/ /\ cfg.label[s] \subseteq Service
                /\ exists' = exists \cup {s} /\ created' = created \cup {s}
          /\ UNCHANGED toFind
    /\ UNCHANGED <<Caller, found, linked>>

\* getLinks(): the links are looked up one after the other; one that does not
\* exist (yet) is left out with a warning.  A Sidekick never exists by itself.  The
\* look-up in another stack fails if there is no such stack; a link that is found
\* there is not recorded.
getLinks(s) == /\ gpc[s] = "links"
               /\ \/ \E t \in toFind[s] :
                        /\ toFind' = [toFind EXCEPT ![s] = @ \ {t}]
                        /\ found' = [found EXCEPT ![s] = @ \cup ({t} \cap exists)]
                        /\ UNCHANGED <<gpc, err>>
                  \/ /\ toFind[s] = {}
                     /\ Goto(s, "setLinks")
                     /\ UNCHANGED <<err, toFind, found>>
                  \/ /\ ApiMayFail \/ toFind[s] \cap Missing # {}
                     /\ Leave(s, TRUE)
                     /\ UNCHANGED <<toFind, found>>
               /\ UNCHANGED <<Caller, exists, created, linked>>

\* setupLinks(): ActionSetservicelinks replaces the service's links.
setupLinks(s) == /\ gpc[s] = "setLinks"
                 /\ \/ /\ linked' = [linked EXCEPT ![s] = found[s]]
                       /\ Goto(s, "wait") /\ UNCHANGED err
                    \/ /\ ApiMayFail
                       /\ Leave(s, TRUE)
                       /\ UNCHANGED linked
                 /\ UNCHANGED <<Caller, exists, created, toFind, found>>

\* Wait(): until the service is no longer in transition.
Wait(s) == /\ gpc[s] = "wait"
           /\ \E failed \in {FALSE} \cup {ApiMayFail} : Leave(s, failed)
           /\ UNCHANGED <<Caller, rancher>>

Do(s) == \/ waitForDeps(s) \/ findExisting(s) \/ createService(s)
         \/ getLinks(s) \/ setupLinks(s) \/ Wait(s)

-----------------------------------------------------------------------------
\* Mutant: traverse() stops to wait at the first error.
WrapperWaitFirst(s) ==
    /\ phase = "wait"
    /\ s \in waiting
    /\ gpc[s] = "exited"
    /\ waiting' = IF err[s] THEN {} ELSE waiting \ {s}
    /\ result' = IF err[s] THEN "error" ELSE result
    /\ UNCHANGED <<cfg, phase, walk, gpc, err, rancher>>

\* Mutant: the last error wins, a success after it included.
WrapperWaitLast(s) ==
    /\ phase = "wait"
    /\ s \in waiting
    /\ gpc[s] = "exited"
    /\ waiting' = waiting \ {s}
    /\ result' = IF err[s] THEN "error" ELSE "nil"
    /\ UNCHANGED <<cfg, phase, walk, gpc, err, rancher>>

\* wrapper.Wait() returns to traverse()'s second loop.  It blocks on one wrapper
\* at a time, but has to get through all of them.
WrapperWait(s) == /\ phase = "wait"
                  /\ s \in waiting
                  /\ gpc[s] = "exited"
                  /\ waiting' = waiting \ {s}
                  /\ result' = IF err[s] THEN "error" ELSE result
                  /\ UNCHANGED <<cfg, phase, walk, gpc, err, rancher>>

\* traverse(), forEach(), perform() and Create() return firstError.
Return == /\ phase = "wait"
          /\ waiting = {}
          /\ phase' = "returned"
          /\ result' = IF result = "error" THEN "error" ELSE "nil"
          /\ UNCHANGED <<cfg, walk, gpc, err, rancher, waiting>>

\* The call is over: the only way in which it may stop.
Finished == phase = "returned" /\ UNCHANGED vars

CallerStep == \/ Create \/ (\E s \in Service : VisitRoot(s)) \/ LookAtDep \/ Launch
           \/ EndLaunch \/ (\E s \in Service : WrapperWait(s)) \/ Return

Next == \/ CallerStep
        \/ \E s \in Service : Do(s)
        \/ Finished

Spec == Init /\ [][Next]_vars

\* The caller and every goroutine run on, and the API calls of a step return.
Fairness == /\ WF_vars(CallerStep)
            /\ \A s \in Service : WF_vars(Do(s))

FairSpec == Spec /\ Fairness

-----------------------------------------------------------------------------
(* Cycles.                                                                 *)

\* A set of services with all their dependencies.
Closed(C) == \A s \in C : Deps(s) \subseteq C

\* t is s or a dependency of s, directly or through other services.
Reaches(s, t) == \A C \in SUBSET Service : s \in C /\ Closed(C) => t \in C

OnCycle(s) == \E t \in Deps(s) : Reaches(t, s)

\* A Sidekick that depends on itself, e.g. because its primary links to it.
HardCycle == \E s \in Service : IsSidekick(s) /\ OnCycle(s)

Spawned == {s \in Service : gpc[s] # "none"}

-----------------------------------------------------------------------------
(* Safety.                                                                 *)

\* When Create() returns, no goroutine of it is left: after the handler's reply and
\* Unlock() nothing of this event still changes Rancher, also if a service
\* has failed (project.go:350-362, service-wrapper.go:86).
QuiescentReturn == phase = "returned" => \A s \in Service : gpc[s] = "exited"

\* Create() returns nil exactly if no service failed, in whatever order they end
\* (project.go:348-372).
ErrorIsReported == phase = "returned" => (result = "nil" <=> \A s \in Service : ~ err[s])

\* If Create() returns nil, every service of the file that is not a Sidekick, which
\* has no service of its own, exists in Rancher (service.go:72-80).
NilMeansCreated ==
    result = "nil" => \A s \in Service : ~ IsSidekick(s) => s \in exists

\* If Create() returns nil, every service it made is linked to each service of the
\* file it links to (other than by an external link, which nothing waits for), except
\* for the dependencies ignored on a cycle (service-wrapper.go:66-76 waits
\* for the others, service.go:502-532 looks them up).
LinksComplete ==
    result = "nil" =>
        \A s \in created : \A t \in cfg.links[s] \cap Service :
            IsSidekick(t) \/ t \in ignored[s] \/ t \in linked[s]

\* A service's action runs only after the end of every dependency's that is not
\* ignored, although goroutines start while the walk goes on
\* (service-wrapper.go:61-98).
DepsFirst == \A s \in Service :
    gpc[s] \notin {"none", "deps"} => \A t \in Deps(s) \ ignored[s] : gpc[t] = "exited"

\* Only an optional dependency that really closes a cycle is ignored, whatever the
\* order of the walk (project.go:286-290): a file without cycles is created in
\* the order of its dependencies.
IgnoredOnCycle == \A s \in Service : \A t \in ignored[s] :
    Optional(s) /\ t \in Deps(s) /\ Reaches(t, s)

\* The walk leaves a service without a goroutine only if a Sidekick depends on
\* itself (project.go:299-300, 345).
OnlyHardCyclesStrand == phase \in {"wait", "returned"} /\ ~ HardCycle => Spawned = Service

\* The dependencies whose end s's goroutine waits for.
WaitsFor(s) == Deps(s) \ ignored[s]

\* Goroutines never wait for each other in a circle, whatever the graph and the order
\* of the walk: among any of them is one that waits for none of the others
\* (project.go:286-303 ignores what closes a cycle, service-wrapper.go:66-70).
NoCircularWait ==
    \A S \in SUBSET Spawned : S # {} => \E s \in S : WaitsFor(s) \cap S = {}

\* The goroutine of s, resp. the caller, does not block.
GoroutineReady(s) ==
    /\ gpc[s] \notin {"none", "exited"}
    /\ gpc[s] = "deps" => \A t \in WaitsFor(s) : gpc[t] = "exited"

CallerReady ==
    phase = "wait" => waiting = {} \/ \E s \in waiting : gpc[s] = "exited"

\* Before Create() has returned somebody can take a step, unless a Sidekick depends
\* on itself: the safety half of CreateReturns (project.go:278-373,
\* service-wrapper.go:61-98).
NeverStuck == ~ HardCycle => CallerReady \/ \E s \in Service : GoroutineReady(s)

GPCOrder == <<"none", "deps", "find", "post", "links", "setLinks", "wait", "exited">>
PhaseOrder == <<"start", "launch", "wait", "returned">>

\* x comes before y in the sequence q.
Before(q, x, y) == \E i, j \in DOMAIN q : i < j /\ x = q[i] /\ y = q[j]

\* The goroutine of s has moved on in its code, or looked up one more link, or rests.
Rests(s) == gpc'[s] = gpc[s] /\ toFind'[s] = toFind[s]
MovesOn(s) == \/ Before(GPCOrder, gpc[s], gpc'[s])
              \/ gpc'[s] = gpc[s] /\ toFind'[s] \subseteq toFind[s] /\ toFind'[s] # toFind[s]

\* The walk and the waiting take something off what they have to do.
Remaining == <<roots, todo, Len(path), waiting>>
RemainingShrinks ==
    /\ roots' \subseteq roots
    /\ \A s \in Service : todo'[s] \subseteq todo[s]
    /\ Len(path') <= Len(path)
    /\ waiting' \subseteq waiting

\* A step reaches the next phase, or launches one more service, or takes something
\* off what is left to do, and never gives back what it has gained.
Advances ==
    \/ Before(PhaseOrder, phase, phase')
    \/ phase' = phase /\ launched \subseteq launched' /\ launched' # launched
    \/ /\ phase' = phase
       /\ launched' = launched
       /\ RemainingShrinks
       /\ \A s \in Service : Rests(s) \/ MovesOn(s)
       /\ Remaining' # Remaining \/ \E s \in Service : MovesOn(s)

\* Every step is progress, so Create() takes finitely many of them, also if the
\* links form cycles: the other safety half of CreateReturns (project.go:278-373).
StepsAdvance == [][Advances]_vars

-----------------------------------------------------------------------------
(* Liveness.                                                               *)

\* Create() returns, whatever the links, unless a Sidekick depends on itself: the
\* goroutines do not wait for each other in a circle (project.go:286-303,
\* service-wrapper.go:66-70).
CreateReturns == (phase = "start" /\ ~ HardCycle) ~> phase = "returned"

\* What the code says of a cycle it does not ignore, project.go:300:
\* "Cycle detected in path": the call ends with an error.
CycleIsReported == HardCycle /\ phase = "wait" /\ Spawned # Service ~> result = "error"
-----------------------------------------------------------------------------
(* The inductive invariant behind the safety properties.                   *)

\* What the walk knows: services on the path are launched, have no goroutine yet and
\* depend on the ones before them.
WalkInv ==
    /\ \A s \in Service : todo[s] \subseteq Targets(s)
    /\ \A s \in Service \ launched : gpc[s] = "none"
    /\ \A i \in 1..Len(path) : path[i] \in launched /\ gpc[path[i]] = "none"
    /\ \A i, j \in 1..Len(path) : path[i] = path[j] => i = j
    /\ \A i, j \in 1..Len(path) : i <= j => Reaches(path[i], path[j])
    /\ phase # "launch" => path = <<>>

\* Every service is still to be visited or launched, and without a hard cycle the
\* launched ones are on the path or have their goroutine.
LaunchInv ==
    /\ phase = "start" => launched = {}
    /\ phase = "launch" => Service \subseteq roots \cup launched
    /\ phase \in {"wait", "returned"} => launched = Service
    /\ ~ HardCycle => \A s \in launched : s \in History \/ gpc[s] # "none"

\* What traverse() knows of the services it has waited for.
ReturnInv ==
    /\ \A s \in Service : err[s] => gpc[s] = "exited"
    /\ phase \in {"start", "launch"} => result = "none"
    /\ phase \in {"wait", "returned"} => \A s \in Service \ waiting : gpc[s] = "exited"
    /\ phase = "wait" => /\ result # "nil"
                         /\ result = "error" <=> \E s \in Service \ waiting : err[s]
    /\ phase = "returned" => /\ waiting = {}
                             /\ result = "nil" <=> \A s \in Service : ~ err[s]

\* How far a service's goroutine is, and what it has made in Rancher.
ServiceInv ==
    \A s \in Service :
        /\ IsSidekick(s) => gpc[s] \in {"none", "deps", "exited"} /\ s \notin created
        /\ s \in created => gpc[s] \in {"links", "setLinks", "wait", "exited"}
        /\ gpc[s] \in {"links", "setLinks", "wait"} => s \in created
        /\ gpc[s] = "exited" /\ ~ err[s] /\ ~ IsSidekick(s) => s \in exists

\* Service s has been made and its link to t is still to be looked up, found or set.
LinkKept(s, t) ==
    /\ gpc[s] = "links" => t \in toFind[s] \cup found[s]
    /\ gpc[s] = "setLinks" => t \in found[s]
    /\ gpc[s] = "wait" => t \in linked[s]
    /\ gpc[s] = "exited" /\ s \in created /\ ~ err[s] => t \in linked[s]

\* A link that s waits for is not lost, unless its target failed.
LinkInv ==
    \A s \in Service : \A t \in cfg.links[s] \cap Service :
        ~ IsSidekick(t) /\ t \notin ignored[s] /\ ~ err[t] => LinkKept(s, t)

\* What the walk has done about the dependencies of a service it visits, and of one
\* that has its goroutine: one that is waited for is launched and has been left,
\* or is the one being visited right now.
WaitInv ==
    /\ \A s \in Service : \A i \in 1..Len(path) : s = path[i] =>
          \A t \in WaitsFor(s) \ todo[s] :
             t \in launched /\ (t \in History => i < Len(path) /\ t = path[i + 1])
    /\ \A s \in Spawned : WaitsFor(s) \subseteq launched \ History

ProjectInv == /\ TypeOK
              /\ WalkInv
              /\ LaunchInv
              /\ ReturnInv
              /\ ServiceInv
              /\ LinkInv
              /\ DepsFirst
              /\ IgnoredOnCycle
=============================================================================
