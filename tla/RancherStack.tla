---------------------------- MODULE RancherStack ----------------------------
(***************************************************************************)
(* What the handlers of several stacks do in Rancher: find the stack       *)
(* (Context.open, loadEnv), then make its service (RancherService.Create), *)
(* of one of four types.  Handlers run at the same time; each handles the  *)
(* stack of its own event, again if the event is delivered again.          *)
(*                                                                         *)
(* A handler does not use the stack of its event but looks one up by the   *)
(* project name, which is the stack's name in lower case with its special  *)
(* characters replaced, and makes a new stack if it finds none.            *)
(*                                                                         *)
(* Each step holds the API call it ends with.  A call that fails is the    *)
(* action ApiError before the step or, if it had its effect, after it.     *)
(* Every stack has one service, with one link to a service that exists;    *)
(* the order of services and missing links are ComposeProject's.  Cattle   *)
(* answers a list as a whole: the code asks for no second page.            *)
(* Meanwhile users may remove services and stacks, and the process may     *)
(* crash.                                                                  *)
(***************************************************************************)
EXTENDS Naturals, Sequences, FiniteSets

CONSTANTS
    NWorkers,      \* the number of handlers
    Name,          \* names of stacks
    lower,         \* lower[n]: strings.ToLower(n)
    norm,          \* norm[n]: the project name made of n
    StackNames,    \* the names the stacks of the events may have
    kind,          \* kind[w]: the type of the service in w's compose file
    CaseSensitive, \* does Rancher's database compare names case-sensitively?
    MaxRuns,       \* bound on the deliveries of an event
    MaxRemovals    \* bound on what users remove

Kind == {"service", "externalService", "dnsService", "loadBalancerService"}

ASSUME StackAssumption == /\ NWorkers \in Nat
                          /\ lower \in [Name -> Name]
                          /\ norm \in [Name -> Name]
                          /\ \A n \in Name : /\ norm[lower[n]] = norm[n]
                                              /\ norm[norm[n]] = norm[n]
                                              /\ lower[norm[n]] = norm[n]
                          /\ StackNames \subseteq [1..NWorkers -> Name]
                          /\ kind \in [1..NWorkers -> Kind]
                          /\ CaseSensitive \in BOOLEAN
                          /\ MaxRuns \in Nat
                          /\ MaxRemovals \in Nat

\* Handler w handles the events of stack w.
Worker == 1..NWorkers

VARIABLES
    stacks,   \* the stacks in Rancher
    services, \* the services in Rancher
    pc,       \* pc[w]: where w is
    env,      \* env[w]: Context.Environment, the stack found, or 0
    made,     \* made[w]: the service w has made, or 0
    svc,      \* svc[w]: the service w goes on with, or 0
    result,   \* result[w]: what the last Create() of w returned
    runs,     \* runs[w]: the deliveries w has handled
    removals, \* the number of removals by users
    panicked  \* history: has the process panicked?

vars == <<stacks, services, pc, env, made, svc, result, runs, removals, panicked>>

Stack == [name : Name, removed : BOOLEAN]
Service == [stack : Nat, removed : BOOLEAN, linked : BOOLEAN,
            transitioning : {"yes", "no", "error"}]

PC == {"idle", "byName", "all", "createStack", "find", "post", "refind", "dnsLinks",
       "links", "wait"}

TypeOK == /\ stacks \in Seq(Stack) /\ NWorkers <= Len(stacks)
          /\ services \in Seq(Service)
          /\ \A i \in DOMAIN services : services[i].stack \in DOMAIN stacks
          /\ pc \in [Worker -> PC]
          /\ env \in [Worker -> {0} \cup DOMAIN stacks]
          /\ made \in [Worker -> {0} \cup DOMAIN services]
          /\ svc \in [Worker -> {0} \cup DOMAIN services]
          /\ \A w \in Worker : pc[w] \notin {"idle", "byName", "all", "createStack"} => env[w] # 0
          /\ \A w \in Worker : pc[w] \in {"dnsLinks", "links", "wait"} => svc[w] # 0
          /\ result \in [Worker -> {"none", "nil", "error"}]
          /\ runs \in [Worker -> 0..MaxRuns]
          /\ removals \in 0..MaxRemovals
          /\ panicked \in BOOLEAN

Init == /\ \E name \in StackNames :
              stacks = [w \in Worker |-> [name |-> name[w], removed |-> FALSE]]
        /\ services = <<>>
        /\ pc = [w \in Worker |-> "idle"]
        /\ env = [w \in Worker |-> 0]
        /\ made = [w \in Worker |-> 0]
        /\ svc = [w \in Worker |-> 0]
        /\ result = [w \in Worker |-> "none"]
        /\ runs = [w \in Worker |-> 0]
        /\ removals = 0
        /\ panicked = FALSE

-----------------------------------------------------------------------------
Goto(w, to) == pc' = [pc EXCEPT ![w] = to]
Bounds == <<runs, removals, panicked>>

\* determineProject() and fixUpProjectName().
ProjectName(w) == norm[stacks[w].name]

\* An event of stack w is handled: createEnvironment(), constructProject().
Begin(w) == /\ pc[w] = "idle"
            /\ runs[w] < MaxRuns
            /\ runs' = [runs EXCEPT ![w] = @ + 1]
            /\ Goto(w, "byName")
            /\ env' = [env EXCEPT ![w] = 0]
            /\ made' = [made EXCEPT ![w] = 0]
            /\ svc' = [svc EXCEPT ![w] = 0]
            /\ result' = [result EXCEPT ![w] = "none"]
            /\ UNCHANGED <<stacks, services, removals, panicked>>

-----------------------------------------------------------------------------
(* loadEnv()                                                               *)

\* strings.EqualFold(ProjectName, name), for the stacks that are not removed.
EqualFold(w) == {i \in DOMAIN stacks : /\ ~ stacks[i].removed
                                       /\ lower[stacks[i].name] = ProjectName(w)}

\* What the filter by name leaves of them.
ByName(w) == {i \in EqualFold(w) : CaseSensitive => stacks[i].name = ProjectName(w)}

\* The first of the stacks listed, or another look.
Take(w, found, otherwise) ==
    /\ \/ /\ \E i \in found : env' = [env EXCEPT ![w] = i]
          /\ Goto(w, "find")
       \/ /\ found = {}
          /\ Goto(w, otherwise)
          /\ UNCHANGED env
    /\ UNCHANGED <<stacks, services, made, svc, result, Bounds>>

\* "First try by name"
ListByName(w) == pc[w] = "byName" /\ Take(w, ByName(w), "all")

\* Mutant: without the second list.
ListNothing(w) == pc[w] = "all" /\ Take(w, {}, "createStack")

\* "Now try not by name for case sensitive databases"
ListAll(w) == pc[w] = "all" /\ Take(w, EqualFold(w), "createStack")

\* Environment.Create().
CreateStack(w) ==
    /\ pc[w] = "createStack"
    /\ stacks' = Append(stacks, [name |-> ProjectName(w), removed |-> FALSE])
    /\ env' = [env EXCEPT ![w] = Len(stacks) + 1]
    /\ Goto(w, "find")
    /\ UNCHANGED <<services, made, svc, result, Bounds>>

-----------------------------------------------------------------------------
(* RancherService.Create()                                                 *)

\* Mutant: only those that are no longer in transition.
ExistingActive(w) == {i \in DOMAIN services : /\ services[i].stack = env[w]
                                             /\ services[i].transitioning = "no"}

\* Service.List() by stack and name.  The name holds no "/", by which findExisting()
\* would look into another stack.
Existing(w) == {i \in DOMAIN services : services[i].stack = env[w] /\ ~ services[i].removed}

Return(w, res) == /\ Goto(w, "idle")
                  /\ result' = [result EXCEPT ![w] = res]

\* Mutant: whatever exists, a new one is made.
findNothing(w) == /\ pc[w] = "find"
                  /\ Goto(w, "post")
                  /\ UNCHANGED <<stacks, services, env, made, svc, result, Bounds>>

\* findExisting(): a service that exists is left as it is.
findExisting(w) == /\ pc[w] = "find"
                   /\ \/ Existing(w) # {} /\ Return(w, "nil")
                      \/ Existing(w) = {} /\ Goto(w, "post") /\ UNCHANGED result
                   /\ UNCHANGED <<stacks, services, env, made, svc, Bounds>>

\* createNormalService(), createExternalService(), createDnsService() and
\* createLbService() up to the POST, after their launch configurations and
\* certificates.  Only the first one goes on with the service of the answer.
createService(w) ==
    /\ pc[w] = "post"
    /\ services' = Append(services, [stack |-> env[w], removed |-> stacks[env[w]].removed,
                                     linked |-> FALSE, transitioning |-> "yes"])
    /\ made' = [made EXCEPT ![w] = Len(services) + 1]
    /\ IF kind[w] = "service"
       THEN svc' = [svc EXCEPT ![w] = Len(services) + 1] /\ Goto(w, "links")
       ELSE UNCHANGED svc /\ Goto(w, "refind")
    /\ UNCHANGED <<stacks, env, result, Bounds>>

\* The others look their service up.
refind(w) == /\ pc[w] = "refind"
             /\ \E i \in Existing(w) : svc' = [svc EXCEPT ![w] = i]
             /\ Goto(w, IF kind[w] = "dnsService" THEN "dnsLinks" ELSE "links")
             /\ UNCHANGED <<stacks, services, env, made, result, Bounds>>

\* The process ends, and with it every handler.
ProcessEnds == /\ pc' = [w \in Worker |-> "idle"]
               /\ UNCHANGED <<stacks, services, env, made, svc, result, runs, removals>>

\* Their service is gone: findExisting() returns nil and no error, and createDnsService()
\* or setupLinks() dereferences it.
refindNil(w) == /\ pc[w] = "refind"
                /\ Existing(w) = {}
                /\ ProcessEnds
                /\ panicked' = TRUE

\* createDnsService() sets the links a first time and drops the error.
dnsLinks(w) == /\ pc[w] = "dnsLinks"
               /\ \/ ~ services[svc[w]].removed
                     /\ services' = [services EXCEPT ![svc[w]].linked = TRUE]
                  \/ UNCHANGED services
               /\ Goto(w, "links")
               /\ UNCHANGED <<stacks, env, made, svc, result, Bounds>>

\* Mutant: an error of the links is dropped.
setupLinksUnchecked(w) ==
    /\ pc[w] = "links"
    /\ \/ services' = [services EXCEPT ![svc[w]].linked = TRUE]
       \/ UNCHANGED services
    /\ Goto(w, "wait")
    /\ UNCHANGED <<stacks, env, made, svc, result, Bounds>>

\* setupLinks(): getLinks() and ActionSetservicelinks(), which fails for a service
\* that has been removed.
setupLinks(w) == /\ pc[w] = "links"
                 /\ ~ services[svc[w]].removed
                 /\ services' = [services EXCEPT ![svc[w]].linked = TRUE]
                 /\ Goto(w, "wait")
                 /\ UNCHANGED <<stacks, env, made, svc, result, Bounds>>

\* Wait(): the service is no longer in transition, well or badly.
Wait(w) == /\ pc[w] = "wait"
           /\ services[svc[w]].transitioning # "yes"
           /\ Return(w, "nil")
           /\ UNCHANGED <<stacks, services, env, made, svc, Bounds>>

\* An API call fails: the handler reports the error.
ApiError(w) == /\ pc[w] # "idle"
               /\ Return(w, "error")
               /\ UNCHANGED <<stacks, services, env, made, svc, Bounds>>

Handle(w) == \/ ListByName(w) \/ ListAll(w) \/ CreateStack(w)
             \/ findExisting(w) \/ createService(w) \/ refind(w) \/ refindNil(w)
             \/ dnsLinks(w) \/ setupLinks(w) \/ Wait(w) \/ ApiError(w)

-----------------------------------------------------------------------------
(* Cattle, its users, and the process as a whole.                          *)

Settle(i) == /\ services[i].transitioning = "yes"
             /\ \E t \in {"no", "error"} :
                   services' = [services EXCEPT ![i].transitioning = t]
             /\ UNCHANGED <<stacks, pc, env, made, svc, result, Bounds>>

Removing == /\ removals < MaxRemovals
            /\ removals' = removals + 1
            /\ UNCHANGED <<pc, env, made, svc, result, runs, panicked>>

RemoveService(i) == /\ Removing
                    /\ services' = [services EXCEPT ![i].removed = TRUE]
                    /\ UNCHANGED stacks

RemoveStack(i) == /\ Removing
                  /\ stacks' = [stacks EXCEPT ![i].removed = TRUE]
                  /\ services' = [j \in DOMAIN services |->
                        IF services[j].stack = i THEN [services[j] EXCEPT !.removed = TRUE]
                                                 ELSE services[j]]

\* The process is killed.
Crash == /\ \E w \in Worker : pc[w] # "idle"
         /\ ProcessEnds
         /\ UNCHANGED panicked

Next == \/ \E w \in Worker : Begin(w) \/ Handle(w)
        \/ \E i \in DOMAIN services : Settle(i) \/ RemoveService(i)
        \/ \E i \in DOMAIN stacks : RemoveStack(i)
        \/ Crash

Spec == Init /\ [][Next]_vars

-----------------------------------------------------------------------------
(* Properties.                                                             *)

\* A handler that goes to another stack than its event's has a reason: its name is
\* changed by more than case, its stack has been removed, or there is another stack of the
\* project name (loadEnv, fixUpProjectName).  So the services of a stack with a name that is
\* in order and its own are made in that stack, in a database of either kind and
\* after any number of attempts.
OwnStack ==
    \A w \in Worker : env[w] \notin {0, w} =>
        \/ lower[stacks[w].name] # ProjectName(w)
        \/ stacks[w].removed
        \/ \E v \in Worker \ {w} : ProjectName(v) = ProjectName(w)

Distinct(w) == \A v \in Worker \ {w} : ProjectName(v) # ProjectName(w)

\* Attempts that failed, were cut off or were repeated never leave two services of
\* one name in a stack, as long as the project names of the stacks handled differ
\* (Create() looks before it makes, and the two are not one step).
NoTwins ==
    \A i, j \in DOMAIN services :
        /\ services[i].stack = services[j].stack
        /\ ~ services[i].removed /\ ~ services[j].removed
        /\ \A w \in Worker : ProjectName(w) = lower[stacks[services[i].stack].name] => Distinct(w)
        => i = j

\* If Create() returns nil for a service that it made, the links of that service are
\* set and it is no longer in transition, whatever its type and although the first
\* error of a DNS service is dropped.  (A transition may have ended in an error.)
NilMeansComplete ==
    \A w \in Worker : result[w] = "nil" /\ made[w] # 0 /\ Distinct(w) =>
        services[made[w]].linked /\ services[made[w]].transitioning # "yes"

\* The process panics only if a user has removed a service, or its stack, while it
\* was being made (createExternalService, createDnsService, createLbService).
PanicNeedsRemoval == panicked => removals > 0

-----------------------------------------------------------------------------
(* The strengthening of the invariants that is inductive.                  *)

\* loadEnv() cannot find the stack of u's event.
Lost(u) == lower[stacks[u].name] # ProjectName(u) \/ stacks[u].removed

\* A stack that a handler has made has the project name of one that was lost.
MadeForLost ==
    \A i \in DOMAIN stacks : i > NWorkers =>
        \E u \in Worker : stacks[i].name = ProjectName(u) /\ Lost(u)

\* What a handler knows of its stack and its service.  If its project name is its
\* own, nobody else makes services in its stack.
Knows(w) ==
    /\ env[w] # 0 => lower[stacks[env[w]].name] = ProjectName(w)
    /\ pc[w] = "createStack" => Lost(w)
    /\ pc[w] # "idle" => result[w] = "none"
    /\ pc[w] \in {"byName", "all", "createStack", "find", "post"} => made[w] = 0
    /\ pc[w] = "refind" => made[w] # 0 /\ services[made[w]].stack = env[w]
    /\ pc[w] = "wait" => services[svc[w]].linked
    /\ Distinct(w) =>
          /\ pc[w] = "post" => Existing(w) = {}
          /\ pc[w] = "refind" => Existing(w) \subseteq {made[w]}
          /\ pc[w] \in {"dnsLinks", "links", "wait"} => svc[w] = made[w]

NothingRemoved == removals = 0 => \A i \in DOMAIN stacks : ~ stacks[i].removed
NoServiceRemoved == removals = 0 => \A i \in DOMAIN services : ~ services[i].removed

StackInv == /\ TypeOK /\ MadeForLost /\ (\A w \in Worker : Knows(w))
            /\ NothingRemoved /\ NoServiceRemoved
            /\ NoTwins /\ NilMeansComplete /\ PanicNeedsRemoval
=============================================================================
