------------------------- MODULE RancherStackProofs -------------------------
(***************************************************************************)
(* Proofs about the handlers of several stacks, for any number of          *)
(* handlers, deliveries, removals, names and types of services.            *)
(***************************************************************************)
EXTENDS RancherStack, SequenceTheorems, TLAPS

-----------------------------------------------------------------------------
(* Stacks and services only grow older.                                    *)

StacksGrow(ss, tt) ==
    /\ Len(ss) <= Len(tt)
    /\ \A i \in 1..Len(ss) : tt[i].name = ss[i].name /\ (ss[i].removed => tt[i].removed)

ServicesGrow(ss, tt) ==
    /\ Len(ss) <= Len(tt)
    /\ \A i \in 1..Len(ss) : /\ tt[i].stack = ss[i].stack
                             /\ ss[i].removed => tt[i].removed
                             /\ ss[i].linked => tt[i].linked
                             /\ ss[i].transitioning # "yes" => tt[i].transitioning # "yes"

Complete(w) == result[w] = "nil" /\ made[w] # 0 /\ Distinct(w) =>
                   services[made[w]].linked /\ services[made[w]].transitioning # "yes"

\* NilMeansComplete, handler by handler.
LEMMA CompleteEach == NilMeansComplete <=> \A w \in Worker : Complete(w)
  BY DEF NilMeansComplete, Complete

\* What the types say of the sequences.
LEMMA Shapes ==
  ASSUME TypeOK
  PROVE  /\ stacks \in Seq(Stack) /\ services \in Seq(Service)
         /\ Len(stacks) \in Nat /\ Len(services) \in Nat /\ NWorkers \in Nat
         /\ DOMAIN stacks = 1..Len(stacks) /\ DOMAIN services = 1..Len(services)
         /\ NWorkers <= Len(stacks)
         /\ \A w \in Worker : w \in 1..Len(stacks)
         /\ \A i \in 1..Len(stacks) : stacks[i] \in Stack
         /\ \A i \in 1..Len(services) : services[i] \in Service
         /\ \A i \in 1..Len(services) : services[i].stack \in 1..Len(stacks)
  BY StackAssumption DEF TypeOK, Worker

\* The project names stay, and a lost stack stays lost.
LEMMA NamesStay ==
  ASSUME TypeOK, StacksGrow(stacks, stacks')
  PROVE  /\ \A w \in Worker : ProjectName(w)' = ProjectName(w)
         /\ \A w \in Worker : Lost(w) => Lost(w)'
         /\ \A w \in Worker : Distinct(w)' <=> Distinct(w)
<1>1. \A w \in Worker : /\ stacks'[w].name = stacks[w].name
                        /\ stacks[w].removed => stacks'[w].removed
  BY Shapes DEF StacksGrow
<1>2. \A w \in Worker : ProjectName(w)' = ProjectName(w)
  BY <1>1 DEF ProjectName
<1>3. \A w \in Worker : Lost(w) => Lost(w)'
  BY <1>1, <1>2 DEF Lost
<1>4. \A w \in Worker : Distinct(w)' <=> Distinct(w)
  BY <1>2 DEF Distinct, Worker
<1> QED
  BY <1>2, <1>3, <1>4

\* What handler w knows stays true when others act, unless a service is made in its
\* stack although its project name is its own.
LEMMA KnowsStays ==
  ASSUME TypeOK, StacksGrow(stacks, stacks'), ServicesGrow(services, services'),
         services' \in Seq(Service),
         NEW w \in Worker, Knows(w), Complete(w),
         pc'[w] = pc[w], env'[w] = env[w], made'[w] = made[w], svc'[w] = svc[w],
         result'[w] = result[w],
         Distinct(w) /\ env[w] # 0 => \A i \in DOMAIN services' : i > Len(services) => services'[i].stack # env[w]
  PROVE  Knows(w)' /\ Complete(w)'
<1>0. /\ env[w] \in {0} \cup 1..Len(stacks) /\ made[w] \in {0} \cup 1..Len(services)
      /\ svc[w] \in {0} \cup 1..Len(services)
      /\ pc[w] \notin {"idle", "byName", "all", "createStack"} => env[w] # 0
      /\ pc[w] \in {"dnsLinks", "links", "wait"} => svc[w] # 0
  BY Shapes DEF TypeOK
<1>1. ProjectName(w)' = ProjectName(w) /\ (Lost(w) => Lost(w)') /\ (Distinct(w)' <=> Distinct(w))
  BY NamesStay
<1>2. env[w] # 0 => stacks'[env[w]].name = stacks[env[w]].name
  BY <1>0 DEF StacksGrow
<1>3. Distinct(w) /\ env[w] # 0 => Existing(w)' \subseteq Existing(w)
  <2> SUFFICES ASSUME Distinct(w), env[w] # 0, NEW i \in Existing(w)' PROVE i \in Existing(w)
    OBVIOUS
  <2>1. i \in DOMAIN services' /\ services'[i].stack = env[w] /\ ~ services'[i].removed
    BY DEF Existing
  <2>2. i \in 1..Len(services)
    BY <2>1, Shapes
  <2> QED
    BY <2>1, <2>2, Shapes DEF Existing, ServicesGrow
<1>4. made[w] # 0 => /\ services'[made[w]].stack = services[made[w]].stack
                     /\ services[made[w]].linked => services'[made[w]].linked
                     /\ services[made[w]].transitioning # "yes" => services'[made[w]].transitioning # "yes"
  BY <1>0 DEF ServicesGrow
<1>5. svc[w] # 0 => (services[svc[w]].linked => services'[svc[w]].linked)
  BY <1>0 DEF ServicesGrow
<1>6. Complete(w)'
  BY <1>1, <1>4 DEF Complete
<1>7. /\ env'[w] # 0 => lower[stacks'[env'[w]].name] = ProjectName(w)'
      /\ pc'[w] = "createStack" => Lost(w)'
      /\ pc'[w] # "idle" => result'[w] = "none"
      /\ pc'[w] \in {"byName", "all", "createStack", "find", "post"} => made'[w] = 0
      /\ pc'[w] = "refind" => made'[w] # 0 /\ services'[made'[w]].stack = env'[w]
      /\ pc'[w] = "wait" => services'[svc'[w]].linked
  BY <1>0, <1>1, <1>2, <1>4, <1>5 DEF Knows
<1>8. ASSUME Distinct(w)
      PROVE  /\ pc'[w] = "post" => Existing(w)' = {}
             /\ pc'[w] = "refind" => Existing(w)' \subseteq {made'[w]}
             /\ pc'[w] \in {"dnsLinks", "links", "wait"} => svc'[w] = made'[w]
  BY <1>8, <1>0, <1>3 DEF Knows
<1> QED
  BY <1>1, <1>6, <1>7, <1>8 DEF Knows

\* No twins are made when no service is.
LEMMA TwinsStay ==
  ASSUME TypeOK, NoTwins, StacksGrow(stacks, stacks'), ServicesGrow(services, services'),
         services' \in Seq(Service), Len(services') = Len(services)
  PROVE  NoTwins'
<1> SUFFICES ASSUME NEW i \in DOMAIN services', NEW j \in DOMAIN services',
                    services'[i].stack = services'[j].stack,
                    ~ services'[i].removed, ~ services'[j].removed,
                    \A w \in Worker : ProjectName(w)' = lower[stacks'[services'[i].stack].name] => Distinct(w)'
             PROVE  i = j
  BY DEF NoTwins
<1>1. i \in 1..Len(services) /\ j \in 1..Len(services) /\ services[i].stack \in 1..Len(stacks)
  BY Shapes
<1>2. /\ services[i].stack = services[j].stack /\ services'[i].stack = services[i].stack
      /\ ~ services[i].removed /\ ~ services[j].removed
  BY <1>1 DEF ServicesGrow
<1>3. stacks'[services'[i].stack].name = stacks[services[i].stack].name
  BY <1>1, <1>2 DEF StacksGrow
<1>4. \A w \in Worker : ProjectName(w) = lower[stacks[services[i].stack].name] => Distinct(w)
  BY <1>3, NamesStay
<1> QED
  BY <1>1, <1>2, <1>4, Shapes DEF NoTwins

\* A stack made for a lost one stays explained.
LEMMA ExplainedStays ==
  ASSUME TypeOK, MadeForLost, StacksGrow(stacks, stacks'), stacks' \in Seq(Stack),
         \A i \in DOMAIN stacks' : i > Len(stacks) =>
            \E u \in Worker : stacks'[i].name = ProjectName(u) /\ Lost(u)
  PROVE  MadeForLost'
<1> SUFFICES ASSUME NEW i \in DOMAIN stacks', i > NWorkers
             PROVE  \E u \in Worker : stacks'[i].name = ProjectName(u)' /\ Lost(u)'
  BY DEF MadeForLost, Worker
<1>1. CASE i > Len(stacks)
  BY <1>1, NamesStay
<1>2. CASE ~ i > Len(stacks)
  <2>1. i \in 1..Len(stacks) /\ stacks'[i].name = stacks[i].name
    BY <1>2, Shapes DEF StacksGrow
  <2>2. \E u \in Worker : stacks[i].name = ProjectName(u) /\ Lost(u)
    BY <2>1, Shapes DEF MadeForLost
  <2> QED
    BY <2>1, <2>2, NamesStay
<1> QED
  BY <1>1, <1>2

-----------------------------------------------------------------------------
(* The inductive invariant: frames of the steps.                           *)

\* At first every handler is idle and there is no service.
LEMMA InitStackInv == Init => StackInv
<1> SUFFICES ASSUME Init PROVE StackInv
  OBVIOUS
<1>1. PICK name \in StackNames : stacks = [w \in Worker |-> [name |-> name[w], removed |-> FALSE]]
  BY DEF Init
<1>2. name \in [1..NWorkers -> Name] /\ NWorkers \in Nat
  BY StackAssumption
<1>3. /\ stacks \in [1..NWorkers -> Stack] /\ \A i \in 1..NWorkers : ~ stacks[i].removed
  <2>1. \A w \in 1..NWorkers : [name |-> name[w], removed |-> FALSE] \in Stack
    BY <1>2 DEF Stack
  <2> QED
    BY <2>1, <1>1 DEF Worker
<1>4. stacks \in Seq(Stack) /\ Len(stacks) = NWorkers /\ DOMAIN stacks = 1..NWorkers
  BY <1>2, <1>3
<1>5. services = << >> /\ services \in Seq(Service) /\ DOMAIN services = {}
  BY DEF Init
<1>6. TypeOK
  <2>1. /\ pc \in [Worker -> PC] /\ result \in [Worker -> {"none", "nil", "error"}]
        /\ env \in [Worker -> {0} \cup DOMAIN stacks] /\ made \in [Worker -> {0} \cup DOMAIN services]
        /\ svc \in [Worker -> {0} \cup DOMAIN services]
    BY DEF Init, PC
  <2>2. runs \in [Worker -> 0..MaxRuns] /\ removals \in 0..MaxRemovals
    BY StackAssumption DEF Init
  <2>3. panicked \in BOOLEAN
    BY DEF Init
  <2>4. \A w \in Worker : pc[w] = "idle"
    BY DEF Init
  <2> QED
    BY <1>2, <1>4, <1>5, <2>1, <2>2, <2>3, <2>4 DEF TypeOK
<1>7. MadeForLost
  BY <1>2, <1>4 DEF MadeForLost
<1>8. \A w \in Worker : Knows(w)
  BY DEF Init, Knows
<1>9. NothingRemoved /\ NoServiceRemoved
  BY <1>3, <1>4, <1>5 DEF NothingRemoved, NoServiceRemoved
<1>10. NoTwins /\ NilMeansComplete
  BY <1>5 DEF NoTwins, NilMeansComplete, Init
<1>11. PanicNeedsRemoval
  BY DEF Init, PanicNeedsRemoval
<1> QED
  BY <1>6, <1>7, <1>8, <1>9, <1>10, <1>11 DEF StackInv

\* The types, when handler w goes to `to'.
LEMMA TypesOfStep ==
  ASSUME TypeOK, stacks' \in Seq(Stack), services' \in Seq(Service),
         Len(stacks) <= Len(stacks'), Len(services) <= Len(services'),
         \A i \in DOMAIN services' : services'[i].stack \in DOMAIN stacks',
         NEW w \in Worker, NEW to \in PC, NEW e \in {0} \cup DOMAIN stacks',
         NEW m \in {0} \cup DOMAIN services', NEW v \in {0} \cup DOMAIN services',
         NEW r \in {"none", "nil", "error"},
         pc' = [pc EXCEPT ![w] = to], env' = [env EXCEPT ![w] = e],
         made' = [made EXCEPT ![w] = m], svc' = [svc EXCEPT ![w] = v],
         result' = [result EXCEPT ![w] = r],
         to \notin {"idle", "byName", "all", "createStack"} => e # 0,
         to \in {"dnsLinks", "links", "wait"} => v # 0,
         runs' \in [Worker -> 0..MaxRuns], removals' \in 0..MaxRemovals, panicked' \in BOOLEAN
  PROVE  TypeOK'
<1>1. 1..Len(stacks) \subseteq 1..Len(stacks') /\ 1..Len(services) \subseteq 1..Len(services')
      /\ NWorkers <= Len(stacks')
      /\ DOMAIN stacks' = 1..Len(stacks') /\ DOMAIN services' = 1..Len(services')
  BY Shapes
<1>2. pc' \in [Worker -> PC] /\ result' \in [Worker -> {"none", "nil", "error"}]
  BY DEF TypeOK
<1>3. env' \in [Worker -> {0} \cup DOMAIN stacks']
  BY <1>1, Shapes DEF TypeOK
<1>4. made' \in [Worker -> {0} \cup DOMAIN services'] /\ svc' \in [Worker -> {0} \cup DOMAIN services']
  BY <1>1, Shapes DEF TypeOK
<1>5. \A u \in Worker : /\ pc'[u] \notin {"idle", "byName", "all", "createStack"} => env'[u] # 0
                        /\ pc'[u] \in {"dnsLinks", "links", "wait"} => svc'[u] # 0
  BY DEF TypeOK
<1> QED
  BY <1>1, <1>2, <1>3, <1>4, <1>5 DEF TypeOK

\* A step of handler w: the others are left alone.
LEMMA StepOf ==
  ASSUME StackInv, stacks' \in Seq(Stack), services' \in Seq(Service),
         StacksGrow(stacks, stacks'), ServicesGrow(services, services'),
         NEW w \in Worker, NEW to, NEW e, NEW m, NEW v, NEW r,
         pc' = [pc EXCEPT ![w] = to], env' = [env EXCEPT ![w] = e],
         made' = [made EXCEPT ![w] = m], svc' = [svc EXCEPT ![w] = v],
         result' = [result EXCEPT ![w] = r],
         \A u \in Worker : u # w /\ Distinct(u) /\ env[u] # 0 =>
            \A i \in DOMAIN services' : i > Len(services) => services'[i].stack # env[u],
         Knows(w)', Complete(w)'
  PROVE  (\A u \in Worker : Knows(u)') /\ NilMeansComplete'
<1>1. ASSUME NEW u \in Worker, u # w PROVE Knows(u)' /\ Complete(u)'
  <2>1. /\ pc'[u] = pc[u] /\ env'[u] = env[u] /\ made'[u] = made[u] /\ svc'[u] = svc[u]
        /\ result'[u] = result[u]
    BY <1>1 DEF StackInv, TypeOK
  <2>2. TypeOK /\ Knows(u) /\ Complete(u)
    BY CompleteEach DEF StackInv
  <2> QED
    BY <1>1, <2>1, <2>2, KnowsStays
<1>2. \A u \in Worker : Knows(u)' /\ Complete(u)'
  BY <1>1
<1> QED
  BY <1>2 DEF NilMeansComplete, Complete

\* A step of handler w that changes neither stacks nor services.
LEMMA LookKeepsInv ==
  ASSUME StackInv, UNCHANGED <<stacks, services, removals, panicked>>,
         NEW w \in Worker, NEW to \in PC, NEW e \in {0} \cup DOMAIN stacks,
         NEW m \in {0} \cup DOMAIN services, NEW v \in {0} \cup DOMAIN services,
         NEW r \in {"none", "nil", "error"},
         pc' = [pc EXCEPT ![w] = to], env' = [env EXCEPT ![w] = e],
         made' = [made EXCEPT ![w] = m], svc' = [svc EXCEPT ![w] = v],
         result' = [result EXCEPT ![w] = r],
         to \notin {"idle", "byName", "all", "createStack"} => e # 0,
         to \in {"dnsLinks", "links", "wait"} => v # 0,
         runs' \in [Worker -> 0..MaxRuns],
         Knows(w)', Complete(w)'
  PROVE  StackInv'
<1>1. TypeOK /\ removals \in 0..MaxRemovals /\ panicked \in BOOLEAN
      /\ \A i \in DOMAIN services : services[i].stack \in DOMAIN stacks
  BY DEF StackInv, TypeOK
<1>2. StacksGrow(stacks, stacks') /\ ServicesGrow(services, services')
      /\ stacks' \in Seq(Stack) /\ services' \in Seq(Service)
  BY <1>1, Shapes DEF StacksGrow, ServicesGrow
<1>3. TypeOK'
  <2>1. Len(stacks) <= Len(stacks') /\ Len(services) <= Len(services')
    BY <1>2 DEF StacksGrow, ServicesGrow
  <2>2. /\ \A i \in DOMAIN services' : services'[i].stack \in DOMAIN stacks'
        /\ e \in {0} \cup DOMAIN stacks' /\ m \in {0} \cup DOMAIN services' /\ v \in {0} \cup DOMAIN services'
        /\ removals' \in 0..MaxRemovals
    BY <1>1
  <2>3. panicked' \in BOOLEAN
    BY <1>1
  <2> QED
    BY <1>1, <1>2, <2>1, <2>2, <2>3, TypesOfStep
<1>4. (\A u \in Worker : Knows(u)') /\ NilMeansComplete'
  <2>1. \A i \in DOMAIN services' : ~ i > Len(services)
    BY <1>1, Shapes
  <2> QED
    BY <1>2, <2>1, StepOf
<1>5. MadeForLost'
  <2>1. MadeForLost /\ \A i \in DOMAIN stacks' : ~ i > Len(stacks)
    BY <1>1, Shapes DEF StackInv
  <2> QED
    BY <1>1, <1>2, <2>1, ExplainedStays
<1>6. NoTwins'
  BY <1>1, <1>2, TwinsStay DEF StackInv
<1>7. NothingRemoved' /\ NoServiceRemoved'
  BY DEF StackInv, NothingRemoved, NoServiceRemoved
<1>8. PanicNeedsRemoval'
  BY DEF StackInv, PanicNeedsRemoval
<1> QED
  BY <1>3, <1>4, <1>5, <1>6, <1>7, <1>8 DEF StackInv

\* The values of handler w.
LEMMA Values ==
  ASSUME TypeOK, NEW w \in Worker
  PROVE  /\ pc[w] \in PC /\ env[w] \in {0} \cup DOMAIN stacks /\ made[w] \in {0} \cup DOMAIN services
         /\ svc[w] \in {0} \cup DOMAIN services /\ result[w] \in {"none", "nil", "error"}
         /\ pc[w] \notin {"idle", "byName", "all", "createStack"} => env[w] # 0
         /\ pc[w] \in {"dnsLinks", "links", "wait"} => svc[w] # 0
         /\ env = [env EXCEPT ![w] = env[w]] /\ made = [made EXCEPT ![w] = made[w]]
         /\ svc = [svc EXCEPT ![w] = svc[w]] /\ result = [result EXCEPT ![w] = result[w]]
         /\ runs \in [Worker -> 0..MaxRuns] /\ removals \in 0..MaxRemovals
         /\ DOMAIN pc = Worker /\ DOMAIN env = Worker /\ DOMAIN made = Worker
         /\ DOMAIN svc = Worker /\ DOMAIN result = Worker
  BY DEF TypeOK

\* The same when w keeps the service it has made.
LEMMA LookOnKeepsInv ==
  ASSUME StackInv, UNCHANGED <<stacks, services, made, runs, removals, panicked>>,
         NEW w \in Worker, NEW to \in PC, pc' = [pc EXCEPT ![w] = to],
         env' = env \/ \E e \in DOMAIN stacks : env' = [env EXCEPT ![w] = e],
         svc' = svc \/ \E v \in DOMAIN services : svc' = [svc EXCEPT ![w] = v],
         result' = result \/ \E r \in {"nil", "error"} : result' = [result EXCEPT ![w] = r],
         to \notin {"idle", "byName", "all", "createStack"} => env'[w] # 0,
         to \in {"dnsLinks", "links", "wait"} => svc'[w] # 0,
         Knows(w)', Complete(w)'
  PROVE  StackInv'
<1>0. TypeOK
  BY DEF StackInv
<1>1. PICK e : e = env'[w]
  OBVIOUS
<1>2. PICK m : m = made[w]
  OBVIOUS
<1>3. PICK v : v = svc'[w]
  OBVIOUS
<1>4. PICK r : r = result'[w]
  OBVIOUS
<1>5. env' = [env EXCEPT ![w] = e] /\ e \in {0} \cup DOMAIN stacks
  BY <1>0, <1>1, Values
<1>6. made' = [made EXCEPT ![w] = m] /\ m \in {0} \cup DOMAIN services
  BY <1>0, <1>2, Values
<1>7. svc' = [svc EXCEPT ![w] = v] /\ v \in {0} \cup DOMAIN services
  BY <1>0, <1>3, Values
<1>8. result' = [result EXCEPT ![w] = r] /\ r \in {"none", "nil", "error"}
  BY <1>0, <1>4, Values
<1>9. runs' \in [Worker -> 0..MaxRuns]
  BY <1>0, Values
<1>10. /\ to \notin {"idle", "byName", "all", "createStack"} => e # 0
       /\ to \in {"dnsLinks", "links", "wait"} => v # 0
  BY <1>1, <1>3
<1> QED
  BY <1>5, <1>6, <1>7, <1>8, <1>9, <1>10, LookKeepsInv

-----------------------------------------------------------------------------
(* The steps that only look.                                               *)

\* An event arrives.
LEMMA BeginKeepsInv == ASSUME StackInv, NEW w \in Worker, Begin(w) PROVE StackInv'
<1>0. TypeOK
  BY DEF StackInv
<1>1. /\ pc' = [pc EXCEPT ![w] = "byName"] /\ env' = [env EXCEPT ![w] = 0]
      /\ made' = [made EXCEPT ![w] = 0] /\ svc' = [svc EXCEPT ![w] = 0]
      /\ result' = [result EXCEPT ![w] = "none"]
      /\ UNCHANGED <<stacks, services, removals, panicked>>
  BY DEF Begin, Goto
<1>2. runs' \in [Worker -> 0..MaxRuns]
  BY <1>0, StackAssumption DEF Begin, TypeOK
<1>3. /\ pc'[w] = "byName" /\ env'[w] = 0 /\ made'[w] = 0 /\ svc'[w] = 0 /\ result'[w] = "none"
  BY <1>0, <1>1, Values
<1>4. Knows(w)' /\ Complete(w)'
  BY <1>3 DEF Knows, Complete
<1>5. /\ "byName" \in PC /\ "none" \in {"none", "nil", "error"}
      /\ 0 \in {0} \cup DOMAIN stacks /\ 0 \in {0} \cup DOMAIN services
  BY DEF PC
<1> QED
  BY <1>1, <1>2, <1>4, <1>5, LookKeepsInv

\* Either list of loadEnv().
LEMMA TakeKeepsInv ==
  ASSUME StackInv, NEW w \in Worker, NEW found \in SUBSET EqualFold(w), NEW otherwise \in {"all", "createStack"},
         pc[w] \in {"byName", "all"}, Take(w, found, otherwise),
         otherwise = "createStack" => found = EqualFold(w)
  PROVE  StackInv'
<1>0. TypeOK /\ Knows(w)
  BY DEF StackInv
<1>1. UNCHANGED <<stacks, services, made, svc, result, runs, removals, panicked>>
  BY DEF Take, Bounds
<1>2. made[w] = 0 /\ result[w] = "none"
  BY <1>0 DEF Knows
<1>3. ProjectName(w)' = ProjectName(w) /\ (Lost(w)' <=> Lost(w))
  BY <1>1 DEF ProjectName, Lost
<1>4. CASE \E i \in found : env' = [env EXCEPT ![w] = i] /\ pc' = [pc EXCEPT ![w] = "find"]
  <2>1. PICK i \in found : env' = [env EXCEPT ![w] = i] /\ pc' = [pc EXCEPT ![w] = "find"]
    BY <1>4
  <2>2. i \in DOMAIN stacks /\ lower[stacks[i].name] = ProjectName(w) /\ i # 0
    BY <1>0, Shapes DEF EqualFold
  <2>3. pc'[w] = "find" /\ env'[w] = i
    BY <1>0, <2>1, Values
  <2>4. Knows(w)' /\ Complete(w)'
    BY <1>1, <1>2, <1>3, <2>2, <2>3 DEF Knows, Complete
  <2>5. "find" \in PC
    BY DEF PC
  <2> QED
    BY <1>0, <1>1, <2>1, <2>2, <2>4, <2>5, Values, LookOnKeepsInv
<1>5. CASE found = {} /\ pc' = [pc EXCEPT ![w] = otherwise] /\ env' = env
  <2>1. pc'[w] = otherwise
    BY <1>0, <1>5, Values
  <2>2. otherwise = "createStack" => Lost(w)
    BY <1>0, <1>5, Shapes DEF EqualFold, Lost
  <2>3. Knows(w)' /\ Complete(w)'
    BY <1>0, <1>1, <1>2, <1>3, <1>5, <2>1, <2>2 DEF Knows, Complete
  <2>4. otherwise \in PC
    BY DEF PC
  <2> QED
    BY <1>0, <1>1, <1>5, <2>3, <2>4, Values, LookOnKeepsInv
<1> QED
  BY <1>4, <1>5 DEF Take, Goto

\* loadEnv(): by name and then not by name.
LEMMA ListsKeepInv ==
  ASSUME StackInv, NEW w \in Worker, ListByName(w) \/ ListAll(w) PROVE StackInv'
<1>1. CASE ListByName(w)
  <2>1. ByName(w) \in SUBSET EqualFold(w)
    BY DEF ByName
  <2> QED
    BY <1>1, <2>1, TakeKeepsInv DEF ListByName
<1>2. CASE ListAll(w)
  BY <1>2, TakeKeepsInv DEF ListAll
<1> QED
  BY <1>1, <1>2

\* findExisting(), the look-up after the POST, the end of Wait(), and an error.
LEMMA LooksKeepInv ==
  ASSUME StackInv, NEW w \in Worker, findExisting(w) \/ refind(w) \/ Wait(w) \/ ApiError(w)
  PROVE  StackInv'
<1>0. TypeOK /\ Knows(w)
  BY DEF StackInv
<1>1. UNCHANGED <<stacks, services, env, made, runs, removals, panicked>>
  BY DEF findExisting, refind, Wait, ApiError, Bounds
<1>2. /\ ProjectName(w)' = ProjectName(w) /\ Existing(w)' = Existing(w)
      /\ Distinct(w)' <=> Distinct(w)
  BY <1>1 DEF ProjectName, Existing, Distinct, Worker
<1>3. "idle" \in PC /\ "post" \in PC /\ "dnsLinks" \in PC /\ "links" \in PC
  BY DEF PC
<1>4. CASE findExisting(w)
  <2>1. made[w] = 0 /\ env[w] # 0 /\ svc' = svc /\ result[w] = "none" /\ pc[w] = "find"
    BY <1>0, <1>4, Values DEF findExisting, Knows
  <2>2. CASE pc' = [pc EXCEPT ![w] = "idle"] /\ result' = [result EXCEPT ![w] = "nil"]
    <3>1. pc'[w] = "idle" /\ result'[w] = "nil"
      BY <1>0, <2>2, Values
    <3>2. Knows(w)' /\ Complete(w)'
      BY <1>0, <1>1, <1>2, <2>1, <3>1 DEF Knows, Complete
    <3> QED
      BY <1>0, <1>1, <1>3, <2>1, <2>2, <3>2, Values, LookOnKeepsInv
  <2>3. CASE Existing(w) = {} /\ pc' = [pc EXCEPT ![w] = "post"] /\ result' = result
    <3>1. pc'[w] = "post"
      BY <1>0, <2>3, Values
    <3>2. Knows(w)' /\ Complete(w)'
      BY <1>0, <1>1, <1>2, <2>1, <2>3, <3>1 DEF Knows, Complete
    <3> QED
      BY <1>0, <1>1, <1>3, <2>1, <2>3, <3>2, Values, LookOnKeepsInv
  <2> QED
    BY <1>4, <2>2, <2>3 DEF findExisting, Return, Goto
<1>5. CASE refind(w)
  <2>1. PICK i \in Existing(w) : svc' = [svc EXCEPT ![w] = i]
    BY <1>5 DEF refind
  <2>2. PICK to : to = IF kind[w] = "dnsService" THEN "dnsLinks" ELSE "links"
    OBVIOUS
  <2>3. pc[w] = "refind" /\ pc' = [pc EXCEPT ![w] = to] /\ result' = result
    BY <1>5, <2>2 DEF refind, Goto
  <2>4. to \in {"dnsLinks", "links"} /\ to \in PC
    BY <2>2, <1>3
  <2>5. pc'[w] = to /\ svc'[w] = i /\ i \in DOMAIN services /\ i # 0 /\ env[w] # 0
    BY <1>0, <2>1, <2>3, Values, Shapes DEF Existing
  <2>6. made[w] # 0 /\ (Distinct(w) => i = made[w]) /\ result[w] = "none"
    BY <1>0, <2>3 DEF Knows
  <2>7. Knows(w)' /\ Complete(w)'
    BY <1>0, <1>1, <1>2, <2>3, <2>4, <2>5, <2>6 DEF Knows, Complete
  <2> QED
    BY <1>0, <1>1, <2>1, <2>3, <2>4, <2>5, <2>7, Values, LookOnKeepsInv
<1>6. CASE Wait(w)
  <2>1. /\ pc[w] = "wait" /\ services[svc[w]].transitioning # "yes"
        /\ pc' = [pc EXCEPT ![w] = "idle"] /\ result' = [result EXCEPT ![w] = "nil"] /\ svc' = svc
    BY <1>6 DEF Wait, Return, Goto
  <2>2. pc'[w] = "idle" /\ result'[w] = "nil"
    BY <1>0, <2>1, Values
  <2>3. services[svc[w]].linked /\ (Distinct(w) => svc[w] = made[w])
    BY <1>0, <2>1 DEF Knows
  <2>4. Complete(w)'
    BY <1>1, <1>2, <2>1, <2>3 DEF Complete
  <2>5. Knows(w)'
    BY <1>0, <1>1, <1>2, <2>2 DEF Knows
  <2> QED
    BY <1>0, <1>1, <1>3, <2>1, <2>4, <2>5, Values, LookOnKeepsInv
<1>7. CASE ApiError(w)
  <2>1. /\ pc' = [pc EXCEPT ![w] = "idle"] /\ result' = [result EXCEPT ![w] = "error"] /\ svc' = svc
    BY <1>7 DEF ApiError, Return, Goto
  <2>2. pc'[w] = "idle" /\ result'[w] = "error"
    BY <1>0, <2>1, Values
  <2>3. Knows(w)' /\ Complete(w)'
    BY <1>0, <1>1, <1>2, <2>2 DEF Knows, Complete
  <2> QED
    BY <1>0, <1>1, <1>3, <2>1, <2>3, Values, LookOnKeepsInv
<1> QED
  BY <1>4, <1>5, <1>6, <1>7

-----------------------------------------------------------------------------
(* The steps that make stacks and services.                                *)

\* A service is replaced by an older one.
LEMMA ServiceReplaced ==
  ASSUME TypeOK, NEW i \in 1..Len(services), NEW x \in Service,
         x.stack = services[i].stack, services[i].removed => x.removed,
         services[i].linked => x.linked,
         services[i].transitioning # "yes" => x.transitioning # "yes",
         services' = [services EXCEPT ![i] = x]
  PROVE  /\ services' \in Seq(Service) /\ Len(services') = Len(services)
         /\ ServicesGrow(services, services') /\ services'[i] = x
         /\ \A j \in 1..Len(services) : j # i => services'[j] = services[j]
<1>1. services \in Seq(Service)
  BY Shapes
<1>2. /\ services' \in Seq(Service) /\ Len(services') = Len(services) /\ services'[i] = x
      /\ \A j \in 1..Len(services) : j # i => services'[j] = services[j]
  BY <1>1, ExceptSeq
<1> QED
  BY <1>2, Shapes DEF ServicesGrow

\* A service whose links are set.
LEMMA LinkSet ==
  ASSUME TypeOK, NEW i \in 1..Len(services)
  PROVE  services' = [services EXCEPT ![i].linked = TRUE] =>
         /\ services' \in Seq(Service) /\ Len(services') = Len(services)
         /\ ServicesGrow(services, services') /\ services'[i].linked
         /\ \A j \in 1..Len(services) : services'[j].stack = services[j].stack
         /\ \A j \in 1..Len(services) : services'[j].removed <=> services[j].removed
<1>1. PICK x : x = [services[i] EXCEPT !.linked = TRUE]
  OBVIOUS
<1>2. /\ x \in Service /\ x.stack = services[i].stack /\ x.removed = services[i].removed
      /\ x.linked /\ x.transitioning = services[i].transitioning
  BY <1>1, Shapes DEF Service
<1>3. ASSUME services' = [services EXCEPT ![i] = x]
      PROVE  /\ services' \in Seq(Service) /\ Len(services') = Len(services)
             /\ ServicesGrow(services, services') /\ services'[i] = x
             /\ \A j \in 1..Len(services) : j # i => services'[j] = services[j]
  BY <1>2, <1>3, ServiceReplaced
<1>4. services' = [services EXCEPT ![i].linked = TRUE] => services' = [services EXCEPT ![i] = x]
  BY <1>1
<1> QED
  BY <1>2, <1>3, <1>4

\* The links of a service are set, or not, by its handler.
LEMMA LinksKeepInv ==
  ASSUME StackInv, NEW w \in Worker, dnsLinks(w) \/ setupLinks(w) PROVE StackInv'
<1>0. TypeOK /\ Knows(w)
  BY DEF StackInv
<1>1. UNCHANGED <<stacks, env, made, svc, result, runs, removals, panicked>>
      /\ pc[w] \in {"dnsLinks", "links"}
  BY DEF dnsLinks, setupLinks, Bounds
<1>2. PICK i : i = svc[w]
  OBVIOUS
<1>3. i \in 1..Len(services) /\ env[w] # 0
  BY <1>0, <1>1, <1>2, Values, Shapes
<1>4. PICK to : to = IF pc[w] = "dnsLinks" THEN "links" ELSE "wait"
  OBVIOUS
<1>5. /\ pc' = [pc EXCEPT ![w] = to] /\ to \in {"links", "wait"} /\ to \in PC /\ pc'[w] = to
      /\ \/ services' = [services EXCEPT ![i].linked = TRUE]
         \/ to = "links" /\ services' = services
  <2>1. to \in {"links", "wait"} /\ to \in PC
    BY <1>4 DEF PC
  <2>2. pc' = [pc EXCEPT ![w] = to]
    BY <1>4 DEF dnsLinks, setupLinks, Goto
  <2>3. \/ services' = [services EXCEPT ![i].linked = TRUE]
        \/ to = "links" /\ services' = services
    BY <1>2, <1>4 DEF dnsLinks, setupLinks
  <2> QED
    BY <2>1, <2>2, <2>3, <1>0, Values
<1>6. /\ services' \in Seq(Service) /\ Len(services') = Len(services) /\ ServicesGrow(services, services')
      /\ to = "wait" => services'[i].linked
      /\ \A j \in 1..Len(services) : services'[j].stack = services[j].stack
      /\ \A j \in 1..Len(services) : services'[j].removed <=> services[j].removed
  <2>1. CASE services' = services /\ to = "links"
    BY <2>1, <1>0, Shapes DEF ServicesGrow
  <2>2. CASE services' = [services EXCEPT ![i].linked = TRUE]
    BY <2>2, <1>0, <1>3, LinkSet
  <2> QED
    BY <2>1, <2>2, <1>5
<1>7. StacksGrow(stacks, stacks') /\ stacks' \in Seq(Stack)
  BY <1>0, <1>1, Shapes DEF StacksGrow
<1>8. DOMAIN services' = 1..Len(services) /\ DOMAIN services = 1..Len(services)
  BY <1>0, <1>6, Shapes
<1>9. TypeOK'
  <2>1. /\ pc' \in [Worker -> PC] /\ \A u \in Worker : pc'[u] = IF u = w THEN to ELSE pc[u]
    BY <1>0, <1>5 DEF TypeOK
  <2>2. \A u \in Worker : /\ pc'[u] \notin {"idle", "byName", "all", "createStack"} => env'[u] # 0
                          /\ pc'[u] \in {"dnsLinks", "links", "wait"} => svc'[u] # 0
    BY <1>0, <1>1, <2>1, Values
  <2>3. \A j \in DOMAIN services' : services'[j].stack \in DOMAIN stacks'
    BY <1>0, <1>1, <1>6, <1>8, Shapes
  <2>4. panicked' \in BOOLEAN
    BY <1>0, <1>1 DEF TypeOK
  <2> QED
    BY <1>0, <1>1, <1>6, <1>7, <1>8, <2>1, <2>2, <2>3, <2>4 DEF TypeOK
<1>10. Knows(w)' /\ Complete(w)'
  <2>1. /\ ProjectName(w)' = ProjectName(w) /\ (Distinct(w)' <=> Distinct(w))
    BY <1>0, <1>7, NamesStay
  <2>2. result[w] = "none" /\ (Distinct(w) => svc[w] = made[w])
    BY <1>0, <1>1 DEF Knows
  <2>3. Complete(w)'
    BY <1>1, <2>2 DEF Complete
  <2>4. Knows(w)'
    BY <1>0, <1>1, <1>2, <1>5, <1>6, <2>1, <2>2 DEF Knows
  <2> QED
    BY <2>3, <2>4
<1>11. (\A u \in Worker : Knows(u)') /\ NilMeansComplete'
  <2>1. ASSUME NEW u \in Worker, u # w PROVE Knows(u)' /\ Complete(u)'
    <3>1. pc'[u] = pc[u]
      BY <1>0, <1>5, <2>1 DEF TypeOK
    <3>2. \A j \in DOMAIN services' : ~ j > Len(services)
      BY <1>0, <1>8, Shapes
    <3>3. Knows(u) /\ Complete(u)
      BY CompleteEach DEF StackInv
    <3>4. env'[u] = env[u] /\ made'[u] = made[u] /\ svc'[u] = svc[u] /\ result'[u] = result[u]
      BY <1>1
    <3> QED
      BY <1>0, <1>6, <1>7, <3>1, <3>2, <3>3, <3>4, KnowsStays
  <2>2. \A u \in Worker : Knows(u)' /\ Complete(u)'
    BY <2>1, <1>10
  <2> QED
    BY <2>2 DEF NilMeansComplete, Complete
<1>12. MadeForLost'
  <2>1. MadeForLost /\ \A j \in DOMAIN stacks' : ~ j > Len(stacks)
    BY <1>0, <1>1, Shapes DEF StackInv
  <2> QED
    BY <1>0, <1>7, <2>1, ExplainedStays
<1>13. NoTwins'
  BY <1>0, <1>6, <1>7, TwinsStay DEF StackInv
<1>14. NothingRemoved' /\ NoServiceRemoved'
  BY <1>1, <1>6, <1>8 DEF StackInv, NothingRemoved, NoServiceRemoved
<1>15. PanicNeedsRemoval'
  BY <1>1 DEF StackInv, PanicNeedsRemoval
<1> QED
  BY <1>9, <1>11, <1>12, <1>13, <1>14, <1>15 DEF StackInv

\* A stack is added.
LEMMA StackAdded ==
  ASSUME NEW ss \in Seq(Stack), NEW x \in Stack
  PROVE  /\ Append(ss, x) \in Seq(Stack) /\ Len(Append(ss, x)) = Len(ss) + 1
         /\ Append(ss, x)[Len(ss) + 1] = x
         /\ \A j \in 1..Len(ss) : Append(ss, x)[j] = ss[j]
         /\ StacksGrow(ss, Append(ss, x))
<1>1. /\ Append(ss, x) \in Seq(Stack) /\ Len(Append(ss, x)) = Len(ss) + 1
      /\ Append(ss, x)[Len(ss) + 1] = x
      /\ \A j \in 1..Len(ss) : Append(ss, x)[j] = ss[j]
  OBVIOUS
<1> QED
  BY <1>1 DEF StacksGrow

\* A service is added.
LEMMA ServiceAdded ==
  ASSUME NEW ss \in Seq(Service), NEW x \in Service
  PROVE  /\ Append(ss, x) \in Seq(Service) /\ Len(Append(ss, x)) = Len(ss) + 1
         /\ Append(ss, x)[Len(ss) + 1] = x
         /\ \A j \in 1..Len(ss) : Append(ss, x)[j] = ss[j]
         /\ ServicesGrow(ss, Append(ss, x))
<1>1. /\ Append(ss, x) \in Seq(Service) /\ Len(Append(ss, x)) = Len(ss) + 1
      /\ Append(ss, x)[Len(ss) + 1] = x
      /\ \A j \in 1..Len(ss) : Append(ss, x)[j] = ss[j]
  OBVIOUS
<1> QED
  BY <1>1 DEF ServicesGrow

\* Environment.Create(): the handler's own stack was lost.
LEMMA CreateStackKeepsInv ==
  ASSUME StackInv, NEW w \in Worker, CreateStack(w) PROVE StackInv'
<1>0. TypeOK /\ Knows(w)
  BY DEF StackInv
<1>1. PICK x : x = [name |-> ProjectName(w), removed |-> FALSE]
  OBVIOUS
<1>2. /\ pc[w] = "createStack" /\ stacks' = Append(stacks, x)
      /\ env' = [env EXCEPT ![w] = Len(stacks) + 1] /\ pc' = [pc EXCEPT ![w] = "find"]
      /\ UNCHANGED <<services, made, svc, result, runs, removals, panicked>>
  BY <1>1 DEF CreateStack, Goto, Bounds
<1>3. ProjectName(w) \in Name /\ lower[ProjectName(w)] = ProjectName(w)
  <2>1. stacks[w].name \in Name
    BY <1>0, Shapes DEF Stack
  <2> QED
    BY <2>1, StackAssumption DEF ProjectName
<1>4. x \in Stack /\ x.name = ProjectName(w) /\ ~ x.removed
  BY <1>1, <1>3 DEF Stack
<1>5. /\ stacks' \in Seq(Stack) /\ Len(stacks') = Len(stacks) + 1 /\ stacks'[Len(stacks) + 1] = x
      /\ \A j \in 1..Len(stacks) : stacks'[j] = stacks[j]
      /\ StacksGrow(stacks, stacks')
  <2>1. stacks \in Seq(Stack)
    BY <1>0, Shapes
  <2> QED
    BY <1>2, <1>4, <2>1, StackAdded
<1>6. PICK e : e = Len(stacks) + 1
  OBVIOUS
<1>7. /\ e \in DOMAIN stacks' /\ e # 0 /\ DOMAIN stacks' = 1..e /\ env' = [env EXCEPT ![w] = e]
      /\ pc'[w] = "find" /\ env'[w] = e /\ stacks'[e] = x
  <2>1. Len(stacks) \in Nat
    BY <1>0, Shapes
  <2>2. e \in Nat /\ e # 0 /\ Len(stacks') = e /\ DOMAIN stacks' = 1..e
    BY <1>5, <1>6, <2>1
  <2>3. env' = [env EXCEPT ![w] = e] /\ stacks'[e] = x
    BY <1>2, <1>5, <1>6
  <2>4. pc'[w] = "find" /\ env'[w] = e
    BY <1>0, <1>2, <2>3, Values
  <2> QED
    BY <2>2, <2>3, <2>4
<1>8. ServicesGrow(services, services') /\ services' \in Seq(Service)
  BY <1>0, <1>2, Shapes DEF ServicesGrow
<1>9. made[w] = 0 /\ result[w] = "none" /\ Lost(w)
  BY <1>0, <1>2 DEF Knows
<1>10. Knows(w)' /\ Complete(w)'
  <2>1. ProjectName(w)' = ProjectName(w)
    BY <1>0, <1>5, NamesStay
  <2> QED
    BY <1>2, <1>3, <1>4, <1>7, <1>9, <2>1 DEF Knows, Complete
<1>11. TypeOK'
  <2>1. pc' \in [Worker -> PC]
    BY <1>0, <1>2 DEF TypeOK, PC
  <2>2. env' \in [Worker -> {0} \cup DOMAIN stacks']
    <3>1. DOMAIN stacks \subseteq DOMAIN stacks'
      BY <1>0, <1>6, <1>7, Shapes
    <3> QED
      BY <1>0, <1>7, <3>1 DEF TypeOK
  <2>3. \A u \in Worker : /\ pc'[u] \notin {"idle", "byName", "all", "createStack"} => env'[u] # 0
                          /\ pc'[u] \in {"dnsLinks", "links", "wait"} => svc'[u] # 0
    BY <1>0, <1>2, <1>7 DEF TypeOK
  <2>4. NWorkers <= Len(stacks') /\ \A i \in DOMAIN services' : services'[i].stack \in DOMAIN stacks'
    BY <1>0, <1>2, <1>5, <1>6, <1>7, Shapes
  <2>5. panicked' \in BOOLEAN
    BY <1>0, <1>2 DEF TypeOK
  <2> QED
    BY <1>0, <1>2, <1>5, <1>8, <2>1, <2>2, <2>3, <2>4, <2>5 DEF TypeOK
<1>12. (\A u \in Worker : Knows(u)') /\ NilMeansComplete'
  <2>1. ASSUME NEW u \in Worker, u # w PROVE Knows(u)' /\ Complete(u)'
    <3>1. pc'[u] = pc[u] /\ env'[u] = env[u]
      BY <1>0, <1>2, <2>1 DEF TypeOK
    <3>2. \A j \in DOMAIN services' : ~ j > Len(services)
      BY <1>0, <1>2, Shapes
    <3>3. Knows(u) /\ Complete(u)
      BY CompleteEach DEF StackInv
    <3>4. made'[u] = made[u] /\ svc'[u] = svc[u] /\ result'[u] = result[u]
      BY <1>2
    <3> QED
      BY <1>0, <1>5, <1>8, <3>1, <3>2, <3>3, <3>4, KnowsStays
  <2>2. \A u \in Worker : Knows(u)' /\ Complete(u)'
    BY <2>1, <1>10
  <2> QED
    BY <2>2 DEF NilMeansComplete, Complete
<1>13. MadeForLost'
  <2>1. \A i \in DOMAIN stacks' : i > Len(stacks) =>
            \E u \in Worker : stacks'[i].name = ProjectName(u) /\ Lost(u)
    <3> SUFFICES ASSUME NEW i \in DOMAIN stacks', i > Len(stacks) PROVE stacks'[i].name = ProjectName(w)
      BY <1>9
    <3>1. i = e
      BY <1>0, <1>6, <1>7, Shapes
    <3> QED
      BY <3>1, <1>4, <1>7
  <2> QED
    BY <1>0, <1>5, <2>1, ExplainedStays DEF StackInv
<1>14. NoTwins'
  BY <1>0, <1>2, <1>5, <1>8, TwinsStay DEF StackInv
<1>15. NothingRemoved' /\ NoServiceRemoved'
  <2>1. \A i \in DOMAIN stacks' : i = e \/ (i \in DOMAIN stacks /\ stacks'[i] = stacks[i])
    BY <1>0, <1>5, <1>6, <1>7, Shapes
  <2>2. removals = 0 => \A i \in DOMAIN stacks : ~ stacks[i].removed
    BY DEF StackInv, NothingRemoved
  <2>3. NothingRemoved'
    BY <2>1, <2>2, <1>2, <1>4, <1>7 DEF NothingRemoved
  <2> QED
    BY <2>3, <1>2 DEF StackInv, NoServiceRemoved
<1>16. PanicNeedsRemoval'
  BY <1>2 DEF StackInv, PanicNeedsRemoval
<1> QED
  BY <1>11, <1>12, <1>13, <1>14, <1>15, <1>16 DEF StackInv

\* The POST: nobody else makes services in the stack if the project name is w's own.
LEMMA CreateServiceKeepsInv ==
  ASSUME StackInv, NEW w \in Worker, createService(w) PROVE StackInv'
<1>0. TypeOK /\ Knows(w)
  BY DEF StackInv
<1>1. PICK x : x = [stack |-> env[w], removed |-> stacks[env[w]].removed,
                    linked |-> FALSE, transitioning |-> "yes"]
  OBVIOUS
<1>2. PICK n : n = Len(services) + 1
  OBVIOUS
<1>3. PICK to : to = IF kind[w] = "service" THEN "links" ELSE "refind"
  OBVIOUS
<1>4. PICK v : v = IF kind[w] = "service" THEN n ELSE svc[w]
  OBVIOUS
<1>5. /\ pc[w] = "post" /\ services' = Append(services, x)
      /\ made' = [made EXCEPT ![w] = n] /\ pc' = [pc EXCEPT ![w] = to]
      /\ UNCHANGED <<stacks, env, result, runs, removals, panicked>>
  BY <1>1, <1>2, <1>3 DEF createService, Goto, Bounds
<1>6. svc' = [svc EXCEPT ![w] = v]
  BY <1>0, <1>2, <1>4, Values DEF createService
<1>7. env[w] \in 1..Len(stacks) /\ made[w] = 0 /\ result[w] = "none" /\ svc[w] \in {0} \cup 1..Len(services)
  BY <1>0, <1>5, Values, Shapes DEF Knows
<1>8. /\ x \in Service /\ x.stack = env[w]
      /\ removals = 0 => ~ x.removed
  <2>1. stacks[env[w]] \in Stack /\ env[w] \in Nat
    BY <1>0, <1>7, Shapes
  <2>2. stacks[env[w]].removed \in BOOLEAN
    BY <2>1 DEF Stack
  <2>3. removals = 0 => ~ stacks[env[w]].removed
    BY <1>0, <1>7, Shapes DEF StackInv, NothingRemoved
  <2>4. x \in Service /\ x.stack = env[w] /\ x.removed = stacks[env[w]].removed
    BY <1>1, <2>1, <2>2 DEF Service
  <2> QED
    BY <2>3, <2>4
<1>9. /\ services' \in Seq(Service) /\ Len(services') = n /\ services'[n] = x
      /\ \A j \in 1..Len(services) : services'[j] = services[j]
      /\ ServicesGrow(services, services')
  <2>1. services \in Seq(Service)
    BY <1>0, Shapes
  <2> QED
    BY <1>2, <1>5, <1>8, <2>1, ServiceAdded
<1>10. /\ n \in Nat /\ n # 0 /\ DOMAIN services' = 1..n /\ n \in 1..n
       /\ Len(services) \in Nat /\ 1..Len(services) \subseteq 1..n
       /\ DOMAIN services = 1..Len(services)
       /\ \A j \in 1..n : j = n \/ (j \in 1..Len(services) /\ services'[j] = services[j])
  BY <1>0, <1>2, <1>9, Shapes
<1>11. StacksGrow(stacks, stacks') /\ stacks' \in Seq(Stack)
  BY <1>0, <1>5, Shapes DEF StacksGrow
<1>12. /\ pc'[w] = to /\ made'[w] = n /\ svc'[w] = v /\ to \in {"links", "refind"} /\ to \in PC
       /\ v \in {0} \cup 1..n /\ (to = "links" => v = n)
  <2>1. to \in {"links", "refind"} /\ to \in PC
    BY <1>3 DEF PC
  <2>2. v \in {0} \cup 1..n /\ (to = "links" => v = n)
    BY <1>3, <1>4, <1>7, <1>10
  <2> QED
    BY <1>0, <1>5, <1>6, <2>1, <2>2, Values
<1>13. TypeOK'
  <2>1. pc' \in [Worker -> PC]
    BY <1>0, <1>5, <1>12 DEF TypeOK
  <2>2. made' \in [Worker -> {0} \cup DOMAIN services'] /\ svc' \in [Worker -> {0} \cup DOMAIN services']
    BY <1>0, <1>5, <1>6, <1>10, <1>12 DEF TypeOK
  <2>3. \A u \in Worker : /\ pc'[u] \notin {"idle", "byName", "all", "createStack"} => env'[u] # 0
                          /\ pc'[u] \in {"dnsLinks", "links", "wait"} => svc'[u] # 0
    BY <1>0, <1>5, <1>6, <1>7, <1>10, <1>12 DEF TypeOK
  <2>4. \A i \in DOMAIN services' : services'[i].stack \in DOMAIN stacks'
    BY <1>0, <1>5, <1>7, <1>8, <1>9, <1>10, Shapes
  <2>5. panicked' \in BOOLEAN
    BY <1>0, <1>5 DEF TypeOK
  <2> QED
    BY <1>0, <1>5, <1>9, <1>11, <2>1, <2>2, <2>3, <2>4, <2>5 DEF TypeOK
<1>14. /\ ProjectName(w)' = ProjectName(w) /\ (Distinct(w)' <=> Distinct(w))
       /\ lower[stacks[env[w]].name] = ProjectName(w)
  BY <1>0, <1>7, <1>11, NamesStay DEF Knows
<1>15. Distinct(w) => Existing(w) = {} /\ Existing(w)' \subseteq {n}
  BY <1>0, <1>5, <1>9, <1>10 DEF Existing, Knows
<1>16. Knows(w)' /\ Complete(w)'
  <2>1. Complete(w)'
    BY <1>5, <1>7 DEF Complete
  <2>2. Knows(w)'
    BY <1>5, <1>7, <1>8, <1>9, <1>10, <1>12, <1>14, <1>15 DEF Knows
  <2> QED
    BY <2>1, <2>2
<1>17. (\A u \in Worker : Knows(u)') /\ NilMeansComplete'
  <2>1. ASSUME NEW u \in Worker, u # w PROVE Knows(u)' /\ Complete(u)'
    <3>1. pc'[u] = pc[u] /\ made'[u] = made[u] /\ svc'[u] = svc[u] /\ env'[u] = env[u] /\ result'[u] = result[u]
      BY <1>0, <1>5, <1>6, <2>1 DEF TypeOK
    <3>2. Knows(u) /\ Complete(u)
      BY CompleteEach DEF StackInv
    <3>3. Distinct(u) /\ env[u] # 0 => env[u] # env[w]
      BY <3>2, <2>1, <1>14 DEF Knows, Distinct
    <3>4. \A i \in DOMAIN services' : i > Len(services) => services'[i].stack = env[w]
      BY <1>8, <1>9, <1>10
    <3>5. Distinct(u) /\ env[u] # 0 =>
            \A i \in DOMAIN services' : i > Len(services) => services'[i].stack # env[u]
      BY <3>3, <3>4
    <3> QED
      BY <1>0, <1>9, <1>11, <3>1, <3>2, <3>5, KnowsStays
  <2>2. \A u \in Worker : Knows(u)' /\ Complete(u)'
    BY <2>1, <1>16
  <2> QED
    BY <2>2 DEF NilMeansComplete, Complete
<1>18. MadeForLost'
  <2>1. MadeForLost /\ \A j \in DOMAIN stacks' : ~ j > Len(stacks)
    BY <1>0, <1>5, Shapes DEF StackInv
  <2> QED
    BY <1>0, <1>11, <2>1, ExplainedStays
<1>19. NoTwins'
  <2> SUFFICES ASSUME NEW i \in DOMAIN services', NEW j \in DOMAIN services',
                      services'[i].stack = services'[j].stack,
                      ~ services'[i].removed, ~ services'[j].removed,
                      \A u \in Worker : ProjectName(u)' = lower[stacks'[services'[i].stack].name] => Distinct(u)'
               PROVE  i = j
    BY DEF NoTwins
  <2>1. \A u \in Worker : ProjectName(u) = lower[stacks[services'[i].stack].name] => Distinct(u)
    BY <1>0, <1>5, <1>11, NamesStay
  <2>2. CASE services'[i].stack = env[w]
    <3>1. Distinct(w)
      BY <2>1, <2>2, <1>14
    <3>2. i \in Existing(w)' /\ j \in Existing(w)'
      BY <2>2, <1>5 DEF Existing
    <3> QED
      BY <3>1, <3>2, <1>15
  <2>3. CASE services'[i].stack # env[w]
    <3>1. i \in DOMAIN services /\ j \in DOMAIN services /\ services'[i] = services[i] /\ services'[j] = services[j]
      BY <2>3, <1>8, <1>9, <1>10
    <3> QED
      BY <3>1, <2>1 DEF StackInv, NoTwins
  <2> QED
    BY <2>2, <2>3
<1>20. NothingRemoved' /\ NoServiceRemoved'
  <2>1. NothingRemoved'
    BY <1>5 DEF StackInv, NothingRemoved
  <2>2. removals = 0 => \A i \in DOMAIN services : ~ services[i].removed
    BY DEF StackInv, NoServiceRemoved
  <2> QED
    BY <2>1, <2>2, <1>5, <1>8, <1>9, <1>10 DEF NoServiceRemoved
<1>21. PanicNeedsRemoval'
  BY <1>5 DEF StackInv, PanicNeedsRemoval
<1> QED
  BY <1>13, <1>17, <1>18, <1>19, <1>20, <1>21 DEF StackInv

-----------------------------------------------------------------------------
(* Cattle, its users, and the end of the process.                          *)

\* A step of neither handler that may end them all.
LEMMA OutsideKeepsInv ==
  ASSUME StackInv, stacks' \in Seq(Stack), services' \in Seq(Service),
         Len(stacks') = Len(stacks), Len(services') = Len(services),
         StacksGrow(stacks, stacks'), ServicesGrow(services, services'),
         UNCHANGED <<env, made, svc, result, runs>>,
         pc' = pc \/ pc' = [w \in Worker |-> "idle"],
         removals' \in 0..MaxRemovals, panicked' \in BOOLEAN,
         NothingRemoved', NoServiceRemoved', PanicNeedsRemoval'
  PROVE  StackInv'
<1>0. TypeOK
  BY DEF StackInv
<1>1. DOMAIN stacks' = DOMAIN stacks /\ DOMAIN services' = DOMAIN services
  BY <1>0, Shapes
<1>2. pc' \in [Worker -> PC] /\ \A w \in Worker : pc'[w] \in {pc[w], "idle"}
  BY <1>0 DEF TypeOK, PC
<1>3. TypeOK'
  <2>1. \A i \in DOMAIN services' : services'[i].stack \in DOMAIN stacks'
    BY <1>0, <1>1, Shapes DEF ServicesGrow
  <2>2. \A u \in Worker : /\ pc'[u] \notin {"idle", "byName", "all", "createStack"} => env'[u] # 0
                          /\ pc'[u] \in {"dnsLinks", "links", "wait"} => svc'[u] # 0
    BY <1>0, <1>2, Values
  <2> QED
    BY <1>0, <1>1, <1>2, <2>1, <2>2 DEF TypeOK
<1>4. (\A u \in Worker : Knows(u)') /\ NilMeansComplete'
  <2>1. ASSUME NEW u \in Worker PROVE Knows(u)' /\ Complete(u)'
    <3>1. Knows(u) /\ Complete(u)
      BY CompleteEach DEF StackInv
    <3>2. \A j \in DOMAIN services' : ~ j > Len(services)
      BY <1>0, <1>1, Shapes
    <3>3. env'[u] = env[u] /\ made'[u] = made[u] /\ svc'[u] = svc[u] /\ result'[u] = result[u]
      OBVIOUS
    <3>4. CASE pc'[u] = pc[u]
      BY <1>0, <3>1, <3>2, <3>3, <3>4, KnowsStays
    <3>5. CASE pc'[u] = "idle"
      <4>1. ProjectName(u)' = ProjectName(u) /\ (Distinct(u)' <=> Distinct(u))
        BY <1>0, NamesStay
      <4>2. env[u] # 0 => stacks'[env[u]].name = stacks[env[u]].name
        BY <1>0, Values, Shapes DEF StacksGrow
      <4>3. made[u] # 0 => /\ services[made[u]].linked => services'[made[u]].linked
                           /\ services[made[u]].transitioning # "yes" => services'[made[u]].transitioning # "yes"
        BY <1>0, Values, Shapes DEF ServicesGrow
      <4>4. Complete(u)'
        BY <3>1, <3>3, <4>1, <4>3 DEF Complete
      <4>5. Knows(u)'
        BY <3>1, <3>3, <3>5, <4>1, <4>2 DEF Knows
      <4> QED
        BY <4>4, <4>5
    <3> QED
      BY <1>2, <3>4, <3>5
  <2> QED
    BY <2>1 DEF NilMeansComplete, Complete
<1>5. MadeForLost'
  <2>1. MadeForLost /\ \A j \in DOMAIN stacks' : ~ j > Len(stacks)
    BY <1>0, <1>1, Shapes DEF StackInv
  <2> QED
    BY <1>0, <2>1, ExplainedStays
<1>6. NoTwins'
  BY <1>0, TwinsStay DEF StackInv
<1> QED
  BY <1>3, <1>4, <1>5, <1>6 DEF StackInv

\* The process ends: by a crash, or in the handler that finds no service where it has
\* just made one.  Then somebody has removed it.
LEMMA EndsKeepInv ==
  ASSUME StackInv, Crash \/ \E w \in Worker : refindNil(w) PROVE StackInv'
<1>0. TypeOK
  BY DEF StackInv
<1>1. /\ pc' = [w \in Worker |-> "idle"]
      /\ UNCHANGED <<stacks, services, env, made, svc, result, runs, removals>>
  BY DEF Crash, refindNil, ProcessEnds
<1>2. StacksGrow(stacks, stacks') /\ ServicesGrow(services, services')
      /\ stacks' \in Seq(Stack) /\ services' \in Seq(Service)
      /\ Len(stacks') = Len(stacks) /\ Len(services') = Len(services)
  BY <1>0, <1>1, Shapes DEF StacksGrow, ServicesGrow
<1>3. removals' \in 0..MaxRemovals /\ NothingRemoved' /\ NoServiceRemoved'
  BY <1>0, <1>1 DEF StackInv, NothingRemoved, NoServiceRemoved, TypeOK
<1>4. panicked' \in BOOLEAN /\ PanicNeedsRemoval'
  <2>1. CASE Crash
    BY <2>1, <1>0, <1>1 DEF Crash, StackInv, PanicNeedsRemoval, TypeOK
  <2>2. ASSUME NEW w \in Worker, refindNil(w) PROVE panicked' \in BOOLEAN /\ PanicNeedsRemoval'
    <3>1. pc[w] = "refind" /\ Existing(w) = {} /\ panicked' = TRUE
      BY <2>2 DEF refindNil
    <3>2. made[w] \in DOMAIN services /\ services[made[w]].stack = env[w]
      BY <3>1, <1>0, Values DEF StackInv, Knows
    <3>3. services[made[w]].removed
      BY <3>1, <3>2 DEF Existing
    <3>4. removals # 0
      BY <3>2, <3>3 DEF StackInv, NoServiceRemoved
    <3>5. removals > 0
      BY <3>4, <1>0, StackAssumption DEF TypeOK
    <3> QED
      BY <3>1, <3>5, <1>1 DEF PanicNeedsRemoval
  <2> QED
    BY <2>1, <2>2
<1> QED
  BY <1>1, <1>2, <1>3, <1>4, OutsideKeepsInv

\* A transition of a service ends.
LEMMA SettleKeepsInv ==
  ASSUME StackInv, NEW i \in DOMAIN services, Settle(i) PROVE StackInv'
<1>0. TypeOK /\ i \in 1..Len(services)
  BY Shapes DEF StackInv
<1>1. PICK t \in {"no", "error"} : services' = [services EXCEPT ![i].transitioning = t]
  BY DEF Settle
<1>2. UNCHANGED <<stacks, pc, env, made, svc, result, runs, removals, panicked>>
  BY DEF Settle, Bounds
<1>3. PICK x : x = [services[i] EXCEPT !.transitioning = t]
  OBVIOUS
<1>4. /\ x \in Service /\ x.stack = services[i].stack /\ x.removed = services[i].removed
      /\ x.linked = services[i].linked /\ x.transitioning = t
  BY <1>0, <1>3, Shapes DEF Service
<1>5. services' = [services EXCEPT ![i] = x]
  BY <1>1, <1>3
<1>6. /\ services' \in Seq(Service) /\ Len(services') = Len(services) /\ ServicesGrow(services, services')
      /\ services'[i] = x /\ \A j \in 1..Len(services) : j # i => services'[j] = services[j]
  BY <1>0, <1>4, <1>5, ServiceReplaced
<1>7. StacksGrow(stacks, stacks') /\ stacks' \in Seq(Stack) /\ Len(stacks') = Len(stacks)
  BY <1>0, <1>2, Shapes DEF StacksGrow
<1>8. NothingRemoved' /\ PanicNeedsRemoval' /\ removals' \in 0..MaxRemovals /\ panicked' \in BOOLEAN
  <2>1. NothingRemoved' /\ removals' \in 0..MaxRemovals
    BY <1>0, <1>2 DEF StackInv, NothingRemoved, TypeOK
  <2>2. panicked' \in BOOLEAN /\ PanicNeedsRemoval'
    BY <1>0, <1>2 DEF StackInv, PanicNeedsRemoval, TypeOK
  <2> QED
    BY <2>1, <2>2
<1>9. NoServiceRemoved'
  BY <1>0, <1>2, <1>4, <1>6, Shapes DEF StackInv, NoServiceRemoved
<1> QED
  BY <1>2, <1>6, <1>7, <1>8, <1>9, OutsideKeepsInv

\* A service has been removed.
LEMMA RemovedSet ==
  ASSUME TypeOK, NEW i \in 1..Len(services)
  PROVE  services' = [services EXCEPT ![i].removed = TRUE] =>
         /\ services' \in Seq(Service) /\ Len(services') = Len(services)
         /\ ServicesGrow(services, services')
<1>1. PICK x : x = [services[i] EXCEPT !.removed = TRUE]
  OBVIOUS
<1>2. /\ x \in Service /\ x.stack = services[i].stack /\ x.removed
      /\ x.linked = services[i].linked /\ x.transitioning = services[i].transitioning
  BY <1>1, Shapes DEF Service
<1>3. ASSUME services' = [services EXCEPT ![i] = x]
      PROVE  /\ services' \in Seq(Service) /\ Len(services') = Len(services)
             /\ ServicesGrow(services, services')
  BY <1>2, <1>3, ServiceReplaced
<1>4. services' = [services EXCEPT ![i].removed = TRUE] => services' = [services EXCEPT ![i] = x]
  BY <1>1
<1> QED
  BY <1>3, <1>4

\* A stack has been removed.
LEMMA StackRemovedSet ==
  ASSUME TypeOK, NEW i \in 1..Len(stacks)
  PROVE  stacks' = [stacks EXCEPT ![i].removed = TRUE] =>
         /\ stacks' \in Seq(Stack) /\ Len(stacks') = Len(stacks) /\ StacksGrow(stacks, stacks')
<1>1. PICK x : x = [stacks[i] EXCEPT !.removed = TRUE]
  OBVIOUS
<1>2. x \in Stack /\ x.name = stacks[i].name /\ x.removed
  BY <1>1, Shapes DEF Stack
<1>3. ASSUME stacks' = [stacks EXCEPT ![i] = x]
      PROVE  /\ stacks' \in Seq(Stack) /\ Len(stacks') = Len(stacks) /\ StacksGrow(stacks, stacks')
  <2>1. stacks \in Seq(Stack)
    BY Shapes
  <2>2. /\ stacks' \in Seq(Stack) /\ Len(stacks') = Len(stacks) /\ stacks'[i] = x
        /\ \A j \in 1..Len(stacks) : j # i => stacks'[j] = stacks[j]
    BY <1>2, <1>3, <2>1, ExceptSeq
  <2> QED
    BY <1>2, <2>2, Shapes DEF StacksGrow
<1>4. stacks' = [stacks EXCEPT ![i].removed = TRUE] => stacks' = [stacks EXCEPT ![i] = x]
  BY <1>1
<1> QED
  BY <1>3, <1>4

\* Its services have been removed with it.
LEMMA ServicesRemoved ==
  ASSUME TypeOK, NEW i
  PROVE  services' = [j \in DOMAIN services |->
                        IF services[j].stack = i THEN [services[j] EXCEPT !.removed = TRUE]
                                                 ELSE services[j]] =>
         /\ services' \in Seq(Service) /\ Len(services') = Len(services)
         /\ ServicesGrow(services, services')
<1>1. ASSUME NEW j \in 1..Len(services), NEW x,
             x = IF services[j].stack = i THEN [services[j] EXCEPT !.removed = TRUE] ELSE services[j]
      PROVE  /\ x \in Service /\ x.stack = services[j].stack /\ (services[j].removed => x.removed)
             /\ x.linked = services[j].linked /\ x.transitioning = services[j].transitioning
  <2>1. services[j] \in Service
    BY Shapes
  <2>2. CASE services[j].stack = i
    BY <1>1, <2>1, <2>2 DEF Service
  <2>3. CASE services[j].stack # i
    BY <1>1, <2>1, <2>3
  <2> QED
    BY <2>2, <2>3
<1> DEFINE f(j) == IF services[j].stack = i THEN [services[j] EXCEPT !.removed = TRUE] ELSE services[j]
<1>2. \A j \in 1..Len(services) :
         /\ f(j) \in Service /\ f(j).stack = services[j].stack /\ (services[j].removed => f(j).removed)
         /\ f(j).linked = services[j].linked /\ f(j).transitioning = services[j].transitioning
  BY <1>1
<1>3. DOMAIN services = 1..Len(services) /\ Len(services) \in Nat
  BY Shapes
<1> HIDE DEF f
<1>4. ASSUME services' = [j \in DOMAIN services |-> f(j)]
      PROVE  /\ services' \in Seq(Service) /\ Len(services') = Len(services)
             /\ ServicesGrow(services, services')
  <2>1. services' \in [1..Len(services) -> Service]
    BY <1>2, <1>3, <1>4
  <2>2. services' \in Seq(Service) /\ Len(services') = Len(services)
    BY <1>3, <2>1
  <2>3. \A j \in 1..Len(services) : services'[j] = f(j)
    BY <1>3, <1>4
  <2> QED
    BY <1>2, <1>3, <2>2, <2>3 DEF ServicesGrow
<1> QED
  BY <1>4 DEF f

\* Users remove.
LEMMA RemovalsKeepInv ==
  ASSUME StackInv, \/ \E i \in DOMAIN services : RemoveService(i)
                   \/ \E i \in DOMAIN stacks : RemoveStack(i)
  PROVE  StackInv'
<1>0. TypeOK
  BY DEF StackInv
<1>1. /\ removals < MaxRemovals /\ removals' = removals + 1
      /\ UNCHANGED <<pc, env, made, svc, result, runs, panicked>>
  BY DEF RemoveService, RemoveStack, Removing
<1>2. /\ removals' \in 0..MaxRemovals /\ removals' # 0 /\ removals' > 0
  BY <1>0, <1>1, StackAssumption DEF TypeOK
<1>3. NothingRemoved' /\ NoServiceRemoved'
  BY <1>2 DEF NothingRemoved, NoServiceRemoved
<1>4. PanicNeedsRemoval' /\ panicked' \in BOOLEAN
  BY <1>0, <1>1, <1>2 DEF PanicNeedsRemoval, TypeOK
<1>5. /\ services' \in Seq(Service) /\ Len(services') = Len(services) /\ ServicesGrow(services, services')
      /\ stacks' \in Seq(Stack) /\ Len(stacks') = Len(stacks) /\ StacksGrow(stacks, stacks')
  <2>1. ASSUME NEW i \in DOMAIN services, RemoveService(i)
        PROVE  /\ services' \in Seq(Service) /\ Len(services') = Len(services) /\ ServicesGrow(services, services')
               /\ stacks' \in Seq(Stack) /\ Len(stacks') = Len(stacks) /\ StacksGrow(stacks, stacks')
    <3>1. i \in 1..Len(services) /\ stacks \in Seq(Stack) /\ Len(stacks) \in Nat
      BY <1>0, <2>1, Shapes
    <3>2. services' = [services EXCEPT ![i].removed = TRUE] /\ stacks' = stacks
      BY <2>1 DEF RemoveService
    <3>3. StacksGrow(stacks, stacks')
      BY <3>1, <3>2 DEF StacksGrow
    <3> QED
      BY <1>0, <3>1, <3>2, <3>3, RemovedSet
  <2>2. ASSUME NEW i \in DOMAIN stacks, RemoveStack(i)
        PROVE  /\ services' \in Seq(Service) /\ Len(services') = Len(services) /\ ServicesGrow(services, services')
               /\ stacks' \in Seq(Stack) /\ Len(stacks') = Len(stacks) /\ StacksGrow(stacks, stacks')
    <3>1. i \in 1..Len(stacks)
      BY <1>0, <2>2, Shapes
    <3>2. stacks' \in Seq(Stack) /\ Len(stacks') = Len(stacks) /\ StacksGrow(stacks, stacks')
      BY <1>0, <2>2, <3>1, StackRemovedSet DEF RemoveStack
    <3>3. services' \in Seq(Service) /\ Len(services') = Len(services) /\ ServicesGrow(services, services')
      BY <1>0, <2>2, ServicesRemoved DEF RemoveStack
    <3> QED
      BY <3>2, <3>3
  <2> QED
    BY <2>1, <2>2
<1> QED
  BY <1>1, <1>2, <1>3, <1>4, <1>5, OutsideKeepsInv

\* A step that changes nothing.
LEMMA StackStutter == StackInv /\ UNCHANGED vars => StackInv'
<1> SUFFICES ASSUME StackInv, UNCHANGED vars PROVE StackInv'
  OBVIOUS
<1>0. TypeOK
  BY DEF StackInv
<1>1. UNCHANGED <<stacks, services, pc, env, made, svc, result, runs, removals, panicked>>
  BY DEF vars
<1>2. StacksGrow(stacks, stacks') /\ ServicesGrow(services, services')
      /\ stacks' \in Seq(Stack) /\ services' \in Seq(Service)
      /\ Len(stacks') = Len(stacks) /\ Len(services') = Len(services)
  BY <1>0, <1>1, Shapes DEF StacksGrow, ServicesGrow
<1>3. removals' \in 0..MaxRemovals /\ NothingRemoved' /\ NoServiceRemoved'
  BY <1>0, <1>1 DEF StackInv, NothingRemoved, NoServiceRemoved, TypeOK
<1>4. panicked' \in BOOLEAN /\ PanicNeedsRemoval'
  BY <1>0, <1>1 DEF StackInv, PanicNeedsRemoval, TypeOK
<1> QED
  BY <1>1, <1>2, <1>3, <1>4, OutsideKeepsInv

-----------------------------------------------------------------------------
(* The theorems.                                                           *)

\* The strengthening holds in every state: any number of handlers, each delivered
\* again and again, with errors, crashes and removals between any two calls
\* (loadEnv, RancherService.Create).
THEOREM StackInvariant == Spec => []StackInv
<1>1. StackInv /\ [Next]_vars => StackInv'
  <2> SUFFICES ASSUME StackInv, [Next]_vars PROVE StackInv'
    OBVIOUS
  <2>1. CASE UNCHANGED vars
    BY <2>1, StackStutter
  <2>2. ASSUME NEW w \in Worker, Begin(w) \/ Handle(w) PROVE StackInv'
    <3>1. CASE Begin(w)
      BY <3>1, BeginKeepsInv
    <3>2. CASE ListByName(w) \/ ListAll(w)
      BY <3>2, ListsKeepInv
    <3>3. CASE CreateStack(w)
      BY <3>3, CreateStackKeepsInv
    <3>4. CASE createService(w)
      BY <3>4, CreateServiceKeepsInv
    <3>5. CASE findExisting(w) \/ refind(w) \/ Wait(w) \/ ApiError(w)
      BY <3>5, LooksKeepInv
    <3>6. CASE refindNil(w)
      BY <3>6, EndsKeepInv
    <3>7. CASE dnsLinks(w) \/ setupLinks(w)
      BY <3>7, LinksKeepInv
    <3> QED
      BY <2>2, <3>1, <3>2, <3>3, <3>4, <3>5, <3>6, <3>7 DEF Handle
  <2>3. CASE \E i \in DOMAIN services : Settle(i)
    BY <2>3, SettleKeepsInv
  <2>4. CASE \/ \E i \in DOMAIN services : RemoveService(i)
             \/ \E i \in DOMAIN stacks : RemoveStack(i)
    BY <2>4, RemovalsKeepInv
  <2>5. CASE Crash
    BY <2>5, EndsKeepInv
  <2> QED
    BY <2>1, <2>2, <2>3, <2>4, <2>5 DEF Next
<1> QED
  BY InitStackInv, <1>1, PTL DEF Spec

\* The variables have their types: after loadEnv() there is a stack, and where links are
\* set there is a service.
THEOREM StackTypeCorrect == Spec => []TypeOK
<1>1. StackInv => TypeOK
  BY DEF StackInv
<1> QED
  BY StackInvariant, <1>1, PTL

\* A handler leaves the stack of its event only for a reason: the name, a removal, or
\* another stack of the project name (loadEnv, fixUpProjectName).
THEOREM OwnStackAlways == Spec => []OwnStack
<1>1. StackInv => OwnStack
  <2> SUFFICES ASSUME StackInv, NEW w \in Worker, env[w] \notin {0, w}
               PROVE  \/ Lost(w)
                      \/ \E v \in Worker \ {w} : ProjectName(v) = ProjectName(w)
    BY DEF OwnStack, Lost
  <2>0. TypeOK /\ Knows(w)
    BY DEF StackInv
  <2>1. PICK i : i = env[w]
    OBVIOUS
  <2>2. i \in 1..Len(stacks) /\ i # w /\ lower[stacks[i].name] = ProjectName(w)
    BY <2>0, <2>1, Values, Shapes DEF Knows
  <2>3. \A u \in Worker : stacks[u].name \in Name
    BY <2>0, Shapes DEF Stack
  <2>4. CASE i \in Worker
    <3>1. ProjectName(i) = norm[lower[stacks[i].name]]
      BY <2>3, <2>4, StackAssumption DEF ProjectName
    <3>2. norm[ProjectName(w)] = ProjectName(w)
      BY <2>3, StackAssumption DEF ProjectName
    <3> QED
      BY <2>2, <2>4, <3>1, <3>2
  <2>5. CASE i \notin Worker
    <3>1. i \in DOMAIN stacks /\ i > NWorkers
      BY <2>0, <2>2, <2>5, Shapes DEF Worker
    <3>2. PICK u \in Worker : stacks[i].name = ProjectName(u) /\ Lost(u)
      BY <3>1 DEF StackInv, MadeForLost
    <3>3. lower[ProjectName(u)] = ProjectName(u)
      BY <2>3, StackAssumption DEF ProjectName
    <3>4. ProjectName(u) = ProjectName(w)
      BY <2>2, <3>2, <3>3
    <3> QED
      BY <3>2, <3>4
  <2> QED
    BY <2>4, <2>5
<1> QED
  BY StackInvariant, <1>1, PTL

\* Create() never makes a second service of a name in a stack, if the project names
\* differ.
THEOREM NoTwinsAlways == Spec => []NoTwins
<1>1. StackInv => NoTwins
  BY DEF StackInv
<1> QED
  BY StackInvariant, <1>1, PTL

\* What Create() says of a service it has made is true.
THEOREM NilIsComplete == Spec => []NilMeansComplete
<1>1. StackInv => NilMeansComplete
  BY DEF StackInv
<1> QED
  BY StackInvariant, <1>1, PTL

\* The executor panics in the look-up after the POST only if somebody removes services.
THEOREM PanicHasCause == Spec => []PanicNeedsRemoval
<1>1. StackInv => PanicNeedsRemoval
  BY DEF StackInv
<1> QED
  BY StackInvariant, <1>1, PTL
=============================================================================
