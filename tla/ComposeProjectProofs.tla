------------------------ MODULE ComposeProjectProofs ------------------------
(***************************************************************************)
(* Project.Create() for every compose file: ProjectInv is inductive, and   *)
(* the safety properties of ComposeProject follow from it.                 *)
(***************************************************************************)
EXTENDS ComposeProject, SequenceTheorems, TLAPS

-----------------------------------------------------------------------------
(* The dependency graph does not change, and reaching is transitive.       *)

\* The operators of the graph depend on the compose file alone.
LEMMA GraphFixed ==
    ASSUME cfg' = cfg
    PROVE  /\ \A s \in Service : /\ IsSidekick(s)' <=> IsSidekick(s)
                                 /\ Optional(s)' <=> Optional(s)
                                 /\ Targets(s)' = Targets(s)
                                 /\ Deps(s)' = Deps(s)
           /\ \A s, t \in Service : Reaches(s, t)' <=> Reaches(s, t)
           /\ HardCycle' <=> HardCycle
<1>1. \A s \in Service : /\ IsSidekick(s)' <=> IsSidekick(s)
                         /\ Optional(s)' <=> Optional(s)
                         /\ Targets(s)' = Targets(s)
                         /\ Deps(s)' = Deps(s)
  BY DEF IsSidekick, Optional, Targets, Deps
<1>2. \A s, t \in Service : Reaches(s, t)' <=> Reaches(s, t)
  BY <1>1 DEF Reaches, Closed
<1>3. HardCycle' <=> HardCycle
  BY <1>1, <1>2 DEF HardCycle, OnCycle, Deps
<1>4. QED
  BY <1>1, <1>2, <1>3

\* A dependency of a service reached is reached.
LEMMA ReachesDep ==
    ASSUME NEW s \in Service, NEW t \in Service, Reaches(s, t), NEW u \in Deps(t)
    PROVE  Reaches(s, u)
BY DEF Reaches, Closed

LEMMA ReachesItself == \A s \in Service : Reaches(s, s)
BY DEF Reaches

\* Targets are names, dependencies are services.
LEMMA GraphTypes ==
    ASSUME TypeOK
    PROVE  /\ \A s \in Service : /\ Targets(s) \subseteq Name
                                 /\ Deps(s) \subseteq Service
                                 /\ cfg.links[s] \subseteq Name
                                 /\ cfg.external[s] \subseteq Name
                                 /\ ~ IsSidekick(s) => Targets(s) = cfg.links[s]
<1>1. cfg \in Config
  BY ProjectAssumption DEF TypeOK
<1>2. \A s \in Service : /\ cfg.links[s] \subseteq Name /\ cfg.external[s] \subseteq Name
                          /\ cfg.ns[s] \subseteq Service
  BY <1>1 DEF Config
<1>3. QED
  BY <1>2 DEF Targets, Deps, Name

-----------------------------------------------------------------------------
\* The initial states satisfy the invariant: nothing has been started.
LEMMA InitProjectInv == Init => ProjectInv
<1> SUFFICES ASSUME Init PROVE ProjectInv
  OBVIOUS
<1>1. TypeOK
  <2>1. exists \subseteq Service
    BY DEF Init
  <2>2. path \in Seq(Service)
    BY DEF Init
  <2>3. QED
    BY <2>1, <2>2 DEF Init, TypeOK, GPC
<1>2. path = <<>> /\ Len(path) = 0
  BY DEF Init
<1>3. WalkInv
  BY <1>2 DEF Init, WalkInv
<1>4. LaunchInv /\ ReturnInv
  BY DEF Init, LaunchInv, ReturnInv
<1>5. ServiceInv /\ LinkInv /\ DepsFirst /\ IgnoredOnCycle
  BY DEF Init, ServiceInv, LinkInv, LinkKept, DepsFirst, IgnoredOnCycle
<1>6. QED
  BY <1>1, <1>3, <1>4, <1>5 DEF ProjectInv

-----------------------------------------------------------------------------
(* The walk: steps of startService() and of traverse()'s first loop.       *)

\* A step that at most starts a goroutine and ignores more dependencies changes
\* nothing in Rancher and loses no link.
LEMMA WalkKeepsServices ==
    ASSUME ProjectInv,
           UNCHANGED <<cfg, err, rancher>>,
           \A s \in Service : gpc'[s] = gpc[s] \/ (gpc[s] = "none" /\ gpc'[s] = "deps"),
           \A s \in Service : ignored[s] \subseteq ignored'[s]
    PROVE  ServiceInv' /\ LinkInv' /\ DepsFirst'
<1> USE DEF rancher
<1>1. \A s \in Service : /\ gpc'[s] = gpc[s] \/ (gpc[s] = "none" /\ gpc'[s] = "deps")
                         /\ IsSidekick(s)' <=> IsSidekick(s)
                         /\ Deps(s)' = Deps(s)
  BY GraphFixed DEF ProjectInv, TypeOK
<1>2. ServiceInv'
  BY <1>1 DEF ProjectInv, ServiceInv
<1>3. DepsFirst'
  <2> SUFFICES ASSUME NEW s \in Service, gpc'[s] \notin {"none", "deps"},
                      NEW t \in Deps(s)', t \notin ignored'[s]
               PROVE  gpc'[t] = "exited"
    BY DEF DepsFirst
  <2>1. gpc[s] \notin {"none", "deps"} /\ t \in Deps(s) \ ignored[s] /\ t \in Service
    BY <1>1, GraphTypes DEF ProjectInv
  <2>2. gpc[t] = "exited"
    BY <2>1 DEF ProjectInv, DepsFirst
  <2>3. QED
    BY <1>1, <2>1, <2>2
<1>4. LinkInv'
  <2> SUFFICES ASSUME NEW s \in Service, NEW t \in cfg.links[s] \cap Service,
                      ~ IsSidekick(t)', t \notin ignored'[s], ~ err[t]
               PROVE  LinkKept(s, t)'
    BY DEF LinkInv
  <2>1. LinkKept(s, t)
    BY <1>1 DEF ProjectInv, LinkInv
  <2>2. QED
    BY <2>1, <1>1 DEF LinkKept
<1>5. QED
  BY <1>2, <1>3, <1>4

\* A step that ignores nothing more keeps what is said of the ignored ones.
LEMMA IgnoredKept ==
    ASSUME ProjectInv, UNCHANGED <<cfg, ignored>>
    PROVE  IgnoredOnCycle'
<1> SUFFICES ASSUME NEW s \in Service, NEW t \in ignored[s]
             PROVE  (Optional(s) /\ t \in Deps(s) /\ Reaches(t, s))'
  BY DEF IgnoredOnCycle
<1>1. Optional(s) /\ t \in Deps(s) /\ Reaches(t, s)
  BY DEF ProjectInv, IgnoredOnCycle
<1>2. t \in Service
  BY <1>1, GraphTypes DEF ProjectInv
<1>3. QED
  BY <1>1, <1>2, GraphFixed

\* Create() prepares the walk.
LEMMA CreateKeepsInv == ProjectInv /\ Create => ProjectInv'
<1> SUFFICES ASSUME ProjectInv, Create PROVE ProjectInv'
  OBVIOUS
<1> USE DEF Create
<1>1. TypeOK'
  BY DEF ProjectInv, TypeOK, rancher
<1>2. WalkInv'
  BY GraphFixed DEF ProjectInv, WalkInv, TypeOK
<1>3. LaunchInv'
  BY GraphFixed DEF ProjectInv, LaunchInv, WalkInv, History
<1>4. ReturnInv'
  BY DEF ProjectInv, ReturnInv
<1>5. ServiceInv' /\ LinkInv' /\ DepsFirst'
  BY WalkKeepsServices
<1>6. IgnoredOnCycle'
  BY IgnoredKept
<1>7. QED
  BY <1>1, <1>2, <1>3, <1>4, <1>5, <1>6 DEF ProjectInv

LEMMA AppendIsSeq == \A S : \A q \in Seq(S) : \A e \in S : Append(q, e) \in Seq(S)
OBVIOUS

\* traverse() calls startService() for a wrapper.
LEMMA VisitRootKeepsInv ==
    ASSUME ProjectInv, NEW c \in Service, VisitRoot(c)
    PROVE  ProjectInv'
<1> USE DEF VisitRoot, Visit
<1>1. TypeOK'
  <2>1. path' \in Seq(Service) /\ launched' \subseteq Service
    <3>1. path \in Seq(Service) /\ launched \subseteq Service
      BY DEF ProjectInv, TypeOK
    <3>2. CASE c \in launched
      BY <3>1, <3>2
    <3>3. CASE c \notin launched
      <4>1. path' = Append(path, c) /\ launched' = launched \cup {c}
        BY <3>3
      <4>2. QED
        BY <3>1, <4>1, AppendIsSeq, Zenon
    <3>4. QED
      BY <3>2, <3>3
  <2>2. todo' \in [Service -> SUBSET Name]
    BY GraphTypes DEF ProjectInv, TypeOK
  <2>3. QED
    BY <2>1, <2>2 DEF ProjectInv, TypeOK, rancher
<1>2. Len(path) = 0
  OBVIOUS
<1>3. WalkInv'
  <2>1. CASE c \in launched
    BY <2>1, GraphFixed DEF ProjectInv, WalkInv, TypeOK
  <2>2. CASE c \notin launched
    <3>1. path' = <<c>> /\ Len(path') = 1 /\ path'[1] = c
      BY <2>2
    <3>2. \A s \in Service : todo'[s] \subseteq Targets(s)'
      BY <2>2, GraphFixed DEF ProjectInv, WalkInv, TypeOK
    <3>3. Reaches(c, c)'
      BY ReachesItself, GraphFixed
    <3>4. gpc[c] = "none"
      BY <2>2 DEF ProjectInv, WalkInv
    <3>5. QED
      BY <2>2, <3>1, <3>2, <3>3, <3>4 DEF ProjectInv, WalkInv
  <2>3. QED
    BY <2>1, <2>2
<1>4. LaunchInv'
  <2>1. (~ HardCycle => \A s \in launched : s \in History \/ gpc[s] # "none")'
    <3>1. HardCycle' <=> HardCycle
      BY GraphFixed
    <3>2. History = {}
      BY <1>2 DEF History
    <3>3. CASE c \in launched
      BY <3>1, <3>2, <3>3 DEF ProjectInv, LaunchInv
    <3>4. CASE c \notin launched
      <4>1. c \in History'
        BY <3>4 DEF History
      <4>2. QED
        BY <3>1, <3>2, <3>4, <4>1 DEF ProjectInv, LaunchInv
    <3>5. QED
      BY <3>3, <3>4
  <2>2. QED
    BY <2>1 DEF ProjectInv, LaunchInv
<1>5. ReturnInv'
  BY DEF ProjectInv, ReturnInv
<1>6. ServiceInv' /\ LinkInv' /\ DepsFirst'
  BY WalkKeepsServices
<1>7. IgnoredOnCycle'
  BY IgnoredKept
<1>8. QED
  BY <1>1, <1>3, <1>4, <1>5, <1>6, <1>7 DEF ProjectInv

\* The service being visited.
LEMMA CurrentFacts ==
    ASSUME ProjectInv, path # <<>>
    PROVE  /\ Len(path) \in Nat \ {0}
           /\ Current \in Service
           /\ Current \in launched
           /\ gpc[Current] = "none"
           /\ phase = "launch"
           /\ History = {path[i] : i \in 1..Len(path)}
           /\ \A t \in History : t \in Service /\ Reaches(t, Current)
<1>1. path \in Seq(Service) /\ Len(path) \in Nat \ {0}
  BY DEF ProjectInv, TypeOK
<1>2. Len(path) \in 1..Len(path) /\ DOMAIN path = 1..Len(path)
  BY <1>1
<1>3. Current \in Service /\ Current \in launched /\ gpc[Current] = "none"
  BY <1>1, <1>2 DEF ProjectInv, WalkInv, Current
<1>4. History = {path[i] : i \in 1..Len(path)}
  BY <1>2 DEF History
<1>5. phase = "launch"
  BY DEF ProjectInv, WalkInv
<1>6. ASSUME NEW t \in History PROVE t \in Service /\ Reaches(t, Current)
  <2>1. PICK i \in 1..Len(path) : t = path[i]
    BY <1>4
  <2>2. i <= Len(path)
    BY <1>1
  <2>3. QED
    BY <1>1, <1>2, <2>1, <2>2 DEF ProjectInv, WalkInv, Current
<1>7. QED
  BY <1>1, <1>3, <1>4, <1>5, <1>6
\* A dependency on the path that is optional is ignored.
LEMMA IgnoreDepKeepsInv ==
    ASSUME ProjectInv, path # <<>>, NEW t \in todo[Current], IgnoreDep(Current, t),
           UNCHANGED <<cfg, phase, roots, gpc, err, rancher, waiting, result>>
    PROVE  ProjectInv'
<1> DEFINE c == Current
<1>1. c \in Service /\ t \in Service /\ Reaches(t, c)
  BY CurrentFacts DEF IgnoreDep
<1> HIDE DEF c
<1>2. /\ ignored' = [ignored EXCEPT ![c] = @ \cup {t}]
      /\ todo' = [todo EXCEPT ![c] = @ \ {t}]
      /\ UNCHANGED <<path, launched>>
      /\ Optional(c)
      /\ t \in todo[c]
  BY DEF IgnoreDep, c
<1>3. TypeOK'
  BY <1>1, <1>2 DEF ProjectInv, TypeOK, rancher
<1>4. WalkInv'
  BY <1>1, <1>2, GraphFixed DEF ProjectInv, WalkInv, TypeOK
<1>5. LaunchInv' /\ ReturnInv'
  BY <1>2, GraphFixed DEF ProjectInv, LaunchInv, ReturnInv, History
<1>6. \A s \in Service : ignored[s] \subseteq ignored'[s]
  BY <1>1, <1>2 DEF ProjectInv, TypeOK
<1>7. ServiceInv' /\ LinkInv' /\ DepsFirst'
  BY <1>6, WalkKeepsServices
<1>8. IgnoredOnCycle'
  <2> SUFFICES ASSUME NEW s \in Service, NEW u \in ignored'[s]
               PROVE  (Optional(s) /\ u \in Deps(s) /\ Reaches(u, s))'
    BY DEF IgnoredOnCycle
  <2>1. Optional(s) /\ u \in Deps(s) /\ Reaches(u, s)
    <3>1. CASE u \in ignored[s]
      BY <3>1 DEF ProjectInv, IgnoredOnCycle
    <3>2. CASE u \notin ignored[s]
      <4>1. s = c /\ u = t
        BY <1>1, <1>2, <3>2 DEF ProjectInv, TypeOK
      <4>2. t \in Targets(c)
        BY <1>1, <1>2 DEF ProjectInv, WalkInv
      <4>3. QED
        BY <4>1, <4>2, <1>1, <1>2 DEF Deps
    <3>3. QED
      BY <3>1, <3>2
  <2>2. u \in Service
    BY <2>1, GraphTypes DEF ProjectInv
  <2>3. QED
    BY <2>1, <2>2, GraphFixed
<1>9. QED
  BY <1>3, <1>4, <1>5, <1>7, <1>8 DEF ProjectInv

\* A cycle that is not optional ends the walk of this root.
LEMMA CycleDetectedKeepsInv ==
    ASSUME ProjectInv, path # <<>>, NEW t \in todo[Current], CycleDetected(Current, t),
           UNCHANGED <<cfg, phase, roots, gpc, err, rancher, waiting, result>>
    PROVE  ProjectInv'
<1> USE DEF CycleDetected
<1>1. Current \in Service /\ t \in Service /\ Reaches(t, Current)
  BY CurrentFacts
<1>2. HardCycle
  <2>1. t \in Deps(Current)
    BY <1>1 DEF ProjectInv, WalkInv, Deps
  <2>2. IsSidekick(Current)
    BY DEF Optional
  <2>3. QED
    BY <1>1, <2>1, <2>2 DEF HardCycle, OnCycle
<1>3. path' = <<>> /\ Len(path') = 0
  OBVIOUS
<1>4. TypeOK'
  BY DEF ProjectInv, TypeOK, rancher
<1>5. WalkInv'
  BY <1>3, GraphFixed DEF ProjectInv, WalkInv, TypeOK
<1>6. LaunchInv' /\ ReturnInv'
  BY <1>2, GraphFixed DEF ProjectInv, LaunchInv, ReturnInv
<1>7. ServiceInv' /\ LinkInv' /\ DepsFirst'
  BY WalkKeepsServices
<1>8. IgnoredOnCycle'
  BY IgnoredKept
<1>9. QED
  BY <1>4, <1>5, <1>6, <1>7, <1>8 DEF ProjectInv

\* A dependency that is unknown or already launched is passed over.
LEMMA SkipDepKeepsInv ==
    ASSUME ProjectInv, path # <<>>, NEW t \in todo[Current], SkipDep(Current, t),
           UNCHANGED <<cfg, phase, roots, gpc, err, rancher, waiting, result>>
    PROVE  ProjectInv'
<1> DEFINE c == Current
<1>1. c \in Service
  BY CurrentFacts
<1> HIDE DEF c
<1>2. /\ todo' = [todo EXCEPT ![c] = @ \ {t}]
      /\ UNCHANGED <<path, launched, ignored>>
  BY DEF SkipDep, c
<1>3. TypeOK'
  BY <1>1, <1>2 DEF ProjectInv, TypeOK, rancher
<1>4. WalkInv'
  BY <1>1, <1>2, GraphFixed DEF ProjectInv, WalkInv, TypeOK
<1>5. LaunchInv' /\ ReturnInv'
  BY <1>2, GraphFixed DEF ProjectInv, LaunchInv, ReturnInv, History
<1>6. ServiceInv' /\ LinkInv' /\ DepsFirst'
  BY <1>2, WalkKeepsServices
<1>7. IgnoredOnCycle'
  BY <1>2, IgnoredKept
<1>8. QED
  BY <1>3, <1>4, <1>5, <1>6, <1>7 DEF ProjectInv

\* startService() calls itself for a dependency.
LEMMA VisitDepKeepsInv ==
    ASSUME ProjectInv, path # <<>>, NEW t \in todo[Current], VisitDep(Current, t),
           UNCHANGED <<cfg, phase, roots, gpc, err, rancher, waiting, result>>
    PROVE  ProjectInv'
<1> DEFINE c == Current
           n == Len(path)
<1>1. /\ c \in Service /\ t \in Service /\ n \in Nat \ {0} /\ c = path[n] /\ phase = "launch"
      /\ path \in Seq(Service)
  BY CurrentFacts DEF VisitDep, Current, ProjectInv, TypeOK
<1>2. t \notin launched /\ gpc[t] = "none"
  BY DEF VisitDep, ProjectInv, WalkInv
<1>3. \A i \in 1..n : Reaches(path[i], c) /\ path[i] \in Service
  BY CurrentFacts
<1>4. t \in Deps(c)
  BY <1>1 DEF ProjectInv, WalkInv, Deps
<1>5. /\ launched' = launched \cup {t}
      /\ path' = Append(path, t)
      /\ todo' = [todo EXCEPT ![c] = @ \ {t}, ![t] = Targets(t)]
      /\ UNCHANGED ignored
  BY DEF VisitDep
<1> HIDE DEF c, n
<1>6. /\ path' \in Seq(Service) /\ Len(path') = n + 1
      /\ \A i \in 1..n : path'[i] = path[i]
      /\ path'[n + 1] = t
  BY <1>1, <1>5 DEF n
<1>7. TypeOK'
  <2>1. todo' \in [Service -> SUBSET Name]
    BY <1>1, <1>5, GraphTypes DEF ProjectInv, TypeOK
  <2>2. QED
    BY <1>1, <1>5, <1>6, <2>1 DEF ProjectInv, TypeOK, rancher
<1>8. WalkInv'
  <2>1. \A s \in Service : todo'[s] \subseteq Targets(s)'
    BY <1>1, <1>5, GraphFixed DEF ProjectInv, WalkInv, TypeOK
  <2>2. \A i \in 1..n : path[i] \in launched /\ gpc[path[i]] = "none"
    BY DEF ProjectInv, WalkInv, n
  <2>3. \A i, j \in 1..n : (path[i] = path[j] => i = j) /\ (i <= j => Reaches(path[i], path[j]))
    BY DEF ProjectInv, WalkInv, n
  <2>4. \A i \in 1..(n + 1) : i \in 1..n \/ i = n + 1
    BY <1>1
  <2>5. \A i \in 1..(n + 1) : path'[i] \in launched' /\ gpc[path'[i]] = "none"
    BY <1>2, <1>5, <1>6, <2>2, <2>4
  <2>6. \A i, j \in 1..(n + 1) : path'[i] = path'[j] => i = j
    BY <1>2, <1>6, <2>2, <2>3, <2>4
  <2>7. ASSUME NEW i \in 1..(n + 1), NEW j \in 1..(n + 1), i <= j
        PROVE  Reaches(path'[i], path'[j])
    <3>1. CASE j \in 1..n
      <4>1. i \in 1..n
        BY <1>1, <3>1, <2>7
      <4>2. QED
        BY <1>6, <2>3, <2>7, <3>1, <4>1
    <3>2. CASE j = n + 1 /\ i \in 1..n
      BY <1>1, <1>3, <1>4, <1>6, <3>2, ReachesDep
    <3>3. CASE j = n + 1 /\ i = n + 1
      BY <1>1, <1>6, <3>3, ReachesItself
    <3>4. QED
      BY <2>4, <3>1, <3>2, <3>3
  <2>8. ASSUME NEW i \in 1..(n + 1), NEW j \in 1..(n + 1), i <= j
        PROVE  (Reaches(path[i], path[j]))'
    <3>1. PICK x \in Service : x = path'[i]
      BY <1>1, <1>6, <2>4
    <3>2. PICK y \in Service : y = path'[j]
      BY <1>1, <1>6, <2>4
    <3>3. Reaches(x, y)
      BY <2>7, <2>8, <3>1, <3>2
    <3>4. (Reaches(x, y))'
      BY <3>3, GraphFixed
    <3>5. QED
      BY <3>1, <3>2, <3>4 DEF Reaches
  <2>9. QED
    BY <1>1, <1>5, <1>6, <2>1, <2>5, <2>6, <2>8 DEF ProjectInv, WalkInv
<1>9. LaunchInv'
  <2>1. \A s \in History : s \in History'
    <3>1. History = {path[i] : i \in 1..n} /\ History' = {path'[i] : i \in 1..(n + 1)}
      BY <1>1, <1>6 DEF History, n
    <3>2. 1..n \subseteq 1..(n + 1)
      BY <1>1
    <3>3. QED
      BY <1>6, <3>1, <3>2
  <2>2. t \in History'
    <3>1. n + 1 \in DOMAIN path'
      BY <1>1, <1>6
    <3>2. QED
      BY <1>6, <3>1 DEF History
  <2>3. (~ HardCycle => \A s \in launched : s \in History \/ gpc[s] # "none")'
    BY <1>5, <2>1, <2>2, GraphFixed DEF ProjectInv, LaunchInv
  <2>4. QED
    BY <1>1, <1>5, <2>3 DEF ProjectInv, LaunchInv
<1>10. ReturnInv'
  BY DEF ProjectInv, ReturnInv
<1>11. ServiceInv' /\ LinkInv' /\ DepsFirst'
  BY <1>5, WalkKeepsServices
<1>12. IgnoredOnCycle'
  BY <1>5, IgnoredKept
<1>13. QED
  BY <1>7, <1>8, <1>9, <1>10, <1>11, <1>12 DEF ProjectInv
\* A sequence without its last element.
LEMMA FrontFacts ==
    ASSUME NEW S, NEW q \in Seq(S), Len(q) # 0
    PROVE  /\ SubSeq(q, 1, Len(q) - 1) \in Seq(S)
           /\ Len(SubSeq(q, 1, Len(q) - 1)) = Len(q) - 1
           /\ \A i \in 1..(Len(q) - 1) : SubSeq(q, 1, Len(q) - 1)[i] = q[i]
<1> DEFINE n == Len(q) - 1
<1>1. Len(q) \in Nat /\ n \in Nat /\ 1 \in Int /\ n \in Int
  OBVIOUS
<1>2. \A i \in 1..n : q[i] \in S
  OBVIOUS
<1> HIDE DEF n
<1>3. /\ SubSeq(q, 1, n) \in Seq(S)
      /\ Len(SubSeq(q, 1, n)) = IF 1 <= n THEN n - 1 + 1 ELSE 0
      /\ \A i \in 1..(n - 1 + 1) : SubSeq(q, 1, n)[i] = q[1 + i - 1]
  BY <1>1, <1>2, SubSeqProperties
<1>4. Len(SubSeq(q, 1, n)) = n
  BY <1>1, <1>3
<1>5. \A i \in 1..n : SubSeq(q, 1, n)[i] = q[i]
  <2> SUFFICES ASSUME NEW i \in 1..n PROVE SubSeq(q, 1, n)[i] = q[i]
    OBVIOUS
  <2>1. i \in 1..(n - 1 + 1) /\ 1 + i - 1 = i
    BY <1>1
  <2>2. QED
    BY <1>3, <2>1
<1>6. QED
  BY <1>3, <1>4, <1>5 DEF n

\* A goroutine is started, and startService() returns to its caller.
LEMMA LaunchKeepsInv == ProjectInv /\ Launch => ProjectInv'
<1> SUFFICES ASSUME ProjectInv, Launch PROVE ProjectInv'
  OBVIOUS
<1> DEFINE c == Current
           n == Len(path)
<1>1. /\ c \in Service /\ gpc[c] = "none" /\ n \in Nat \ {0} /\ c = path[n] /\ phase = "launch"
      /\ c \in launched /\ path \in Seq(Service)
      /\ History = {path[i] : i \in 1..n}
  BY CurrentFacts DEF Launch, Current, ProjectInv, TypeOK
<1>2. /\ gpc' = [gpc EXCEPT ![c] = "deps"]
      /\ path' = SubSeq(path, 1, n - 1)
      /\ UNCHANGED <<cfg, phase, roots, todo, launched, ignored, err, rancher, waiting, result>>
  BY DEF Launch
<1> HIDE DEF c, n
<1>3. /\ path' \in Seq(Service) /\ Len(path') = n - 1
      /\ \A i \in 1..(n - 1) : path'[i] = path[i]
  BY <1>1, <1>2, FrontFacts DEF n
<1>4. \A s \in Service : gpc'[s] = IF s = c THEN "deps" ELSE gpc[s]
  BY <1>1, <1>2 DEF ProjectInv, TypeOK
<1>5. TypeOK'
  <2>1. gpc' \in [Service -> GPC]
    BY <1>1, <1>2 DEF ProjectInv, TypeOK, GPC
  <2>2. QED
    BY <1>2, <1>3, <2>1 DEF ProjectInv, TypeOK, rancher
<1>6. WalkInv'
  <2>1. \A i \in 1..(n - 1) : i \in 1..n /\ i # n
    BY <1>1
  <2>2. n \in 1..n
    BY <1>1
  <2>3. \A i \in 1..n : path[i] \in launched /\ path[i] \in Service /\ gpc[path[i]] = "none"
    BY <1>1 DEF ProjectInv, WalkInv, n
  <2>4. \A i, j \in 1..n : (path[i] = path[j] => i = j) /\ (i <= j => Reaches(path[i], path[j]))
    BY DEF ProjectInv, WalkInv, n
  <2>5. \A i \in 1..(n - 1) : path'[i] \in launched /\ gpc'[path'[i]] = "none"
    BY <1>1, <1>3, <1>4, <2>1, <2>2, <2>3, <2>4
  <2>6. \A i, j \in 1..(n - 1) : path'[i] = path'[j] => i = j
    BY <1>3, <2>1, <2>4
  <2>7. ASSUME NEW i \in 1..(n - 1), NEW j \in 1..(n - 1), i <= j
        PROVE  (Reaches(path[i], path[j]))'
    <3>1. PICK x \in Service : x = path'[i] /\ x = path[i]
      BY <1>3, <2>1, <2>3
    <3>2. PICK y \in Service : y = path'[j] /\ y = path[j]
      BY <1>3, <2>1, <2>3
    <3>3. Reaches(x, y)
      BY <2>1, <2>4, <2>7, <3>1, <3>2
    <3>4. (Reaches(x, y))'
      BY <1>2, <3>3, GraphFixed
    <3>5. QED
      BY <3>1, <3>2, <3>4 DEF Reaches
  <2>8. \A s \in Service : todo'[s] \subseteq Targets(s)'
    BY <1>2, GraphFixed DEF ProjectInv, WalkInv
  <2>9. \A s \in Service \ launched : gpc'[s] = "none"
    BY <1>1, <1>4 DEF ProjectInv, WalkInv
  <2>10. QED
    BY <1>1, <1>2, <1>3, <2>5, <2>6, <2>7, <2>8, <2>9 DEF WalkInv
<1>7. LaunchInv'
  <2>1. \A s \in History : s = c \/ s \in History'
    <3>1. History' = {path'[i] : i \in 1..(n - 1)}
      BY <1>1, <1>3 DEF History
    <3>2. \A i \in 1..n : i = n \/ i \in 1..(n - 1)
      BY <1>1
    <3>3. QED
      BY <1>1, <1>3, <3>1, <3>2
  <2>2. (~ HardCycle => \A s \in launched : s \in History \/ gpc[s] # "none")'
    <3>1. launched \subseteq Service
      BY DEF ProjectInv, TypeOK
    <3>2. QED
      BY <1>2, <1>4, <2>1, <3>1, GraphFixed DEF ProjectInv, LaunchInv
  <2>3. QED
    BY <1>1, <1>2, <2>2 DEF ProjectInv, LaunchInv
<1>8. ReturnInv'
  BY <1>1, <1>2, <1>4 DEF ProjectInv, ReturnInv
<1>9. ServiceInv' /\ LinkInv' /\ DepsFirst'
  BY <1>1, <1>2, <1>4, WalkKeepsServices
<1>10. IgnoredOnCycle'
  BY <1>2, IgnoredKept
<1>11. QED
  BY <1>5, <1>6, <1>7, <1>8, <1>9, <1>10 DEF ProjectInv

\* traverse() goes from its first loop to its second one.
LEMMA EndLaunchKeepsInv == ProjectInv /\ EndLaunch => ProjectInv'
<1> SUFFICES ASSUME ProjectInv, EndLaunch PROVE ProjectInv'
  OBVIOUS
<1> USE DEF EndLaunch, walk
<1>1. TypeOK'
  BY DEF ProjectInv, TypeOK, rancher
<1>2. WalkInv'
  BY GraphFixed DEF ProjectInv, WalkInv, TypeOK
<1>3. LaunchInv'
  <2>1. launched = Service
    BY DEF ProjectInv, LaunchInv, TypeOK
  <2>2. QED
    BY <2>1, GraphFixed DEF ProjectInv, LaunchInv, History
<1>4. ReturnInv'
  BY DEF ProjectInv, ReturnInv
<1>5. ServiceInv' /\ LinkInv' /\ DepsFirst'
  BY WalkKeepsServices
<1>6. IgnoredOnCycle'
  BY IgnoredKept
<1>7. QED
  BY <1>1, <1>2, <1>3, <1>4, <1>5, <1>6 DEF ProjectInv

-----------------------------------------------------------------------------
(* traverse()'s second loop.                                               *)

\* One more wrapper has been waited for.
LEMMA WrapperWaitKeepsInv ==
    ASSUME ProjectInv, NEW c \in Service, WrapperWait(c)
    PROVE  ProjectInv'
<1> USE DEF WrapperWait, walk
<1>1. TypeOK'
  BY DEF ProjectInv, TypeOK, rancher
<1>2. WalkInv'
  BY GraphFixed DEF ProjectInv, WalkInv, TypeOK
<1>3. LaunchInv'
  BY GraphFixed DEF ProjectInv, LaunchInv, History
<1>4. ReturnInv'
  <2>1. \A s \in Service \ waiting' : s = c \/ s \in Service \ waiting
    OBVIOUS
  <2>2. Service \ waiting \subseteq Service \ waiting' /\ c \in Service \ waiting'
    OBVIOUS
  <2>3. result' = "error" <=> \E s \in Service \ waiting' : err[s]
    BY <2>1, <2>2 DEF ProjectInv, ReturnInv
  <2>4. QED
    BY <2>1, <2>3 DEF ProjectInv, ReturnInv
<1>5. ServiceInv' /\ LinkInv' /\ DepsFirst'
  BY WalkKeepsServices
<1>6. IgnoredOnCycle'
  BY IgnoredKept
<1>7. QED
  BY <1>1, <1>2, <1>3, <1>4, <1>5, <1>6 DEF ProjectInv

\* Create() returns.
LEMMA ReturnKeepsInv == ProjectInv /\ Return => ProjectInv'
<1> SUFFICES ASSUME ProjectInv, Return PROVE ProjectInv'
  OBVIOUS
<1> USE DEF Return, walk
<1>1. TypeOK'
  BY DEF ProjectInv, TypeOK, rancher
<1>2. WalkInv'
  BY GraphFixed DEF ProjectInv, WalkInv, TypeOK
<1>3. LaunchInv'
  BY GraphFixed DEF ProjectInv, LaunchInv, History
<1>4. ReturnInv'
  BY DEF ProjectInv, ReturnInv
<1>5. ServiceInv' /\ LinkInv' /\ DepsFirst'
  BY WalkKeepsServices
<1>6. IgnoredOnCycle'
  BY IgnoredKept
<1>7. QED
  BY <1>1, <1>2, <1>3, <1>4, <1>5, <1>6 DEF ProjectInv
-----------------------------------------------------------------------------
(* serviceWrapper.Do(): the goroutine of one service.                      *)

\* A step of the goroutine of service c from one point to another, with the error
\* it leaves behind.
GoroutineStep(c, to) ==
    /\ UNCHANGED Caller
    /\ gpc[c] \notin {"none", "exited"}
    /\ to \in GPC \ {"none", "deps"}
    /\ gpc' = [gpc EXCEPT ![c] = to]
    /\ \/ UNCHANGED err
       \/ to = "exited" /\ \E failed \in BOOLEAN : err' = [err EXCEPT ![c] = failed]
    /\ gpc[c] # "deps" \/ \A t \in Deps(c) \ ignored[c] : gpc[t] = "exited"

\* What such a step does to other services and to the caller.
LEMMA GoroutineFacts ==
    ASSUME ProjectInv, NEW c \in Service, NEW to, GoroutineStep(c, to)
    PROVE  /\ gpc' \in [Service -> GPC] /\ err' \in [Service -> BOOLEAN]
           /\ \A s \in Service \ {c} : gpc'[s] = gpc[s] /\ err'[s] = err[s]
           /\ gpc'[c] = to
           /\ ~ err[c]
           /\ to # "exited" => ~ err'[c]
           /\ \A s \in Service : err[s] => err'[s]
           /\ \A s \in Service : IsSidekick(s)' <=> IsSidekick(s)
<1> USE DEF GoroutineStep
<1>1. gpc \in [Service -> GPC] /\ err \in [Service -> BOOLEAN]
  BY DEF ProjectInv, TypeOK
<1>2. gpc' \in [Service -> GPC] /\ gpc'[c] = to /\ \A s \in Service \ {c} : gpc'[s] = gpc[s]
  BY <1>1
<1>3. ~ err[c]
  BY DEF ProjectInv, ReturnInv
<1>4. err' \in [Service -> BOOLEAN] /\ \A s \in Service \ {c} : err'[s] = err[s]
  <2>1. CASE err' = err
    BY <1>1, <2>1
  <2>2. CASE \E failed \in BOOLEAN : err' = [err EXCEPT ![c] = failed]
    <3>1. PICK failed \in BOOLEAN : err' = [err EXCEPT ![c] = failed]
      BY <2>2
    <3>2. QED
      BY <1>1, <3>1, Zenon
  <2>3. QED
    BY <2>1, <2>2
<1>5. to # "exited" => ~ err'[c]
  BY <1>3
<1>6. \A s \in Service : err[s] => err'[s]
  BY <1>3, <1>4, Zenon
<1>7. \A s \in Service : IsSidekick(s)' <=> IsSidekick(s)
  BY GraphFixed DEF Caller
<1>8. QED
  BY <1>2, <1>3, <1>4, <1>5, <1>6, <1>7

\* It keeps the types if it keeps those of Rancher's state.
LEMMA GoroutineTypes ==
    ASSUME ProjectInv, NEW c \in Service, NEW to, GoroutineStep(c, to),
           exists' \subseteq Service, created' \subseteq exists',
           toFind' \in [Service -> SUBSET Name],
           found' \in [Service -> SUBSET Service],
           linked' \in [Service -> SUBSET Service]
    PROVE  TypeOK'
<1>1. gpc' \in [Service -> GPC] /\ err' \in [Service -> BOOLEAN]
  BY GoroutineFacts
<1>2. UNCHANGED <<cfg, phase, roots, path, todo, launched, ignored, waiting, result>>
  BY DEF GoroutineStep, Caller, walk
<1>3. QED
  BY <1>1, <1>2 DEF ProjectInv, TypeOK

\* It keeps all but the types and what is said of Rancher.
LEMMA GoroutineKeepsCaller ==
    ASSUME ProjectInv, NEW c \in Service, NEW to, GoroutineStep(c, to)
    PROVE  WalkInv' /\ LaunchInv' /\ ReturnInv' /\ DepsFirst' /\ IgnoredOnCycle'
<1>1. UNCHANGED <<cfg, phase, roots, path, todo, launched, ignored, waiting, result>>
  BY DEF GoroutineStep, Caller, walk
<1>2. /\ \A s \in Service \ {c} : gpc'[s] = gpc[s] /\ err'[s] = err[s]
      /\ gpc'[c] = to /\ gpc[c] \notin {"none", "exited"} /\ to \notin {"none", "deps"}
      /\ to # "exited" => ~ err'[c]
  BY GoroutineFacts DEF GoroutineStep
<1>3. \A s \in Service : /\ gpc'[s] = "none" <=> gpc[s] = "none"
                         /\ gpc[s] = "exited" => gpc'[s] = "exited" /\ err'[s] = err[s]
                         /\ err'[s] => gpc'[s] = "exited"
  BY <1>2 DEF ProjectInv, ReturnInv
<1>4. launched \subseteq Service /\ path \in Seq(Service)
  BY DEF ProjectInv, TypeOK
<1>5. WalkInv'
  <2>1. \A i \in 1..Len(path) : path[i] \in Service
    BY <1>4
  <2>2. \A i, j \in 1..Len(path) : i <= j => (Reaches(path[i], path[j]))'
    BY <1>1, <2>1, GraphFixed DEF ProjectInv, WalkInv, Reaches, Closed
  <2>3. \A s \in Service : (todo[s] \subseteq Targets(s))'
    BY <1>1, GraphFixed DEF ProjectInv, WalkInv
  <2>4. QED
    BY <1>1, <1>3, <2>1, <2>2, <2>3 DEF ProjectInv, WalkInv
<1>6. LaunchInv'
  BY <1>1, <1>3, <1>4, GraphFixed DEF ProjectInv, LaunchInv, History
<1>7. ReturnInv'
  BY <1>1, <1>3 DEF ProjectInv, ReturnInv
<1>8. DepsFirst'
  <2> SUFFICES ASSUME NEW s \in Service, gpc'[s] \notin {"none", "deps"},
                      NEW t \in Deps(s) \ ignored[s]
               PROVE  gpc'[t] = "exited"
    BY <1>1, GraphFixed DEF DepsFirst
  <2>1. t \in Service
    BY GraphTypes DEF ProjectInv
  <2>2. gpc[t] = "exited"
    <3>1. CASE gpc[s] = "deps"
      BY <1>2, <3>1 DEF GoroutineStep
    <3>2. CASE gpc[s] # "deps"
      BY <1>3, <3>2 DEF ProjectInv, DepsFirst
    <3>3. QED
      BY <3>1, <3>2
  <2>3. QED
    BY <1>3, <2>1, <2>2
<1>9. IgnoredOnCycle'
  BY <1>1, IgnoredKept
<1>10. QED
  BY <1>5, <1>6, <1>7, <1>8, <1>9
\* The links of c that its goroutine must not lose.
Owed(c) == {t \in cfg.links[c] \cap Service : ~ IsSidekick(t) /\ t \notin ignored[c]}

\* A step that changes Rancher for service c alone keeps the invariant if it keeps
\* what is said of c.
LEMMA GoroutineKeepsInv ==
    ASSUME ProjectInv, NEW c \in Service, NEW to, GoroutineStep(c, to),
           TypeOK',
           exists \subseteq exists',
           created \subseteq created' /\ created' \subseteq created \cup {c},
           \A s \in Service \ {c} : /\ toFind'[s] = toFind[s]
                                    /\ found'[s] = found[s]
                                    /\ linked'[s] = linked[s],
           IsSidekick(c) => to = "exited" /\ c \notin created',
           c \in created' => to \in {"links", "setLinks", "wait", "exited"},
           to \in {"links", "setLinks", "wait"} => c \in created',
           to = "exited" /\ ~ err'[c] /\ ~ IsSidekick(c) => c \in exists',
           \A t \in Owed(c) : ~ err'[t] => LinkKept(c, t)'
    PROVE  ProjectInv'
<1>1. /\ \A s \in Service \ {c} : gpc'[s] = gpc[s] /\ err'[s] = err[s]
      /\ gpc'[c] = to
      /\ \A s \in Service : err[s] => err'[s]
      /\ \A s \in Service : IsSidekick(s)' <=> IsSidekick(s)
  BY GoroutineFacts
<1>2. cfg' = cfg /\ ignored' = ignored
  BY DEF GoroutineStep, Caller, walk
<1>3. ServiceInv'
  <2> SUFFICES ASSUME NEW s \in Service
               PROVE  /\ IsSidekick(s) => gpc'[s] \in {"none", "deps", "exited"} /\ s \notin created'
                      /\ s \in created' => gpc'[s] \in {"links", "setLinks", "wait", "exited"}
                      /\ gpc'[s] \in {"links", "setLinks", "wait"} => s \in created'
                      /\ gpc'[s] = "exited" /\ ~ err'[s] /\ ~ IsSidekick(s) => s \in exists'
    BY <1>1 DEF ServiceInv
  <2>1. CASE s = c
    BY <1>1, <2>1
  <2>2. CASE s # c
    BY <1>1, <2>2 DEF ProjectInv, ServiceInv
  <2>3. QED
    BY <2>1, <2>2
<1>4. LinkInv'
  <2> SUFFICES ASSUME NEW s \in Service, NEW t \in cfg.links[s] \cap Service,
                      ~ IsSidekick(t), t \notin ignored[s], ~ err'[t]
               PROVE  LinkKept(s, t)'
    BY <1>1, <1>2 DEF LinkInv
  <2>1. CASE s = c
    BY <2>1 DEF Owed
  <2>2. CASE s # c
    <3>1. LinkKept(s, t)
      BY <1>1 DEF ProjectInv, LinkInv
    <3>2. s \in created' <=> s \in created
      BY <2>2
    <3>3. QED
      BY <1>1, <2>2, <3>1, <3>2 DEF LinkKept
  <2>3. QED
    BY <2>1, <2>2
<1>5. WalkInv' /\ LaunchInv' /\ ReturnInv' /\ DepsFirst' /\ IgnoredOnCycle'
  BY GoroutineKeepsCaller
<1>6. QED
  BY <1>3, <1>4, <1>5 DEF ProjectInv

\* What the goroutine of c knows before its step.
LEMMA OwedKept ==
    ASSUME ProjectInv, NEW c \in Service, NEW t \in Owed(c), ~ err[t]
    PROVE  /\ t \in cfg.links[c] /\ t \in Service
           /\ LinkKept(c, t)
           /\ gpc[c] \in {"links", "setLinks", "wait"} => t \in exists
<1>1. t \in cfg.links[c] /\ t \in Service /\ ~ IsSidekick(t) /\ t \notin ignored[c]
  BY DEF Owed
<1>2. LinkKept(c, t)
  BY <1>1 DEF ProjectInv, LinkInv
<1>3. ASSUME gpc[c] \in {"links", "setLinks", "wait"} PROVE t \in exists
  <2>1. ~ IsSidekick(c)
    BY <1>3 DEF ProjectInv, ServiceInv
  <2>2. t \in Deps(c)
    BY <1>1, <2>1, GraphTypes DEF ProjectInv, Deps
  <2>3. gpc[t] = "exited"
    BY <1>1, <1>3, <2>2 DEF ProjectInv, DepsFirst
  <2>4. QED
    BY <1>1, <2>3 DEF ProjectInv, ServiceInv
<1>4. QED
  BY <1>1, <1>2, <1>3

\* The dependencies have ended.
LEMMA waitForDepsKeepsInv ==
    ASSUME ProjectInv, NEW c \in Service, waitForDeps(c)
    PROVE  ProjectInv'
<1> DEFINE to == IF IsSidekick(c) THEN "exited" ELSE "find"
<1>1. GoroutineStep(c, to) /\ UNCHANGED rancher
  BY DEF waitForDeps, GoroutineStep, Leave, Goto, GPC
<1>2. c \notin created
  BY DEF waitForDeps, ProjectInv, ServiceInv
<1>3. UNCHANGED <<exists, created, toFind, found, linked>>
  BY <1>1 DEF rancher
<1>4. TypeOK'
  BY <1>1, <1>3, GoroutineFacts DEF ProjectInv, TypeOK, GoroutineStep, Caller, walk
<1>5. gpc'[c] = to
  BY <1>1, GoroutineFacts
<1>6. \A t \in Owed(c) : LinkKept(c, t)'
  BY <1>2, <1>3, <1>5 DEF LinkKept
<1>7. QED
  BY <1>1, <1>2, <1>3, <1>4, <1>6, GoroutineKeepsInv

\* The service is looked up.
LEMMA findExistingKeepsInv ==
    ASSUME ProjectInv, NEW c \in Service, findExisting(c)
    PROVE  ProjectInv'
<1>1. PICK to \in {"exited", "post"} :
         /\ GoroutineStep(c, to)
         /\ to = "exited" => c \in exists \/ err'[c]
  <2>1. err \in [Service -> BOOLEAN]
    BY DEF ProjectInv, TypeOK
  <2>2. CASE c \in exists /\ Leave(c, FALSE)
    BY <2>2 DEF findExisting, GoroutineStep, Leave, Goto, GPC
  <2>3. CASE c \notin exists /\ Goto(c, "post") /\ UNCHANGED err
    BY <2>3 DEF findExisting, GoroutineStep, Goto, GPC
  <2>4. CASE ApiMayFail /\ Leave(c, TRUE)
    <3>1. err'[c]
      BY <2>1, <2>4 DEF Leave
    <3>2. QED
      BY <2>4, <3>1 DEF findExisting, GoroutineStep, Leave, Goto, GPC
  <2>5. QED
    BY <2>2, <2>3, <2>4 DEF findExisting
<1>2. c \notin created /\ ~ IsSidekick(c)
  BY DEF findExisting, ProjectInv, ServiceInv
<1>3. UNCHANGED <<exists, created, toFind, found, linked>>
  BY DEF findExisting, rancher
<1>4. TypeOK'
  BY <1>1, <1>3, GoroutineFacts DEF ProjectInv, TypeOK, GoroutineStep, Caller, walk
<1>5. gpc'[c] = to
  BY <1>1, GoroutineFacts
<1>6. \A t \in Owed(c) : LinkKept(c, t)'
  BY <1>1, <1>2, <1>3, <1>5 DEF LinkKept
<1>7. QED
  BY <1>1, <1>2, <1>3, <1>4, <1>6, GoroutineKeepsInv
\* A step that ends in an error and makes at most the service itself.
LEMMA FailureKeepsInv ==
    ASSUME ProjectInv, NEW c \in Service,
           UNCHANGED <<Caller, toFind, found, linked>>,
           gpc[c] \in {"post", "links", "setLinks", "wait"}, Leave(c, TRUE),
           \/ UNCHANGED <<exists, created>>
           \/ exists' = exists \cup {c} /\ created' = created \cup {c}
    PROVE  ProjectInv'
<1>1. GoroutineStep(c, "exited")
  BY DEF GoroutineStep, Leave, Goto, GPC
<1>2. err'[c] /\ gpc'[c] = "exited"
  BY DEF Leave, Goto, ProjectInv, TypeOK
<1>3. ~ IsSidekick(c)
  BY DEF ProjectInv, ServiceInv
<1>4. exists' \subseteq Service /\ created' \subseteq exists'
  BY DEF ProjectInv, TypeOK
<1>5. TypeOK'
  BY <1>1, <1>4, GoroutineFacts DEF ProjectInv, TypeOK, GoroutineStep, Caller, walk
<1>6. \A t \in Owed(c) : LinkKept(c, t)'
  BY <1>2 DEF LinkKept
<1>7. QED
  BY <1>1, <1>2, <1>3, <1>5, <1>6, GoroutineKeepsInv

\* The service is made.
LEMMA createServiceKeepsInv ==
    ASSUME ProjectInv, NEW c \in Service, createService(c)
    PROVE  ProjectInv'
<1> USE DEF createService
<1>1. ~ IsSidekick(c) /\ cfg.links[c] \cup cfg.external[c] \subseteq Name
  BY GraphTypes DEF ProjectInv, ServiceInv
<1>2. CASE Leave(c, TRUE) /\ UNCHANGED toFind
           /\ \/ UNCHANGED <<exists, created>>
              \/ exists' = exists \cup {c} /\ created' = created \cup {c}
  BY <1>2, FailureKeepsInv
<1>3. CASE /\ Goto(c, "links") /\ UNCHANGED err
           /\ exists' = exists \cup {c} /\ created' = created \cup {c}
           /\ toFind' = [toFind EXCEPT ![c] = cfg.links[c] \cup cfg.external[c]]
  <2>1. GoroutineStep(c, "links")
    BY <1>3 DEF GoroutineStep, Goto, GPC
  <2>2. toFind' \in [Service -> SUBSET Name] /\ toFind'[c] = cfg.links[c] \cup cfg.external[c]
        /\ \A s \in Service \ {c} : toFind'[s] = toFind[s]
    BY <1>1, <1>3 DEF ProjectInv, TypeOK
  <2>3. exists' \subseteq Service /\ created' \subseteq exists'
    BY <1>3 DEF ProjectInv, TypeOK
  <2>4. TypeOK'
    <3>1. found' \in [Service -> SUBSET Service] /\ linked' \in [Service -> SUBSET Service]
      BY DEF ProjectInv, TypeOK
    <3>2. QED
      BY <2>1, <2>2, <2>3, <3>1, GoroutineTypes
  <2>5. gpc'[c] = "links"
    BY <2>1, GoroutineFacts
  <2>6. \A t \in Owed(c) : LinkKept(c, t)'
    BY <2>2, <2>5 DEF LinkKept, Owed
  <2>7. QED
    BY <1>1, <1>3, <2>1, <2>2, <2>4, <2>6, GoroutineKeepsInv
<1>4. QED
  BY <1>2, <1>3

\* A link is looked up, or all of them have been.
LEMMA getLinksKeepsInv ==
    ASSUME ProjectInv, NEW c \in Service, getLinks(c)
    PROVE  ProjectInv'
<1> USE DEF getLinks
<1>1. ~ IsSidekick(c) /\ c \in created
  BY DEF ProjectInv, ServiceInv
<1>2. CASE Leave(c, TRUE) /\ UNCHANGED <<toFind, found>>
  BY <1>2, FailureKeepsInv
<1>3. CASE toFind[c] = {} /\ Goto(c, "setLinks") /\ UNCHANGED <<err, toFind, found>>
  <2>1. GoroutineStep(c, "setLinks")
    BY <1>3 DEF GoroutineStep, Goto, GPC
  <2>2. TypeOK'
    BY <1>3, <2>1, GoroutineFacts DEF ProjectInv, TypeOK, GoroutineStep, Caller, walk
  <2>3. gpc'[c] = "setLinks"
    BY <2>1, GoroutineFacts
  <2>4. ASSUME NEW t \in Owed(c), ~ err'[t] PROVE LinkKept(c, t)'
    <3>1. LinkKept(c, t)
      BY <1>3, <2>4, OwedKept
    <3>2. QED
      BY <1>3, <2>3, <3>1 DEF LinkKept
  <2>5. QED
    BY <1>1, <1>3, <2>1, <2>2, <2>4, GoroutineKeepsInv
<1>4. CASE \E u \in toFind[c] :
              /\ toFind' = [toFind EXCEPT ![c] = @ \ {u}]
              /\ found' = [found EXCEPT ![c] = @ \cup ({u} \cap exists)]
              /\ UNCHANGED <<gpc, err>>
  <2>1. PICK u \in toFind[c] :
              /\ toFind' = [toFind EXCEPT ![c] = @ \ {u}]
              /\ found' = [found EXCEPT ![c] = @ \cup ({u} \cap exists)]
              /\ UNCHANGED <<gpc, err>>
    BY <1>4
  <2>2. gpc' = [gpc EXCEPT ![c] = "links"]
    BY <2>1 DEF ProjectInv, TypeOK
  <2>3. GoroutineStep(c, "links")
    BY <2>1, <2>2 DEF GoroutineStep, GPC
  <2>4. /\ toFind' \in [Service -> SUBSET Name] /\ found' \in [Service -> SUBSET Service]
        /\ toFind'[c] = toFind[c] \ {u} /\ found'[c] = found[c] \cup ({u} \cap exists)
        /\ \A s \in Service \ {c} : toFind'[s] = toFind[s] /\ found'[s] = found[s]
    BY <2>1 DEF ProjectInv, TypeOK
  <2>5. TypeOK'
    BY <2>1, <2>4 DEF ProjectInv, TypeOK, Caller, walk
  <2>6. ASSUME NEW t \in Owed(c), ~ err'[t] PROVE LinkKept(c, t)'
    <3>1. LinkKept(c, t) /\ t \in exists
      BY <2>1, <2>6, OwedKept
    <3>2. QED
      BY <2>1, <2>4, <3>1 DEF LinkKept
  <2>7. QED
    BY <1>1, <2>3, <2>4, <2>5, <2>6, GoroutineKeepsInv
<1>5. QED
  BY <1>2, <1>3, <1>4

\* The links are set.
LEMMA setupLinksKeepsInv ==
    ASSUME ProjectInv, NEW c \in Service, setupLinks(c)
    PROVE  ProjectInv'
<1> USE DEF setupLinks
<1>1. ~ IsSidekick(c) /\ c \in created
  BY DEF ProjectInv, ServiceInv
<1>2. CASE ApiMayFail /\ Leave(c, TRUE) /\ UNCHANGED linked
  BY <1>2, FailureKeepsInv
<1>3. CASE linked' = [linked EXCEPT ![c] = found[c]] /\ Goto(c, "wait") /\ UNCHANGED err
  <2>1. GoroutineStep(c, "wait")
    BY <1>3 DEF GoroutineStep, Goto, GPC
  <2>2. /\ linked' \in [Service -> SUBSET Service] /\ linked'[c] = found[c]
        /\ \A s \in Service \ {c} : linked'[s] = linked[s]
    BY <1>3 DEF ProjectInv, TypeOK
  <2>3. TypeOK'
    <3>1. /\ exists' \subseteq Service /\ created' \subseteq exists'
          /\ toFind' \in [Service -> SUBSET Name] /\ found' \in [Service -> SUBSET Service]
      BY DEF ProjectInv, TypeOK
    <3>2. QED
      BY <2>1, <2>2, <3>1, GoroutineTypes
  <2>4. gpc'[c] = "wait"
    BY <2>1, GoroutineFacts
  <2>5. ASSUME NEW t \in Owed(c), ~ err'[t] PROVE LinkKept(c, t)'
    <3>1. LinkKept(c, t)
      BY <1>3, <2>5, OwedKept
    <3>2. QED
      BY <2>2, <2>4, <3>1 DEF LinkKept
  <2>6. QED
    BY <1>1, <2>1, <2>2, <2>3, <2>5, GoroutineKeepsInv
<1>4. QED
  BY <1>2, <1>3

\* The service is no longer in transition, or asking for it failed.
LEMMA WaitKeepsInv ==
    ASSUME ProjectInv, NEW c \in Service, Wait(c)
    PROVE  ProjectInv'
<1> USE DEF Wait, rancher
<1>1. ~ IsSidekick(c) /\ c \in created /\ c \in exists
  BY DEF ProjectInv, ServiceInv, TypeOK
<1>2. PICK failed \in BOOLEAN : Leave(c, failed)
  BY ProjectAssumption
<1>3. GoroutineStep(c, "exited")
  BY <1>2 DEF GoroutineStep, Leave, Goto, GPC
<1>4. TypeOK'
  BY <1>3, GoroutineFacts DEF ProjectInv, TypeOK, GoroutineStep, Caller, walk
<1>5. gpc'[c] = "exited"
  BY <1>3, GoroutineFacts
<1>6. ASSUME NEW t \in Owed(c), ~ err'[t] PROVE LinkKept(c, t)'
  <2>1. ~ err[t]
    <3>1. t \in Service
      BY DEF Owed
    <3>2. QED
      BY <1>3, <1>6, <3>1, GoroutineFacts
  <2>2. LinkKept(c, t)
    BY <2>1, OwedKept
  <2>3. QED
    BY <1>5, <2>2 DEF LinkKept
<1>7. QED
  BY <1>1, <1>3, <1>4, <1>6, GoroutineKeepsInv

-----------------------------------------------------------------------------
\* ProjectInv is an inductive invariant of Project.Create(), for every compose file,
\* every order of the walk and every failure of the API (project.go:247-373,
\* service-wrapper.go, service.go:72-80).
THEOREM ProjectInvariant == Spec => []ProjectInv
<1>1. ProjectInv /\ [Next]_vars => ProjectInv'
  <2> SUFFICES ASSUME ProjectInv, [Next]_vars PROVE ProjectInv'
    OBVIOUS
  <2>1. CASE \E s \in Service : Do(s)
    BY <2>1, waitForDepsKeepsInv, findExistingKeepsInv, createServiceKeepsInv,
       getLinksKeepsInv, setupLinksKeepsInv, WaitKeepsInv DEF Do
  <2>2. CASE LookAtDep
    BY <2>2, IgnoreDepKeepsInv, CycleDetectedKeepsInv, SkipDepKeepsInv, VisitDepKeepsInv
       DEF LookAtDep
  <2>3. CASE Create \/ Launch \/ EndLaunch \/ Return
    BY <2>3, CreateKeepsInv, LaunchKeepsInv, EndLaunchKeepsInv, ReturnKeepsInv
  <2>4. CASE \E s \in Service : VisitRoot(s) \/ WrapperWait(s)
    BY <2>4, VisitRootKeepsInv, WrapperWaitKeepsInv
  <2>5. CASE UNCHANGED vars
    <3>1. UNCHANGED <<cfg, err, gpc, ignored, rancher>>
      BY <2>5 DEF vars, rancher
    <3>2. ServiceInv' /\ LinkInv' /\ DepsFirst' /\ IgnoredOnCycle'
      BY <3>1, WalkKeepsServices, IgnoredKept
    <3>3. TypeOK'
      BY <2>5 DEF vars, ProjectInv, TypeOK
    <3>4. WalkInv'
      BY <2>5, GraphFixed DEF vars, ProjectInv, WalkInv, Reaches, Closed
    <3>5. LaunchInv' /\ ReturnInv'
      BY <2>5, GraphFixed DEF vars, ProjectInv, LaunchInv, ReturnInv, History
    <3>6. QED
      BY <3>2, <3>3, <3>4, <3>5 DEF ProjectInv
  <2>6. QED
    BY <2>1, <2>2, <2>3, <2>4, <2>5 DEF Next, CallerStep, Finished
<1>2. QED
  BY <1>1, InitProjectInv, PTL DEF Spec

\* The variables of Project.Create() keep their types.
THEOREM ProjectTypeCorrect == Spec => []TypeOK
<1>1. ProjectInv => TypeOK
  BY DEF ProjectInv
<1>2. QED
  BY <1>1, ProjectInvariant, PTL

\* When Create() returns, every goroutine of it has ended (project.go:350-362).
THEOREM ReturnIsQuiescent == Spec => []QuiescentReturn
<1>1. ProjectInv => QuiescentReturn
  BY DEF ProjectInv, ReturnInv, QuiescentReturn
<1>2. QED
  BY <1>1, ProjectInvariant, PTL

\* Create() returns nil exactly if no service failed (project.go:348-372).
THEOREM ErrorsAreReported == Spec => []ErrorIsReported
<1>1. ProjectInv => ErrorIsReported
  BY DEF ProjectInv, ReturnInv, ErrorIsReported
<1>2. QED
  BY <1>1, ProjectInvariant, PTL

\* What nil says: Create() has returned, and no service failed.
LEMMA NilFacts ==
    ASSUME ProjectInv, result = "nil"
    PROVE  \A s \in Service : gpc[s] = "exited" /\ ~ err[s]
<1>1. phase = "returned"
  BY DEF ProjectInv, ReturnInv, TypeOK
<1>2. QED
  BY <1>1 DEF ProjectInv, ReturnInv

\* If Create() returns nil, every service of the file exists (service.go:72-80).
THEOREM NilIsTrue == Spec => []NilMeansCreated
<1>1. ProjectInv => NilMeansCreated
  BY NilFacts DEF ProjectInv, ServiceInv, NilMeansCreated
<1>2. QED
  BY <1>1, ProjectInvariant, PTL

\* If Create() returns nil, the services it made have the links that are not ignored
\* on a cycle (service-wrapper.go:66-76, service.go:502-532).
THEOREM LinksAreComplete == Spec => []LinksComplete
<1>1. ASSUME ProjectInv PROVE LinksComplete
  <2> SUFFICES ASSUME result = "nil", NEW s \in created, NEW t \in cfg.links[s] \cap Service,
                      ~ IsSidekick(t), t \notin ignored[s]
               PROVE  t \in linked[s]
    BY DEF LinksComplete
  <2>1. s \in Service
    BY <1>1 DEF ProjectInv, TypeOK
  <2>2. gpc[s] = "exited" /\ ~ err[s] /\ ~ err[t]
    BY <1>1, <2>1, NilFacts
  <2>3. LinkKept(s, t)
    BY <1>1, <2>1, <2>2 DEF ProjectInv, LinkInv
  <2>4. QED
    BY <2>2, <2>3 DEF LinkKept
<1>2. QED
  BY <1>1, ProjectInvariant, PTL

\* A service's action runs after those of the dependencies it waits for
\* (service-wrapper.go:61-98).
THEOREM DependenciesComeFirst == Spec => []DepsFirst
<1>1. ProjectInv => DepsFirst
  BY DEF ProjectInv
<1>2. QED
  BY <1>1, ProjectInvariant, PTL

\* Only links that close a cycle are ignored (project.go:286-290).
THEOREM OnlyCyclesAreIgnored == Spec => []IgnoredOnCycle
<1>1. ProjectInv => IgnoredOnCycle
  BY DEF ProjectInv
<1>2. QED
  BY <1>1, ProjectInvariant, PTL

\* Without a Sidekick that depends on itself, every service gets its goroutine
\* (project.go:299-300, 345).
THEOREM NothingElseStrands == Spec => []OnlyHardCyclesStrand
<1>1. ASSUME ProjectInv PROVE OnlyHardCyclesStrand
  <2> SUFFICES ASSUME phase \in {"wait", "returned"}, ~ HardCycle PROVE Spawned = Service
    BY DEF OnlyHardCyclesStrand
  <2>1. path = <<>>
    BY <1>1 DEF ProjectInv, WalkInv
  <2>2. History = {}
    BY <2>1 DEF History
  <2>3. QED
    BY <1>1, <2>2 DEF ProjectInv, LaunchInv, Spawned
<1>2. QED
  BY <1>1, ProjectInvariant, PTL

-----------------------------------------------------------------------------
(* Who waits for whom.  WaitInv and NoCircularWait are kept together.      *)

CircleFree == WaitInv /\ NoCircularWait

\* A step that starts no goroutine and leaves the walk alone changes nothing.
LEMMA FrameKeepsWaits ==
    ASSUME CircleFree, UNCHANGED <<cfg, path, todo, launched, ignored>>,
           \A s \in Service : gpc'[s] = "none" <=> gpc[s] = "none"
    PROVE  CircleFree'
<1>1. Spawned' = Spawned
  BY DEF Spawned
<1>2. \A s \in Service : WaitsFor(s)' = WaitsFor(s)
  BY GraphFixed DEF WaitsFor
<1>3. History' = History
  BY DEF History
<1>4. WaitInv'
  <2>1. \A s \in Spawned : WaitsFor(s)' = WaitsFor(s)
    BY <1>2 DEF Spawned
  <2>2. QED
    BY <1>1, <1>2, <1>3, <2>1 DEF CircleFree, WaitInv
<1>5. NoCircularWait'
  BY <1>1, <1>2 DEF CircleFree, NoCircularWait, Spawned
<1>6. QED
  BY <1>4, <1>5 DEF CircleFree

\* More ignored dependencies, more launched services and another path do not make a
\* circle, as long as no goroutine is started.
LEMMA WalkKeepsCircleFree ==
    ASSUME CircleFree, UNCHANGED <<cfg, gpc>>,
           \A s \in Service : ignored[s] \subseteq ignored'[s]
    PROVE  NoCircularWait'
<1>1. Spawned' = Spawned
  BY DEF Spawned
<1>2. \A s \in Service : WaitsFor(s)' \subseteq WaitsFor(s)
  BY GraphFixed DEF WaitsFor
<1>3. QED
  BY <1>1, <1>2 DEF CircleFree, NoCircularWait, Spawned

\* A service is visited that nobody has visited before.
LEMMA VisitRootKeepsWaits ==
    ASSUME ProjectInv, CircleFree, NEW c \in Service, VisitRoot(c)
    PROVE  CircleFree'
<1>1. CASE c \in launched
  BY <1>1, FrameKeepsWaits DEF VisitRoot
<1>2. CASE c \notin launched
  <2>1. /\ launched' = launched \cup {c} /\ path' = <<c>> /\ path = <<>>
        /\ todo' = [todo EXCEPT ![c] = Targets(c)]
        /\ UNCHANGED <<cfg, gpc, ignored>>
    BY <1>2 DEF VisitRoot, Visit
  <2>2. \A s \in Service : WaitsFor(s)' = WaitsFor(s)
    BY <2>1, GraphFixed DEF WaitsFor
  <2>3. Spawned' = Spawned /\ History' = {c} /\ History = {}
    BY <2>1 DEF Spawned, History
  <2>4. todo'[c] = Targets(c)
    BY <2>1 DEF ProjectInv, TypeOK
  <2>5. WaitsFor(c) \ todo'[c] = {}
    BY <2>4 DEF WaitsFor, Deps
  <2>6. (\A s \in Service : \A i \in 1..Len(path) : s = path[i] =>
            \A t \in WaitsFor(s) \ todo[s] :
               t \in launched /\ (t \in History => i < Len(path) /\ t = path[i + 1]))'
    <3>1. Len(path') = 1 /\ path'[1] = c
      BY <2>1
    <3>2. QED
      BY <2>2, <2>5, <3>1
  <2>7. \A s \in Spawned : WaitsFor(s)' \subseteq launched' \ History'
    BY <1>2, <2>1, <2>2, <2>3 DEF CircleFree, WaitInv, Spawned
  <2>8. NoCircularWait'
    BY <2>1, WalkKeepsCircleFree
  <2>9. QED
    BY <2>3, <2>6, <2>7, <2>8 DEF CircleFree, WaitInv
<1>3. QED
  BY <1>1, <1>2

\* An ignored dependency is not waited for.
LEMMA IgnoreDepKeepsWaits ==
    ASSUME ProjectInv, CircleFree, path # <<>>, NEW d \in todo[Current], IgnoreDep(Current, d),
           UNCHANGED <<cfg, gpc>>
    PROVE  CircleFree'
<1> DEFINE c == Current
<1>1. c \in Service
  BY CurrentFacts
<1>2. /\ ignored' = [ignored EXCEPT ![c] = @ \cup {d}]
      /\ todo' = [todo EXCEPT ![c] = @ \ {d}]
      /\ UNCHANGED <<path, launched>>
  BY DEF IgnoreDep
<1> HIDE DEF c
<1>3. \A s \in Service : /\ ignored'[s] = IF s = c THEN ignored[s] \cup {d} ELSE ignored[s]
                         /\ todo'[s] = IF s = c THEN todo[s] \ {d} ELSE todo[s]
  BY <1>1, <1>2 DEF ProjectInv, TypeOK
<1>4. \A s \in Service : /\ WaitsFor(s)' \subseteq WaitsFor(s)
                         /\ WaitsFor(s)' \ todo'[s] \subseteq WaitsFor(s) \ todo[s]
  BY <1>3, GraphFixed DEF WaitsFor
<1>5. Spawned' = Spawned /\ History' = History
  BY <1>2 DEF Spawned, History
<1>6. NoCircularWait'
  BY <1>3, WalkKeepsCircleFree
<1>7. WaitInv'
  BY <1>2, <1>4, <1>5 DEF CircleFree, WaitInv, Spawned
<1>8. QED
  BY <1>6, <1>7 DEF CircleFree

\* The walk of a root is given up: nobody is on the path any more.
LEMMA CycleDetectedKeepsWaits ==
    ASSUME CircleFree, path # <<>>, NEW d \in todo[Current], CycleDetected(Current, d),
           UNCHANGED <<cfg, gpc>>
    PROVE  CircleFree'
<1> USE DEF CycleDetected
<1>1. Len(path') = 0 /\ History' = {}
  BY DEF History
<1>2. Spawned' = Spawned /\ \A s \in Service : WaitsFor(s)' = WaitsFor(s)
  BY GraphFixed DEF Spawned, WaitsFor
<1>3. NoCircularWait'
  BY WalkKeepsCircleFree
<1>4. WaitInv'
  BY <1>1, <1>2 DEF CircleFree, WaitInv, Spawned
<1>5. QED
  BY <1>3, <1>4 DEF CircleFree

\* A dependency that is passed over is launched and not on the path, or not a service.
LEMMA SkipDepKeepsWaits ==
    ASSUME ProjectInv, CircleFree, path # <<>>, NEW d \in todo[Current], SkipDep(Current, d),
           UNCHANGED <<cfg, gpc>>
    PROVE  CircleFree'
<1> DEFINE c == Current
<1>1. c \in Service
  BY CurrentFacts
<1>2. /\ d \notin History /\ d \in launched \cup Missing
      /\ todo' = [todo EXCEPT ![c] = @ \ {d}]
      /\ UNCHANGED <<path, launched, ignored>>
  BY DEF SkipDep
<1> HIDE DEF c
<1>3. \A s \in Service : todo'[s] = IF s = c THEN todo[s] \ {d} ELSE todo[s]
  BY <1>1, <1>2 DEF ProjectInv, TypeOK
<1>4. \A s \in Service : WaitsFor(s)' = WaitsFor(s) /\ WaitsFor(s) \subseteq Service
  BY <1>2, GraphFixed DEF WaitsFor, Deps
<1>5. \A s \in Service : \A t \in WaitsFor(s)' \ todo'[s] :
          t \in WaitsFor(s) \ todo[s] \/ (t \in launched /\ t \notin History)
  BY <1>2, <1>3, <1>4, ProjectAssumption
<1>6. Spawned' = Spawned /\ History' = History
  BY <1>2 DEF Spawned, History
<1>7. NoCircularWait'
  BY <1>2, WalkKeepsCircleFree
<1>8. WaitInv'
  BY <1>2, <1>4, <1>5, <1>6 DEF CircleFree, WaitInv, Spawned
<1>9. QED
  BY <1>7, <1>8 DEF CircleFree

\* A dependency is visited: it is the next one on the path.
LEMMA VisitDepKeepsWaits ==
    ASSUME ProjectInv, CircleFree, path # <<>>, NEW d \in todo[Current], VisitDep(Current, d),
           UNCHANGED <<cfg, gpc>>
    PROVE  CircleFree'
<1> DEFINE c == Current
           n == Len(path)
<1>1. /\ c \in Service /\ c \in launched /\ n \in Nat \ {0} /\ c = path[n]
      /\ path \in Seq(Service)
      /\ History = {path[i] : i \in 1..n}
      /\ \A i \in 1..n : path[i] \in launched
  BY CurrentFacts DEF Current, ProjectInv, TypeOK, WalkInv
<1>2. /\ d \in Service /\ d \notin launched /\ d # c
      /\ launched' = launched \cup {d}
      /\ path' = Append(path, d)
      /\ todo' = [todo EXCEPT ![c] = @ \ {d}, ![d] = Targets(d)]
      /\ UNCHANGED ignored
  BY <1>1 DEF VisitDep
<1> HIDE DEF c
<1>3. /\ Len(path') = n + 1 /\ path'[n + 1] = d
      /\ \A i \in 1..n : path'[i] = path[i]
  BY <1>1, <1>2
<1>4. \A s \in Service : todo'[s] = IF s = d THEN Targets(d)
                                    ELSE IF s = c THEN todo[s] \ {d} ELSE todo[s]
  BY <1>1, <1>2 DEF ProjectInv, TypeOK
<1>5. \A s \in Service : WaitsFor(s)' = WaitsFor(s)
  BY <1>2, GraphFixed DEF WaitsFor
<1>6. Spawned' = Spawned
  BY DEF Spawned
<1>7. History' = History \cup {d}
  <2>1. DOMAIN path' = 1..(n + 1) /\ \A i \in 1..(n + 1) : i \in 1..n \/ i = n + 1
    BY <1>1, <1>2
  <2>2. n + 1 \in 1..(n + 1) /\ 1..n \subseteq 1..(n + 1)
    BY <1>1
  <2>3. QED
    BY <1>1, <1>3, <2>1, <2>2 DEF History
<1>8. \A s \in Spawned : WaitsFor(s)' \subseteq launched' \ History'
  BY <1>2, <1>5, <1>7 DEF CircleFree, WaitInv, Spawned
<1>9. (\A s \in Service : \A i \in 1..Len(path) : s = path[i] =>
          \A t \in WaitsFor(s) \ todo[s] :
             t \in launched /\ (t \in History => i < Len(path) /\ t = path[i + 1]))'
  <2> SUFFICES ASSUME NEW s \in Service, NEW i \in 1..(n + 1), s = path'[i],
                      NEW t \in WaitsFor(s), t \notin todo'[s]
               PROVE  t \in launched' /\ (t \in History' => i < n + 1 /\ t = path'[i + 1])
    BY <1>3, <1>5
  <2>1. CASE i = n + 1
    <3>1. s = d /\ t \in Targets(d)
      BY <1>3, <2>1 DEF WaitsFor, Deps
    <3>2. QED
      BY <1>4, <3>1
  <2>2. CASE i = n /\ t = d
    BY <1>1, <1>2, <1>3, <2>2
  <2>3. CASE i \in 1..n /\ (i # n \/ t # d)
    <3>1. s = path[i] /\ s \in launched /\ s # d
      BY <1>1, <1>2, <1>3, <2>3
    <3>2. s = c => i = n
      <4>1. \A k \in 1..n : path[k] = path[n] => k = n
        BY <1>1 DEF ProjectInv, WalkInv
      <4>2. QED
        BY <1>1, <2>3, <3>1, <4>1
    <3>3. t \notin todo[s]
      BY <1>4, <2>3, <3>1, <3>2
    <3>4. t \in launched /\ (t \in History => i < n /\ t = path[i + 1])
      BY <2>3, <3>1, <3>3 DEF CircleFree, WaitInv
    <3>5. t # d
      BY <1>2, <3>4
    <3>6. i < n => i < n + 1 /\ path'[i + 1] = path[i + 1]
      BY <1>1, <1>3, <2>3
    <3>7. QED
      BY <1>2, <1>7, <3>4, <3>5, <3>6
  <2>4. QED
    BY <1>1, <2>1, <2>2, <2>3
<1>10. NoCircularWait'
  BY <1>2, WalkKeepsCircleFree
<1>11. QED
  BY <1>6, <1>8, <1>9, <1>10 DEF CircleFree, WaitInv

\* A goroutine is started: it waits for services that are not on the path, and nobody
\* who has been started before waits for it.
LEMMA LaunchKeepsWaits ==
    ASSUME ProjectInv, CircleFree, Launch
    PROVE  CircleFree'
<1> DEFINE c == Current
           n == Len(path)
<1>1. /\ c \in Service /\ gpc[c] = "none" /\ n \in Nat \ {0} /\ c = path[n]
      /\ path \in Seq(Service)
      /\ History = {path[i] : i \in 1..n}
      /\ todo[c] = {}
  BY CurrentFacts DEF Launch, Current, ProjectInv, TypeOK
<1>2. /\ gpc' = [gpc EXCEPT ![c] = "deps"]
      /\ path' = SubSeq(path, 1, n - 1)
      /\ UNCHANGED <<cfg, todo, launched, ignored>>
  BY DEF Launch
<1> HIDE DEF c
<1>3. Len(path') = n - 1 /\ \A i \in 1..(n - 1) : path'[i] = path[i]
  BY <1>1, <1>2, FrontFacts
<1>4. \A s \in Service : WaitsFor(s)' = WaitsFor(s)
  BY <1>2, GraphFixed DEF WaitsFor
<1>5. Spawned' = Spawned \cup {c} /\ c \notin Spawned
  BY <1>1, <1>2 DEF Spawned, ProjectInv, TypeOK
<1>6. c \in History
  BY <1>1
<1>7. History' \subseteq History /\ c \notin History'
  <2>1. DOMAIN path' = 1..(n - 1)
    <3>1. path' \in Seq(Service)
      BY <1>1, <1>2, FrontFacts
    <3>2. QED
      BY <1>1, <1>3, <3>1
  <2>2. History' = {path[i] : i \in 1..(n - 1)}
    BY <1>3, <2>1 DEF History
  <2>3. \A i \in 1..(n - 1) : i \in 1..n /\ path[i] # path[n]
    BY <1>1 DEF ProjectInv, WalkInv
  <2>4. QED
    BY <1>1, <2>2, <2>3
<1>8. WaitsFor(c) \subseteq launched \ History
  <2> SUFFICES ASSUME NEW t \in WaitsFor(c) PROVE t \in launched \ History
    OBVIOUS
  <2>1. n \in 1..n /\ t \notin todo[c] /\ ~ (n < n)
    BY <1>1
  <2>2. QED
    BY <1>1, <2>1 DEF CircleFree, WaitInv
<1>9. \A s \in Spawned : WaitsFor(s) \subseteq launched \ History
  BY DEF CircleFree, WaitInv
<1>10. \A s \in Spawned' : WaitsFor(s)' \subseteq launched' \ History'
  BY <1>1, <1>2, <1>4, <1>5, <1>7, <1>8, <1>9 DEF Spawned
<1>11. (\A s \in Service : \A i \in 1..Len(path) : s = path[i] =>
           \A t \in WaitsFor(s) \ todo[s] :
              t \in launched /\ (t \in History => i < Len(path) /\ t = path[i + 1]))'
  <2> SUFFICES ASSUME NEW s \in Service, NEW i \in 1..(n - 1), s = path'[i],
                      NEW t \in WaitsFor(s), t \notin todo[s]
               PROVE  t \in launched /\ (t \in History' => i < n - 1 /\ t = path'[i + 1])
    BY <1>2, <1>3, <1>4
  <2>1. i \in 1..n /\ s = path[i] /\ i < n
    BY <1>1, <1>3
  <2>2. t \in launched /\ (t \in History => t = path[i + 1])
    BY <2>1 DEF CircleFree, WaitInv
  <2>3. CASE i = n - 1
    BY <1>1, <1>7, <2>2, <2>3
  <2>4. CASE i < n - 1
    BY <1>1, <1>3, <1>7, <2>2, <2>4
  <2>5. QED
    BY <1>1, <2>1, <2>3, <2>4
<1>12. NoCircularWait'
  <2> SUFFICES ASSUME NEW S \in SUBSET Spawned', S # {}
               PROVE  \E s \in S : WaitsFor(s)' \cap S = {}
    BY DEF NoCircularWait
  <2>1. \A s \in S : s \in Service /\ WaitsFor(s)' = WaitsFor(s) /\ c \notin WaitsFor(s)
    BY <1>1, <1>4, <1>5, <1>6, <1>8, <1>9 DEF Spawned
  <2>2. S \ {c} \in SUBSET Spawned
    BY <1>5
  <2>3. CASE S \ {c} = {}
    <3>1. S = {c}
      BY <2>3
    <3>2. QED
      BY <2>1, <3>1
  <2>4. CASE S \ {c} # {}
    <3>1. PICK s \in S \ {c} : WaitsFor(s) \cap (S \ {c}) = {}
      BY <2>2, <2>4 DEF CircleFree, NoCircularWait
    <3>2. QED
      BY <2>1, <3>1
  <2>5. QED
    BY <2>3, <2>4
<1>13. QED
  BY <1>10, <1>11, <1>12 DEF CircleFree, WaitInv

\* A step of a goroutine neither starts nor forgets one.
LEMMA DoStepsFrame ==
    ASSUME ProjectInv, NEW c \in Service, Do(c)
    PROVE  /\ UNCHANGED <<cfg, phase, roots, path, todo, launched, ignored, waiting, result>>
           /\ \A s \in Service : gpc'[s] = "none" <=> gpc[s] = "none"
<1>1. gpc \in [Service -> GPC]
  BY DEF ProjectInv, TypeOK
<1>2. UNCHANGED Caller
  BY DEF Do, waitForDeps, findExisting, createService, getLinks, setupLinks, Wait
<1>3. gpc[c] # "none" /\ (gpc' = gpc \/ \E to \in GPC \ {"none"} : gpc' = [gpc EXCEPT ![c] = to])
  BY DEF Do, waitForDeps, findExisting, createService, getLinks, setupLinks, Wait, Leave, Goto,
         GPC
<1>4. QED
  BY <1>1, <1>2, <1>3 DEF Caller, walk

\* WaitInv and NoCircularWait hold in every reachable state.
LEMMA CircleFreeInvariant == Spec => []CircleFree
<1>1. Init => CircleFree
  <2> SUFFICES ASSUME Init PROVE CircleFree
    OBVIOUS
  <2>1. Spawned = {} /\ Len(path) = 0
    BY DEF Init, Spawned
  <2>2. QED
    BY <2>1 DEF CircleFree, WaitInv, NoCircularWait
<1>2. ProjectInv /\ CircleFree /\ [Next]_vars => CircleFree'
  <2> SUFFICES ASSUME ProjectInv, CircleFree, [Next]_vars PROVE CircleFree'
    OBVIOUS
  <2>1. CASE \E s \in Service : Do(s)
    BY <2>1, DoStepsFrame, FrameKeepsWaits
  <2>2. CASE LookAtDep
    <3>1. PICK t \in todo[Current] : \/ IgnoreDep(Current, t)
                                     \/ CycleDetected(Current, t)
                                     \/ SkipDep(Current, t)
                                     \/ VisitDep(Current, t)
      BY <2>2 DEF LookAtDep
    <3>2. path # <<>> /\ UNCHANGED <<cfg, gpc>>
      BY <2>2 DEF LookAtDep
    <3>3. QED
      BY <3>1, <3>2, IgnoreDepKeepsWaits, CycleDetectedKeepsWaits, SkipDepKeepsWaits,
         VisitDepKeepsWaits
  <2>3. CASE Launch
    BY <2>3, LaunchKeepsWaits
  <2>4. CASE \E s \in Service : VisitRoot(s)
    BY <2>4, VisitRootKeepsWaits
  <2>5. CASE Create \/ EndLaunch \/ Return \/ \E s \in Service : WrapperWait(s)
    BY <2>5, FrameKeepsWaits DEF Create, EndLaunch, Return, WrapperWait, walk
  <2>6. CASE UNCHANGED vars
    BY <2>6, FrameKeepsWaits DEF vars
  <2>7. QED
    BY <2>1, <2>2, <2>3, <2>4, <2>5, <2>6 DEF Next, CallerStep, Finished
<1>3. QED
  BY <1>1, <1>2, ProjectInvariant, PTL DEF Spec

\* The goroutines never wait for each other in a circle, for every compose file and
\* every order of the walk (project.go:286-303, service-wrapper.go:66-70).
THEOREM NobodyWaitsInACircle == Spec => []NoCircularWait
<1>1. CircleFree => NoCircularWait
  BY DEF CircleFree
<1>2. QED
  BY <1>1, CircleFreeInvariant, PTL

\* Before Create() has returned the caller or a goroutine can go on, for every file
\* in which no Sidekick depends on itself (project.go:278-373,
\* service-wrapper.go:61-98).
THEOREM NobodyIsStuck == Spec => []NeverStuck
<1>1. ASSUME ProjectInv, CircleFree PROVE NeverStuck
  <2> SUFFICES ASSUME ~ HardCycle, phase = "wait", waiting # {},
                      \A s \in waiting : gpc[s] # "exited"
               PROVE  \E s \in Service : GoroutineReady(s)
    BY DEF NeverStuck, CallerReady
  <2> DEFINE S == {s \in Service : gpc[s] # "exited"}
  <2>1. path = <<>> /\ launched = Service
    BY <1>1 DEF ProjectInv, WalkInv, LaunchInv
  <2>2. History = {}
    BY <2>1 DEF History
  <2>3. Spawned = Service
    BY <1>1, <2>1, <2>2 DEF ProjectInv, LaunchInv, Spawned
  <2>4. S # {} /\ S \in SUBSET Spawned
    BY <1>1, <2>3 DEF ProjectInv, TypeOK
  <2>5. PICK s \in S : WaitsFor(s) \cap S = {}
    BY <1>1, <2>4 DEF CircleFree, NoCircularWait
  <2>6. \A t \in WaitsFor(s) : t \in Service /\ gpc[t] = "exited"
    BY <2>5 DEF WaitsFor, Deps
  <2>7. QED
    BY <2>3, <2>6 DEF GoroutineReady, Spawned
<1>2. QED
  BY <1>1, ProjectInvariant, CircleFreeInvariant, PTL

-----------------------------------------------------------------------------
(* Every step is progress.                                                 *)

\* The points of a goroutine and the phases of the caller follow each other.
LEMMA Orders ==
    /\ Before(PhaseOrder, "start", "launch")
    /\ Before(PhaseOrder, "launch", "wait")
    /\ Before(PhaseOrder, "wait", "returned")
    /\ Before(GPCOrder, "none", "deps")
    /\ Before(GPCOrder, "deps", "find")
    /\ Before(GPCOrder, "find", "post")
    /\ Before(GPCOrder, "post", "links")
    /\ Before(GPCOrder, "links", "setLinks")
    /\ Before(GPCOrder, "setLinks", "wait")
    /\ \A x \in GPC \ {"none", "exited"} : Before(GPCOrder, x, "exited")
<1>1. \A i, j \in 1..4 : i < j => Before(PhaseOrder, PhaseOrder[i], PhaseOrder[j])
  BY DEF Before, PhaseOrder
<1>2. \A i, j \in 1..8 : i < j => Before(GPCOrder, GPCOrder[i], GPCOrder[j])
  BY DEF Before, GPCOrder
<1>3. /\ PhaseOrder[1] = "start" /\ PhaseOrder[2] = "launch"
      /\ PhaseOrder[3] = "wait" /\ PhaseOrder[4] = "returned"
  BY DEF PhaseOrder
<1>4. /\ GPCOrder[1] = "none" /\ GPCOrder[2] = "deps" /\ GPCOrder[3] = "find"
      /\ GPCOrder[4] = "post" /\ GPCOrder[5] = "links" /\ GPCOrder[6] = "setLinks"
      /\ GPCOrder[7] = "wait" /\ GPCOrder[8] = "exited"
  BY DEF GPCOrder
<1>5. /\ Before(PhaseOrder, "start", "launch")
      /\ Before(PhaseOrder, "launch", "wait")
      /\ Before(PhaseOrder, "wait", "returned")
  BY <1>1, <1>3
<1>6. /\ Before(GPCOrder, GPCOrder[1], GPCOrder[2]) /\ Before(GPCOrder, GPCOrder[2], GPCOrder[3])
      /\ Before(GPCOrder, GPCOrder[3], GPCOrder[4]) /\ Before(GPCOrder, GPCOrder[4], GPCOrder[5])
      /\ Before(GPCOrder, GPCOrder[5], GPCOrder[6]) /\ Before(GPCOrder, GPCOrder[6], GPCOrder[7])
      /\ Before(GPCOrder, GPCOrder[7], GPCOrder[8])
  BY <1>2
<1>7. \A i \in 2..7 : Before(GPCOrder, GPCOrder[i], GPCOrder[8])
  BY <1>2
<1>8. \A x \in GPC \ {"none", "exited"} : \E i \in 2..7 : x = GPCOrder[i]
  <2>1. 2 \in 2..7 /\ 3 \in 2..7 /\ 4 \in 2..7 /\ 5 \in 2..7 /\ 6 \in 2..7 /\ 7 \in 2..7
    OBVIOUS
  <2>2. QED
    BY <1>4, <2>1 DEF GPC
<1>9. QED
  BY <1>4, <1>5, <1>6, <1>7, <1>8

\* A step of a goroutine moves it on, and nobody else.
LEMMA DoAdvances ==
    ASSUME ProjectInv, NEW c \in Service, Do(c)
    PROVE  Advances
<1>1. /\ gpc \in [Service -> GPC] /\ toFind \in [Service -> SUBSET Name]
  BY DEF ProjectInv, TypeOK
<1>2. UNCHANGED <<phase, roots, path, todo, launched, waiting>>
  BY DoStepsFrame
<1>3. \A s \in Service \ {c} : Rests(s)
  <2>1. \A s \in Service \ {c} : gpc'[s] = gpc[s]
    BY <1>1 DEF Do, waitForDeps, findExisting, createService, getLinks, setupLinks, Wait,
                Leave, Goto
  <2>2. \A s \in Service \ {c} : toFind'[s] = toFind[s]
    BY <1>1 DEF Do, waitForDeps, findExisting, createService, getLinks, setupLinks, Wait,
                rancher
  <2>3. QED
    BY <2>1, <2>2 DEF Rests
<1>4. MovesOn(c)
  <2>1. ASSUME NEW failed, Leave(c, failed), gpc[c] \notin {"none", "exited"}
        PROVE  MovesOn(c)
    <3>1. gpc'[c] = "exited" /\ gpc[c] \in GPC \ {"none", "exited"}
      BY <1>1, <2>1 DEF Leave, Goto
    <3>2. QED
      BY <3>1, Orders DEF MovesOn
  <2>2. ASSUME NEW to, Goto(c, to), Before(GPCOrder, gpc[c], to)
        PROVE  MovesOn(c)
    BY <1>1, <2>2 DEF MovesOn, Goto
  <2>3. CASE waitForDeps(c)
    BY <2>1, <2>2, <2>3, Orders DEF waitForDeps
  <2>4. CASE findExisting(c)
    BY <2>1, <2>2, <2>4, Orders DEF findExisting
  <2>5. CASE createService(c)
    BY <2>1, <2>2, <2>5, Orders DEF createService
  <2>6. CASE getLinks(c)
    <3>1. CASE \E t \in toFind[c] : /\ toFind' = [toFind EXCEPT ![c] = @ \ {t}]
                                    /\ UNCHANGED <<gpc, err>>
      <4>1. PICK t \in toFind[c] : toFind' = [toFind EXCEPT ![c] = @ \ {t}] /\ gpc' = gpc
        BY <3>1
      <4>2. toFind'[c] = toFind[c] \ {t} /\ gpc'[c] = gpc[c]
        BY <1>1, <4>1
      <4>3. QED
        BY <4>1, <4>2 DEF MovesOn
    <3>2. CASE Goto(c, "setLinks") \/ Leave(c, TRUE)
      BY <2>1, <2>2, <2>6, <3>2, Orders DEF getLinks
    <3>3. QED
      BY <2>6, <3>1, <3>2 DEF getLinks
  <2>7. CASE setupLinks(c)
    BY <2>1, <2>2, <2>7, Orders DEF setupLinks
  <2>8. CASE Wait(c)
    BY <2>1, <2>8 DEF Wait
  <2>9. QED
    BY <2>3, <2>4, <2>5, <2>6, <2>7, <2>8 DEF Do
<1>5. QED
  BY <1>2, <1>3, <1>4 DEF Advances, RemainingShrinks

\* One turn of startService()'s loop: a dependency less to look at, or a service more
\* launched, or the end of this walk.
LEMMA LookAtDepAdvances ==
    ASSUME ProjectInv, LookAtDep
    PROVE  Advances
<1>1. path # <<>> /\ UNCHANGED <<phase, roots, gpc, rancher, waiting>>
  BY DEF LookAtDep
<1>2. PICK t \in todo[Current] : \/ IgnoreDep(Current, t)
                                 \/ CycleDetected(Current, t)
                                 \/ SkipDep(Current, t)
                                 \/ VisitDep(Current, t)
  BY DEF LookAtDep
<1>3. \A s \in Service : Rests(s)
  BY <1>1 DEF Rests, rancher
<1>4. Current \in Service /\ Len(path) \in Nat \ {0}
  BY <1>1, CurrentFacts
<1>5. PICK c \in Service : c = Current
  BY <1>4
<1>6. CASE VisitDep(c, t)
  BY <1>1, <1>6 DEF VisitDep, Advances
<1>7. CASE IgnoreDep(c, t) \/ SkipDep(c, t)
  <2>1. /\ todo' = [todo EXCEPT ![c] = @ \ {t}] /\ UNCHANGED <<path, launched>>
    BY <1>7 DEF IgnoreDep, SkipDep
  <2>2. todo'[c] = todo[c] \ {t} /\ \A s \in Service \ {c} : todo'[s] = todo[s]
    BY <2>1 DEF ProjectInv, TypeOK
  <2>3. todo' # todo
    BY <1>2, <1>5, <2>2
  <2>4. RemainingShrinks
    BY <1>1, <1>4, <2>1, <2>2 DEF RemainingShrinks
  <2>5. Remaining' # Remaining
    BY <2>3 DEF Remaining
  <2>6. QED
    BY <1>1, <1>3, <2>1, <2>4, <2>5 DEF Advances
<1>8. CASE CycleDetected(c, t)
  <2>1. Len(path') = 0 /\ UNCHANGED <<todo, launched>>
    BY <1>8 DEF CycleDetected
  <2>2. RemainingShrinks
    BY <1>1, <1>4, <2>1 DEF RemainingShrinks
  <2>3. Remaining' # Remaining
    BY <1>4, <2>1 DEF Remaining
  <2>4. QED
    BY <1>1, <1>3, <2>1, <2>2, <2>3 DEF Advances
<1>9. QED
  BY <1>2, <1>5, <1>6, <1>7, <1>8

\* startService() returns to its caller, and a goroutine has been started.
LEMMA LaunchAdvances ==
    ASSUME ProjectInv, Launch
    PROVE  Advances
<1>1. /\ path # <<>> /\ gpc' = [gpc EXCEPT ![Current] = "deps"]
      /\ path' = SubSeq(path, 1, Len(path) - 1)
      /\ UNCHANGED <<phase, roots, todo, launched, toFind, waiting>>
  BY DEF Launch, rancher
<1>2. PICK c \in Service : c = Current /\ gpc[c] = "none"
  BY <1>1, CurrentFacts
<1>3. Len(path) \in Nat \ {0} /\ path \in Seq(Service)
  BY <1>1, CurrentFacts DEF ProjectInv, TypeOK
<1>4. Len(path') = Len(path) - 1
  BY <1>1, <1>3, FrontFacts
<1>5. \A s \in Service : gpc'[s] = IF s = c THEN "deps" ELSE gpc[s]
  BY <1>1, <1>2 DEF ProjectInv, TypeOK
<1>6. \A s \in Service : Rests(s) \/ MovesOn(s)
  BY <1>1, <1>2, <1>5, Orders DEF Rests, MovesOn
<1>7. RemainingShrinks
  BY <1>1, <1>3, <1>4 DEF RemainingShrinks
<1>8. Remaining' # Remaining
  BY <1>3, <1>4 DEF Remaining
<1>9. QED
  BY <1>1, <1>6, <1>7, <1>8 DEF Advances

\* A wrapper is taken from one of traverse()'s two loops.
LEMMA LoopAdvances ==
    ASSUME ProjectInv, NEW c \in Service, VisitRoot(c) \/ WrapperWait(c)
    PROVE  Advances
<1>1. Len(path) \in Nat
  BY DEF ProjectInv, TypeOK
<1>2. CASE VisitRoot(c) /\ c \notin launched
  BY <1>2 DEF VisitRoot, Visit, Advances
<1>3. CASE VisitRoot(c) /\ c \in launched
  <2>1. /\ c \in roots /\ roots' = roots \ {c}
        /\ UNCHANGED <<phase, launched, path, todo, gpc, toFind, waiting>>
    BY <1>3 DEF VisitRoot, rancher
  <2>2. RemainingShrinks
    BY <1>1, <2>1 DEF RemainingShrinks
  <2>3. Remaining' # Remaining
    BY <2>1 DEF Remaining
  <2>4. QED
    BY <2>1, <2>2, <2>3 DEF Advances, Rests
<1>4. CASE WrapperWait(c)
  <2>1. /\ c \in waiting /\ waiting' = waiting \ {c}
        /\ UNCHANGED <<phase, roots, launched, path, todo, gpc, toFind>>
    BY <1>4 DEF WrapperWait, walk, rancher
  <2>2. RemainingShrinks
    BY <1>1, <2>1 DEF RemainingShrinks
  <2>3. Remaining' # Remaining
    BY <2>1 DEF Remaining
  <2>4. QED
    BY <2>1, <2>2, <2>3 DEF Advances, Rests
<1>5. QED
  BY <1>2, <1>3, <1>4

\* Every step of Create() is progress, for every compose file: with NobodyIsStuck, a
\* call for a finite file without a hard cycle ends if only somebody who can go on
\* does (project.go:278-373, service-wrapper.go:61-98).
THEOREM EveryStepAdvances == Spec => StepsAdvance
<1>1. ProjectInv /\ [Next]_vars => [Advances]_vars
  <2> SUFFICES ASSUME ProjectInv, Next PROVE Advances \/ UNCHANGED vars
    OBVIOUS
  <2>1. CASE \E s \in Service : Do(s)
    BY <2>1, DoAdvances
  <2>2. CASE LookAtDep
    BY <2>2, LookAtDepAdvances
  <2>3. CASE Launch
    BY <2>3, LaunchAdvances
  <2>4. CASE \E s \in Service : VisitRoot(s) \/ WrapperWait(s)
    BY <2>4, LoopAdvances
  <2>5. CASE Create \/ EndLaunch \/ Return
    BY <2>5, Orders DEF Create, EndLaunch, Return, Advances
  <2>6. CASE Finished
    BY <2>6 DEF Finished
  <2>7. QED
    BY <2>1, <2>2, <2>3, <2>4, <2>5, <2>6 DEF Next, CallerStep
<1>2. QED
  BY <1>1, ProjectInvariant, PTL DEF Spec, StepsAdvance
=============================================================================
