--------------------------- MODULE StackCreation ---------------------------
(***************************************************************************)
(* What the executor promises Cattle about the events it takes on: one     *)
(* event of a resource is worked on at a time, replies are sent only while *)
(* the event is being worked on, and the reply that ends the transition    *)
(* well ("done") is sent only for a stack that has been created or that    *)
(* has nothing to create.                                                  *)
(***************************************************************************)
CONSTANTS Message,    \* the deliveries of events
          ResourceOf, \* the resource id of the event in a delivery
          Nothing     \* the resources with nothing to create

VARIABLES active,  \* the deliveries being worked on
          created, \* the resources whose stack has been created
          answers  \* the replies Cattle has received

vars == <<active, created, answers>>

Init == active = {} /\ created = {} /\ answers = {}

Begin(m) == /\ \A n \in active : ResourceOf[n] # ResourceOf[m]
            /\ active' = active \cup {m}
            /\ UNCHANGED <<created, answers>>

Create(m) == /\ m \in active
             /\ created' = created \cup {ResourceOf[m]}
             /\ UNCHANGED <<active, answers>>

Answer(m, kind) == /\ m \in active
                   /\ kind = "done" => ResourceOf[m] \in created \cup Nothing
                   /\ answers' = answers \cup {<<m, kind>>}
                   /\ UNCHANGED <<active, created>>

End(m) == /\ m \in active
          /\ active' = active \ {m}
          /\ UNCHANGED <<created, answers>>

\* The process ends: whatever it was doing is never finished.
Crash == active' = {} /\ UNCHANGED <<created, answers>>

Next == \/ \E m \in Message : \/ Begin(m) \/ Create(m) \/ End(m)
                              \/ \E kind \in {"yes", "done", "error"} : Answer(m, kind)
        \/ Crash

Spec == Init /\ [][Next]_vars
=============================================================================
