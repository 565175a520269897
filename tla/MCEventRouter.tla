--------------------------- MODULE MCEventRouter ---------------------------
(***************************************************************************)
(* Two workers. Run EventRouter: the event of r1 is delivered twice, r2    *)
(* has a stack whose text makes the process panic, and a message that is   *)
(* no event comes in between; two workers can meet on r1, an event can     *)
(* find the pool empty, and the process can end in the middle of it all. A *)
(* stack that is stuck adds nothing there: without fairness every handler  *)
(* may stop for ever. Run EventRouterLive: a stack of every other kind, a  *)
(* ping on the resource of one of them and a blank message.                *)
(***************************************************************************)
EXTENDS EventRouter, TLC

CONSTANTS w1, w2, m1, m2, m3, m4, m5, r1, r2, r3

Workers2 == {w1, w2}

\* Workers have no identity, and no property tells them apart.
WorkerSymmetry == Permutations(Workers2)

Redelivery == {m1, m2, m3, m4}
RedeliveryResources == {r1, r2}
RedeliveryResource == m1 :> r1 @@ m2 :> r1 @@ m3 :> r2 @@ m4 :> r2
RedeliveryKind == m1 :> "create" @@ m2 :> "create" @@ m3 :> "create" @@ m4 :> "garbage"
RedeliveryCompose == r1 :> "valid" @@ r2 :> "dollar"
AllOutcomes == {"acked", "unacked", "lost"}

Mixed == {m1, m2, m3, m4, m5}
MixedResources == {r1, r2, r3}
MixedResource == m1 :> r1 @@ m2 :> r1 @@ m3 :> r2 @@ m4 :> r3 @@ m5 :> r2
MixedKind == m1 :> "create" @@ m2 :> "ping" @@ m3 :> "create" @@ m4 :> "create"
             @@ m5 :> "blank"
MixedCompose == r1 :> "valid" @@ r2 :> "empty" @@ r3 :> "invalid"
Acked == {"acked"}
=============================================================================
