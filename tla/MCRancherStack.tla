--------------------------- MODULE MCRancherStack ---------------------------
(***************************************************************************)
(* Four names of stacks and what ToLower() and the normalisation make of   *)
(* them: "A-B" and "a.b" become the project name "a-b".                    *)
(***************************************************************************)
EXTENDS RancherStack, TLC

Names == {"a-b", "A-B", "a.b", "c"}
Lower == "a-b" :> "a-b" @@ "A-B" :> "a-b" @@ "a.b" :> "a.b" @@ "c" :> "c"
Norm  == "a-b" :> "a-b" @@ "A-B" :> "a-b" @@ "a.b" :> "a-b" @@ "c" :> "c"

\* Two stacks of different project names, and two of the same one.
Stacks == {<<"A-B", "c">>, <<"a.b", "c">>, <<"A-B", "a.b">>}

\* createExternalService() and createLbService() do less than createDnsService().
Types == <<"service", "dnsService">>
=============================================================================
