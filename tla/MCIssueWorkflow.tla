-------------------------- MODULE MCIssueWorkflow --------------------------
EXTENDS IssueWorkflow, TLC

E(n, k, f, t, v) == [nom |-> n, cle |-> k, empreinte |-> f, ts |-> t, version |-> v]
e1 == E(1, "k", "f1", 0, "v1")
e2 == E(2, "k", "f2", 1, "v1")
e3 == E(3, "k", "f1", 2, "v1")
e4 == E(4, "k", "f1", 3, "v2")
e5 == E(5, "k", "f2", 1, "v1")

MCErreurs    == {e1, e2, e3, e4, e5}
MCAnciennes  == {e1, e2}
MCSujet      == {e4}
MCLots       == {{e3, e5}, {e4}}
MCHistorique == [f \in {"f1", "f2"} |-> [statut |-> IF f = "f2" THEN "ignored" ELSE "open", resoluLe |-> 0]]
Symetrie     == Permutations(Utilisateurs)
MCDeployee   == [v \in {"v1", "v2"} |-> IF v = "v1" THEN 1 ELSE 2]
=============================================================================
