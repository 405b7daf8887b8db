----------------------------- MODULE MCThreadPool -----------------------------
(* Instances of ThreadPool for TLC.                                        *)
EXTENDS ThreadPool, TLC

CONSTANTS w1, w2, w3, j1, j2, c1, c2

TwoWorkers == {w1, w2}
ThreeWorkers == {w1, w2, w3}

OneJob == {j1}
TwoJobs == {j1, j2}
SamePriority == [j \in Jobs |-> 0]
\* j2 overtakes j1
SecondUrgent == [j \in Jobs |-> IF j = j2 THEN 0 ELSE 1]

OneClient == {c1}
TwoClients == {c1, c2}

Fixed == {<<2, 2>>}
Elastic == {<<1, 2>>}
SingleThread == {<<1, 1>>}

NoCalls == {}
DeleteOnly == {"delete"}
ClearAndDelete == {"clear", "delete"}
StopAndRestart == {"stop", "wait", "clear"}
StopAndWait == {"stop", "wait"}

WorkerJobSymmetry == Permutations(Workers) \cup Permutations(Jobs)

\* every start creates at most min threads and every submission one: the bound on
\* Workers never keeps the program from creating a thread
ASSUME EnoughWorkers ==
  \A p \in StartParams :
    IF StartsFirst /\ p[1] = p[2] THEN MaxStarts * p[1] <= Cardinality(Workers)
    ELSE MaxStarts * p[1] + Cardinality(Jobs) <= Cardinality(Workers)
=============================================================================
