------------------------------- MODULE JobPool -------------------------------
(***************************************************************************)
(* What TPThreadPool promises about jobs, with no threads, events or       *)
(* locks: a job is pending from its submission until it is run or          *)
(* cancelled, at most Limit jobs run at a time, and the job that is taken  *)
(* is the most urgent pending one: smallest priority, then smallest stamp, *)
(* where stamps grow in the order of submission (basejob.h:43).           *)
(***************************************************************************)
EXTENDS Integers

CONSTANTS Jobs, Priority, Limit

VARIABLES
  status,  \* "new", "pending", "running", "ended" or "cancelled"
  stamp,   \* the id a job got when it was submitted, 0 before
  running  \* how many jobs run

With(s) == {j \in Jobs : status[j] = s}

Init ==
  /\ status = [j \in Jobs |-> "new"]
  /\ stamp = [j \in Jobs |-> 0]
  /\ running = 0

MoreUrgent(i, j) ==
  \/ Priority[i] < Priority[j]
  \/ Priority[i] = Priority[j] /\ stamp[i] < stamp[j]

Submit(j) ==
  /\ status[j] = "new"
  /\ status' = [status EXCEPT ![j] = "pending"]
  /\ \A i \in Jobs \ {j} : stamp'[i] = stamp[i] /\ stamp[i] <= stamp'[j]
  /\ stamp' = [stamp EXCEPT ![j] = stamp'[j]]
  /\ UNCHANGED running

Run(j) ==
  /\ status[j] = "pending"
  /\ running < Limit
  /\ ~\E i \in With("pending") : MoreUrgent(i, j)
  /\ status' = [status EXCEPT ![j] = "running"]
  /\ running' = running + 1
  /\ UNCHANGED stamp

End(j) ==
  /\ status[j] = "running"
  /\ status' = [status EXCEPT ![j] = "ended"]
  /\ running' = running - 1
  /\ UNCHANGED stamp

CancelPending ==
  /\ status' = [j \in Jobs |-> IF status[j] = "pending" THEN "cancelled"
                               ELSE status[j]]
  /\ UNCHANGED <<stamp, running>>

Next ==
  \/ \E j \in Jobs : Submit(j) \/ Run(j) \/ End(j)
  \/ CancelPending

Spec == Init /\ [][Next]_<<status, stamp, running>>
=============================================================================
