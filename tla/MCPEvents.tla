------------------------------ MODULE MCPEvents ------------------------------
(* Instances of PEvents for TLC.                                           *)
EXTENDS PEvents, TLC

CONSTANTS stop, job, extra, w1, w2, t1, t2

ForAny == [all |-> FALSE, timed |-> FALSE]
AnyOnly == {ForAny}
\* a call with a time-out can do what one without can do
Timed == [all : BOOLEAN, timed : {TRUE}]
OneWaiter == {w1}
TwoWaiters == {w1, w2}
TwoLoners == {t1, t2}
Nobody == {}

\* the order of waitEvents in _getJob: stop_event_ first
StopAndJob == <<stop, job>>
AllThree == <<stop, job, extra>>
OnlyStop == {stop}
JobTwice == [e \in {stop, job} |-> IF e = job THEN 2 ELSE 1]
JobTwiceRest == [e \in {stop, job, extra} |-> IF e = job THEN 2 ELSE 1]

\* a thread sleeps for the manual-reset event with a time-out, for the auto-reset
\* one without
Sleeps == {[event |-> stop, timed |-> TRUE], [event |-> job, timed |-> FALSE]}

Threads == Permutations(TwoLoners)
=============================================================================
