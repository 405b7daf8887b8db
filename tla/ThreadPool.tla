------------------------------ MODULE ThreadPool ------------------------------
(***************************************************************************)
(* TPThreadPool (src/threadpool/threadpool.cpp): job threads, the thread W *)
(* that dispatches waiting jobs (fnWaittingJobThreadProc), the thread S    *)
(* that shrinks the pool (fnSubstractThreadProc), client threads calling   *)
(* submitJob and the owner calling start, stop, wait, clearUndoWork and    *)
(* the destructor.                                                         *)
(*                                                                         *)
(* A step is a stretch of code with one visible effect.  A mutex is never  *)
(* a variable: the only step inside a critical section that can block is   *)
(* the acquisition of subtract_thread_lock_ (line 614, "pushSub") and the  *)
(* waits of S under that lock, so the program counters tell who holds it.  *)
(***************************************************************************)
EXTENDS Integers, Sequences, FiniteSets

CONSTANTS
  Workers,      \* std::thread objects of the pool; each is spawned at most once
  Jobs,         \* TPBaseJob objects, each submitted at most once
  NoJob,        \* a NULL TPBaseJob*
  Clients,      \* threads that call submitJob
  Priority,     \* job_priority_ of each job; the smallest is served first
  MaxLimit,     \* no maximum passed to start is larger
  StartParams,  \* the <<min, max>> pairs the owner may pass to start
  MaxStarts,    \* bound on the calls of start that find no thread
  Api,          \* the operations the owner uses besides start
  StartsFirst,  \* TRUE: nobody uses the pool before start was called
  SettledOwner  \* TRUE: the owner calls in when no thread is being born or dying

ApiCalls == {"stop", "wait", "stopAndWait", "clear", "delete"}

ASSUME WorkersAssumption == IsFiniteSet(Workers)
ASSUME JobsAssumption == IsFiniteSet(Jobs) /\ NoJob \notin Jobs
ASSUME PriorityAssumption == Priority \in [Jobs -> Int]
ASSUME StartParamsAssumption ==
  /\ MaxLimit \in Nat \ {0}
  /\ StartParams \subseteq {p \in Nat \X Nat : p[1] <= p[2] /\ p[2] <= MaxLimit}
ASSUME MaxStartsAssumption == MaxStarts \in Nat
ASSUME ApiAssumption == Api \subseteq ApiCalls
ASSUME DisciplineAssumption == StartsFirst \in BOOLEAN /\ SettledOwner \in BOOLEAN

VARIABLES
  waiting,      \* set_waiting_jobs_
  doing,        \* map_doing_hobs_, as a set of <<id, job>>
  jobId,        \* job_id_ of each job
  jobIndex,     \* job_index_
  jobStatus,    \* where each job is in its life
  wpc,          \* where each job thread is in fnJobThreadProc
  wjob,         \* pJob of doJobs, for a thread that has one
  lost,         \* threads whose entry a data race dropped (lines 149, 463)
  lastRunning,  \* last_running_thread_
  runningCount, \* running_threads_count_
  minThreads, maxThreads,      \* min_count_threads_, max_count_threads_
  removing,     \* list_removing_threads_
  stopEv, completeEv,          \* manual-reset events: stop, all threads complete
  jobEv, subEv,                \* auto-reset events: job needed to do, subtract
  semJob, semGot,              \* sem_job_needed_to_do_, sem_notify_got_waitting_job_
  semSub, semComplete,         \* sem_subtract_thread_, sem_notify_complete_...
  pcW, exitW,   \* thread W and exit_waitting_job_thread_
  pcS, subQueue,               \* thread S and queue_substract_thread_
  opc, call,    \* where the owner is, and in which operation
  stopWaiters,  \* registered waits SetEvent(stop_event_) has still to visit
  starts,       \* calls of start so far
  cleared,      \* history: clearUndoWork has run
  cpc, cjob     \* where each client is in submitJob, and with which job

jobVars == <<waiting, doing, jobId, jobIndex, jobStatus>>
threadVars == <<wpc, wjob, lost, lastRunning, runningCount, removing>>
limitVars == <<minThreads, maxThreads>>
eventVars == <<stopEv, completeEv, jobEv, subEv>>
dispatchVars == <<semJob, semGot, pcW, exitW>>
shrinkVars == <<semSub, semComplete, pcS, subQueue>>
ownerVars == <<opc, call, stopWaiters, starts, cleared>>
clientVars == <<cpc, cjob>>

vars == <<jobVars, threadVars, limitVars, eventVars, dispatchVars, shrinkVars,
          ownerVars, clientVars>>

-----------------------------------------------------------------------------
(* Program counters, and what they say of the locks. *)

ParkedPcs == {"parked", "firedJob", "firedSub"}
\* a thread that start or submitJob has counted in last_running_thread_
LivePcs == ParkedPcs \cup
  {"spawned", "getJob", "gotJob", "gotSub", "gotStop", "running", "ended",
   "shrink", "pushSub"}
\* a thread that has added itself to running_threads_count_
CountedPcs == (LivePcs \ {"spawned"}) \cup {"postComplete", "count"}
WorkerPcs == LivePcs \cup {"unborn", "postComplete", "count", "lastOne", "done"}
DispatchPcs == {"waitJob", "check", "signal", "waitGot", "done"}
ShrinkPcs == {"waitSub", "pop", "signal", "waitComplete", "join", "exitJoin", "done"}
OwnerPcs == {"idle", "setStop", "notify", "wait", "clear", "exitW", "joinW",
             "exitS", "joinS", "destroyed"}
JobStates == {"new", "submitting", "waiting", "running", "ended", "cancelled"}

At(pcs) == {w \in Workers : wpc[w] \in pcs}
Live == At(LivePcs)
Counted == At(CountedPcs)
Parked == At({"parked"})

\* waiting_jobs_lock_ and running_threads_lock_ (604-605): a thread keeps both
\* while it waits for subtract_thread_lock_
PoolLocksFree == At({"pushSub"}) = {}
\* subtract_thread_lock_: S keeps it from line 75 to the end of its loop body
SubtractLockFree == pcS \notin {"signal", "waitComplete", "join", "exitJoin"}

Goto(w, pc) == wpc' = [wpc EXCEPT ![w] = pc]

Init ==
  /\ waiting = {} /\ doing = {}
  /\ jobId = [j \in Jobs |-> 0] /\ jobIndex = 0
  /\ jobStatus = [j \in Jobs |-> "new"]
  /\ wpc = [w \in Workers |-> "unborn"] /\ wjob = [w \in Workers |-> NoJob]
  /\ lost = {} /\ lastRunning = 0 /\ runningCount = 0 /\ removing = {}
  /\ minThreads = 0 /\ maxThreads = 1
  /\ stopEv = FALSE /\ completeEv = FALSE /\ jobEv = FALSE /\ subEv = FALSE
  /\ semJob = 0 /\ semGot = 0 /\ semSub = 0 /\ semComplete = 0
  /\ pcW = "waitJob" /\ exitW = FALSE /\ pcS = "waitSub" /\ subQueue = <<>>
  /\ opc = "idle" /\ call = "none" /\ stopWaiters = {} /\ starts = 0
  /\ cleared = FALSE
  /\ cpc = [c \in Clients |-> "idle"] /\ cjob = [c \in Clients |-> NoJob]

-----------------------------------------------------------------------------
(* pevents, at the level the pool uses it (module PEvents has the detail).  *)

\* SetEvent on an auto-reset event with waits registered by parked threads:
\* one of them is fired, or the state is set if there is none
SetAutoReset(ev, fired) ==
  \/ /\ Parked = {}
     /\ ev' = TRUE
     /\ UNCHANGED wpc
  \/ /\ \E w \in Parked : Goto(w, fired)
     /\ UNCHANGED ev

-----------------------------------------------------------------------------
(* A job thread: fnJobThreadProc, doJobs, _getJob.                         *)

\* _addJobThread: how many threads it creates
AddCount(count, max) ==
  IF max - lastRunning < count THEN max - lastRunning ELSE count

AddJobThread(count, max) ==
  \E new \in SUBSET At({"unborn"}) :
    /\ Cardinality(new) = AddCount(count, max)
    /\ wpc' = [w \in Workers |-> IF w \in new THEN "spawned" ELSE wpc[w]]
    /\ lastRunning' = lastRunning + Cardinality(new)

\* map_thread_ids_ is written at line 149 under no lock: the entries of threads
\* that touch the map at the same time may be dropped, in any combination
Dropped(w, others) == IF others = {} THEN {{}} ELSE SUBSET (others \cup {w})

Begin(w) ==
  /\ wpc[w] = "spawned"
  /\ Goto(w, "getJob")
  /\ \E dropped \in Dropped(w, At({"spawned", "gotSub", "gotStop"}) \ {w}) :
       lost' = lost \cup dropped
  /\ runningCount' = runningCount + 1
  /\ UNCHANGED <<jobVars, wjob, lastRunning, removing, limitVars, eventVars,
                 dispatchVars, shrinkVars, ownerVars, clientVars>>

\* the wait that an auto-reset event satisfies resets it (pevents.cpp:141)
Kept(ev) == ev  \* mutant: the event stays set
Taken(ev) == FALSE

\* WaitForMultipleEvents: the first signalled event in the order of waitEvents
Poll(w) ==
  /\ wpc[w] = "getJob"
  /\ \/ /\ stopEv
        /\ Goto(w, "gotStop")
        /\ UNCHANGED <<jobEv, subEv>>
     \/ /\ ~stopEv /\ jobEv
        /\ Goto(w, "gotJob")
        /\ jobEv' = Taken(jobEv)
        /\ UNCHANGED subEv
     \/ /\ ~stopEv /\ ~jobEv /\ subEv
        /\ Goto(w, "gotSub")
        /\ subEv' = Taken(subEv)
        /\ UNCHANGED jobEv
     \/ /\ ~stopEv /\ ~jobEv /\ ~subEv
        /\ Goto(w, "parked")
        /\ UNCHANGED <<jobEv, subEv>>
  /\ UNCHANGED <<jobVars, wjob, lost, lastRunning, runningCount, removing,
                 limitVars, stopEv, completeEv, dispatchVars, shrinkVars,
                 ownerVars, clientVars>>

\* a fired thread reads FiredEvent and leaves WaitForMultipleEvents
Wake(w) ==
  /\ \/ wpc[w] = "firedJob" /\ Goto(w, "gotJob")
     \/ wpc[w] = "firedSub" /\ Goto(w, "gotSub")
  /\ UNCHANGED <<jobVars, wjob, lost, lastRunning, runningCount, removing,
                 limitVars, eventVars, dispatchVars, shrinkVars, ownerVars,
                 clientVars>>

\* operator< of TPBaseJob: priority, then id
BeforeById(i, j) == jobId[i] <= jobId[j]  \* mutant: priority forgotten
BeforeNewest(i, j) ==  \* mutant: last in, first out
  \/ Priority[i] < Priority[j]
  \/ Priority[i] = Priority[j] /\ jobId[i] >= jobId[j]
Before(i, j) ==
  \/ Priority[i] < Priority[j]
  \/ Priority[i] = Priority[j] /\ jobId[i] <= jobId[j]

\* std::map::insert leaves an entry of the same key alone
InsertDoing(id, j) ==
  IF \E e \in doing : e[1] = id THEN doing ELSE doing \cup {<<id, j>>}

\* line 535 asserts that a job is waiting: without one the program aborts
TakeJob(w) ==
  /\ wpc[w] = "gotJob" /\ PoolLocksFree
  /\ \E j \in waiting :
       /\ \A i \in waiting : Before(j, i)
       /\ waiting' = waiting \ {j}
       /\ doing' = InsertDoing(jobId[j], j)
       /\ jobStatus' = [jobStatus EXCEPT ![j] = "running"]
       /\ wjob' = [wjob EXCEPT ![w] = j]
  /\ semGot' = semGot + 1
  /\ Goto(w, "running")
  /\ UNCHANGED <<jobId, jobIndex, lost, lastRunning, runningCount, removing,
                 limitVars, eventVars, semJob, pcW, exitW, shrinkVars,
                 ownerVars, clientVars>>

\* _initialize, _run and _finalize have returned (569-584)
EndJob(w) ==
  /\ wpc[w] = "running"
  /\ jobStatus' = [jobStatus EXCEPT ![wjob[w]] = "ended"]
  /\ Goto(w, "ended")
  /\ UNCHANGED <<waiting, doing, jobId, jobIndex, wjob, lost, lastRunning,
                 runningCount, removing, limitVars, eventVars, dispatchVars,
                 shrinkVars, ownerVars, clientVars>>

\* the entry is found by the id read before the job ran
DoingAfter(id) == {e \in doing : e[1] > id}  \* mutant: erases a range
DoingWithout(id) == {e \in doing : e[1] # id}

EraseDoing(w) ==
  /\ wpc[w] = "ended"
  /\ doing' = DoingWithout(jobId[wjob[w]])
  /\ wjob' = [wjob EXCEPT ![w] = NoJob]
  /\ Goto(w, "shrink")
  /\ UNCHANGED <<waiting, jobId, jobIndex, jobStatus, lost, lastRunning,
                 runningCount, removing, limitVars, eventVars, dispatchVars,
                 shrinkVars, ownerVars, clientVars>>

NeedSubtractThread == waiting = {} /\ lastRunning > minThreads /\ ~stopEv

CheckShrink(w) ==
  /\ wpc[w] = "shrink" /\ PoolLocksFree
  /\ Goto(w, IF NeedSubtractThread THEN "pushSub" ELSE "getJob")
  /\ UNCHANGED <<jobVars, wjob, lost, lastRunning, runningCount, removing,
                 limitVars, eventVars, dispatchVars, shrinkVars, ownerVars,
                 clientVars>>

\* what the worker pushes is never used but for its being 0 or not (79)
SurplusRequest == lastRunning - minThreads - 1  \* mutant: the surplus, which may be 0
SubtractRequest == lastRunning

PushSub(w) ==
  /\ wpc[w] = "pushSub" /\ SubtractLockFree
  /\ subQueue' = Append(subQueue, SubtractRequest)
  /\ semSub' = semSub + 1
  /\ Goto(w, "getJob")
  /\ UNCHANGED <<jobVars, wjob, lost, lastRunning, runningCount, removing,
                 limitVars, eventVars, dispatchVars, semComplete, pcS,
                 ownerVars, clientVars>>

\* _clearRunningMapThread.  The thread finds its handle through map_thread_ids_;
\* S walks list_removing_threads_ under another lock, so that the push_back of a
\* thread may be dropped too
\* mutant: only if the handle was found
CountAfterFound(w) == IF w \in lost THEN lastRunning ELSE lastRunning - 1
CountAfterLeaving(w) == lastRunning - 1

ClearRunningMapThread(w) ==
  /\ PoolLocksFree
  /\ lastRunning' = CountAfterLeaving(w)
  /\ \E dropped \in Dropped(w, At({"spawned"}) \cup
                               (IF pcS \in {"join", "exitJoin"} THEN {w} ELSE {})) :
       /\ lost' = lost \cup dropped
       /\ removing' = IF w \in lost' THEN removing ELSE removing \cup {w}

\* only a thread that took the subtract event tells S
PostsAlways(w) == "postComplete"  \* mutant: whatever the event was
AfterLeaving(w) == IF wpc[w] = "gotSub" THEN "postComplete" ELSE "count"

Leave(w) ==
  /\ wpc[w] \in {"gotSub", "gotStop"}
  /\ Goto(w, AfterLeaving(w))
  /\ ClearRunningMapThread(w)
  /\ UNCHANGED <<jobVars, wjob, runningCount, limitVars, eventVars,
                 dispatchVars, shrinkVars, ownerVars, clientVars>>

PostComplete(w) ==
  /\ wpc[w] = "postComplete"
  /\ semComplete' = semComplete + 1
  /\ Goto(w, "count")
  /\ UNCHANGED <<jobVars, wjob, lost, lastRunning, runningCount, removing,
                 limitVars, eventVars, dispatchVars, semSub, pcS, subQueue,
                 ownerVars, clientVars>>

Count(w) ==
  /\ wpc[w] = "count"
  /\ runningCount' = runningCount - 1
  /\ Goto(w, "lastOne")
  /\ UNCHANGED <<jobVars, wjob, lost, lastRunning, removing, limitVars,
                 eventVars, dispatchVars, shrinkVars, ownerVars, clientVars>>

\* the count is loaded again, after the decrement (155)
CompleteOneEarly == runningCount <= 1  \* mutant: tested before the decrement
AllComplete == runningCount = 0

LastOne(w) ==
  /\ wpc[w] = "lastOne"
  /\ completeEv' = (completeEv \/ AllComplete)
  /\ Goto(w, "done")
  /\ UNCHANGED <<jobVars, wjob, lost, lastRunning, runningCount, removing,
                 limitVars, stopEv, jobEv, subEv, dispatchVars, shrinkVars,
                 ownerVars, clientVars>>

WorkerStep(w) ==
  \/ Begin(w) \/ Poll(w) \/ Wake(w) \/ TakeJob(w) \/ EndJob(w) \/ EraseDoing(w)
  \/ CheckShrink(w) \/ PushSub(w) \/ Leave(w) \/ PostComplete(w) \/ Count(w)
  \/ LastOne(w)

-----------------------------------------------------------------------------
(* W, fnWaittingJobThreadProc: one dispatch at a time.                     *)

WWait ==
  /\ pcW = "waitJob" /\ semJob > 0
  /\ semJob' = semJob - 1
  /\ pcW' = "check"
  /\ UNCHANGED <<jobVars, threadVars, limitVars, eventVars, semGot, exitW,
                 shrinkVars, ownerVars, clientVars>>

WCheck ==
  /\ pcW = "check"
  /\ pcW' = IF exitW THEN "done" ELSE "signal"
  /\ UNCHANGED <<jobVars, threadVars, limitVars, eventVars, semJob, semGot,
                 exitW, shrinkVars, ownerVars, clientVars>>

WSignal ==
  /\ pcW = "signal"
  /\ SetAutoReset(jobEv, "firedJob")
  /\ pcW' = "waitGot"
  /\ UNCHANGED <<jobVars, wjob, lost, lastRunning, runningCount, removing,
                 limitVars, stopEv, completeEv, subEv, semJob, semGot, exitW,
                 shrinkVars, ownerVars, clientVars>>

WGotNoWait ==  \* mutant: does not wait for the taker
  /\ pcW = "waitGot"
  /\ pcW' = "waitJob"
  /\ UNCHANGED <<jobVars, threadVars, limitVars, eventVars, semJob, semGot, exitW,
                 shrinkVars, ownerVars, clientVars>>

WGot ==
  /\ pcW = "waitGot" /\ semGot > 0
  /\ semGot' = semGot - 1
  /\ pcW' = "waitJob"
  /\ UNCHANGED <<jobVars, threadVars, limitVars, eventVars, semJob, exitW,
                 shrinkVars, ownerVars, clientVars>>

DispatchStep == WWait \/ WCheck \/ WSignal \/ WGot

-----------------------------------------------------------------------------
(* S, fnSubstractThreadProc.                                               *)

SWait ==
  /\ pcS = "waitSub" /\ semSub > 0
  /\ semSub' = semSub - 1
  /\ pcS' = "pop"
  /\ UNCHANGED <<jobVars, threadVars, limitVars, eventVars, dispatchVars,
                 semComplete, subQueue, ownerVars, clientVars>>

\* front() and pop() on an empty queue are undefined: SubtractQueue excludes it
SPop ==
  /\ pcS = "pop" /\ subQueue # <<>>
  /\ subQueue' = Tail(subQueue)
  /\ pcS' = IF Head(subQueue) = 0 THEN "exitJoin" ELSE "signal"
  /\ UNCHANGED <<jobVars, threadVars, limitVars, eventVars, dispatchVars,
                 semSub, semComplete, ownerVars, clientVars>>

SSignal ==
  /\ pcS = "signal"
  /\ SetAutoReset(subEv, "firedSub")
  /\ pcS' = "waitComplete"
  /\ UNCHANGED <<jobVars, wjob, lost, lastRunning, runningCount, removing,
                 limitVars, stopEv, completeEv, jobEv, dispatchVars, semSub,
                 semComplete, subQueue, ownerVars, clientVars>>

SComplete ==
  /\ pcS = "waitComplete" /\ semComplete > 0
  /\ semComplete' = semComplete - 1
  /\ pcS' = "join"
  /\ UNCHANGED <<jobVars, threadVars, limitVars, eventVars, dispatchVars,
                 semSub, subQueue, ownerVars, clientVars>>

\* one turn of the loops at 86-96 and 111-121, or their end
SJoin ==
  /\ pcS \in {"join", "exitJoin"}
  /\ \/ \E w \in removing :
          /\ wpc[w] = "done"
          /\ removing' = removing \ {w}
          /\ UNCHANGED pcS
     \/ /\ removing = {}
        /\ pcS' = IF pcS = "join" THEN "waitSub" ELSE "done"
        /\ UNCHANGED removing
  /\ UNCHANGED <<jobVars, wpc, wjob, lost, lastRunning, runningCount, limitVars,
                 eventVars, dispatchVars, semSub, semComplete, subQueue,
                 ownerVars, clientVars>>

ShrinkStep == SWait \/ SPop \/ SSignal \/ SComplete \/ SJoin

-----------------------------------------------------------------------------
(* A client in submitJob.                                                  *)

\* main calls start before anything else; the constructor leaves a pool of at most
\* one thread, which a submission creates
Open == StartsFirst => starts > 0

\* the counter moves outside the lock (360)
SubmitIndex(c) ==
  /\ cpc[c] = "idle" /\ Open /\ call # "delete"
  /\ \E j \in Jobs :
       /\ jobStatus[j] = "new"
       /\ jobStatus' = [jobStatus EXCEPT ![j] = "submitting"]
       /\ cjob' = [cjob EXCEPT ![c] = j]
  /\ jobIndex' = jobIndex + 1
  /\ cpc' = [cpc EXCEPT ![c] = "insert"]
  /\ UNCHANGED <<waiting, doing, jobId, threadVars, limitVars, eventVars,
                 dispatchVars, shrinkVars, ownerVars>>

\* ... and is read again under it (364)
AssignedId(c) == jobIndex

\* sem_post: every unit counts
PostOnce == 1  \* mutant: a flag, not a count
PostJob == semJob + 1

SubmitInsert(c) ==
  /\ cpc[c] = "insert" /\ PoolLocksFree
  /\ jobId' = [jobId EXCEPT ![cjob[c]] = AssignedId(c)]
  /\ waiting' = waiting \cup {cjob[c]}
  /\ jobStatus' = [jobStatus EXCEPT ![cjob[c]] = "waiting"]
  /\ semJob' = PostJob
  /\ cpc' = [cpc EXCEPT ![c] = "grow"]
  /\ UNCHANGED <<doing, jobIndex, threadVars, limitVars, eventVars, semGot,
                 pcW, exitW, shrinkVars, ownerVars, cjob>>

\* waittingJobSize was read after the insertion, so it is positive
NeedMoreThread == lastRunning < maxThreads

SubmitGrow(c) ==
  /\ cpc[c] = "grow" /\ PoolLocksFree
  /\ \/ NeedMoreThread /\ AddJobThread(1, maxThreads)
     \/ ~NeedMoreThread /\ UNCHANGED <<wpc, lastRunning>>
  /\ cpc' = [cpc EXCEPT ![c] = "idle"]
  /\ cjob' = [cjob EXCEPT ![c] = NoJob]
  /\ UNCHANGED <<jobVars, wjob, lost, runningCount, removing, limitVars,
                 eventVars, dispatchVars, shrinkVars, ownerVars>>

ClientStep(c) == SubmitInsert(c) \/ SubmitGrow(c)

-----------------------------------------------------------------------------
(* The owner: start, stop, wait, stopAndWait, clearUndoWork, ~TPThreadPool. *)

\* main leaves the new threads half a millisecond after start and three minutes
\* before the destructor: none is then between its creation and line 150, nor
\* between its last unlock and its end
Settled ==
  SettledOwner => At({"spawned", "postComplete", "count", "lastOne"}) = {}

\* a start that finds threads (last_running_thread_ > 0) changes nothing
Start(p) ==
  /\ opc = "idle" /\ Settled /\ PoolLocksFree
  /\ starts < MaxStarts /\ lastRunning = 0
  /\ starts' = starts + 1
  /\ minThreads' = p[1] /\ maxThreads' = p[2]
  /\ stopEv' = FALSE /\ completeEv' = FALSE
  /\ AddJobThread(p[1], p[2])
  /\ UNCHANGED <<jobVars, wjob, lost, runningCount, removing, jobEv, subEv,
                 dispatchVars, shrinkVars, opc, call, stopWaiters, cleared,
                 clientVars>>

FirstOwnerPc(op) ==
  CASE op \in {"stop", "stopAndWait", "delete"} -> "setStop"
    [] op = "wait" -> "wait"
    [] op = "clear" -> "clear"

\* wait has something to wait for once the pool is asked to stop; nobody else
\* uses a pool that is being destroyed
Call(op) ==
  /\ opc = "idle" /\ Open
  /\ op \in {"stop", "stopAndWait", "delete"} => Settled
  /\ op = "wait" => stopEv
  /\ op = "delete" => \A c \in Clients : cpc[c] = "idle"
  /\ call' = op
  /\ opc' = FirstOwnerPc(op)
  /\ UNCHANGED <<jobVars, threadVars, limitVars, eventVars, dispatchVars,
                 shrinkVars, stopWaiters, starts, cleared, clientVars>>

\* SetEvent on a manual-reset event stores the state first, then visits the
\* registered waits that it finds still waiting
\* mutant: one wait only
FirstWait == IF Parked = {} THEN {} ELSE {CHOOSE w \in Parked : TRUE}
NoWait == {}  \* mutant: the state is stored, nobody is told
RegisteredWaits == Parked

SetStop ==
  /\ opc = "setStop"
  /\ stopEv' = TRUE
  /\ stopWaiters' = RegisteredWaits
  /\ opc' = "notify"
  /\ UNCHANGED <<jobVars, threadVars, limitVars, completeEv, jobEv, subEv,
                 dispatchVars, shrinkVars, call, starts, cleared, clientVars>>

\* a waiter that another event fired in the meantime, and that has not read
\* FiredEvent yet, is skipped or made to see the stop event instead
NotifyStop ==
  /\ opc = "notify"
  /\ \E w \in stopWaiters :
       /\ stopWaiters' = stopWaiters \ {w}
       /\ \/ wpc[w] \in ParkedPcs /\ Goto(w, "gotStop")
          \/ wpc[w] # "parked" /\ UNCHANGED wpc
  /\ UNCHANGED <<jobVars, wjob, lost, lastRunning, runningCount, removing,
                 limitVars, eventVars, dispatchVars, shrinkVars, opc, call,
                 starts, cleared, clientVars>>

\* stopAndWait and the destructor go on to wait
\* mutant: nobody waits
AfterStopNoWait == IF call = "delete" THEN "clear" ELSE "idle"
AfterStop == IF call = "stop" THEN "idle" ELSE "wait"

StopReturns ==
  /\ opc = "notify" /\ stopWaiters = {}
  /\ opc' = AfterStop
  /\ call' = IF opc' = "idle" THEN "none" ELSE call
  /\ UNCHANGED <<jobVars, threadVars, limitVars, eventVars, dispatchVars,
                 shrinkVars, stopWaiters, starts, cleared, clientVars>>

WaitReturns ==
  /\ opc = "wait" /\ completeEv
  /\ opc' = IF call = "delete" THEN "clear" ELSE "idle"
  /\ call' = IF opc' = "idle" THEN "none" ELSE call
  /\ UNCHANGED <<jobVars, threadVars, limitVars, eventVars, dispatchVars,
                 shrinkVars, stopWaiters, starts, cleared, clientVars>>

\* one sem_trywait per waiting job; W may have taken some of the units already
\* mutant: sem_wait, unchecked
ClearedUnchecked == semJob - Cardinality(waiting)
ClearedSem == IF semJob < Cardinality(waiting) THEN 0
              ELSE semJob - Cardinality(waiting)

ClearUndoWork ==
  /\ opc = "clear" /\ PoolLocksFree
  /\ waiting' = {}
  /\ jobStatus' = [j \in Jobs |->
                     IF j \in waiting THEN "cancelled" ELSE jobStatus[j]]
  /\ semJob' = ClearedSem
  /\ cleared' = TRUE
  /\ opc' = IF call = "delete" THEN "exitW" ELSE "idle"
  /\ call' = IF opc' = "idle" THEN "none" ELSE call
  /\ UNCHANGED <<doing, jobId, jobIndex, threadVars, limitVars, eventVars,
                 semGot, pcW, exitW, shrinkVars, stopWaiters, starts,
                 clientVars>>

\* W may be waiting for either semaphore
NoGotPost == semGot  \* mutant: the second post is missing
ExitGotPost == semGot + 1

ExitW ==
  /\ opc = "exitW"
  /\ exitW' = TRUE /\ semJob' = semJob + 1 /\ semGot' = ExitGotPost
  /\ opc' = "joinW"
  /\ UNCHANGED <<jobVars, threadVars, limitVars, eventVars, pcW, shrinkVars,
                 call, stopWaiters, starts, cleared, clientVars>>

JoinW ==
  /\ opc = "joinW" /\ pcW = "done"
  /\ opc' = "exitS"
  /\ UNCHANGED <<jobVars, threadVars, limitVars, eventVars, dispatchVars,
                 shrinkVars, call, stopWaiters, starts, cleared, clientVars>>

ExitS ==
  /\ opc = "exitS" /\ SubtractLockFree
  /\ subQueue' = Append(subQueue, 0)
  /\ semSub' = semSub + 1
  /\ opc' = "joinS"
  /\ UNCHANGED <<jobVars, threadVars, limitVars, eventVars, dispatchVars,
                 semComplete, pcS, call, stopWaiters, starts, cleared,
                 clientVars>>

JoinS ==
  /\ opc = "joinS" /\ pcS = "done"
  /\ opc' = "destroyed"
  /\ UNCHANGED <<jobVars, threadVars, limitVars, eventVars, dispatchVars,
                 shrinkVars, call, stopWaiters, starts, cleared, clientVars>>

OwnerStep ==
  \/ SetStop \/ NotifyStop \/ StopReturns \/ WaitReturns \/ ClearUndoWork
  \/ ExitW \/ JoinW \/ ExitS \/ JoinS

-----------------------------------------------------------------------------
\* after the destructor nothing of the pool is left to run
Destroyed == opc = "destroyed" /\ UNCHANGED vars

Next ==
  \/ /\ opc # "destroyed"
     /\ \/ \E w \in Workers : WorkerStep(w)
        \/ DispatchStep
        \/ ShrinkStep
        \/ \E c \in Clients : SubmitIndex(c) \/ ClientStep(c)
        \/ \E p \in StartParams : Start(p)
        \/ \E op \in Api : Call(op)
        \/ OwnerStep
  \/ Destroyed

Spec == Init /\ [][Next]_vars

\* the scheduler runs every thread, jobs end, operations once called go on; no
\* job is ever submitted, no operation ever called, of necessity
Fairness ==
  /\ \A w \in Workers : WF_vars(WorkerStep(w))
  /\ WF_vars(DispatchStep) /\ WF_vars(ShrinkStep) /\ WF_vars(OwnerStep)
  /\ \A c \in Clients : WF_vars(ClientStep(c))

FairSpec == Spec /\ Fairness
-----------------------------------------------------------------------------
(* Properties.                                                             *)

\* every variable has a value the code can give it
TypeOK ==
  /\ waiting \in SUBSET Jobs /\ doing \in SUBSET (Nat \X Jobs)
  /\ jobId \in [Jobs -> Nat] /\ jobIndex \in Nat
  /\ jobStatus \in [Jobs -> JobStates]
  /\ wpc \in [Workers -> WorkerPcs] /\ wjob \in [Workers -> Jobs \cup {NoJob}]
  /\ lost \in SUBSET Workers /\ removing \in SUBSET Workers
  /\ lastRunning \in Int /\ runningCount \in Int
  /\ minThreads \in Nat /\ maxThreads \in Nat
  /\ stopEv \in BOOLEAN /\ completeEv \in BOOLEAN
  /\ jobEv \in BOOLEAN /\ subEv \in BOOLEAN
  /\ semJob \in Nat /\ semGot \in Nat /\ semSub \in Nat /\ semComplete \in Nat
  /\ pcW \in DispatchPcs /\ exitW \in BOOLEAN
  /\ pcS \in ShrinkPcs /\ subQueue \in Seq(Int)
  /\ opc \in OwnerPcs /\ call \in ApiCalls \cup {"none"}
  /\ stopWaiters \in SUBSET Workers /\ starts \in Nat /\ cleared \in BOOLEAN
  /\ cpc \in [Clients -> {"idle", "insert", "grow"}]
  /\ cjob \in [Clients -> Jobs \cup {NoJob}]

\* threads the job event has been given to and that have not taken a job yet
InFlight == At({"firedJob", "gotJob"})

One(b) == IF b THEN 1 ELSE 0

\* The job event, the thread it was given to and sem_notify_got_waitting_job_
\* are one token: W signals the next job only after the last one was taken, so
\* two threads never go for a job at once (48-51, 534-548).
OneDispatchAtATime ==
  ~exitW => /\ One(jobEv) + Cardinality(InFlight) + semGot <= 1
            /\ (jobEv \/ InFlight # {} \/ semGot > 0) => pcW = "waitGot"

\* The assertion at line 535: a thread that got the job event finds a job.
AssertJobWaiting == At({"gotJob"}) # {} => waiting # {}

\* The same as long as clearUndoWork, which takes jobs from under a dispatch that
\* is already on its way, has not been called.
TakeFindsJob == ~cleared => AssertJobWaiting

\* No waiting job is forgotten: until the pool is stopped, each has a unit of
\* sem_job_needed_to_do_ or is the one whose dispatch is under way (36-51, 376).
NoJobForgotten ==
  LET underWay == pcW \in {"check", "signal"} \/ jobEv \/ InFlight # {}
  IN ~stopEv => Cardinality(waiting) <= semJob + One(underWay)

\* threadpool.h:67-68, 83: a job is found by the index submitJob returns, which grows
\* by one with each call: no two jobs have the same.
UniqueIds == \A i, j \in Jobs : i # j /\ jobId[i] = jobId[j] => jobId[i] = 0

\* The jobs in map_doing_hobs_ are those of the threads at work, no job is run by
\* two threads, and no entry is left over or overwritten by another's (545, 592-596),
\* as long as no two submissions were given one id.
Busy == At({"running", "ended"})
DoingTracksThreads ==
  UniqueIds =>
  /\ doing = {<<jobId[wjob[w]], wjob[w]>> : w \in Busy}
  /\ Cardinality(doing) = Cardinality(Busy)

\* last_running_thread_ counts the threads from their creation to
\* _clearRunningMapThread and never passes the maximum; running_threads_count_
\* counts them from line 150 to line 153.
ThreadAccounting ==
  /\ lastRunning = Cardinality(Live) /\ lastRunning <= maxThreads
  /\ runningCount = Cardinality(Counted)

\* Semaphore and queue of the shrink requests agree, so S never reads the front
\* of an empty queue (73-78), and a request is never mistaken for the destructor's
\* 0, which S takes as its exit (79): requests are counts of live threads (616).
SubtractQueue ==
  /\ Len(subQueue) = semSub + One(pcS = "pop")
  /\ \A i \in 1..Len(subQueue) :
       subQueue[i] = 0 => opc \in {"joinS", "destroyed"} /\ i = Len(subQueue)

\* The subtract event, the thread it was given to and the completion semaphore
\* are one token: a request makes at most one thread leave (103-105, 623-628).
OneShrinkAtATime ==
  LET taken == At({"firedSub", "gotSub", "postComplete"})
  IN /\ One(subEv) + Cardinality(taken) + semComplete <= 1
     /\ (subEv \/ taken # {} \/ semComplete > 0) => pcS = "waitComplete"

\* threadpool.h:61, 86-87: when all_thread_complete_event_ is set, every thread of the
\* pool has left doJobs.
WaitCoversWorkers == completeEv => Live \cup At({"postComplete", "count"}) = {}

\* No thread sleeps through stop: when SetEvent(stop_event_) has returned, none
\* is parked, although threads were parking and being fired meanwhile (281-288).
StopReachesAll == stopEv /\ opc # "notify" => Parked = {}

\* The assertions at 213-214, and that the destructor has joined every thread
\* whose handle it can reach before it destroys the events (239-247).
DestructorLeavesNothing ==
  /\ opc \in {"exitW", "joinW", "exitS", "joinS", "destroyed"}
       => waiting = {} /\ doing = {}
  /\ opc = "destroyed" => \A w \in Workers \ lost : wpc[w] \in {"unborn", "done"}

\* A job that was submitted is run to its end or cancelled.
JobCompletes ==
  \A j \in Jobs :
    jobStatus[j] = "waiting" ~> jobStatus[j] \in {"ended", "cancelled"}

\* wait returns, although a start in between has reset the complete event while
\* threads of an earlier life had still to look at their count (153-157, 272).
WaitEnds == call = "wait" ~> call # "wait"

\* The destructor returns, if start has created a thread: the event it waits for at
\* 296 is set by a leaving thread and by nobody else (155-157).
DeleteReturns == call = "delete" ~> opc = "destroyed"

\* basejob.h:21, threadpool.h:48-50: a request to give up a thread is carried out.
ShrinkCompletes == pcS = "waitComplete" ~> pcS # "waitComplete"

\* What the pool promises its users (module JobPool), kept by every step.
PoolStatus ==
  [j \in Jobs |-> CASE jobStatus[j] \in {"new", "submitting"} -> "new"
                    [] jobStatus[j] = "waiting" -> "pending"
                    [] OTHER -> jobStatus[j]]

RunningJobs == {j \in Jobs : jobStatus[j] = "running"}

Promise == INSTANCE JobPool WITH
  status <- PoolStatus, stamp <- jobId, running <- Cardinality(RunningJobs),
  Limit <- MaxLimit

KeepsPromise == Promise!Spec
=============================================================================
