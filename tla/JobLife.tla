------------------------------- MODULE JobLife -------------------------------
(***************************************************************************)
(* The life of a TPBaseJob object and of its stop_job_event_: submitJob,   *)
(* the job threads (doJobs), clearUndoWork, requestCancel, the callbacks   *)
(* of the application and the places where a job object is deleted.  How   *)
(* jobs are dispatched to threads is in module ThreadPool; here any idle   *)
(* thread takes any waiting job.                                           *)
(*                                                                         *)
(* What the application does is a matter of constants: which classes keep  *)
(* TPBaseJob::_initialize, where objects are deleted, when clearUndoWork   *)
(* and requestCancel are called, how often an object is submitted.         *)
(***************************************************************************)
EXTENDS Integers, Sequences, FiniteSets

CONSTANTS
  Jobs,        \* TPBaseJob objects
  NoJob,       \* a NULL TPBaseJob*
  Threads,     \* job threads; a callback may submit a job from one
  Clients,     \* other threads that call submitJob
  Cancellers,  \* threads that call requestCancel, each once
  BaseInit,    \* jobs that keep TPBaseJob::_initialize; AJob, BJob, CJob do not
  Deletes,     \* where a job deletes itself: "finalize", "cancel"
  MaxSubmits,  \* bound on the submissions of one object
  QuietClear,  \* TRUE: clearUndoWork runs when nobody is inside submitJob
  Guarded      \* TRUE: the application cancels between onJobBegin and onJobEnd

ASSUME JobsAssumption == NoJob \notin Jobs /\ BaseInit \subseteq Jobs
ASSUME ActorsAssumption == Threads \cap Clients = {}
ASSUME DisciplineAssumption ==
  /\ Deletes \subseteq {"finalize", "cancel"} /\ MaxSubmits \in Nat
  /\ QuietClear \in BOOLEAN /\ Guarded \in BOOLEAN

Submitters == Clients \cup Threads

VARIABLES
  phase,       \* where each job is
  submits,     \* its submissions so far
  alive,       \* the jobs that were not deleted
  held,        \* the jobs whose stop_job_event_ is not NULL
  made, gone,  \* how often the event of each job was created and destroyed
  told,        \* history: the callbacks made for each job
  known,       \* the running jobs the application knows of from its callbacks
  tpc, tjob,   \* where each job thread is in doJobs, and pJob
  spc, sjob,   \* where each submitter is in submitJob, and pJob
  opc, ojob,   \* where the owner is in clearUndoWork, and pJob
  cpc, cjob    \* where each canceller is in requestCancel, and the job

jobVars == <<phase, submits, alive, held, made, gone, told, known>>
threadVars == <<tpc, tjob>>
submitVars == <<spc, sjob>>
ownerVars == <<opc, ojob>>
cancelVars == <<cpc, cjob>>
vars == <<jobVars, threadVars, submitVars, ownerVars, cancelVars>>

Init ==
  /\ phase = [j \in Jobs |-> "new"] /\ submits = [j \in Jobs |-> 0]
  /\ alive = Jobs /\ held = {}
  /\ made = [j \in Jobs |-> 0] /\ gone = [j \in Jobs |-> 0]
  /\ told = [j \in Jobs |-> {}] /\ known = {}
  /\ tpc = [t \in Threads |-> "idle"] /\ tjob = [t \in Threads |-> NoJob]
  /\ spc = [s \in Submitters |-> "idle"] /\ sjob = [s \in Submitters |-> NoJob]
  /\ opc = "idle" /\ ojob = NoJob
  /\ cpc = [c \in Cancellers |-> "idle"] /\ cjob = [c \in Cancellers |-> NoJob]

\* waiting_jobs_lock_: clearUndoWork keeps it throughout, callbacks included; the
\* others hold it within one step
LockPerJob == opc \in {"idle", "called"}  \* mutant: released around the callback
WaitingLockFree == opc = "idle"

\* the order of the calls in doJobs
EndLast ==                         \* mutant: onJobEnd after DestroyEvent
  [initialize |-> "create", create |-> "begin", begin |-> "callback",
   callback |-> "destroy", destroy |-> "end", end |-> "finalize"]
Follows ==
  [initialize |-> "create", create |-> "begin", begin |-> "callback",
   callback |-> "end", end |-> "destroy", destroy |-> "finalize"]
GoOn(t) == tpc' = [tpc EXCEPT ![t] = Follows[tpc[t]]]

Tell(j, what) == told' = [told EXCEPT ![j] = told[j] \cup {what}]

\* DestroyEvent of the stop_job_event_ of the jobs in S
DestroyEvents(S) == gone' = [j \in Jobs |-> IF j \in S THEN gone[j] + 1 ELSE gone[j]]

DeleteUntested(j) == alive' = alive \ {j} /\ DestroyEvents({j})  \* mutant
\* delete: ~TPBaseJob destroys the event if the pointer is not NULL
Delete(j) == alive' = alive \ {j} /\ DestroyEvents({j} \cap held)

-----------------------------------------------------------------------------
(* submitJob, by a client or from within onJobBegin.                        *)

Insert(s, j) ==
  /\ spc[s] = "idle" /\ (s \in Threads => tpc[s] = "callback")
  /\ phase[j] \in {"new", "over", "cancelled"} /\ j \in alive /\ submits[j] < MaxSubmits
  /\ WaitingLockFree
  /\ phase' = [phase EXCEPT ![j] = "waiting"]
  /\ submits' = [submits EXCEPT ![j] = submits[j] + 1]
  /\ spc' = [spc EXCEPT ![s] = "log"] /\ sjob' = [sjob EXCEPT ![s] = j]
  /\ UNCHANGED <<alive, held, made, gone, told, known, threadVars, ownerVars,
                 cancelVars>>

\* job_id_ is read once more after the locks were released (392)
Log(s) ==
  /\ spc[s] = "log"
  /\ spc' = [spc EXCEPT ![s] = "idle"] /\ sjob' = [sjob EXCEPT ![s] = NoJob]
  /\ UNCHANGED <<jobVars, threadVars, ownerVars, cancelVars>>

-----------------------------------------------------------------------------
(* A job thread: doJobs, from _getJob to _finalize.                         *)

Take(t, j) ==
  /\ tpc[t] = "idle" /\ WaitingLockFree /\ phase[j] = "waiting"
  /\ phase' = [phase EXCEPT ![j] = "taken"]
  /\ tpc' = [tpc EXCEPT ![t] = "initialize"] /\ tjob' = [tjob EXCEPT ![t] = j]
  /\ UNCHANGED <<submits, alive, held, made, gone, told, known, submitVars,
                 ownerVars, cancelVars>>

\* TPBaseJob::_initialize drops an event that is left; an overriding one does not
Initialize(t) ==
  /\ tpc[t] = "initialize"
  /\ GoOn(t)
  /\ DestroyEvents({tjob[t]} \cap BaseInit \cap held)
  /\ held' = held \ ({tjob[t]} \cap BaseInit)
  /\ UNCHANGED <<phase, submits, alive, made, told, known, tjob, submitVars,
                 ownerVars, cancelVars>>

\* the assertion at 574: with an event left over the program aborts
Create(t) ==
  /\ tpc[t] = "create" /\ tjob[t] \notin held
  /\ GoOn(t)
  /\ held' = held \cup {tjob[t]}
  /\ made' = [made EXCEPT ![tjob[t]] = made[tjob[t]] + 1]
  /\ UNCHANGED <<phase, submits, alive, gone, told, known, tjob, submitVars,
                 ownerVars, cancelVars>>

NotifyBegin(t) ==
  /\ tpc[t] = "begin"
  /\ GoOn(t)
  /\ Tell(tjob[t], "begin") /\ known' = known \cup {tjob[t]}
  /\ UNCHANGED <<phase, submits, alive, held, made, gone, tjob, submitVars,
                 ownerVars, cancelVars>>

\* onJobBegin returns, and so does _run
Run(t) ==
  /\ tpc[t] = "callback" /\ spc[t] = "idle"
  /\ GoOn(t)
  /\ UNCHANGED <<jobVars, tjob, submitVars, ownerVars, cancelVars>>

\* an application that cancels from other threads keeps them out of the job
\* before it returns from onJobEnd
NotifyEnd(t) ==
  /\ tpc[t] = "end"
  /\ Guarded => \A c \in Cancellers : cjob[c] # tjob[t]
  /\ GoOn(t)
  /\ Tell(tjob[t], "end") /\ known' = known \ {tjob[t]}
  /\ UNCHANGED <<phase, submits, alive, held, made, gone, tjob, submitVars,
                 ownerVars, cancelVars>>

\* the event is destroyed, the pointer to it stays
Destroy(t) ==
  /\ tpc[t] = "destroy"
  /\ GoOn(t)
  /\ DestroyEvents({tjob[t]})
  /\ UNCHANGED <<phase, submits, alive, held, made, told, known, tjob, submitVars,
                 ownerVars, cancelVars>>

Finalize(t) ==
  /\ tpc[t] = "finalize"
  /\ tpc' = [tpc EXCEPT ![t] = "idle"] /\ tjob' = [tjob EXCEPT ![t] = NoJob]
  /\ phase' = [phase EXCEPT ![tjob[t]] = "over"]
  /\ IF "finalize" \in Deletes THEN Delete(tjob[t]) ELSE UNCHANGED <<alive, gone>>
  /\ UNCHANGED <<submits, held, made, told, known, submitVars, ownerVars,
                 cancelVars>>

ThreadStep(t) ==
  \/ Initialize(t) \/ Create(t) \/ NotifyBegin(t) \/ Run(t) \/ NotifyEnd(t)
  \/ Destroy(t) \/ Finalize(t)

-----------------------------------------------------------------------------
(* clearUndoWork: onJobCancel, _onCancelJob, then the job leaves the set.    *)

StartClear ==
  /\ opc = "idle"
  /\ QuietClear => \A s \in Submitters : spc[s] = "idle"
  /\ opc' = "loop"
  /\ UNCHANGED <<jobVars, threadVars, submitVars, ojob, cancelVars>>

NotifyCancel(j) ==
  /\ opc = "loop" /\ phase[j] = "waiting"
  /\ opc' = "called" /\ ojob' = j
  /\ Tell(j, "cancel")
  /\ UNCHANGED <<phase, submits, alive, held, made, gone, known, threadVars,
                 submitVars, cancelVars>>

KeptWaiting == UNCHANGED phase     \* mutant: the job is not erased
ErasedWaiting == phase' = [phase EXCEPT ![ojob] = "cancelled"]
OnCancelJob ==
  /\ opc = "called"
  /\ opc' = "loop" /\ ojob' = NoJob
  /\ IF "cancel" \in Deletes THEN Delete(ojob) ELSE UNCHANGED <<alive, gone>>
  /\ ErasedWaiting
  /\ UNCHANGED <<submits, held, made, told, known, threadVars, submitVars,
                 cancelVars>>

EndClear ==
  /\ opc = "loop" /\ \A j \in Jobs : phase[j] # "waiting"
  /\ opc' = "idle"
  /\ UNCHANGED <<jobVars, threadVars, submitVars, ojob, cancelVars>>

ClearStep == (\E j \in Jobs : NotifyCancel(j)) \/ OnCancelJob \/ EndClear

-----------------------------------------------------------------------------
(* requestCancel.                                                           *)

\* the pointer is read, and SetEvent is called with what it holds
RequestCancel(c, j) ==
  /\ cpc[c] = "idle"
  /\ IF Guarded THEN j \in known ELSE j \in alive /\ phase[j] # "new"
  /\ cpc' = [cpc EXCEPT ![c] = "set"] /\ cjob' = [cjob EXCEPT ![c] = j]
  /\ UNCHANGED <<jobVars, threadVars, submitVars, ownerVars>>

CancelSet(c) ==
  /\ cpc[c] = "set"
  /\ cpc' = [cpc EXCEPT ![c] = "done"] /\ cjob' = [cjob EXCEPT ![c] = NoJob]
  /\ UNCHANGED <<jobVars, threadVars, submitVars, ownerVars>>

-----------------------------------------------------------------------------
Next ==
  \/ \E s \in Submitters : (\E j \in Jobs : Insert(s, j)) \/ Log(s)
  \/ \E t \in Threads : (\E j \in Jobs : Take(t, j)) \/ ThreadStep(t)
  \/ StartClear \/ ClearStep
  \/ \E c \in Cancellers : (\E j \in Jobs : RequestCancel(c, j)) \/ CancelSet(c)

Spec == Init /\ [][Next]_vars

\* threads inside a function run on, and idle job threads take jobs
Fairness ==
  /\ \A s \in Submitters : WF_vars(Log(s))
  /\ \A t \in Threads : WF_vars((\E j \in Jobs : Take(t, j)) \/ ThreadStep(t))
  /\ WF_vars(ClearStep)
  /\ \A c \in Cancellers : WF_vars(CancelSet(c))

FairSpec == Spec /\ Fairness
-----------------------------------------------------------------------------
(* Properties.                                                             *)

\* every variable has a value the code can give it, and what a thread runs is a job
\* that was taken from the set
TypeOK ==
  /\ phase \in [Jobs -> {"new", "waiting", "taken", "over", "cancelled"}]
  /\ submits \in [Jobs -> 0..MaxSubmits] /\ alive \subseteq Jobs /\ held \subseteq Jobs
  /\ made \in [Jobs -> Nat] /\ gone \in [Jobs -> Nat]
  /\ told \in [Jobs -> SUBSET {"begin", "end", "cancel"}] /\ known \subseteq Jobs
  /\ tpc \in [Threads -> {"idle", "initialize", "create", "begin", "callback",
                          "end", "destroy", "finalize"}]
  /\ spc \in [Submitters -> {"idle", "log"}]
  /\ opc \in {"idle", "loop", "called"} /\ ojob \in Jobs \cup {NoJob}
  /\ cpc \in [Cancellers -> {"idle", "set", "done"}]
  /\ tjob \in [Threads -> Jobs \cup {NoJob}]
  /\ \A t \in Threads : tpc[t] # "idle" => tjob[t] # NoJob /\ phase[tjob[t]] = "taken"
  /\ sjob \in [Submitters -> Jobs \cup {NoJob}]
  /\ cjob \in [Cancellers -> Jobs \cup {NoJob}]

EventLive(j) == j \in held /\ made[j] = gone[j] + 1

\* basejob.h:77 has the pool create and release the event: each event that was
\* created is destroyed at most once (581; basejob.cpp:29-36, 73-83).
EventFreedOnce == \A j \in Jobs : gone[j] <= made[j] /\ made[j] <= gone[j] + 1

\* requestCancel calls SetEvent with a live event of a live job, if the application
\* cancels between the two callbacks (574-581, basejob.cpp:55).
CancelFindsEvent ==
  \A c \in Cancellers : cpc[c] = "set" => cjob[c] \in alive /\ EventLive(cjob[c])

\* Nobody is left with a job that was deleted: not the thread that runs it, not
\* submitJob, which reads its id after it gave it away (392), not clearUndoWork.
JobsInHandAlive ==
  /\ \A t \in Threads : tpc[t] # "idle" => tjob[t] \in alive
  /\ \A s \in Submitters : spc[s] = "log" => sjob[s] \in alive
  /\ opc = "called" => ojob \in alive

\* A submission ends in one of two ways, and the callbacks say which: begin and end,
\* or cancel, never both (threadpoolcallback.h:27-33; 343, 577-579).
OneFate ==
  \A j \in Jobs : submits[j] <= 1 =>
    told[j] \in {{}, {"begin"}, {"begin", "end"}, {"cancel"}}

\* clearUndoWork returns, while callbacks of running jobs submit new ones.
ClearReturns == opc # "idle" ~> opc = "idle"

\* A job that was submitted is run or cancelled, whatever the callbacks, the
\* cancellers and clearUndoWork do.
JobSettles == \A j \in Jobs : phase[j] = "waiting" ~> phase[j] \in {"over", "cancelled"}
=============================================================================
