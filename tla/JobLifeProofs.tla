---------------------------- MODULE JobLifeProofs -----------------------------
(***************************************************************************)
(* Theorems about JobLife: the types and who has a job in hand, the fate   *)
(* of a submission, and under which discipline of the application a job's  *)
(* event is freed once, found alive by requestCancel, and nobody is left   *)
(* with a deleted job.                                                     *)
(***************************************************************************)
EXTENDS JobLife, TLAPS

USE DEF jobVars, threadVars, submitVars, ownerVars, cancelVars

-----------------------------------------------------------------------------
(* Types, and that a job is in one thread's hands at a time.                *)

Phases == {"new", "waiting", "taken", "over", "cancelled"}
ThreadPcs == {"idle", "initialize", "create", "begin", "callback", "end", "destroy",
              "finalize"}

\* two threads never run the same job
OneThreadEach ==
  \A t, u \in Threads : tpc[t] # "idle" /\ tpc[u] # "idle" /\ tjob[t] = tjob[u] => t = u
\* clearUndoWork is in a callback for a job that is still in the set
Clearing == opc = "called" => ojob \in Jobs /\ phase[ojob] = "waiting"
\* submitJob and requestCancel have the job they were called with
InHand ==
  /\ \A s \in Submitters : spc[s] = "log" => sjob[s] \in Jobs
  /\ \A c \in Cancellers : cpc[c] = "set" => cjob[c] \in Jobs

TypeInv == TypeOK /\ OneThreadEach /\ Clearing /\ InHand

\* The order of the calls in doJobs, one by one.
LEMMA FollowsOK ==
  /\ Follows["initialize"] = "create" /\ Follows["create"] = "begin"
  /\ Follows["begin"] = "callback" /\ Follows["callback"] = "end"
  /\ Follows["end"] = "destroy" /\ Follows["destroy"] = "finalize"
  BY DEF Follows

\* A new application has no job in hand.
LEMMA TypeInit == Init => TypeInv
  BY DisciplineAssumption DEF Init, TypeInv, TypeOK, OneThreadEach, Clearing, InHand

\* A thread inside doJobs runs a job that was taken from the set.
LEMMA Running ==
  ASSUME TypeInv, NEW t \in Threads, tpc[t] # "idle"
  PROVE  tjob[t] \in Jobs /\ phase[tjob[t]] = "taken"
  BY DEF TypeInv, TypeOK

\* Each call of doJobs moves its thread on and keeps its job.
LEMMA TypeOn ==
  ASSUME TypeInv, NEW t \in Threads, GoOn(t),
         tpc[t] \in {"initialize", "create", "begin", "callback", "end", "destroy"},
         UNCHANGED <<phase, submits, alive, tjob, submitVars, ownerVars, cancelVars>>,
         held' \subseteq Jobs, known' \subseteq Jobs,
         made' \in [Jobs -> Nat], gone' \in [Jobs -> Nat],
         told' \in [Jobs -> SUBSET {"begin", "end", "cancel"}]
  PROVE  TypeInv'
<1>1. /\ tpc' = [tpc EXCEPT ![t] = Follows[tpc[t]]]
      /\ Follows[tpc[t]] \in ThreadPcs \ {"idle"}
  BY FollowsOK DEF GoOn, ThreadPcs
<1>2. \A u \in Threads : tpc'[u] # "idle" => tpc[u] # "idle"
  BY <1>1 DEF TypeInv, TypeOK
<1>3. tpc' \in [Threads -> ThreadPcs]
  BY <1>1 DEF TypeInv, TypeOK, ThreadPcs
<1>4. TypeOK'
  BY <1>2, <1>3 DEF TypeInv, TypeOK, ThreadPcs
<1>5. OneThreadEach' /\ Clearing' /\ InHand'
  BY <1>2 DEF TypeInv, OneThreadEach, Clearing, InHand
<1> QED
  BY <1>4, <1>5 DEF TypeInv

\* A call of doJobs keeps the types.
LEMMA TypeThread ==
  ASSUME TypeInv, NEW t \in Threads, ThreadStep(t)
  PROVE  TypeInv'
<1>1. /\ tpc[t] # "idle" /\ tjob[t] \in Jobs /\ phase[tjob[t]] = "taken"
      /\ held \subseteq Jobs /\ known \subseteq Jobs /\ alive \subseteq Jobs
      /\ made \in [Jobs -> Nat] /\ gone \in [Jobs -> Nat]
      /\ told \in [Jobs -> SUBSET {"begin", "end", "cancel"}]
  <2>1. tpc[t] # "idle"
    BY DEF ThreadStep, Initialize, Create, NotifyBegin, Run, NotifyEnd, Destroy, Finalize
  <2> QED
    BY <2>1, Running DEF TypeInv, TypeOK
<1>2. CASE Initialize(t)
  BY <1>1, <1>2, TypeOn DEF Initialize, DestroyEvents
<1>3. CASE Create(t)
  BY <1>1, <1>3, TypeOn DEF Create
<1>4. CASE NotifyBegin(t)
  BY <1>1, <1>4, TypeOn DEF NotifyBegin, Tell
<1>5. CASE Run(t)
  BY <1>1, <1>5, TypeOn DEF Run
<1>6. CASE NotifyEnd(t)
  BY <1>1, <1>6, TypeOn DEF NotifyEnd, Tell
<1>7. CASE Destroy(t)
  BY <1>1, <1>7, TypeOn DEF Destroy, DestroyEvents
<1>8. CASE Finalize(t)
  <2>1. /\ tpc' = [tpc EXCEPT ![t] = "idle"] /\ tjob' = [tjob EXCEPT ![t] = NoJob]
        /\ phase' = [phase EXCEPT ![tjob[t]] = "over"]
        /\ UNCHANGED <<submits, held, made, told, known, submitVars, ownerVars, cancelVars>>
    BY <1>8 DEF Finalize
  <2>2. alive' \subseteq Jobs /\ gone' \in [Jobs -> Nat]
    BY <1>1, <1>8 DEF Finalize, Delete, DestroyEvents
  <2>3. \A u \in Threads \ {t} : /\ tpc'[u] = tpc[u] /\ tjob'[u] = tjob[u]
                                 /\ tpc[u] # "idle" => tjob[u] # tjob[t]
    BY <1>1, <2>1 DEF TypeInv, TypeOK, OneThreadEach
  <2>4. tpc'[t] = "idle"
    BY <2>1 DEF TypeInv, TypeOK
  <2>5. TypeOK'
    <3>1. \A u \in Threads :
            tpc'[u] # "idle" => tjob'[u] # NoJob /\ phase'[tjob'[u]] = "taken"
      BY <1>1, <2>1, <2>3, <2>4 DEF TypeInv, TypeOK
    <3>2. /\ phase' \in [Jobs -> Phases] /\ tpc' \in [Threads -> ThreadPcs]
          /\ tjob' \in [Threads -> Jobs \cup {NoJob}]
      BY <1>1, <2>1 DEF TypeInv, TypeOK, Phases, ThreadPcs
    <3> QED
      BY <2>1, <2>2, <3>1, <3>2 DEF TypeInv, TypeOK, Phases, ThreadPcs
  <2>6. OneThreadEach'
    BY <2>3, <2>4 DEF TypeInv, OneThreadEach
  <2>7. Clearing' /\ InHand'
    BY <1>1, <2>1 DEF TypeInv, TypeOK, Clearing, InHand
  <2> QED
    BY <2>5, <2>6, <2>7 DEF TypeInv
<1> QED
  BY <1>2, <1>3, <1>4, <1>5, <1>6, <1>7, <1>8 DEF ThreadStep

\* submitJob, taking a job, clearUndoWork and requestCancel keep the types.
LEMMA TypeOther ==
  ASSUME TypeInv,
         \/ \E s \in Submitters : (\E j \in Jobs : Insert(s, j)) \/ Log(s)
         \/ \E t \in Threads : \E j \in Jobs : Take(t, j)
         \/ StartClear \/ ClearStep
         \/ \E c \in Cancellers : (\E j \in Jobs : RequestCancel(c, j)) \/ CancelSet(c)
  PROVE  TypeInv'
<1>1. ASSUME NEW s \in Submitters, NEW j \in Jobs, Insert(s, j)
      PROVE  TypeInv'
  <2>1. \A k \in Jobs : phase[k] = "taken" => phase'[k] = "taken"
    BY <1>1 DEF Insert, TypeInv, TypeOK
  <2>2. submits' \in [Jobs -> 0..MaxSubmits]
    BY <1>1, DisciplineAssumption DEF Insert, TypeInv, TypeOK
  <2> QED
    BY <1>1, <2>1, <2>2, Running
       DEF Insert, WaitingLockFree, TypeInv, TypeOK, OneThreadEach, Clearing, InHand
<1>2. ASSUME NEW s \in Submitters, Log(s)
      PROVE  TypeInv'
  BY <1>2 DEF Log, TypeInv, TypeOK, OneThreadEach, Clearing, InHand
<1>3. ASSUME NEW t \in Threads, NEW j \in Jobs, Take(t, j)
      PROVE  TypeInv'
  <2>1. \A u \in Threads \ {t} : tpc[u] # "idle" => tjob[u] # j
    BY <1>3, Running DEF Take
  <2>2. TypeOK'
    BY <1>3, <2>1, JobsAssumption DEF Take, TypeInv, TypeOK
  <2>3. OneThreadEach'
    BY <1>3, <2>1 DEF Take, TypeInv, TypeOK, OneThreadEach
  <2> QED
    BY <1>3, <2>2, <2>3 DEF Take, WaitingLockFree, TypeInv, Clearing, InHand
<1>4. CASE StartClear
  BY <1>4 DEF StartClear, TypeInv, TypeOK, OneThreadEach, Clearing, InHand
<1>5. ASSUME NEW j \in Jobs, NotifyCancel(j)
      PROVE  TypeInv'
  BY <1>5 DEF NotifyCancel, Tell, TypeInv, TypeOK, OneThreadEach, Clearing, InHand
<1>6. CASE OnCancelJob
  <2>1. /\ ojob \in Jobs /\ phase[ojob] = "waiting"
        /\ phase' = [phase EXCEPT ![ojob] = "cancelled"]
    BY <1>6 DEF OnCancelJob, ErasedWaiting, TypeInv, Clearing
  <2>2. \A k \in Jobs : phase[k] = "taken" => phase'[k] = "taken"
    BY <2>1 DEF TypeInv, TypeOK
  <2>3. alive' \subseteq Jobs /\ gone' \in [Jobs -> Nat]
    BY <1>6 DEF OnCancelJob, Delete, DestroyEvents, TypeInv, TypeOK
  <2> QED
    BY <1>6, <2>1, <2>2, <2>3, Running
       DEF OnCancelJob, TypeInv, TypeOK, OneThreadEach, Clearing, InHand
<1>7. CASE EndClear
  BY <1>7 DEF EndClear, TypeInv, TypeOK, OneThreadEach, Clearing, InHand
<1>8. ASSUME NEW c \in Cancellers, NEW j \in Jobs, RequestCancel(c, j)
      PROVE  TypeInv'
  BY <1>8 DEF RequestCancel, TypeInv, TypeOK, OneThreadEach, Clearing, InHand
<1>9. ASSUME NEW c \in Cancellers, CancelSet(c)
      PROVE  TypeInv'
  BY <1>9 DEF CancelSet, TypeInv, TypeOK, OneThreadEach, Clearing, InHand
<1> QED
  BY <1>1, <1>2, <1>3, <1>4, <1>5, <1>6, <1>7, <1>8, <1>9 DEF ClearStep

\* Every step keeps the types.
LEMMA TypeStep == TypeInv /\ [Next]_vars => TypeInv'
<1> SUFFICES ASSUME TypeInv, [Next]_vars PROVE TypeInv'
  OBVIOUS
<1>1. CASE UNCHANGED vars
  BY <1>1 DEF vars, TypeInv, TypeOK, OneThreadEach, Clearing, InHand
<1>2. CASE Next
  BY <1>2, TypeThread, TypeOther DEF Next
<1> QED
  BY <1>1, <1>2

\* The types, and that each job is in one thread's hands, for every number of jobs
\* and threads and every discipline of the application.
THEOREM TypeCorrect == Spec => []TypeInv
  BY TypeInit, TypeStep, PTL DEF Spec

\* The type invariant alone, as the run checks it (JobLife!TypeOK).
THEOREM TypesHold == Spec => []TypeOK
<1>1. TypeInv => TypeOK
  BY DEF TypeInv
<1> QED
  BY <1>1, TypeCorrect, PTL
-----------------------------------------------------------------------------
(* The fate of a submission.                                               *)

\* a job that is not new was submitted
Submitted == \A j \in Jobs : phase[j] # "new" => submits[j] >= 1
\* the callbacks made so far for a job that a thread has in hand
ToldAt(pc) ==
  CASE pc \in {"initialize", "create", "begin"} -> {}
    [] pc \in {"callback", "end"} -> {"begin"}
    [] OTHER -> {"begin", "end"}
ToldByThread ==
  \A t \in Threads : tpc[t] # "idle" /\ submits[tjob[t]] <= 1 =>
    told[tjob[t]] = ToldAt(tpc[t])
\* the callbacks that may have been made for a job that was submitted once
FateOf(j) ==
  CASE phase[j] = "new" -> {{}}
    [] phase[j] = "waiting" -> IF opc = "called" /\ ojob = j THEN {{"cancel"}} ELSE {{}}
    [] phase[j] = "cancelled" -> {{"cancel"}}
    [] OTHER -> {{}, {"begin"}, {"begin", "end"}}
ToldByPhase == \A j \in Jobs : submits[j] <= 1 => told[j] \in FateOf(j)
FateInv == Submitted /\ ToldByThread /\ ToldByPhase

\* What a thread has called for its job, before and after it goes on.
LEMMA ToldOn ==
  /\ ToldAt(Follows["initialize"]) = {} /\ ToldAt(Follows["create"]) = {}
  /\ ToldAt(Follows["begin"]) = {"begin"} /\ ToldAt(Follows["callback"]) = {"begin"}
  /\ ToldAt(Follows["end"]) = {"begin", "end"}
  /\ ToldAt(Follows["destroy"]) = {"begin", "end"}
  BY FollowsOK DEF ToldAt

\* A call of doJobs that makes a callback, or none, leaves the fate of its job open.
LEMMA FateOn ==
  ASSUME TypeInv, FateInv, NEW t \in Threads, tpc[t] # "idle", GoOn(t),
         UNCHANGED <<phase, submits, tjob, ownerVars>>,
         \A j \in Jobs \ {tjob[t]} : told'[j] = told[j],
         submits[tjob[t]] <= 1 => told'[tjob[t]] = ToldAt(Follows[tpc[t]])
  PROVE  FateInv'
<1>1. tjob[t] \in Jobs /\ phase[tjob[t]] = "taken"
  BY Running
<1>2. \A u \in Threads \ {t} : tpc'[u] = tpc[u] /\ (tpc[u] # "idle" => tjob[u] # tjob[t])
  BY DEF GoOn, TypeInv, TypeOK, OneThreadEach
<1>3. tpc'[t] = Follows[tpc[t]]
  BY DEF GoOn, TypeInv, TypeOK
<1>4. ToldByThread'
  BY <1>2, <1>3, Running DEF FateInv, ToldByThread
<1>5. ToldByPhase'
  <2>1. \A j \in Jobs : FateOf(j)' = FateOf(j)
    BY DEF FateOf
  <2>2. FateOf(tjob[t]) = {{}, {"begin"}, {"begin", "end"}}
    BY <1>1 DEF FateOf
  <2>3. \A pc : ToldAt(pc) \in {{}, {"begin"}, {"begin", "end"}}
    BY DEF ToldAt
  <2> QED
    BY <1>1, <2>1, <2>2, <2>3 DEF FateInv, ToldByPhase
<1> QED
  BY <1>4, <1>5 DEF FateInv, Submitted

\* A call of doJobs keeps the fates.
LEMMA FateThread ==
  ASSUME TypeInv, FateInv, NEW t \in Threads, ThreadStep(t)
  PROVE  FateInv'
<1>1. /\ tpc[t] # "idle" /\ tjob[t] \in Jobs /\ phase[tjob[t]] = "taken"
      /\ told \in [Jobs -> SUBSET {"begin", "end", "cancel"}]
      /\ submits[tjob[t]] <= 1 => told[tjob[t]] = ToldAt(tpc[t])
  <2>1. tpc[t] # "idle"
    BY DEF ThreadStep, Initialize, Create, NotifyBegin, Run, NotifyEnd, Destroy, Finalize
  <2> QED
    BY <2>1, Running DEF TypeInv, TypeOK, FateInv, ToldByThread
<1>2. CASE Initialize(t) \/ Create(t) \/ Run(t) \/ Destroy(t)
  <2>1. /\ GoOn(t) /\ UNCHANGED <<phase, submits, tjob, told, ownerVars>>
        /\ tpc[t] \in {"initialize", "create", "callback", "destroy"}
    BY <1>2 DEF Initialize, Create, Run, Destroy
  <2>2. ToldAt(Follows[tpc[t]]) = ToldAt(tpc[t])
    BY <2>1, ToldOn DEF ToldAt
  <2> QED
    BY <1>1, <2>1, <2>2, FateOn
<1>3. CASE NotifyBegin(t) \/ NotifyEnd(t)
  <2>1. PICK what \in {"begin", "end"} :
          /\ tpc[t] = what /\ GoOn(t) /\ UNCHANGED <<phase, submits, tjob, ownerVars>>
          /\ told' = [told EXCEPT ![tjob[t]] = told[tjob[t]] \cup {what}]
    BY <1>3 DEF NotifyBegin, NotifyEnd, Tell
  <2>2. ToldAt(Follows[what]) = ToldAt(what) \cup {what}
    BY ToldOn DEF ToldAt
  <2>3. told'[tjob[t]] = told[tjob[t]] \cup {what}
    BY <1>1, <2>1
  <2>4. \A j \in Jobs \ {tjob[t]} : told'[j] = told[j]
    BY <1>1, <2>1
  <2> QED
    BY <1>1, <2>1, <2>2, <2>3, <2>4, FateOn
<1>4. CASE Finalize(t)
  <2>1. /\ tpc' = [tpc EXCEPT ![t] = "idle"] /\ tjob' = [tjob EXCEPT ![t] = NoJob]
        /\ phase' = [phase EXCEPT ![tjob[t]] = "over"]
        /\ UNCHANGED <<submits, told, ownerVars>>
    BY <1>4 DEF Finalize
  <2>2. /\ \A u \in Threads : tpc'[u] # "idle" => tpc'[u] = tpc[u] /\ tjob'[u] = tjob[u]
        /\ phase'[tjob[t]] = "over" /\ \A j \in Jobs \ {tjob[t]} : phase'[j] = phase[j]
    BY <1>1, <2>1 DEF TypeInv, TypeOK
  <2>3. ToldByThread'
    BY <2>1, <2>2 DEF FateInv, ToldByThread
  <2>4. \A j \in Jobs : FateOf(j)' = FateOf(j)
    BY <1>1, <2>1, <2>2 DEF FateOf
  <2> QED
    BY <1>1, <2>1, <2>2, <2>3, <2>4 DEF FateInv, ToldByPhase, Submitted
<1> QED
  BY <1>2, <1>3, <1>4 DEF ThreadStep

\* Submitting a job, taking it and cancelling it keep the fates.
LEMMA FateOther ==
  ASSUME TypeInv, FateInv,
         \/ \E s \in Submitters, j \in Jobs : Insert(s, j)
         \/ \E t \in Threads, j \in Jobs : Take(t, j)
         \/ StartClear \/ ClearStep
  PROVE  FateInv'
<1> USE DEF FateInv
<1>1. /\ phase \in [Jobs -> Phases] /\ submits \in [Jobs -> Nat]
      /\ told \in [Jobs -> SUBSET {"begin", "end", "cancel"}]
      /\ tpc \in [Threads -> ThreadPcs] /\ tjob \in [Threads -> Jobs \cup {NoJob}]
  BY DisciplineAssumption DEF TypeInv, TypeOK, Phases, ThreadPcs
<1>2. ASSUME NEW s \in Submitters, NEW j \in Jobs, Insert(s, j)
      PROVE  FateInv'
  <2>1. /\ phase' = [phase EXCEPT ![j] = "waiting"] /\ phase[j] # "taken"
        /\ phase[j] \in {"new", "over", "cancelled"}
        /\ submits' = [submits EXCEPT ![j] = submits[j] + 1]
        /\ UNCHANGED <<told, threadVars, ownerVars>> /\ opc = "idle"
    BY <1>2 DEF Insert, WaitingLockFree
  <2>2. /\ phase'[j] = "waiting" /\ submits'[j] = submits[j] + 1
        /\ \A k \in Jobs \ {j} : phase'[k] = phase[k] /\ submits'[k] = submits[k]
    BY <1>1, <2>1
  <2>3. submits'[j] <= 1 => phase[j] = "new" /\ submits[j] <= 1
    BY <1>1, <2>1, <2>2 DEF Submitted
  <2>4. ToldByThread'
    BY <2>1, <2>2, Running DEF ToldByThread
  <2>5. ToldByPhase'
    <3>1. submits'[j] <= 1 => told'[j] \in FateOf(j)'
      BY <2>1, <2>2, <2>3 DEF ToldByPhase, FateOf
    <3>2. \A k \in Jobs \ {j} : FateOf(k)' = FateOf(k)
      BY <2>1, <2>2 DEF FateOf
    <3> QED
      BY <2>1, <2>2, <3>1, <3>2 DEF ToldByPhase
  <2>6. Submitted'
    BY <1>1, <2>2 DEF Submitted
  <2> QED
    BY <2>4, <2>5, <2>6
<1>3. ASSUME NEW t \in Threads, NEW j \in Jobs, Take(t, j)
      PROVE  FateInv'
  <2>1. /\ phase' = [phase EXCEPT ![j] = "taken"] /\ phase[j] = "waiting" /\ opc = "idle"
        /\ tpc' = [tpc EXCEPT ![t] = "initialize"] /\ tjob' = [tjob EXCEPT ![t] = j]
        /\ UNCHANGED <<submits, told, ownerVars>>
    BY <1>3 DEF Take, WaitingLockFree
  <2>2. submits[j] <= 1 => told[j] = {}
    BY <2>1 DEF ToldByPhase, FateOf
  <2>3. /\ tpc'[t] = "initialize" /\ tjob'[t] = j
        /\ \A u \in Threads \ {t} : tpc'[u] = tpc[u] /\ tjob'[u] = tjob[u]
    BY <1>1, <2>1
  <2>4. ToldByThread'
    BY <2>1, <2>2, <2>3 DEF ToldByThread, ToldAt
  <2>5. phase'[j] = "taken" /\ \A k \in Jobs \ {j} : phase'[k] = phase[k]
    BY <1>1, <2>1
  <2>6. \A k \in Jobs \ {j} : FateOf(k)' = FateOf(k)
    BY <2>1, <2>5 DEF FateOf
  <2>7. {} \in FateOf(j)'
    BY <2>5 DEF FateOf
  <2> QED
    BY <2>1, <2>2, <2>4, <2>5, <2>6, <2>7 DEF ToldByPhase, Submitted
<1>4. CASE StartClear \/ EndClear
  <2>1. /\ UNCHANGED <<phase, submits, told, threadVars, ojob>>
        /\ opc # "called" /\ opc' # "called"
    BY <1>4 DEF StartClear, EndClear
  <2>2. \A k \in Jobs : FateOf(k)' = FateOf(k)
    BY <2>1 DEF FateOf
  <2> QED
    BY <2>1, <2>2 DEF ToldByPhase, ToldByThread, Submitted
<1>5. ASSUME NEW j \in Jobs, NotifyCancel(j)
      PROVE  FateInv'
  <2>1. /\ opc = "loop" /\ phase[j] = "waiting" /\ opc' = "called" /\ ojob' = j
        /\ UNCHANGED <<phase, submits, threadVars>>
        /\ told'[j] = told[j] \cup {"cancel"}
        /\ \A k \in Jobs \ {j} : told'[k] = told[k]
    BY <1>1, <1>5 DEF NotifyCancel, Tell
  <2>2. \A k \in Jobs \ {j} : FateOf(k)' = FateOf(k)
    BY <2>1 DEF FateOf
  <2>3. submits[j] <= 1 => told[j] = {}
    BY <2>1 DEF ToldByPhase, FateOf
  <2>4. FateOf(j)' = {{"cancel"}}
    BY <2>1 DEF FateOf
  <2>5. ToldByThread'
    BY <2>1, Running DEF ToldByThread
  <2> QED
    BY <2>1, <2>2, <2>3, <2>4, <2>5 DEF ToldByPhase, Submitted
<1>6. CASE OnCancelJob
  <2>1. /\ opc = "called" /\ opc' = "loop" /\ ojob \in Jobs /\ phase[ojob] = "waiting"
        /\ phase' = [phase EXCEPT ![ojob] = "cancelled"]
        /\ UNCHANGED <<submits, told, threadVars>>
    BY <1>6 DEF OnCancelJob, ErasedWaiting, TypeInv, Clearing
  <2>2. /\ phase'[ojob] = "cancelled"
        /\ \A k \in Jobs \ {ojob} : phase'[k] = phase[k]
    BY <1>1, <2>1
  <2>3. PICK j \in Jobs : j = ojob
    BY <2>1
  <2>4. FateOf(j) = {{"cancel"}} /\ FateOf(j)' = {{"cancel"}}
    BY <2>1, <2>2, <2>3 DEF FateOf
  <2>5. \A k \in Jobs \ {j} : FateOf(k)' = FateOf(k)
    BY <2>1, <2>2, <2>3 DEF FateOf
  <2>6. ToldByThread'
    BY <2>1 DEF ToldByThread
  <2> QED
    BY <2>1, <2>2, <2>3, <2>4, <2>5, <2>6 DEF ToldByPhase, Submitted
<1> QED
  BY <1>2, <1>3, <1>4, <1>5, <1>6 DEF ClearStep

\* Every step keeps the fates.
LEMMA FateStep ==
  ASSUME TypeInv, FateInv, [Next]_vars
  PROVE  FateInv'
<1>1. CASE UNCHANGED <<phase, submits, told, threadVars, ownerVars>>
  <2>1. \A k \in Jobs : FateOf(k)' = FateOf(k)
    BY <1>1 DEF FateOf
  <2> QED
    BY <1>1, <2>1 DEF FateInv, ToldByPhase, ToldByThread, Submitted
<1>2. CASE Next
  BY <1>1, <1>2, FateThread, FateOther DEF Next, Log, RequestCancel, CancelSet
<1> QED
  BY <1>1, <1>2 DEF vars

\* A submission ends in one of two ways, and the callbacks say which, for every
\* number of threads and every discipline of the application (JobLife!OneFate).
THEOREM OneFateHolds == Spec => []OneFate
<1>1. Init => FateInv
  BY JobsAssumption DEF Init, FateInv, Submitted, ToldByThread, ToldByPhase, FateOf
<1>2. FateInv => OneFate
  <2> SUFFICES ASSUME FateInv, NEW j \in Jobs, submits[j] <= 1
               PROVE  told[j] \in {{}, {"begin"}, {"begin", "end"}, {"cancel"}}
    BY DEF OneFate
  <2> QED
    BY DEF FateInv, ToldByPhase, FateOf
<1> QED
  BY <1>1, <1>2, FateStep, TypeCorrect, PTL DEF Spec
-----------------------------------------------------------------------------
(* Who may be left with a deleted job.                                      *)

\* a job that waits or is run was not deleted
InUseAlive == \A j \in Jobs : phase[j] \in {"waiting", "taken"} => j \in alive

\* A job is deleted when it is over or cancelled, and submitted before.
LEMMA InUseStep ==
  ASSUME TypeInv, InUseAlive, [Next]_vars
  PROVE  InUseAlive'
<1>1. phase \in [Jobs -> Phases] /\ tjob \in [Threads -> Jobs \cup {NoJob}]
  BY DEF TypeInv, TypeOK, Phases
<1>2. CASE UNCHANGED <<phase, alive>>
  BY <1>2 DEF InUseAlive
<1>3. ASSUME NEW s \in Submitters, NEW j \in Jobs, Insert(s, j)
      PROVE  InUseAlive'
  BY <1>1, <1>3 DEF Insert, InUseAlive
<1>4. ASSUME NEW t \in Threads, NEW j \in Jobs, Take(t, j)
      PROVE  InUseAlive'
  BY <1>1, <1>4 DEF Take, InUseAlive
<1>5. ASSUME NEW t \in Threads, Finalize(t)
      PROVE  InUseAlive'
  <2>1. /\ phase' = [phase EXCEPT ![tjob[t]] = "over"] /\ tjob[t] \in Jobs
        /\ alive \ {tjob[t]} \subseteq alive'
    BY <1>5, Running DEF Finalize, Delete
  <2> QED
    BY <1>1, <2>1 DEF InUseAlive
<1>6. CASE OnCancelJob
  <2>1. /\ phase' = [phase EXCEPT ![ojob] = "cancelled"] /\ ojob \in Jobs
        /\ alive \ {ojob} \subseteq alive'
    BY <1>6 DEF OnCancelJob, ErasedWaiting, Delete, TypeInv, Clearing
  <2> QED
    BY <1>1, <2>1 DEF InUseAlive
<1>7. CASE Next
  BY <1>2, <1>3, <1>4, <1>5, <1>6, <1>7
     DEF Next, ThreadStep, ClearStep, Log, Initialize, Create, NotifyBegin, Run, NotifyEnd,
         Destroy, StartClear, NotifyCancel, EndClear, RequestCancel, CancelSet
<1> QED
  BY <1>2, <1>7 DEF vars

\* Neither the thread that runs a job nor clearUndoWork ever meets a deleted one.
THEOREM InUseHolds == Spec => []InUseAlive
<1>1. Init => InUseAlive
  BY DEF Init, InUseAlive
<1> QED
  BY <1>1, InUseStep, TypeCorrect, PTL DEF Spec

\* The discipline: jobs are deleted in _onCancelJob only, and then clearUndoWork runs
\* when nobody is inside submitJob.
SafeDelete == "finalize" \notin Deletes /\ ("cancel" \in Deletes => QuietClear)
\* submitJob reads the id of a job that is there (392)
SubmittersAlive ==
  /\ \A s \in Submitters : spc[s] = "log" => sjob[s] \in alive
  /\ QuietClear /\ opc # "idle" => \A s \in Submitters : spc[s] = "idle"

\* Under the discipline no step deletes a job that submitJob has still to read.
LEMMA SubmittersStep ==
  ASSUME SafeDelete, TypeInv, SubmittersAlive, [Next]_vars
  PROVE  SubmittersAlive'
<1>1. /\ spc \in [Submitters -> {"idle", "log"}]
      /\ sjob \in [Submitters -> Jobs \cup {NoJob}]
  BY DEF TypeInv, TypeOK
<1>2. CASE UNCHANGED <<alive, submitVars>> /\ (opc' # "idle" => opc # "idle")
  BY <1>2 DEF SubmittersAlive
<1>3. ASSUME NEW s \in Submitters, NEW j \in Jobs, Insert(s, j)
      PROVE  SubmittersAlive'
  BY <1>1, <1>3 DEF Insert, WaitingLockFree, SubmittersAlive
<1>4. ASSUME NEW s \in Submitters, Log(s)
      PROVE  SubmittersAlive'
  BY <1>1, <1>4 DEF Log, SubmittersAlive
<1>5. CASE StartClear
  BY <1>5 DEF StartClear, SubmittersAlive
<1>6. CASE OnCancelJob
  <2>1. /\ UNCHANGED <<spc, sjob>> /\ opc # "idle"
        /\ "cancel" \notin Deletes => alive' = alive
    BY <1>6 DEF OnCancelJob
  <2> QED
    BY <1>1, <2>1 DEF SafeDelete, SubmittersAlive
<1>7. CASE Next
  BY <1>2, <1>3, <1>4, <1>5, <1>6, <1>7
     DEF Next, ThreadStep, ClearStep, Take, Initialize, Create, NotifyBegin, Run, NotifyEnd,
         Destroy, Finalize, SafeDelete, NotifyCancel, EndClear, RequestCancel, CancelSet
<1> QED
  BY <1>2, <1>7 DEF vars

\* Nobody is left with a deleted job, if the application deletes where the discipline
\* allows it (JobLife!JobsInHandAlive; 343-346, 392, 577-582).
THEOREM NobodyLeft == SafeDelete => (Spec => []JobsInHandAlive)
<1> SUFFICES ASSUME SafeDelete PROVE Spec => []JobsInHandAlive
  OBVIOUS
<1>1. Init => SubmittersAlive
  BY DEF Init, SubmittersAlive
<1>2. TypeInv /\ SubmittersAlive /\ [Next]_vars => SubmittersAlive'
  BY SubmittersStep
<1>3. TypeInv /\ InUseAlive /\ SubmittersAlive => JobsInHandAlive
  BY Running DEF JobsInHandAlive, InUseAlive, SubmittersAlive, TypeInv, Clearing
<1> QED
  BY <1>1, <1>2, <1>3, TypeCorrect, InUseHolds, PTL DEF Spec

-----------------------------------------------------------------------------
(* The stop event of a job.                                                 *)

UsePcs == {"begin", "callback", "end", "destroy"}
\* The discipline: no object is submitted twice, or only doJobs destroys events.
SafeReuse == MaxSubmits <= 1 \/ (BaseInit = {} /\ "cancel" \notin Deletes)

InUse(j) == \E t \in Threads : tpc[t] \in UsePcs /\ tjob[t] = j
\* a job has its event from its creation to its destruction in doJobs, ...
LiveInUse == \A t \in Threads : tpc[t] \in UsePcs => EventLive(tjob[t])
\* ... and no event before and after, ...
Balanced ==
  \A j \in Jobs : ~InUse(j) /\ ~("finalize" \in Deletes /\ phase[j] = "over")
    => made[j] = gone[j]
\* ... nor a pointer to one before
FirstUse ==
  MaxSubmits <= 1 =>
    /\ \A j \in Jobs : /\ phase[j] = "new" <=> submits[j] = 0
                       /\ phase[j] \in {"new", "waiting"} => j \notin held
    /\ \A t \in Threads : tpc[t] \in {"initialize", "create"} => tjob[t] \notin held
DeletedOver == "finalize" \in Deletes => \A j \in Jobs : phase[j] = "over" => j \notin alive
EventInv == LiveInUse /\ Balanced /\ FirstUse /\ DeletedOver

\* A step of a thread that keeps it in the same part of doJobs keeps the events.
LEMMA EventOn ==
  ASSUME TypeInv, EventInv, NEW t \in Threads, GoOn(t),
         tpc[t] \notin {"idle", "finalize"},
         tpc[t] \in UsePcs <=> Follows[tpc[t]] \in UsePcs,
         Follows[tpc[t]] = "create" => tpc[t] = "initialize",
         UNCHANGED <<phase, submits, alive, held, made, gone, tjob>>
  PROVE  EventInv'
<1>1. \A u \in Threads \ {t} : tpc'[u] = tpc[u]
  BY DEF GoOn, TypeInv, TypeOK
<1>2. /\ tpc'[t] = Follows[tpc[t]]
      /\ Follows[tpc[t]] # "initialize"
  BY FollowsOK DEF GoOn, TypeInv, TypeOK, ThreadPcs
<1>3. \A u \in Threads : tpc'[u] \in UsePcs <=> tpc[u] \in UsePcs
  BY <1>1, <1>2
<1>4. \A j : InUse(j)' <=> InUse(j)
  BY <1>3 DEF InUse
<1>5. LiveInUse' /\ Balanced' /\ DeletedOver'
  BY <1>3, <1>4 DEF EventInv, LiveInUse, EventLive, Balanced, DeletedOver
<1>6. FirstUse'
  BY <1>1, <1>2 DEF EventInv, FirstUse
<1> QED
  BY <1>5, <1>6 DEF EventInv

\* A call of doJobs keeps the events in order.
LEMMA EventThread ==
  ASSUME SafeReuse, TypeInv, EventInv, NEW t \in Threads, ThreadStep(t)
  PROVE  EventInv'
<1> DEFINE j == tjob[t]
<1>1. tpc[t] # "idle" /\ j \in Jobs /\ phase[j] = "taken"
  <2>1. tpc[t] # "idle"
    BY DEF ThreadStep, Initialize, Create, NotifyBegin, Run, NotifyEnd, Destroy, Finalize
  <2> QED
    BY <2>1, Running
<1>2. /\ phase \in [Jobs -> Phases] /\ tpc \in [Threads -> ThreadPcs]
      /\ made \in [Jobs -> Nat] /\ gone \in [Jobs -> Nat]
      /\ tjob \in [Threads -> Jobs \cup {NoJob}]
  BY DEF TypeInv, TypeOK, Phases, ThreadPcs
<1>3. \A u \in Threads \ {t} : tpc[u] # "idle" => tjob[u] # j /\ tjob[u] \in Jobs
  BY <1>1, Running DEF TypeInv, OneThreadEach
<1>4. CASE NotifyBegin(t) \/ Run(t) \/ NotifyEnd(t)
  <2>1. /\ tpc[t] \in {"begin", "callback", "end"} /\ GoOn(t)
        /\ UNCHANGED <<phase, submits, alive, held, made, gone, tjob>>
    BY <1>4 DEF NotifyBegin, Run, NotifyEnd
  <2> QED
    BY <1>1, <2>1, EventOn, FollowsOK DEF UsePcs
<1>5. CASE Initialize(t)
  <2>1. {j} \cap BaseInit \cap held = {}
    BY <1>5 DEF Initialize, SafeReuse, EventInv, FirstUse
  <2>2. /\ gone' = gone /\ held' \subseteq held
        /\ \A k \in Jobs \ {j} : k \in held' <=> k \in held
    BY <1>2, <1>5, <2>1 DEF Initialize, DestroyEvents
  <2>3. held' = held
    BY <1>5, <2>1 DEF Initialize
  <2> QED
    BY <1>1, <1>5, <2>2, <2>3, EventOn, FollowsOK DEF Initialize, UsePcs
<1>6. CASE Create(t)
  <2>1. /\ tpc[t] = "create" /\ tpc' = [tpc EXCEPT ![t] = "begin"] /\ held' = held \cup {j}
        /\ made' = [made EXCEPT ![j] = made[j] + 1]
        /\ UNCHANGED <<phase, submits, alive, gone, tjob>>
    BY <1>6, FollowsOK DEF Create, GoOn
  <2>2. ~InUse(j) /\ made[j] = gone[j]
    <3>1. ~InUse(j)
      BY <1>3, <2>1 DEF InUse, UsePcs
    <3> QED
      BY <1>1, <3>1 DEF EventInv, Balanced
  <2>3. tpc'[t] = "begin" /\ \A u \in Threads \ {t} : tpc'[u] = tpc[u]
    BY <1>2, <2>1
  <2>4. made'[j] = gone[j] + 1 /\ \A k \in Jobs \ {j} : made'[k] = made[k]
    BY <1>1, <1>2, <2>1, <2>2
  <2>5. LiveInUse'
    BY <1>3, <2>1, <2>3, <2>4 DEF EventInv, LiveInUse, EventLive, UsePcs
  <2>6. Balanced'
    <3>1. InUse(j)'
      BY <2>1, <2>3 DEF InUse, UsePcs
    <3>2. \A k : InUse(k) => InUse(k)'
      BY <2>1, <2>3 DEF InUse, UsePcs
    <3> QED
      BY <2>1, <2>4, <3>1, <3>2 DEF EventInv, Balanced
  <2>7. FirstUse'
    BY <1>1, <1>3, <2>1, <2>3 DEF EventInv, FirstUse
  <2>8. DeletedOver'
    BY <2>1 DEF EventInv, DeletedOver
  <2> QED
    BY <2>5, <2>6, <2>7, <2>8 DEF EventInv
<1>7. CASE Destroy(t)
  <2>1. /\ tpc[t] = "destroy" /\ tpc' = [tpc EXCEPT ![t] = "finalize"]
        /\ gone' = [k \in Jobs |-> IF k = j THEN gone[k] + 1 ELSE gone[k]]
        /\ UNCHANGED <<phase, submits, alive, held, made, tjob>>
    BY <1>1, <1>7, FollowsOK DEF Destroy, GoOn, DestroyEvents
  <2>2. made[j] = gone[j] + 1
    BY <2>1 DEF EventInv, LiveInUse, EventLive, UsePcs
  <2>3. tpc'[t] = "finalize" /\ \A u \in Threads \ {t} : tpc'[u] = tpc[u]
    BY <1>2, <2>1
  <2>4. gone'[j] = made[j] /\ \A k \in Jobs \ {j} : gone'[k] = gone[k]
    BY <1>1, <2>1, <2>2
  <2>5. LiveInUse'
    BY <1>3, <2>1, <2>3, <2>4 DEF EventInv, LiveInUse, EventLive, UsePcs
  <2>6. Balanced'
    <3>1. \A k : k # j /\ InUse(k) => InUse(k)'
      BY <2>1, <2>3 DEF InUse
    <3> QED
      BY <2>1, <2>4, <3>1 DEF EventInv, Balanced
  <2>7. FirstUse' /\ DeletedOver'
    BY <2>1, <2>3 DEF EventInv, FirstUse, DeletedOver
  <2> QED
    BY <2>5, <2>6, <2>7 DEF EventInv
<1>8. CASE Finalize(t)
  <2>1. /\ tpc[t] = "finalize" /\ tpc' = [tpc EXCEPT ![t] = "idle"]
        /\ tjob' = [tjob EXCEPT ![t] = NoJob]
        /\ phase' = [phase EXCEPT ![j] = "over"]
        /\ UNCHANGED <<submits, held, made>>
    BY <1>8 DEF Finalize
  <2>2. /\ \A k \in Jobs \ {j} : gone'[k] = gone[k]
        /\ "finalize" \notin Deletes => gone' = gone
        /\ alive' \subseteq alive /\ ("finalize" \in Deletes => j \notin alive')
    BY <1>2, <1>8 DEF Finalize, Delete, DestroyEvents
  <2>3. /\ tpc'[t] = "idle" /\ phase'[j] = "over"
        /\ \A u \in Threads \ {t} : tpc'[u] = tpc[u] /\ tjob'[u] = tjob[u]
        /\ \A k \in Jobs \ {j} : phase'[k] = phase[k]
    BY <1>1, <1>2, <2>1
  <2>4. \A k : InUse(k) <=> InUse(k)'
    BY <2>1, <2>3 DEF InUse, UsePcs
  <2>5. LiveInUse'
    BY <1>3, <2>1, <2>2, <2>3 DEF EventInv, LiveInUse, EventLive, UsePcs
  <2>6. Balanced'
    BY <1>1, <2>1, <2>2, <2>3, <2>4 DEF EventInv, Balanced
  <2>7. FirstUse'
    <3>1. \A k \in Jobs : /\ phase'[k] = "new" <=> phase[k] = "new"
                          /\ phase'[k] \in {"new", "waiting"} =>
                               phase[k] \in {"new", "waiting"}
      BY <1>1, <2>3
    <3>2. \A u \in Threads : tpc'[u] \in {"initialize", "create"} =>
                               tpc'[u] = tpc[u] /\ tjob'[u] = tjob[u]
      BY <2>3
    <3> QED
      BY <2>1, <3>1, <3>2 DEF EventInv, FirstUse
  <2>8. DeletedOver'
    BY <2>2, <2>3 DEF EventInv, DeletedOver
  <2> QED
    BY <2>5, <2>6, <2>7, <2>8 DEF EventInv
<1> QED
  BY <1>4, <1>5, <1>6, <1>7, <1>8 DEF ThreadStep
\* Submitting a job, taking it and cancelling it keep the events in order.
LEMMA EventOther ==
  ASSUME SafeReuse, TypeInv, EventInv,
         \/ \E s \in Submitters, j \in Jobs : Insert(s, j)
         \/ \E t \in Threads, j \in Jobs : Take(t, j)
         \/ OnCancelJob
  PROVE  EventInv'
<1>1. /\ phase \in [Jobs -> Phases] /\ submits \in [Jobs -> 0..MaxSubmits]
      /\ tpc \in [Threads -> ThreadPcs] /\ MaxSubmits \in Nat
      /\ tjob \in [Threads -> Jobs \cup {NoJob}]
      /\ gone \in [Jobs -> Nat]
  BY DisciplineAssumption DEF TypeInv, TypeOK, Phases, ThreadPcs
<1>2. ASSUME NEW s \in Submitters, NEW j \in Jobs, Insert(s, j)
      PROVE  EventInv'
  <2>1. /\ phase' = [phase EXCEPT ![j] = "waiting"] /\ phase[j] # "taken" /\ j \in alive
        /\ submits' = [submits EXCEPT ![j] = submits[j] + 1] /\ submits[j] < MaxSubmits
        /\ UNCHANGED <<alive, held, made, gone, threadVars>>
    BY <1>2 DEF Insert
  <2>2. /\ phase'[j] = "waiting" /\ submits'[j] = submits[j] + 1
        /\ \A k \in Jobs \ {j} : phase'[k] = phase[k] /\ submits'[k] = submits[k]
    BY <1>1, <2>1
  <2>3. LiveInUse' /\ DeletedOver'
    BY <2>1, <2>2 DEF EventInv, LiveInUse, EventLive, DeletedOver
  <2>4. Balanced'
    <3>1. \A k : InUse(k)' <=> InUse(k)
      BY <2>1 DEF InUse
    <3>2. ~("finalize" \in Deletes /\ phase[j] = "over")
      BY <2>1 DEF EventInv, DeletedOver
    <3> QED
      BY <2>1, <2>2, <3>1, <3>2 DEF EventInv, Balanced
  <2>5. FirstUse'
    <3> SUFFICES ASSUME MaxSubmits <= 1 PROVE FirstUse'
      BY DEF FirstUse
    <3>1. submits[j] = 0 /\ phase[j] = "new" /\ j \notin held
      BY <1>1, <2>1 DEF EventInv, FirstUse
    <3> QED
      BY <2>1, <2>2, <3>1 DEF EventInv, FirstUse
  <2> QED
    BY <2>3, <2>4, <2>5 DEF EventInv
<1>3. ASSUME NEW t \in Threads, NEW j \in Jobs, Take(t, j)
      PROVE  EventInv'
  <2>1. /\ phase' = [phase EXCEPT ![j] = "taken"] /\ phase[j] = "waiting"
        /\ tpc' = [tpc EXCEPT ![t] = "initialize"] /\ tjob' = [tjob EXCEPT ![t] = j]
        /\ tpc[t] = "idle" /\ UNCHANGED <<submits, alive, held, made, gone>>
    BY <1>3 DEF Take
  <2>2. /\ tpc'[t] = "initialize" /\ tjob'[t] = j /\ phase'[j] = "taken"
        /\ \A u \in Threads \ {t} : tpc'[u] = tpc[u] /\ tjob'[u] = tjob[u]
        /\ \A k \in Jobs \ {j} : phase'[k] = phase[k]
    BY <1>1, <2>1
  <2>3. \A k : InUse(k)' <=> InUse(k)
    BY <2>1, <2>2 DEF InUse, UsePcs
  <2>4. LiveInUse' /\ DeletedOver'
    BY <2>1, <2>2 DEF EventInv, LiveInUse, EventLive, DeletedOver, UsePcs
  <2>5. Balanced'
    BY <2>1, <2>2, <2>3 DEF EventInv, Balanced
  <2>6. FirstUse'
    BY <2>1, <2>2 DEF EventInv, FirstUse
  <2> QED
    BY <2>4, <2>5, <2>6 DEF EventInv
<1>4. CASE OnCancelJob
  <2>1. PICK j \in Jobs : j = ojob /\ phase[j] = "waiting"
    BY <1>4 DEF OnCancelJob, TypeInv, Clearing
  <2>2. /\ phase' = [phase EXCEPT ![j] = "cancelled"]
        /\ UNCHANGED <<submits, held, made, threadVars>>
        /\ alive' \subseteq alive
        /\ gone' = gone \/ ("cancel" \in Deletes /\ DestroyEvents({j} \cap held))
    BY <1>4, <2>1 DEF OnCancelJob, ErasedWaiting, Delete
  <2>3. gone' = gone
    <3>1. "cancel" \in Deletes => {j} \cap held = {}
      BY <2>1 DEF SafeReuse, EventInv, FirstUse
    <3> QED
      BY <1>1, <2>2, <3>1 DEF DestroyEvents
  <2>4. phase'[j] = "cancelled" /\ \A k \in Jobs \ {j} : phase'[k] = phase[k]
    BY <1>1, <2>2
  <2>5. \A k : InUse(k)' <=> InUse(k)
    BY <2>2 DEF InUse
  <2>6. LiveInUse' /\ DeletedOver'
    BY <2>2, <2>3, <2>4 DEF EventInv, LiveInUse, EventLive, DeletedOver
  <2>7. Balanced'
    BY <2>1, <2>2, <2>3, <2>4, <2>5 DEF EventInv, Balanced
  <2>8. FirstUse'
    BY <2>1, <2>2, <2>4 DEF EventInv, FirstUse
  <2> QED
    BY <2>6, <2>7, <2>8 DEF EventInv
<1> QED
  BY <1>2, <1>3, <1>4

\* Every step keeps the events in order, if the application keeps the discipline.
LEMMA EventStep ==
  ASSUME SafeReuse, TypeInv, EventInv, [Next]_vars
  PROVE  EventInv'
<1>1. CASE UNCHANGED <<phase, submits, alive, held, made, gone, threadVars>>
  <2>1. \A k : InUse(k)' <=> InUse(k)
    BY <1>1 DEF InUse
  <2> QED
    BY <1>1, <2>1 DEF EventInv, LiveInUse, EventLive, Balanced, FirstUse, DeletedOver
<1>2. CASE Next
  BY <1>1, <1>2, EventThread, EventOther
     DEF Next, Log, ClearStep, StartClear, NotifyCancel, EndClear, RequestCancel, CancelSet
<1> QED
  BY <1>1, <1>2 DEF vars

\* Under the discipline each job has its one event in doJobs and none elsewhere.
THEOREM EventsInOrder == SafeReuse => (Spec => []EventInv)
<1> SUFFICES ASSUME SafeReuse PROVE Spec => []EventInv
  OBVIOUS
<1>1. Init => EventInv
  BY DEF Init, EventInv, LiveInUse, Balanced, FirstUse, DeletedOver, UsePcs
<1>2. TypeInv /\ EventInv /\ [Next]_vars => EventInv'
  BY EventStep
<1> QED
  BY <1>1, <1>2, TypeCorrect, PTL DEF Spec

\* The pool destroys each event it has created once, if no object is submitted twice
\* (or only doJobs destroys events) and no job deletes itself in _finalize
\* (JobLife!EventFreedOnce; 581, basejob.cpp:29-36, 73-83).
THEOREM FreedOnce == SafeReuse /\ "finalize" \notin Deletes => (Spec => []EventFreedOnce)
<1> SUFFICES ASSUME SafeReuse, "finalize" \notin Deletes PROVE Spec => []EventFreedOnce
  OBVIOUS
<1>1. TypeInv /\ EventInv => EventFreedOnce
  <2> SUFFICES ASSUME TypeInv, EventInv, NEW j \in Jobs
               PROVE  gone[j] <= made[j] /\ made[j] <= gone[j] + 1
    BY DEF EventFreedOnce
  <2>1. made[j] \in Nat /\ gone[j] \in Nat
    BY DEF TypeInv, TypeOK
  <2>2. made[j] = gone[j] \/ made[j] = gone[j] + 1
    BY DEF EventInv, Balanced, InUse, LiveInUse, EventLive
  <2> QED
    BY <2>1, <2>2
<1> QED
  BY <1>1, TypeCorrect, EventsInOrder, PTL

-----------------------------------------------------------------------------
(* requestCancel.                                                           *)

\* the application knows of the jobs between their two callbacks, and cancels those
KnownInv ==
  /\ \A j \in known : \E t \in Threads : tpc[t] \in {"callback", "end"} /\ tjob[t] = j
  /\ \A c \in Cancellers : cpc[c] = "set" => cjob[c] \in known

\* Every step keeps it so, if the application guards its calls of requestCancel.
LEMMA KnownStep ==
  ASSUME Guarded, TypeInv, KnownInv, [Next]_vars
  PROVE  KnownInv'
<1>1. /\ tpc \in [Threads -> ThreadPcs] /\ tjob \in [Threads -> Jobs \cup {NoJob}]
      /\ cpc \in [Cancellers -> {"idle", "set", "done"}]
      /\ cjob \in [Cancellers -> Jobs \cup {NoJob}]
  BY DEF TypeInv, TypeOK, ThreadPcs
<1>2. ASSUME UNCHANGED <<known, cancelVars>>,
             \A t \in Threads : tpc[t] \in {"callback", "end"} =>
               tpc'[t] \in {"callback", "end"} /\ tjob'[t] = tjob[t]
      PROVE  KnownInv'
  BY <1>2 DEF KnownInv
<1>3. ASSUME NEW t \in Threads, NotifyBegin(t)
      PROVE  KnownInv'
  <2>1. /\ tpc[t] = "begin" /\ tpc' = [tpc EXCEPT ![t] = "callback"]
        /\ known' = known \cup {tjob[t]} /\ UNCHANGED <<tjob, cancelVars>>
    BY <1>3, FollowsOK DEF NotifyBegin, GoOn
  <2>2. tpc'[t] = "callback" /\ \A u \in Threads \ {t} : tpc'[u] = tpc[u]
    BY <1>1, <2>1
  <2> QED
    BY <2>1, <2>2 DEF KnownInv
<1>4. ASSUME NEW t \in Threads, NotifyEnd(t)
      PROVE  KnownInv'
  <2>1. /\ tpc[t] = "end" /\ tpc' = [tpc EXCEPT ![t] = "destroy"]
        /\ known' = known \ {tjob[t]} /\ UNCHANGED <<tjob, cancelVars>>
        /\ \A c \in Cancellers : cjob[c] # tjob[t]
    BY <1>4, FollowsOK DEF NotifyEnd, GoOn
  <2>2. \A u \in Threads \ {t} : tpc'[u] = tpc[u]
    BY <1>1, <2>1
  <2> QED
    BY <2>1, <2>2 DEF KnownInv
<1>5. ASSUME NEW t \in Threads,
             Initialize(t) \/ Create(t) \/ Run(t) \/ Destroy(t) \/ Finalize(t)
      PROVE  KnownInv'
  <2>1. /\ UNCHANGED <<known, cancelVars>>
        /\ \/ tpc[t] = "callback" /\ GoOn(t) /\ tjob' = tjob
           \/ tpc[t] \notin {"callback", "end"} /\
              \A u \in Threads \ {t} : tpc'[u] = tpc[u] /\ tjob'[u] = tjob[u]
    BY <1>1, <1>5 DEF Initialize, Create, Run, Destroy, Finalize, GoOn
  <2>2. \A u \in Threads : tpc[u] \in {"callback", "end"} =>
          tpc'[u] \in {"callback", "end"} /\ tjob'[u] = tjob[u]
    BY <1>1, <2>1, FollowsOK DEF GoOn
  <2> QED
    BY <1>2, <2>1, <2>2
<1>6. ASSUME NEW t \in Threads, NEW j \in Jobs, Take(t, j)
      PROVE  KnownInv'
  BY <1>1, <1>2, <1>6 DEF Take
<1>7. ASSUME NEW c \in Cancellers, NEW j \in Jobs, RequestCancel(c, j)
      PROVE  KnownInv'
  BY <1>1, <1>7 DEF RequestCancel, KnownInv
<1>8. ASSUME NEW c \in Cancellers, CancelSet(c)
      PROVE  KnownInv'
  BY <1>1, <1>8 DEF CancelSet, KnownInv
<1>9. CASE UNCHANGED <<known, threadVars, cancelVars>>
  BY <1>2, <1>9
<1>10. CASE Next
  BY <1>3, <1>4, <1>5, <1>6, <1>7, <1>8, <1>9, <1>10
     DEF Next, ThreadStep, Insert, Log, StartClear, ClearStep, NotifyCancel, OnCancelJob,
         EndClear
<1> QED
  BY <1>9, <1>10 DEF vars

\* requestCancel finds a live event of a live job, if it is called between the two
\* callbacks and no event is destroyed but by doJobs, or no object submitted twice
\* (JobLife!CancelFindsEvent; 574-581, basejob.cpp:55).
THEOREM CancelSafe == Guarded /\ SafeReuse => (Spec => []CancelFindsEvent)
<1> SUFFICES ASSUME Guarded, SafeReuse PROVE Spec => []CancelFindsEvent
  OBVIOUS
<1>1. Init => KnownInv
  BY DEF Init, KnownInv
<1>2. TypeInv /\ KnownInv /\ [Next]_vars => KnownInv'
  BY KnownStep
<1>3. TypeInv /\ InUseAlive /\ EventInv /\ KnownInv => CancelFindsEvent
  <2> SUFFICES ASSUME TypeInv, InUseAlive, EventInv, KnownInv,
                      NEW c \in Cancellers, cpc[c] = "set"
               PROVE  cjob[c] \in alive /\ EventLive(cjob[c])
    BY DEF CancelFindsEvent
  <2>1. PICK t \in Threads : tpc[t] \in {"callback", "end"} /\ tjob[t] = cjob[c]
    BY DEF KnownInv
  <2>2. EventLive(tjob[t])
    BY <2>1 DEF EventInv, LiveInUse, UsePcs
  <2>3. tjob[t] \in alive
    BY <2>1, Running DEF InUseAlive
  <2> QED
    BY <2>1, <2>2, <2>3
<1> QED
  BY <1>1, <1>2, <1>3, TypeCorrect, InUseHolds, EventsInOrder, PTL DEF Spec
=============================================================================
