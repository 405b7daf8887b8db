--------------------------- MODULE ThreadPoolProofs ---------------------------
(***************************************************************************)
(* Theorems about ThreadPool, for every value of its constants.            *)
(***************************************************************************)
EXTENDS ThreadPool, FiniteSetTheorems, TLAPS

USE DEF jobVars, threadVars, limitVars, eventVars, dispatchVars, shrinkVars,
        ownerVars, clientVars

-----------------------------------------------------------------------------
(* Type correctness.  A client in submitJob has a job in its hands.         *)

TypeInv == TypeOK /\ \A c \in Clients : cpc[c] # "idle" => cjob[c] \in Jobs

\* The constructor gives every variable a value of its type.
LEMMA TypeInit == Init => TypeInv
<1> SUFFICES ASSUME Init PROVE TypeInv
  OBVIOUS
<1>1. /\ waiting \in SUBSET Jobs /\ doing \in SUBSET (Nat \X Jobs)
      /\ jobId \in [Jobs -> Nat] /\ jobIndex \in Nat
      /\ jobStatus \in [Jobs -> JobStates]
  BY DEF Init, JobStates
<1>2. /\ wpc \in [Workers -> WorkerPcs] /\ wjob \in [Workers -> Jobs \cup {NoJob}]
      /\ lost \in SUBSET Workers /\ removing \in SUBSET Workers
      /\ stopWaiters \in SUBSET Workers
  BY DEF Init, WorkerPcs
<1>3. subQueue \in Seq(Int)
  BY DEF Init
<1>4. /\ cpc \in [Clients -> {"idle", "insert", "grow"}]
      /\ cjob \in [Clients -> Jobs \cup {NoJob}]
      /\ \A c \in Clients : cpc[c] # "idle" => cjob[c] \in Jobs
  BY DEF Init
<1>5. /\ pcW \in DispatchPcs /\ pcS \in ShrinkPcs
      /\ opc \in OwnerPcs /\ call \in ApiCalls \cup {"none"}
  BY DEF Init, DispatchPcs, ShrinkPcs, OwnerPcs
<1>6. /\ stopEv \in BOOLEAN /\ completeEv \in BOOLEAN /\ jobEv \in BOOLEAN
      /\ subEv \in BOOLEAN /\ exitW \in BOOLEAN /\ cleared \in BOOLEAN
  BY DEF Init
<1>7. /\ lastRunning \in Int /\ runningCount \in Int
      /\ minThreads \in Nat /\ maxThreads \in Nat /\ starts \in Nat
      /\ semJob \in Nat /\ semGot \in Nat /\ semSub \in Nat /\ semComplete \in Nat
  BY DEF Init
<1> QED
  BY <1>1, <1>2, <1>3, <1>4, <1>5, <1>6, <1>7 DEF TypeInv, TypeOK

\* Any set of threads has a size.
LEMMA CountInt == ASSUME NEW S \in SUBSET Workers
                  PROVE  IsFiniteSet(S) /\ Cardinality(S) \in Nat
  BY WorkersAssumption, FS_Subset, FS_CardinalityType

\* Any set of jobs has a size.
LEMMA WaitingCount == ASSUME NEW S \in SUBSET Jobs
                      PROVE  IsFiniteSet(S) /\ Cardinality(S) \in Nat
  BY JobsAssumption, FS_Subset, FS_CardinalityType

\* A step of a job thread keeps the types.
LEMMA TypeWorker ==
  ASSUME TypeInv, NEW w \in Workers, WorkerStep(w)
  PROVE  TypeInv'
<1> USE DEF TypeInv, TypeOK, Goto, WorkerPcs, LivePcs, ParkedPcs
<1>1. CASE Begin(w)
  BY <1>1 DEF Begin, Dropped, At
<1>2. CASE Poll(w)
  BY <1>2 DEF Poll, Taken
<1>3. CASE Wake(w)
  BY <1>3 DEF Wake
<1>4. CASE TakeJob(w)
  BY <1>4 DEF TakeJob, InsertDoing, JobStates
<1>5. CASE EndJob(w)
  BY <1>5 DEF EndJob, JobStates
<1>6. CASE EraseDoing(w)
  BY <1>6 DEF EraseDoing, DoingWithout
<1>7. CASE CheckShrink(w)
  BY <1>7 DEF CheckShrink
<1>8. CASE PushSub(w)
  BY <1>8 DEF PushSub, SubtractRequest
<1>9. CASE Leave(w)
  BY <1>9 DEF Leave, AfterLeaving, ClearRunningMapThread, CountAfterLeaving, Dropped, At
<1>10. CASE PostComplete(w)
  BY <1>10 DEF PostComplete
<1>11. CASE Count(w)
  BY <1>11 DEF Count
<1>12. CASE LastOne(w)
  BY <1>12 DEF LastOne, AllComplete
<1> QED
  BY <1>1, <1>2, <1>3, <1>4, <1>5, <1>6, <1>7, <1>8, <1>9, <1>10, <1>11, <1>12
     DEF WorkerStep

\* A step of W keeps the types.
LEMMA TypeDispatch ==
  ASSUME TypeInv, DispatchStep
  PROVE  TypeInv'
<1> USE DEF TypeInv, TypeOK, DispatchPcs
<1>1. CASE WWait
  BY <1>1 DEF WWait
<1>2. CASE WCheck
  BY <1>2 DEF WCheck
<1>3. CASE WSignal
  BY <1>3 DEF WSignal, SetAutoReset, Goto, WorkerPcs, LivePcs, ParkedPcs
<1>4. CASE WGot
  BY <1>4 DEF WGot
<1> QED
  BY <1>1, <1>2, <1>3, <1>4 DEF DispatchStep

\* A step of S keeps the types.
LEMMA TypeShrink ==
  ASSUME TypeInv, ShrinkStep
  PROVE  TypeInv'
<1> USE DEF TypeInv, TypeOK, ShrinkPcs
<1>1. CASE SWait
  BY <1>1 DEF SWait
<1>2. CASE SPop
  BY <1>2 DEF SPop
<1>3. CASE SSignal
  BY <1>3 DEF SSignal, SetAutoReset, Goto, WorkerPcs, LivePcs, ParkedPcs
<1>4. CASE SComplete
  BY <1>4 DEF SComplete
<1>5. CASE SJoin
  BY <1>5 DEF SJoin
<1> QED
  BY <1>1, <1>2, <1>3, <1>4, <1>5 DEF ShrinkStep

\* _addJobThread keeps the types of what it changes.
LEMMA TypeAdd ==
  ASSUME TypeInv, NEW count \in Nat, NEW max \in Nat, AddJobThread(count, max)
  PROVE  wpc' \in [Workers -> WorkerPcs] /\ lastRunning' \in Int
<1>1. PICK new \in SUBSET At({"unborn"}) :
        /\ wpc' = [w \in Workers |-> IF w \in new THEN "spawned" ELSE wpc[w]]
        /\ lastRunning' = lastRunning + Cardinality(new)
  BY DEF AddJobThread
<1>2. new \in SUBSET Workers
  BY DEF At
<1>3. Cardinality(new) \in Nat
  BY <1>2, CountInt
<1> QED
  BY <1>1, <1>3 DEF TypeInv, TypeOK, WorkerPcs, LivePcs

\* A step of submitJob keeps the types.
LEMMA TypeClient ==
  ASSUME TypeInv, NEW c \in Clients, SubmitIndex(c) \/ ClientStep(c)
  PROVE  TypeInv'
<1> USE DEF TypeInv, TypeOK
<1>1. CASE SubmitIndex(c)
  BY <1>1 DEF SubmitIndex, JobStates
<1>2. CASE SubmitInsert(c)
  BY <1>2 DEF SubmitInsert, AssignedId, PostJob, JobStates
<1>3. CASE SubmitGrow(c)
  <2>1. wpc' \in [Workers -> WorkerPcs] /\ lastRunning' \in Int
    BY <1>3, TypeAdd DEF SubmitGrow
  <2> QED
    BY <1>3, <2>1 DEF SubmitGrow
<1> QED
  BY <1>1, <1>2, <1>3 DEF ClientStep

\* A step of the owner's operations keeps the types; the count of
\* sem_job_needed_to_do_ does not go below zero in clearUndoWork.
LEMMA TypeOwner ==
  ASSUME TypeInv,
         \/ \E p \in StartParams : Start(p)
         \/ \E op \in Api : Call(op)
         \/ OwnerStep
  PROVE  TypeInv'
<1> USE DEF TypeInv, TypeOK, OwnerPcs
<1>1. CASE \E p \in StartParams : Start(p)
  <2>1. PICK p \in StartParams : Start(p)
    BY <1>1
  <2>2. p[1] \in Nat /\ p[2] \in Nat
    BY StartParamsAssumption
  <2>3. wpc' \in [Workers -> WorkerPcs] /\ lastRunning' \in Int
    BY <2>1, <2>2, TypeAdd DEF Start
  <2>4. stopEv' \in BOOLEAN /\ completeEv' \in BOOLEAN
    BY <2>1 DEF Start
  <2> QED
    BY <2>1, <2>2, <2>3, <2>4 DEF Start
<1>2. CASE \E op \in Api : Call(op)
  BY <1>2, ApiAssumption DEF Call, FirstOwnerPc, ApiCalls
<1>3. CASE SetStop
  BY <1>3 DEF SetStop, RegisteredWaits, Parked, At
<1>4. CASE NotifyStop
  BY <1>4 DEF NotifyStop, Goto, WorkerPcs, LivePcs
<1>5. CASE StopReturns
  BY <1>5 DEF StopReturns, AfterStop
<1>6. CASE WaitReturns
  BY <1>6 DEF WaitReturns
<1>7. CASE ClearUndoWork
  <2>1. Cardinality(waiting) \in Nat
    BY WaitingCount
  <2>2. semJob' \in Nat
    BY <1>7, <2>1 DEF ClearUndoWork, ClearedSem
  <2> QED
    BY <1>7, <2>2 DEF ClearUndoWork, JobStates
<1>8. CASE ExitW
  BY <1>8 DEF ExitW, ExitGotPost
<1>9. CASE JoinW
  BY <1>9 DEF JoinW
<1>10. CASE ExitS
  BY <1>10 DEF ExitS
<1>11. CASE JoinS
  BY <1>11 DEF JoinS
<1> QED
  BY <1>1, <1>2, <1>3, <1>4, <1>5, <1>6, <1>7, <1>8, <1>9, <1>10, <1>11
     DEF OwnerStep

\* Every step of the pool keeps the types.
LEMMA TypeStep == TypeInv /\ [Next]_vars => TypeInv'
<1> SUFFICES ASSUME TypeInv, [Next]_vars PROVE TypeInv'
  OBVIOUS
<1>1. CASE UNCHANGED vars
  BY <1>1 DEF vars, TypeInv, TypeOK
<1>2. CASE Next
  BY <1>1, <1>2, TypeWorker, TypeDispatch, TypeShrink, TypeClient, TypeOwner
     DEF Next, Destroyed
<1> QED
  BY <1>1, <1>2

\* Every variable keeps a value the code can give it (TypeOK), whatever the
\* number of threads, jobs and clients.
THEOREM TypeCorrect == Spec => []TypeInv
  BY TypeInit, TypeStep, PTL DEF Spec

\* The type invariant alone, as the runs check it.
THEOREM TypesHold == Spec => []TypeOK
<1>1. TypeInv => TypeOK
  BY DEF TypeInv
<1> QED
  BY <1>1, TypeCorrect, PTL

-----------------------------------------------------------------------------
(* Thread accounting.  The step of a thread either keeps the sets Live and  *)
(* Counted or moves one thread in or out, and the counters with it.        *)

AccountInv == TypeInv /\ ThreadAccounting

ThreadSets == Live' = Live /\ Counted' = Counted

\* A step that moves no thread across a count, and no count, keeps the accounting.
LEMMA SameSets ==
  ASSUME AccountInv, ThreadSets, UNCHANGED <<lastRunning, runningCount, maxThreads>>
  PROVE  ThreadAccounting'
  BY DEF AccountInv, ThreadAccounting, ThreadSets

\* The counted sets of threads are finite, so their sizes are numbers.
LEMMA SetsFinite ==
  /\ IsFiniteSet(Live) /\ Cardinality(Live) \in Nat
  /\ IsFiniteSet(Counted) /\ Cardinality(Counted) \in Nat
<1>1. Live \in SUBSET Workers /\ Counted \in SUBSET Workers
  BY DEF Live, Counted, At
<1> QED
  BY <1>1, CountInt

\* SetEvent moves a parked thread to a fired one, and nothing else.
LEMMA FireSets ==
  ASSUME TypeInv, NEW fired \in {"firedJob", "firedSub"},
         UNCHANGED wpc \/ \E w \in Parked : Goto(w, fired)
  PROVE  ThreadSets
  BY DEF TypeInv, TypeOK, Parked, Goto, ThreadSets, Live, Counted, At, LivePcs,
         CountedPcs, ParkedPcs

\* A step of a job thread keeps the accounting (149-155, 449-476).
LEMMA AccountWorker ==
  ASSUME AccountInv, NEW w \in Workers, WorkerStep(w)
  PROVE  ThreadAccounting'
<1> USE DEF TypeInv, TypeOK, Goto, Live, Counted, At, LivePcs, CountedPcs, ParkedPcs,
            ThreadSets
<1> TypeInv
  BY DEF AccountInv
<1>1. CASE Begin(w)
  <2>1. Live' = Live
    BY <1>1 DEF Begin
  <2>2. Counted' = Counted \cup {w} /\ w \notin Counted
    BY <1>1 DEF Begin
  <2>3. Cardinality(Counted') = Cardinality(Counted) + 1
    BY <2>2, SetsFinite, FS_AddElement
  <2> HIDE DEF Live, Counted, TypeInv
  <2> QED
    BY <1>1, <2>1, <2>3 DEF Begin, AccountInv, ThreadAccounting
<1>2. CASE Leave(w)
  <2>1. Live' = Live \ {w} /\ w \in Live
    BY <1>2 DEF Leave, AfterLeaving
  <2>2. Counted' = Counted
    BY <1>2 DEF Leave, AfterLeaving
  <2>3. lastRunning \in Int /\ maxThreads \in Nat
    OBVIOUS
  <2> HIDE DEF Live, Counted, TypeInv
  <2>4. Cardinality(Live') = Cardinality(Live) - 1
    BY <2>1, SetsFinite, FS_RemoveElement
  <2> QED
    BY <1>2, <2>2, <2>3, <2>4 DEF Leave, ClearRunningMapThread, CountAfterLeaving,
       AccountInv, ThreadAccounting
<1>3. CASE Count(w)
  <2>1. Live' = Live
    BY <1>3 DEF Count
  <2>2. Counted' = Counted \ {w} /\ w \in Counted
    BY <1>3 DEF Count
  <2> HIDE DEF Live, Counted, TypeInv
  <2>3. Cardinality(Counted') = Cardinality(Counted) - 1
    BY <2>2, SetsFinite, FS_RemoveElement
  <2> QED
    BY <1>3, <2>1, <2>3 DEF Count, AccountInv, ThreadAccounting
<1>4. CASE Poll(w)
  BY <1>4, SameSets DEF Poll
<1>5. CASE Wake(w)
  BY <1>5, SameSets DEF Wake
<1>6. CASE TakeJob(w)
  BY <1>6, SameSets DEF TakeJob
<1>7. CASE EndJob(w)
  BY <1>7, SameSets DEF EndJob
<1>8. CASE EraseDoing(w)
  BY <1>8, SameSets DEF EraseDoing
<1>9. CASE CheckShrink(w)
  BY <1>9, SameSets DEF CheckShrink
<1>10. CASE PushSub(w)
  BY <1>10, SameSets DEF PushSub
<1>11. CASE PostComplete(w)
  BY <1>11, SameSets DEF PostComplete
<1>12. CASE LastOne(w)
  BY <1>12, SameSets DEF LastOne
<1> QED
  BY <1>1, <1>2, <1>3, <1>4, <1>5, <1>6, <1>7, <1>8, <1>9, <1>10, <1>11, <1>12
     DEF WorkerStep

\* _addJobThread adds as many threads as it counts, and stays within the maximum.
LEMMA AccountAdd ==
  ASSUME AccountInv, NEW count \in Nat, NEW max \in Nat,
         lastRunning + count <= max \/ (count = 1 /\ lastRunning < max),
         AddJobThread(count, max)
  PROVE  /\ lastRunning' = Cardinality(Live') /\ lastRunning' <= max
         /\ Counted' = Counted
<1>1. PICK new \in SUBSET At({"unborn"}) :
        /\ Cardinality(new) = AddCount(count, max)
        /\ wpc' = [w \in Workers |-> IF w \in new THEN "spawned" ELSE wpc[w]]
        /\ lastRunning' = lastRunning + Cardinality(new)
  BY DEF AddJobThread
<1> TypeInv
  BY DEF AccountInv
<1>2. new \in SUBSET Workers
  BY DEF At
<1>3. Cardinality(new) \in Nat /\ IsFiniteSet(new)
  BY <1>2, CountInt
<1>4. Live' = Live \cup new /\ Live \cap new = {}
  BY <1>1 DEF TypeInv, TypeOK, Live, At, LivePcs, ParkedPcs
<1>5. Counted' = Counted
  BY <1>1 DEF TypeInv, TypeOK, Counted, At, CountedPcs, LivePcs, ParkedPcs
<1>6. Cardinality(Live') = Cardinality(Live) + Cardinality(new)
  BY <1>3, <1>4, SetsFinite, FS_Union, FS_EmptySet
<1>7. lastRunning \in Int /\ lastRunning = Cardinality(Live)
  BY DEF AccountInv, TypeInv, TypeOK, ThreadAccounting
<1>8. lastRunning' <= max
  BY <1>1, <1>3, <1>7 DEF AddCount
<1> QED
  BY <1>1, <1>5, <1>6, <1>7, <1>8

\* A step of submitJob keeps the accounting.
LEMMA AccountClient ==
  ASSUME AccountInv, NEW c \in Clients, SubmitIndex(c) \/ ClientStep(c)
  PROVE  ThreadAccounting'
<1> TypeInv
  BY DEF AccountInv
<1>1. CASE SubmitIndex(c) \/ SubmitInsert(c)
  <2>1. UNCHANGED <<wpc, lastRunning, runningCount, maxThreads>>
    BY <1>1 DEF SubmitIndex, SubmitInsert
  <2> QED
    BY <2>1, SameSets DEF ThreadSets, Live, Counted, At
<1>2. CASE SubmitGrow(c)
  <2>1. UNCHANGED <<runningCount, maxThreads>>
    BY <1>2 DEF SubmitGrow
  <2>2. CASE NeedMoreThread /\ AddJobThread(1, maxThreads)
    <3>1. maxThreads \in Nat /\ lastRunning < maxThreads
      BY <2>2 DEF NeedMoreThread, TypeInv, TypeOK
    <3> QED
      BY <2>1, <2>2, <3>1, AccountAdd DEF AccountInv, ThreadAccounting
  <2>3. CASE UNCHANGED <<wpc, lastRunning>>
    BY <2>1, <2>3, SameSets DEF ThreadSets, Live, Counted, At
  <2> QED
    BY <1>2, <2>2, <2>3 DEF SubmitGrow
<1> QED
  BY <1>1, <1>2 DEF ClientStep

\* Steps of W, S and the owner, but for start, count nothing.
LEMMA AccountOther ==
  ASSUME AccountInv,
         \/ DispatchStep
         \/ ShrinkStep
         \/ \E op \in Api : Call(op)
         \/ OwnerStep
         \/ UNCHANGED vars
  PROVE  ThreadAccounting'
<1> TypeInv
  BY DEF AccountInv
<1>1. UNCHANGED <<lastRunning, runningCount, maxThreads>>
  BY DEF DispatchStep, WWait, WCheck, WSignal, WGot, ShrinkStep, SWait, SPop, SSignal,
         SComplete, SJoin, Call, OwnerStep, SetStop, NotifyStop, StopReturns,
         WaitReturns, ClearUndoWork, ExitW, JoinW, ExitS, JoinS, vars
<1>2. CASE WSignal \/ SSignal
  <2>1. \E fired \in {"firedJob", "firedSub"} :
          UNCHANGED wpc \/ \E w \in Parked : Goto(w, fired)
    BY <1>2 DEF WSignal, SSignal, SetAutoReset
  <2> QED
    BY <1>1, <2>1, FireSets, SameSets
<1>3. CASE NotifyStop
  <2>1. ThreadSets
    BY <1>3 DEF NotifyStop, TypeInv, TypeOK, Goto, ThreadSets, Live, Counted, At,
       LivePcs, CountedPcs, ParkedPcs
  <2> QED
    BY <1>1, <2>1, SameSets
<1>4. CASE UNCHANGED wpc
  BY <1>1, <1>4, SameSets DEF ThreadSets, Live, Counted, At
<1> QED
  BY <1>2, <1>3, <1>4
     DEF DispatchStep, WWait, WCheck, WGot, ShrinkStep, SWait, SPop, SComplete, SJoin,
         Call, OwnerStep, SetStop, StopReturns, WaitReturns, ClearUndoWork, ExitW,
         JoinW, ExitS, JoinS, vars

\* start creates its minimum of threads and counts them.
LEMMA AccountStart ==
  ASSUME AccountInv, NEW p \in StartParams, Start(p)
  PROVE  ThreadAccounting'
<1>1. p[1] \in Nat /\ p[2] \in Nat /\ p[1] <= p[2]
  BY StartParamsAssumption
<1>2. lastRunning = 0 /\ AddJobThread(p[1], p[2])
  BY DEF Start
<1>3. runningCount' = runningCount /\ maxThreads' = p[2]
  BY DEF Start
<1> QED
  BY <1>1, <1>2, <1>3, AccountAdd DEF AccountInv, ThreadAccounting

\* A new pool counts no thread.
LEMMA AccountInit == Init => AccountInv
<1> SUFFICES ASSUME Init PROVE ThreadAccounting
  BY TypeInit DEF AccountInv
<1>1. Live = {} /\ Counted = {}
  BY DEF Init, Live, Counted, At, LivePcs, CountedPcs, ParkedPcs
<1> QED
  BY <1>1, FS_EmptySet DEF Init, ThreadAccounting

\* Every step of the pool keeps the accounting.
LEMMA AccountStep == AccountInv /\ [Next]_vars => AccountInv'
<1> SUFFICES ASSUME AccountInv, [Next]_vars PROVE ThreadAccounting'
  BY TypeStep DEF AccountInv
<1> QED
  BY AccountWorker, AccountClient, AccountOther, AccountStart DEF Next, Destroyed

\* The inductive invariant of the accounting holds.
THEOREM AccountCorrect == Spec => []AccountInv
  BY AccountInit, AccountStep, PTL DEF Spec

\* last_running_thread_ is the number of threads between their creation and
\* _clearRunningMapThread and never passes the maximum, and
\* running_threads_count_ is the number of threads between lines 150 and 153.
THEOREM AccountingHolds == Spec => []ThreadAccounting
<1>1. AccountInv => ThreadAccounting
  BY DEF AccountInv
<1> QED
  BY <1>1, AccountCorrect, PTL

-----------------------------------------------------------------------------
(* Dispatch.  The job event, the thread it was given to and the semaphore   *)
(* W waits for are one token, and as long as clearUndoWork has not run the  *)
(* units of sem_job_needed_to_do_ and the dispatch in hand never outnumber  *)
(* the waiting jobs.                                                       *)

Token ==
  ~exitW => /\ \A u, v \in InFlight : u = v
            /\ jobEv => InFlight = {}
            /\ (jobEv \/ InFlight # {} \/ semGot > 0) => pcW = "waitGot"
            /\ semGot <= 1
            /\ semGot = 1 => ~jobEv /\ InFlight = {}

\* a submission or a dispatch takes hold of its job before it lets go of it
JobsInHand ==
  /\ waiting = {j \in Jobs : jobStatus[j] = "waiting"}
  /\ \A c \in Clients : cpc[c] = "insert" => jobStatus[cjob[c]] = "submitting"
  /\ \A c, d \in Clients :
       cpc[c] = "insert" /\ cpc[d] = "insert" /\ c # d => cjob[c] # cjob[d]

\* the jobs that run are those of the threads that run one, each its own
JobsAtWork ==
  /\ \A w \in At({"running"}) : wjob[w] \in Jobs /\ jobStatus[wjob[w]] = "running"
  /\ \A v, w \in At({"running"}) : wjob[v] = wjob[w] => v = w
  /\ \A j \in Jobs : jobStatus[j] = "running" => \E w \in At({"running"}) : wjob[w] = j

InHand == pcW \in {"check", "signal"} \/ jobEv \/ InFlight # {}

EnoughJobs == ~cleared => semJob + One(InHand) <= Cardinality(waiting)

\* W is told to exit after the destructor has cleared the jobs
ExitAfterClear ==
  /\ exitW => cleared
  /\ opc \in {"exitW", "joinW", "exitS", "joinS", "destroyed"} => cleared

DispatchInv ==
  TypeInv /\ Token /\ JobsInHand /\ JobsAtWork /\ EnoughJobs /\ ExitAfterClear

\* A new pool has no dispatch under way.
LEMMA DispatchInit == Init => DispatchInv
<1> SUFFICES ASSUME Init
             PROVE  Token /\ JobsInHand /\ JobsAtWork /\ EnoughJobs /\ ExitAfterClear
  BY TypeInit DEF DispatchInv
<1>1. InFlight = {}
  BY DEF Init, InFlight, At
<1>2. Token
  BY <1>1 DEF Init, Token
<1>3. JobsInHand
  BY DEF Init, JobsInHand
<1>4. EnoughJobs
  BY <1>1, FS_EmptySet DEF Init, EnoughJobs, InHand, One
<1>5. ExitAfterClear
  BY DEF Init, ExitAfterClear
<1>6. JobsAtWork
  BY DEF Init, JobsAtWork, At
<1> QED
  BY <1>2, <1>3, <1>4, <1>5, <1>6

\* Nothing but the flight of a token changes, and it can only end.
LEMMA TokenKept ==
  ASSUME Token, UNCHANGED <<jobEv, semGot, pcW, exitW>>, InFlight' \subseteq InFlight
  PROVE  Token'
  BY DEF Token

\* Steps that leave jobs, semaphore and dispatch alone keep a waiting job for each.
LEMMA EnoughKept ==
  ASSUME EnoughJobs, UNCHANGED <<jobEv, pcW, semJob, waiting, cleared>>,
         InFlight' \subseteq InFlight, TypeInv
  PROVE  EnoughJobs'
<1>1. InHand' => InHand
  BY DEF InHand
<1>2. semJob \in Nat /\ Cardinality(waiting) \in Nat
  BY WaitingCount DEF TypeInv, TypeOK
<1> QED
  BY <1>1, <1>2 DEF EnoughJobs, One

\* Steps that leave clients and job states alone keep the jobs in hand.
LEMMA JobsKept ==
  ASSUME JobsInHand, UNCHANGED <<waiting, jobStatus, cpc, cjob>>
  PROVE  JobsInHand'
  BY DEF JobsInHand

\* Steps that leave threads at work alone keep the jobs at work.
LEMMA AtWorkKept ==
  ASSUME JobsAtWork, At({"running"})' = At({"running"}),
         \A w \in At({"running"}) : wjob'[w] = wjob[w],
         \A j \in Jobs : jobStatus'[j] = "running" <=> jobStatus[j] = "running"
  PROVE  JobsAtWork'
  BY DEF JobsAtWork

\* Steps that leave the exit flag alone keep its order after clearUndoWork.
LEMMA ExitKept ==
  ASSUME ExitAfterClear, UNCHANGED <<exitW, cleared, opc>>
  PROVE  ExitAfterClear'
  BY DEF ExitAfterClear

\* A step of a job thread keeps the dispatch invariant (502-548).
LEMMA DispatchWorker ==
  ASSUME DispatchInv, NEW w \in Workers, WorkerStep(w)
  PROVE  Token' /\ JobsInHand' /\ JobsAtWork' /\ EnoughJobs' /\ ExitAfterClear'
<1> USE DEF DispatchInv
<1>1. ExitAfterClear'
  BY ExitKept DEF WorkerStep, Begin, Poll, Wake, TakeJob, EndJob, EraseDoing, CheckShrink,
     PushSub, Leave, PostComplete, Count, LastOne
<1>2. ASSUME \/ Begin(w) \/ Poll(w) \/ Wake(w) \/ EraseDoing(w) \/ CheckShrink(w)
             \/ PushSub(w) \/ Leave(w) \/ PostComplete(w) \/ Count(w) \/ LastOne(w)
      PROVE  JobsAtWork'
  <2>1. UNCHANGED jobStatus /\ At({"running"})' = At({"running"})
    BY <1>2 DEF Begin, Poll, Wake, EraseDoing, CheckShrink, PushSub, Leave,
       AfterLeaving, PostComplete, Count, LastOne, At, Goto, TypeInv, TypeOK
  <2>2. \A v \in At({"running"}) : wjob'[v] = wjob[v]
    BY <1>2 DEF Begin, Poll, Wake, EraseDoing, CheckShrink, PushSub, Leave,
       PostComplete, Count, LastOne, At, TypeInv, TypeOK
  <2> QED
    BY <2>1, <2>2, AtWorkKept
<1>3. CASE Poll(w)
  <2>1. \/ InFlight' = InFlight /\ jobEv' = jobEv
        \/ jobEv /\ jobEv' = FALSE /\ InFlight' = InFlight \cup {w}
    BY <1>3 DEF Poll, Taken, InFlight, At, Goto, TypeInv, TypeOK
  <2>2. UNCHANGED <<semGot, pcW, exitW, semJob, waiting, cleared>>
    BY <1>3 DEF Poll
  <2>3. Token'
    BY <2>1, <2>2 DEF Token
  <2>4. InHand' => InHand
    BY <2>1, <2>2 DEF InHand
  <2>5. EnoughJobs'
    <3>1. semJob \in Nat /\ Cardinality(waiting) \in Nat
      BY WaitingCount DEF TypeInv, TypeOK
    <3> QED
      BY <2>2, <2>4, <3>1 DEF EnoughJobs, One
  <2> QED
    BY <1>1, <1>2, <1>3, <2>3, <2>5, JobsKept DEF Poll
<1>4. CASE Wake(w)
  <2>1. InFlight' = InFlight
    BY <1>4 DEF Wake, InFlight, At, Goto, TypeInv, TypeOK
  <2> QED
    BY <1>1, <1>2, <1>4, <2>1, TokenKept, EnoughKept, JobsKept DEF Wake
<1>5. CASE TakeJob(w)
  <2>1. PICK j \in waiting :
          /\ waiting' = waiting \ {j}
          /\ jobStatus' = [jobStatus EXCEPT ![j] = "running"]
    BY <1>5 DEF TakeJob
  <2>2. w \in InFlight /\ InFlight' = InFlight \ {w}
    BY <1>5 DEF TakeJob, InFlight, At, Goto, TypeInv, TypeOK
  <2>3. /\ UNCHANGED <<jobEv, pcW, exitW, semJob, cleared, cpc, cjob>>
        /\ semGot' = semGot + 1 /\ semGot \in Nat
    BY <1>5 DEF TakeJob, TypeInv, TypeOK
  <2>4. ~exitW => InFlight' = {} /\ ~jobEv /\ pcW = "waitGot" /\ semGot = 0
    BY <2>2, <2>3 DEF Token
  <2>5. Token'
    BY <2>3, <2>4 DEF Token
  <2>6. EnoughJobs'
    <3>1. IsFiniteSet(waiting) /\ Cardinality(waiting) \in Nat
      BY WaitingCount DEF TypeInv, TypeOK
    <3>2. Cardinality(waiting') = Cardinality(waiting) - 1
      BY <2>1, <3>1, FS_RemoveElement
    <3>3. ~cleared => InHand /\ ~InHand'
      BY <2>2, <2>3, <2>4 DEF InHand, ExitAfterClear
    <3>4. semJob \in Nat
      BY DEF TypeInv, TypeOK
    <3> QED
      BY <2>3, <3>1, <3>2, <3>3, <3>4 DEF EnoughJobs, One
  <2>7. JobsInHand'
    <3>1. j \in Jobs /\ jobStatus[j] = "waiting" /\ jobStatus \in [Jobs -> JobStates]
      BY DEF JobsInHand, TypeInv, TypeOK
    <3>2. waiting' = {i \in Jobs : jobStatus'[i] = "waiting"}
      BY <2>1, <3>1 DEF JobsInHand
    <3>3. \A c \in Clients : cpc[c] = "insert" => cjob[c] # j /\ cjob[c] \in Jobs
      BY <3>1 DEF JobsInHand, TypeInv
    <3> QED
      BY <2>1, <2>3, <3>1, <3>2, <3>3 DEF JobsInHand
  <2>8. JobsAtWork'
    <3>1. j \in Jobs /\ jobStatus[j] = "waiting" /\ jobStatus \in [Jobs -> JobStates]
      BY DEF JobsInHand, TypeInv, TypeOK
    <3>2. At({"running"})' = At({"running"}) \cup {w}
      BY <1>5 DEF TakeJob, At, Goto, TypeInv, TypeOK
    <3>3. w \notin At({"running"}) /\ wjob' = [wjob EXCEPT ![w] = j]
      BY <1>5, <2>1 DEF TakeJob, At
    <3>4. wjob \in [Workers -> Jobs \cup {NoJob}] /\ At({"running"}) \subseteq Workers
      BY DEF At, TypeInv, TypeOK
    <3> QED
      BY <2>1, <3>1, <3>2, <3>3, <3>4 DEF JobsAtWork
  <2> QED
    BY <1>1, <2>5, <2>6, <2>7, <2>8
<1>6. CASE EndJob(w)
  <2>1. InFlight' = InFlight
    BY <1>6 DEF EndJob, InFlight, At, Goto, TypeInv, TypeOK
  <2>2. /\ w \in At({"running"}) /\ At({"running"})' = At({"running"}) \ {w}
        /\ jobStatus' = [jobStatus EXCEPT ![wjob[w]] = "ended"]
        /\ UNCHANGED <<wjob, waiting, cpc, cjob>>
    BY <1>6 DEF EndJob, At, Goto, TypeInv, TypeOK
  <2>3. jobStatus \in [Jobs -> JobStates] /\ jobStatus[wjob[w]] = "running"
    BY <2>2 DEF JobsAtWork, TypeInv, TypeOK
  <2>4. JobsAtWork'
    BY <2>2, <2>3 DEF JobsAtWork
  <2>5. JobsInHand'
    BY <2>2, <2>3 DEF JobsInHand, TypeInv
  <2> QED
    BY <1>1, <1>6, <2>1, <2>4, <2>5, TokenKept, EnoughKept DEF EndJob
<1>7. CASE \/ Begin(w) \/ EraseDoing(w) \/ CheckShrink(w) \/ PushSub(w) \/ Leave(w)
           \/ PostComplete(w) \/ Count(w) \/ LastOne(w)
  <2>1. InFlight' = InFlight
    BY <1>7 DEF Begin, EraseDoing, CheckShrink, PushSub, Leave, AfterLeaving,
       PostComplete, Count, LastOne, InFlight, At, Goto, TypeInv, TypeOK
  <2>2. UNCHANGED <<jobEv, semGot, pcW, exitW, semJob, waiting, cleared, jobStatus, cpc,
                    cjob>>
    BY <1>7 DEF Begin, EraseDoing, CheckShrink, PushSub, Leave, PostComplete, Count,
       LastOne
  <2> QED
    BY <1>1, <1>2, <1>7, <2>1, <2>2, TokenKept, EnoughKept, JobsKept
<1> QED
  BY <1>3, <1>4, <1>5, <1>6, <1>7 DEF WorkerStep

\* A step of W keeps the dispatch invariant (36-52).
LEMMA DispatchDispatch ==
  ASSUME DispatchInv, DispatchStep
  PROVE  Token' /\ JobsInHand' /\ JobsAtWork' /\ EnoughJobs' /\ ExitAfterClear'
<1> USE DEF DispatchInv
<1>1. UNCHANGED <<waiting, jobStatus, cpc, cjob, exitW, cleared, opc, wjob>>
  BY DEF DispatchStep, WWait, WCheck, WSignal, WGot
<1>2. JobsInHand' /\ ExitAfterClear'
  BY <1>1, JobsKept, ExitKept
<1>3. JobsAtWork'
  <2>1. At({"running"})' = At({"running"})
    BY DEF DispatchStep, WWait, WCheck, WSignal, WGot, SetAutoReset, Parked, At, Goto,
       TypeInv, TypeOK
  <2> QED
    BY <1>1, <2>1, AtWorkKept DEF At, TypeInv, TypeOK
<1>4. semJob \in Nat /\ semGot \in Nat /\ Cardinality(waiting) \in Nat
  BY WaitingCount DEF TypeInv, TypeOK
<1>5. CASE WWait
  <2>1. InFlight' = InFlight
    BY <1>5 DEF WWait, InFlight, At
  <2>2. Token'
    BY <1>5, <2>1 DEF WWait, Token
  <2>3. ~cleared => ~InHand
    BY <1>5 DEF WWait, Token, InHand, ExitAfterClear
  <2>4. EnoughJobs'
    BY <1>1, <1>4, <1>5, <2>3 DEF WWait, EnoughJobs, One
  <2> QED
    BY <1>2, <1>3, <2>2, <2>4
<1>6. CASE WCheck
  <2>1. InFlight' = InFlight
    BY <1>6 DEF WCheck, InFlight, At
  <2>2. Token'
    BY <1>6, <2>1 DEF WCheck, Token
  <2>3. InHand' => InHand
    BY <1>6, <2>1 DEF WCheck, InHand
  <2>4. EnoughJobs'
    BY <1>1, <1>4, <1>6, <2>3 DEF WCheck, EnoughJobs, One
  <2> QED
    BY <1>2, <1>3, <2>2, <2>4
<1>7. CASE WSignal
  <2>1. \/ jobEv' /\ InFlight' = InFlight
        \/ jobEv' = jobEv /\ \E w \in Workers : InFlight' = InFlight \cup {w}
    BY <1>7 DEF WSignal, SetAutoReset, Parked, InFlight, At, Goto, TypeInv, TypeOK
  <2>2. pcW = "signal" /\ pcW' = "waitGot" /\ UNCHANGED <<semGot, semJob>>
    BY <1>7 DEF WSignal
  <2>3. Token'
    BY <1>1, <1>4, <2>1, <2>2 DEF Token
  <2>4. InHand
    BY <2>2 DEF InHand
  <2>5. EnoughJobs'
    BY <1>1, <1>4, <2>2, <2>4 DEF EnoughJobs, One
  <2> QED
    BY <1>2, <1>3, <2>3, <2>5
<1>8. CASE WGot
  <2>1. InFlight' = InFlight
    BY <1>8 DEF WGot, InFlight, At
  <2>2. Token'
    BY <1>4, <1>8, <2>1 DEF WGot, Token
  <2>3. InHand' => InHand
    BY <1>8, <2>1 DEF WGot, InHand
  <2>4. EnoughJobs'
    BY <1>1, <1>4, <1>8, <2>3 DEF WGot, EnoughJobs, One
  <2> QED
    BY <1>2, <1>3, <2>2, <2>4
<1> QED
  BY <1>5, <1>6, <1>7, <1>8 DEF DispatchStep

\* A step of S keeps the dispatch invariant: it fires another event.
LEMMA DispatchShrink ==
  ASSUME DispatchInv, ShrinkStep
  PROVE  Token' /\ JobsInHand' /\ JobsAtWork' /\ EnoughJobs' /\ ExitAfterClear'
<1> USE DEF DispatchInv
<1>1. UNCHANGED <<waiting, jobStatus, cpc, cjob, exitW, cleared, opc, wjob, jobEv,
                  semGot, semJob, pcW>>
  BY DEF ShrinkStep, SWait, SPop, SSignal, SComplete, SJoin
<1>2. InFlight' = InFlight /\ At({"running"})' = At({"running"})
  BY DEF ShrinkStep, SWait, SPop, SSignal, SComplete, SJoin, SetAutoReset, Parked,
     InFlight, At, Goto, TypeInv, TypeOK
<1> QED
  BY <1>1, <1>2, TokenKept, JobsKept, AtWorkKept, EnoughKept, ExitKept

\* A step of submitJob keeps the dispatch invariant (350-397).
LEMMA DispatchClient ==
  ASSUME DispatchInv, NEW c \in Clients, SubmitIndex(c) \/ ClientStep(c)
  PROVE  Token' /\ JobsInHand' /\ JobsAtWork' /\ EnoughJobs' /\ ExitAfterClear'
<1> USE DEF DispatchInv
<1>1. UNCHANGED <<exitW, cleared, opc, wjob, jobEv, semGot, pcW>>
  BY DEF SubmitIndex, ClientStep, SubmitInsert, SubmitGrow
<1>2. ExitAfterClear'
  BY <1>1, ExitKept
<1>3. InFlight' = InFlight /\ At({"running"})' = At({"running"})
  BY DEF SubmitIndex, ClientStep, SubmitInsert, SubmitGrow, AddJobThread, InFlight, At,
     TypeInv, TypeOK
<1>4. Token'
  BY <1>1, <1>3, TokenKept
<1>5. JobsAtWork'
  <2>1. \A j \in Jobs : jobStatus'[j] = "running" <=> jobStatus[j] = "running"
    BY DEF SubmitIndex, ClientStep, SubmitInsert, SubmitGrow, JobsInHand, TypeInv, TypeOK
  <2> QED
    BY <1>1, <1>3, <2>1, AtWorkKept
<1>6. CASE SubmitIndex(c)
  <2>1. PICK j \in Jobs :
          /\ jobStatus[j] = "new"
          /\ jobStatus' = [jobStatus EXCEPT ![j] = "submitting"]
          /\ cjob' = [cjob EXCEPT ![c] = j]
    BY <1>6 DEF SubmitIndex
  <2>2. cpc[c] = "idle" /\ cpc' = [cpc EXCEPT ![c] = "insert"] /\ waiting' = waiting
    BY <1>6 DEF SubmitIndex
  <2>3. JobsInHand'
    BY <2>1, <2>2 DEF JobsInHand, TypeInv, TypeOK
  <2> QED
    BY <1>1, <1>2, <1>3, <1>4, <1>5, <1>6, <2>3, EnoughKept DEF SubmitIndex
<1>7. CASE SubmitInsert(c)
  <2>1. /\ cjob[c] \in Jobs /\ jobStatus[cjob[c]] = "submitting" /\ cjob[c] \notin waiting
        /\ waiting' = waiting \cup {cjob[c]}
        /\ jobStatus' = [jobStatus EXCEPT ![cjob[c]] = "waiting"]
        /\ cpc[c] = "insert" /\ cpc' = [cpc EXCEPT ![c] = "grow"] /\ cjob' = cjob
    BY <1>7 DEF SubmitInsert, JobsInHand, TypeInv
  <2>2. JobsInHand'
    <3>1. waiting' = {i \in Jobs : jobStatus'[i] = "waiting"}
      BY <2>1 DEF JobsInHand, TypeInv, TypeOK
    <3>2. \A d \in Clients : cpc'[d] = "insert" =>
             d # c /\ cpc[d] = "insert" /\ cjob[d] # cjob[c]
      BY <2>1 DEF JobsInHand, TypeInv, TypeOK
    <3> QED
      BY <2>1, <3>1, <3>2 DEF JobsInHand, TypeInv, TypeOK
  <2>3. EnoughJobs'
    <3>1. IsFiniteSet(waiting) /\ Cardinality(waiting) \in Nat
      BY WaitingCount DEF TypeInv, TypeOK
    <3>2. Cardinality(waiting') = Cardinality(waiting) + 1
      BY <2>1, <3>1, FS_AddElement
    <3>3. semJob' = semJob + 1 /\ semJob \in Nat
      BY <1>7 DEF SubmitInsert, PostJob, TypeInv, TypeOK
    <3>4. InHand' = InHand
      BY <1>1, <1>3 DEF InHand
    <3> QED
      BY <1>1, <3>1, <3>2, <3>3, <3>4 DEF EnoughJobs, One
  <2> QED
    BY <1>2, <1>4, <1>5, <2>2, <2>3
<1>8. CASE SubmitGrow(c)
  <2>1. JobsInHand'
    BY <1>8 DEF SubmitGrow, JobsInHand, TypeInv, TypeOK
  <2> QED
    BY <1>1, <1>2, <1>3, <1>4, <1>5, <1>8, <2>1, EnoughKept DEF SubmitGrow
<1> QED
  BY <1>6, <1>7, <1>8 DEF ClientStep

\* A step of the owner's operations keeps the dispatch invariant.
LEMMA DispatchOwner ==
  ASSUME DispatchInv,
         \/ \E p \in StartParams : Start(p)
         \/ \E op \in Api : Call(op)
         \/ OwnerStep
         \/ UNCHANGED vars
  PROVE  Token' /\ JobsInHand' /\ JobsAtWork' /\ EnoughJobs' /\ ExitAfterClear'
<1> USE DEF DispatchInv
<1>1. UNCHANGED <<wjob, jobEv, pcW, cpc, cjob>>
  BY DEF Start, Call, OwnerStep, SetStop, NotifyStop, StopReturns, WaitReturns,
     ClearUndoWork, ExitW, JoinW, ExitS, JoinS, vars
<1>2. InFlight' \subseteq InFlight /\ At({"running"})' = At({"running"})
  BY DEF Start, AddJobThread, Call, OwnerStep, SetStop, NotifyStop, StopReturns,
     WaitReturns, ClearUndoWork, ExitW, JoinW, ExitS, JoinS, vars, InFlight, At, Goto,
     ParkedPcs, TypeInv, TypeOK
<1>3. CASE ClearUndoWork
  <2>1. cleared' /\ exitW' = exitW /\ semGot' = semGot
    BY <1>3 DEF ClearUndoWork
  <2>2. Token'
    BY <1>1, <1>2, <2>1, TokenKept
  <2>3. EnoughJobs' /\ ExitAfterClear'
    BY <2>1 DEF EnoughJobs, ExitAfterClear
  <2>4. /\ waiting' = {}
        /\ jobStatus' = [j \in Jobs |->
                           IF j \in waiting THEN "cancelled" ELSE jobStatus[j]]
    BY <1>3 DEF ClearUndoWork
  <2>5. JobsInHand'
    BY <1>1, <2>4 DEF JobsInHand, TypeInv, TypeOK
  <2>6. JobsAtWork'
    BY <1>1, <1>2, <2>4, AtWorkKept DEF JobsInHand
  <2> QED
    BY <2>2, <2>3, <2>5, <2>6
<1>4. CASE ExitW
  <2>1. exitW' /\ cleared /\ UNCHANGED <<waiting, jobStatus, cleared>>
    BY <1>4 DEF ExitW, ExitAfterClear
  <2>2. Token' /\ EnoughJobs' /\ ExitAfterClear'
    BY <2>1 DEF Token, EnoughJobs, ExitAfterClear
  <2> QED
    BY <1>1, <1>2, <2>1, <2>2, JobsKept, AtWorkKept
<1>5. CASE ~(ClearUndoWork \/ ExitW)
  <2>1. UNCHANGED <<semGot, semJob, exitW, waiting, jobStatus, cleared>>
    BY <1>5 DEF Start, Call, OwnerStep, SetStop, NotifyStop, StopReturns, WaitReturns,
       JoinW, ExitS, JoinS, vars
  <2>2. ExitAfterClear'
    BY <1>5, <2>1, ApiAssumption DEF Start, Call, FirstOwnerPc, ApiCalls, OwnerStep, SetStop, NotifyStop,
       StopReturns, AfterStop, WaitReturns, JoinW, ExitS, JoinS, vars, ExitAfterClear
  <2> QED
    BY <1>1, <1>2, <2>1, <2>2, TokenKept, JobsKept, AtWorkKept, EnoughKept
<1> QED
  BY <1>3, <1>4, <1>5

\* Every step of the pool keeps the dispatch invariant.
LEMMA DispatchNext == DispatchInv /\ [Next]_vars => DispatchInv'
<1> SUFFICES ASSUME DispatchInv, [Next]_vars
             PROVE  Token' /\ JobsInHand' /\ JobsAtWork' /\ EnoughJobs' /\ ExitAfterClear'
  BY TypeStep DEF DispatchInv
<1> QED
  BY DispatchWorker, DispatchDispatch, DispatchShrink, DispatchClient, DispatchOwner
     DEF Next, Destroyed

\* The inductive invariant of the dispatch holds.
THEOREM DispatchCorrect == Spec => []DispatchInv
  BY DispatchInit, DispatchNext, PTL DEF Spec

\* The job event, its taker and sem_notify_got_waitting_job_ are one token: until
\* the destructor tells W to exit there is never a second dispatch under way.
THEOREM DispatchHolds == Spec => []OneDispatchAtATime
<1>1. DispatchInv => OneDispatchAtATime
  <2> SUFFICES ASSUME DispatchInv, ~exitW PROVE OneDispatchAtATime
    BY DEF OneDispatchAtATime
  <2> USE DEF DispatchInv
  <2>1. semGot \in Nat
    BY DEF TypeInv, TypeOK
  <2>2. InFlight = {} \/ \E w \in InFlight : InFlight = {w}
    BY DEF Token
  <2>3. Cardinality(InFlight) = IF InFlight = {} THEN 0 ELSE 1
    BY <2>2, FS_EmptySet, FS_Singleton
  <2> QED
    BY <2>1, <2>3 DEF Token, OneDispatchAtATime, One
<1> QED
  BY <1>1, DispatchCorrect, PTL

\* Unless clearUndoWork has run, a thread that got the job event finds a job: the
\* assertion at line 535 holds.
THEOREM JobFound == Spec => []TakeFindsJob
<1>1. DispatchInv => TakeFindsJob
  <2> SUFFICES ASSUME DispatchInv, ~cleared, At({"gotJob"}) # {} PROVE waiting # {}
    BY DEF TakeFindsJob, AssertJobWaiting
  <2>1. InHand
    BY DEF InHand, InFlight, At
  <2>2. semJob \in Nat
    BY DEF DispatchInv, TypeInv, TypeOK
  <2>3. Cardinality(waiting) >= 1
    BY <2>1, <2>2, WaitingCount DEF DispatchInv, TypeInv, TypeOK, EnoughJobs, One
  <2> QED
    BY <2>3, FS_EmptySet
<1> QED
  BY <1>1, DispatchCorrect, PTL

-----------------------------------------------------------------------------
(* Refinement.  The pool implements JobPool: what is needed besides the     *)
(* invariants above is that ids never pass job_index_ and that the maximum  *)
(* in force is one the owner may pass.                                     *)

Bounds ==
  /\ \A j \in Jobs : jobId[j] <= jobIndex
  /\ maxThreads <= MaxLimit

PromiseInv == AccountInv /\ DispatchInv /\ Bounds

\* The limits of a new pool, 0 and 1, are within MaxLimit.
LEMMA BoundsInit == Init => Bounds
  BY StartParamsAssumption DEF Init, Bounds

\* start is the only step that sets the limits.
LEMMA BoundsStep == TypeInv /\ Bounds /\ [Next]_vars => Bounds'
<1> SUFFICES ASSUME TypeInv, Bounds, [Next]_vars PROVE Bounds'
  OBVIOUS
<1> USE DEF Bounds, TypeInv, TypeOK
<1>1. CASE \E c \in Clients : SubmitIndex(c)
  BY <1>1 DEF SubmitIndex
<1>2. CASE \E c \in Clients : SubmitInsert(c)
  BY <1>2 DEF SubmitInsert, AssignedId
<1>3. CASE \E p \in StartParams : Start(p)
  BY <1>3, StartParamsAssumption DEF Start
<1>4. CASE UNCHANGED <<jobId, jobIndex, maxThreads>>
  BY <1>4
<1>5. \/ \E c \in Clients : SubmitIndex(c)
      \/ \E c \in Clients : SubmitInsert(c)
      \/ \E p \in StartParams : Start(p)
      \/ UNCHANGED <<jobId, jobIndex, maxThreads>>
  BY DEF Next, Destroyed, vars, WorkerStep, Begin, Poll, Wake, TakeJob, EndJob,
     EraseDoing, CheckShrink, PushSub, Leave, PostComplete, Count, LastOne,
     DispatchStep, WWait, WCheck, WSignal, WGot, ShrinkStep, SWait, SPop, SSignal,
     SComplete, SJoin, ClientStep, SubmitGrow, Call, OwnerStep, SetStop, NotifyStop,
     StopReturns, WaitReturns, ClearUndoWork, ExitW, JoinW, ExitS, JoinS
<1> QED
  BY <1>1, <1>2, <1>3, <1>4, <1>5

\* All that the refinement needs holds in every state.
THEOREM PromiseInvCorrect == Spec => []PromiseInv
<1>1. Init => Bounds
  BY BoundsInit
<1>2. TypeInv /\ Bounds /\ [Next]_vars => Bounds'
  BY BoundsStep
<1> QED
  BY <1>1, <1>2, TypeCorrect, AccountCorrect, DispatchCorrect, PTL DEF Spec, PromiseInv

\* A thread that takes a job leaves fewer than the maximum at work.
LEMMA RunningBelowLimit ==
  ASSUME PromiseInv, NEW w \in Workers, wpc[w] = "gotJob"
  PROVE  Cardinality(RunningJobs) < MaxLimit
<1> DEFINE R == RunningJobs
           A == At({"running"})
           f == [j \in R |-> CHOOSE v \in A : wjob[v] = j]
<1> USE DEF PromiseInv, AccountInv
<1>1. A \in SUBSET Workers /\ Live \in SUBSET Workers
  BY DEF At, Live
<1>2. A \subseteq Live \ {w} /\ w \in Live
  BY DEF At, Live, LivePcs, ParkedPcs
<1>3. Cardinality(Live \ {w}) = Cardinality(Live) - 1 /\ IsFiniteSet(Live \ {w})
  BY <1>2, SetsFinite, FS_RemoveElement
<1>4. IsFiniteSet(A) /\ Cardinality(A) \in Nat /\ Cardinality(A) <= Cardinality(Live) - 1
  BY <1>1, <1>2, <1>3, CountInt, FS_Subset
<1>5. \A j \in R : f[j] \in A /\ wjob[f[j]] = j
  BY DEF DispatchInv, JobsAtWork, RunningJobs
<1>6. f \in Injection(R, A)
  <2>1. f \in [R -> A]
    BY <1>5
  <2>2. \A i, j \in R : f[i] = f[j] => i = j
    BY <1>5
  <2> HIDE DEF f
  <2> QED
    BY <2>1, <2>2 DEF Injection, IsInjective
<1>7. Cardinality(R) <= Cardinality(A) /\ IsFiniteSet(R)
  BY <1>4, <1>6, FS_Injection
<1>8. Cardinality(R) \in Nat
  BY <1>7, FS_CardinalityType
<1>9. /\ Cardinality(Live) = lastRunning /\ lastRunning <= maxThreads
      /\ maxThreads <= MaxLimit
  BY DEF ThreadAccounting, Bounds
<1>10. maxThreads \in Nat /\ MaxLimit \in Nat /\ lastRunning \in Int
  BY StartParamsAssumption DEF TypeInv, TypeOK
<1> QED
  BY <1>4, <1>7, <1>8, <1>9, <1>10

\* The running jobs can be counted.
LEMMA RunningFinite == IsFiniteSet(RunningJobs) /\ Cardinality(RunningJobs) \in Nat
<1>1. RunningJobs \in SUBSET Jobs
  BY DEF RunningJobs
<1> QED
  BY <1>1, WaitingCount

\* Every step of the pool is a step of JobPool or leaves its state alone.
LEMMA PromiseStep ==
  PromiseInv /\ [Next]_vars
    => [Promise!Next]_<<PoolStatus, jobId, Cardinality(RunningJobs)>>
<1> SUFFICES ASSUME PromiseInv, [Next]_vars
             PROVE  [Promise!Next]_<<PoolStatus, jobId, Cardinality(RunningJobs)>>
  OBVIOUS
<1> TypeInv
  BY DEF PromiseInv, AccountInv
<1>1. CASE \E c \in Clients : SubmitInsert(c)
  <2>1. PICK c \in Clients : SubmitInsert(c)
    BY <1>1
  <2> DEFINE j == cjob[c]
  <2>2. /\ j \in Jobs /\ jobStatus[j] = "submitting"
        /\ jobStatus' = [jobStatus EXCEPT ![j] = "waiting"]
        /\ jobId' = [jobId EXCEPT ![j] = jobIndex]
    BY <2>1 DEF SubmitInsert, AssignedId, PromiseInv, DispatchInv, JobsInHand, TypeInv
  <2> HIDE DEF j
  <2>3. PoolStatus[j] = "new" /\ PoolStatus' = [PoolStatus EXCEPT ![j] = "pending"]
    BY <2>2 DEF PoolStatus, TypeInv, TypeOK
  <2>4. \A i \in Jobs \ {j} : jobId'[i] = jobId[i] /\ jobId[i] <= jobId'[j]
    BY <2>2 DEF PromiseInv, Bounds, TypeInv, TypeOK
  <2>5. jobId' = [jobId EXCEPT ![j] = jobId'[j]]
    BY <2>2 DEF TypeInv, TypeOK
  <2>6. RunningJobs' = RunningJobs
    BY <2>2 DEF RunningJobs, TypeInv, TypeOK
  <2>7. Promise!Submit(j)
    BY <2>3, <2>4, <2>5, <2>6 DEF Promise!Submit
  <2> QED
    BY <2>2, <2>7 DEF Promise!Next
<1>2. CASE \E w \in Workers : TakeJob(w)
  <2>1. PICK w \in Workers : TakeJob(w)
    BY <1>2
  <2>2. PICK j \in waiting :
          /\ \A i \in waiting : Before(j, i)
          /\ jobStatus' = [jobStatus EXCEPT ![j] = "running"]
    BY <2>1 DEF TakeJob
  <2>3. j \in Jobs /\ jobStatus[j] = "waiting" /\ jobId' = jobId
    BY <2>1 DEF TakeJob, PromiseInv, DispatchInv, JobsInHand
  <2>4. PoolStatus[j] = "pending" /\ PoolStatus' = [PoolStatus EXCEPT ![j] = "running"]
    BY <2>2, <2>3 DEF PoolStatus, TypeInv, TypeOK
  <2>5. /\ Cardinality(RunningJobs) < MaxLimit
        /\ Cardinality(RunningJobs') = Cardinality(RunningJobs) + 1
    <3>1. RunningJobs' = RunningJobs \cup {j} /\ j \notin RunningJobs
      BY <2>2, <2>3 DEF RunningJobs, TypeInv, TypeOK
    <3> QED
      BY <2>1, <3>1, RunningBelowLimit, RunningFinite, FS_AddElement DEF TakeJob
  <2>6. ~\E i \in Promise!With("pending") : Promise!MoreUrgent(i, j)
    <3>1. Promise!With("pending") = waiting
      BY DEF Promise!With, PoolStatus, PromiseInv, DispatchInv, JobsInHand, TypeInv,
         TypeOK, JobStates
    <3>2. \A i \in waiting : i \in Jobs /\ Priority[i] \in Int /\ jobId[i] \in Nat
      BY PriorityAssumption DEF TypeInv, TypeOK
    <3> QED
      BY <2>2, <2>3, <3>1, <3>2 DEF Before, Promise!MoreUrgent
  <2>7. Promise!Run(j)
    BY <2>3, <2>4, <2>5, <2>6 DEF Promise!Run
  <2> QED
    BY <2>3, <2>7 DEF Promise!Next
<1>3. CASE \E w \in Workers : EndJob(w)
  <2>1. PICK w \in Workers : EndJob(w)
    BY <1>3
  <2> DEFINE j == wjob[w]
  <2>2. /\ j \in Jobs /\ jobStatus[j] = "running" /\ jobId' = jobId
        /\ jobStatus' = [jobStatus EXCEPT ![j] = "ended"]
    BY <2>1 DEF EndJob, At, PromiseInv, DispatchInv, JobsAtWork
  <2> HIDE DEF j
  <2>3. PoolStatus[j] = "running" /\ PoolStatus' = [PoolStatus EXCEPT ![j] = "ended"]
    BY <2>2 DEF PoolStatus, TypeInv, TypeOK
  <2>4. RunningJobs' = RunningJobs \ {j} /\ j \in RunningJobs
    BY <2>2 DEF RunningJobs, TypeInv, TypeOK
  <2>5. Cardinality(RunningJobs') = Cardinality(RunningJobs) - 1
    BY <2>4, RunningFinite, FS_RemoveElement
  <2>6. Promise!End(j)
    BY <2>2, <2>3, <2>5 DEF Promise!End
  <2> QED
    BY <2>2, <2>6 DEF Promise!Next
<1>4. CASE ClearUndoWork
  <2>1. /\ jobStatus' = [j \in Jobs |->
                           IF j \in waiting THEN "cancelled" ELSE jobStatus[j]]
        /\ jobId' = jobId
    BY <1>4 DEF ClearUndoWork
  <2>2. \A j \in Jobs : j \in waiting <=> jobStatus[j] = "waiting"
    BY DEF PromiseInv, DispatchInv, JobsInHand
  <2>3. PoolStatus' = [j \in Jobs |-> IF PoolStatus[j] = "pending" THEN "cancelled"
                                      ELSE PoolStatus[j]]
    BY <2>1, <2>2 DEF PoolStatus, TypeInv, TypeOK, JobStates
  <2>4. RunningJobs' = RunningJobs
    BY <2>1, <2>2 DEF RunningJobs
  <2>5. Promise!CancelPending
    BY <2>1, <2>3, <2>4 DEF Promise!CancelPending
  <2> QED
    BY <2>5 DEF Promise!Next
<1>5. CASE \E c \in Clients : SubmitIndex(c)
  <2>1. PICK c \in Clients : SubmitIndex(c)
    BY <1>5
  <2>2. PICK j \in Jobs : /\ jobStatus[j] = "new"
                          /\ jobStatus' = [jobStatus EXCEPT ![j] = "submitting"]
    BY <2>1 DEF SubmitIndex
  <2>3. PoolStatus' = PoolStatus
    BY <2>2 DEF PoolStatus, TypeInv, TypeOK
  <2>4. RunningJobs' = RunningJobs
    BY <2>2 DEF RunningJobs, TypeInv, TypeOK
  <2> QED
    BY <2>1, <2>3, <2>4 DEF SubmitIndex
<1>6. CASE UNCHANGED <<jobStatus, jobId>>
  BY <1>6 DEF PoolStatus, RunningJobs
<1>7. \/ \E c \in Clients : SubmitInsert(c)
      \/ \E w \in Workers : TakeJob(w)
      \/ \E w \in Workers : EndJob(w)
      \/ ClearUndoWork
      \/ \E c \in Clients : SubmitIndex(c)
      \/ UNCHANGED <<jobStatus, jobId>>
  BY DEF Next, Destroyed, vars, WorkerStep, Begin, Poll, Wake,
     EraseDoing, CheckShrink, PushSub, Leave, PostComplete, Count, LastOne,
     DispatchStep, WWait, WCheck, WSignal, WGot, ShrinkStep, SWait, SPop, SSignal,
     SComplete, SJoin, ClientStep, SubmitGrow, Start, Call, OwnerStep, SetStop,
     NotifyStop, StopReturns, WaitReturns, ExitW, JoinW, ExitS, JoinS
<1> QED
  BY <1>1, <1>2, <1>3, <1>4, <1>5, <1>6, <1>7

\* The pool implements JobPool: jobs run at most MaxLimit at a time, each once, the
\* most urgent waiting job first and in the order of submission within a priority.
THEOREM PromiseKept == Spec => KeepsPromise
<1>1. Init => Promise!Init
  <2> SUFFICES ASSUME Init PROVE Promise!Init
    OBVIOUS
  <2>1. RunningJobs = {} /\ PoolStatus = [j \in Jobs |-> "new"]
    BY DEF Init, RunningJobs, PoolStatus
  <2> QED
    BY <2>1, FS_EmptySet DEF Init, Promise!Init
<1> QED
  BY <1>1, PromiseStep, PromiseInvCorrect, PTL DEF Spec, KeepsPromise, Promise!Spec

-----------------------------------------------------------------------------
(* Shrinking.  The subtract event, its taker and the completion semaphore   *)
(* are one token; requests are counts of live threads, hence never 0, and   *)
(* none is made once the destructor has got past clearUndoWork.            *)

Taker == At({"firedSub", "gotSub", "postComplete"})

ShrinkToken ==
  /\ \A u, v \in Taker : u = v
  /\ subEv => Taker = {}
  /\ (subEv \/ Taker # {} \/ semComplete > 0) => pcS = "waitComplete"
  /\ semComplete <= 1
  /\ semComplete = 1 => ~subEv /\ Taker = {}

ClosingPcs == {"exitW", "joinW", "exitS", "joinS", "destroyed"}

Closing ==
  /\ opc = "notify" => stopEv
  /\ call = "delete" /\ opc \in {"wait", "clear"} => stopEv
  /\ opc \in ClosingPcs => stopEv /\ PoolLocksFree

ShrinkInv == ShrinkToken /\ Closing /\ SubtractQueue

\* A new pool has no shrink request.
LEMMA ShrinkInit == Init => ShrinkInv
<1> SUFFICES ASSUME Init PROVE ShrinkInv
  OBVIOUS
<1>1. Taker = {}
  BY DEF Init, Taker, At
<1>2. ShrinkToken
  BY <1>1 DEF Init, ShrinkToken
<1>3. Closing
  BY DEF Init, Closing, ClosingPcs
<1>4. SubtractQueue
  BY DEF Init, SubtractQueue, One
<1> QED
  BY <1>2, <1>3, <1>4 DEF ShrinkInv

\* Steps that leave the shrink token alone keep it single.
LEMMA ShrinkTokenKept ==
  ASSUME ShrinkToken, UNCHANGED <<subEv, semComplete, pcS>>, Taker' \subseteq Taker
  PROVE  ShrinkToken'
  BY DEF ShrinkToken

\* Steps that leave queue, semaphore and S alone keep them in agreement.
LEMMA QueueKept ==
  ASSUME SubtractQueue, UNCHANGED <<subQueue, semSub, pcS, opc>>
  PROVE  SubtractQueue'
  BY DEF SubtractQueue, One

\* A step of a job thread keeps the shrink invariant (600-628).
LEMMA ShrinkWorker ==
  ASSUME AccountInv, ShrinkInv, NEW w \in Workers, WorkerStep(w)
  PROVE  ShrinkInv'
<1> USE DEF ShrinkInv
<1> TypeInv
  BY DEF AccountInv
<1>1. UNCHANGED <<opc, call, stopEv, pcS>>
  BY DEF WorkerStep, Begin, Poll, Wake, TakeJob, EndJob, EraseDoing, CheckShrink,
     PushSub, Leave, PostComplete, Count, LastOne
<1>2. Closing'
  <2>1. stopEv => (PoolLocksFree => PoolLocksFree')
    BY DEF WorkerStep, Begin, Poll, Wake, TakeJob, EndJob, EraseDoing, CheckShrink,
       NeedSubtractThread, PushSub, Leave, AfterLeaving, PostComplete, Count, LastOne,
       PoolLocksFree, At, Goto, TypeInv, TypeOK
  <2> QED
    BY <1>1, <2>1 DEF Closing
<1>3. CASE Poll(w)
  <2>1. \/ Taker' = Taker /\ subEv' = subEv
        \/ subEv /\ subEv' = FALSE /\ Taker' = Taker \cup {w}
    BY <1>3 DEF Poll, Taken, Taker, At, Goto, TypeInv, TypeOK
  <2>2. UNCHANGED <<semComplete, subQueue, semSub>>
    BY <1>3 DEF Poll
  <2>3. ShrinkToken'
    BY <1>1, <2>1, <2>2 DEF ShrinkToken
  <2> QED
    BY <1>1, <1>2, <2>2, <2>3, QueueKept
<1>4. CASE PostComplete(w)
  <2>1. w \in Taker /\ Taker' = Taker \ {w}
    BY <1>4 DEF PostComplete, Taker, At, Goto, TypeInv, TypeOK
  <2>2. semComplete' = semComplete + 1 /\ UNCHANGED <<subEv, subQueue, semSub>>
    BY <1>4 DEF PostComplete
  <2>3. semComplete \in Nat
    BY DEF TypeInv, TypeOK
  <2>4. ShrinkToken'
    BY <1>1, <2>1, <2>2, <2>3 DEF ShrinkToken
  <2> QED
    BY <1>1, <1>2, <2>2, <2>4, QueueKept
<1>5. CASE PushSub(w)
  <2>1. Taker' = Taker /\ UNCHANGED <<subEv, semComplete>>
    BY <1>5 DEF PushSub, Taker, At, Goto, TypeInv, TypeOK
  <2>2. lastRunning \in Int /\ lastRunning # 0
    <3>1. w \in Live
      BY <1>5 DEF PushSub, Live, At, LivePcs
    <3>2. Cardinality(Live) # 0
      BY <3>1, SetsFinite, FS_EmptySet
    <3> QED
      BY <3>2 DEF AccountInv, ThreadAccounting, TypeInv, TypeOK
  <2>3. opc \notin ClosingPcs
    BY <1>5 DEF PushSub, Closing, PoolLocksFree, At
  <2>4. subQueue' = Append(subQueue, lastRunning) /\ semSub' = semSub + 1
    BY <1>5 DEF PushSub, SubtractRequest
  <2>5. subQueue \in Seq(Int) /\ semSub \in Nat
    BY DEF TypeInv, TypeOK
  <2>6. SubtractQueue'
    BY <1>1, <2>2, <2>3, <2>4, <2>5 DEF SubtractQueue, ClosingPcs, One
  <2> QED
    BY <1>1, <1>2, <2>1, <2>6, ShrinkTokenKept
<1>6. CASE \/ Begin(w) \/ Wake(w) \/ TakeJob(w) \/ EndJob(w) \/ EraseDoing(w)
           \/ CheckShrink(w) \/ Leave(w) \/ Count(w) \/ LastOne(w)
  <2>1. Taker' = Taker
    BY <1>6 DEF Begin, Wake, TakeJob, EndJob, EraseDoing, CheckShrink, Leave,
       AfterLeaving, Count, LastOne, Taker, At, Goto, TypeInv, TypeOK
  <2>2. UNCHANGED <<subEv, semComplete, subQueue, semSub>>
    BY <1>6 DEF Begin, Wake, TakeJob, EndJob, EraseDoing, CheckShrink, Leave, Count,
       LastOne
  <2> QED
    BY <1>1, <1>2, <2>1, <2>2, ShrinkTokenKept, QueueKept
<1> QED
  BY <1>3, <1>4, <1>5, <1>6 DEF WorkerStep

\* A step of S keeps the shrink invariant (73-121).
LEMMA ShrinkShrink ==
  ASSUME TypeInv, ShrinkInv, ShrinkStep
  PROVE  ShrinkInv'
<1> USE DEF ShrinkInv
<1>1. UNCHANGED <<opc, call, stopEv>>
  BY DEF ShrinkStep, SWait, SPop, SSignal, SComplete, SJoin
<1>2. Closing'
  <2>1. PoolLocksFree' = PoolLocksFree
    BY DEF ShrinkStep, SWait, SPop, SSignal, SComplete, SJoin, SetAutoReset, Parked,
       PoolLocksFree, At, Goto, TypeInv, TypeOK
  <2> QED
    BY <1>1, <2>1 DEF Closing
<1>3. semComplete \in Nat /\ semSub \in Nat /\ subQueue \in Seq(Int)
  BY DEF TypeInv, TypeOK
<1>4. CASE SWait
  <2>1. Taker' = Taker
    BY <1>4 DEF SWait, Taker, At
  <2>2. ShrinkToken' /\ SubtractQueue'
    BY <1>1, <1>3, <1>4, <2>1 DEF SWait, ShrinkToken, SubtractQueue, One
  <2> QED
    BY <1>2, <2>2
<1>5. CASE SPop
  <2>1. Taker' = Taker
    BY <1>5 DEF SPop, Taker, At
  <2>2. ShrinkToken'
    BY <1>5, <2>1 DEF SPop, ShrinkToken
  <2>3. subQueue # <<>> /\ subQueue' = Tail(subQueue) /\ semSub' = semSub
    BY <1>5 DEF SPop
  <2>4. pcS = "pop" /\ pcS' # "pop"
    BY <1>5 DEF SPop
  <2>5. /\ Len(subQueue') = Len(subQueue) - 1 /\ Len(subQueue) \in Nat
        /\ \A i \in 1..Len(subQueue') : subQueue'[i] = subQueue[i + 1]
    BY <1>3, <2>3
  <2>6. SubtractQueue'
    BY <1>1, <1>3, <2>3, <2>4, <2>5 DEF SubtractQueue, One
  <2> QED
    BY <1>2, <2>2, <2>6
<1>6. CASE SSignal
  <2>1. \/ subEv' /\ Taker' = Taker
        \/ subEv' = subEv /\ \E w \in Workers : Taker' = Taker \cup {w}
    BY <1>6 DEF SSignal, SetAutoReset, Parked, Taker, At, Goto, TypeInv, TypeOK
  <2>2. pcS = "signal" /\ pcS' = "waitComplete" /\ UNCHANGED <<semComplete, semSub, subQueue>>
    BY <1>6 DEF SSignal
  <2>3. ShrinkToken'
    BY <1>3, <2>1, <2>2 DEF ShrinkToken
  <2>4. SubtractQueue'
    BY <1>1, <2>2 DEF SubtractQueue, One
  <2> QED
    BY <1>2, <2>3, <2>4
<1>7. CASE SComplete
  <2>1. Taker' = Taker
    BY <1>7 DEF SComplete, Taker, At
  <2>2. ShrinkToken' /\ SubtractQueue'
    BY <1>1, <1>3, <1>7, <2>1 DEF SComplete, ShrinkToken, SubtractQueue, One
  <2> QED
    BY <1>2, <2>2
<1>8. CASE SJoin
  <2>1. Taker' = Taker
    BY <1>8 DEF SJoin, Taker, At
  <2>2. ShrinkToken' /\ SubtractQueue'
    BY <1>1, <1>3, <1>8, <2>1 DEF SJoin, ShrinkToken, SubtractQueue, One
  <2> QED
    BY <1>2, <2>2
<1> QED
  BY <1>4, <1>5, <1>6, <1>7, <1>8 DEF ShrinkStep

\* Steps of W and of submitJob keep the shrink invariant.
LEMMA ShrinkOther ==
  ASSUME TypeInv, ShrinkInv,
         \/ DispatchStep
         \/ \E c \in Clients : SubmitIndex(c) \/ ClientStep(c)
         \/ UNCHANGED vars
  PROVE  ShrinkInv'
<1> USE DEF ShrinkInv
<1>1. UNCHANGED <<opc, call, stopEv, pcS, subEv, semComplete, subQueue, semSub>>
  BY DEF DispatchStep, WWait, WCheck, WSignal, WGot, ClientStep, SubmitIndex,
     SubmitInsert, SubmitGrow, vars
<1>2. Taker' = Taker /\ PoolLocksFree' = PoolLocksFree
  BY DEF DispatchStep, WWait, WCheck, WSignal, WGot, ClientStep, SubmitIndex,
     SubmitInsert, SubmitGrow, vars, SetAutoReset, AddJobThread, Parked, Taker,
     PoolLocksFree, At, Goto, TypeInv, TypeOK
<1>3. Closing'
  BY <1>1, <1>2 DEF Closing
<1> QED
  BY <1>1, <1>2, <1>3, ShrinkTokenKept, QueueKept

\* A step of the owner's operations keeps the shrink invariant (227-237).
LEMMA ShrinkOwner ==
  ASSUME TypeInv, ShrinkInv,
         \/ \E p \in StartParams : Start(p)
         \/ \E op \in Api : Call(op)
         \/ OwnerStep
  PROVE  ShrinkInv'
<1> USE DEF ShrinkInv
<1>1. UNCHANGED <<pcS, subEv, semComplete>>
  BY DEF Start, Call, OwnerStep, SetStop, NotifyStop, StopReturns, WaitReturns,
     ClearUndoWork, ExitW, JoinW, ExitS, JoinS
<1>2. Taker' \subseteq Taker /\ PoolLocksFree' = PoolLocksFree
  BY DEF Start, AddJobThread, Call, OwnerStep, SetStop, NotifyStop, StopReturns,
     WaitReturns, ClearUndoWork, ExitW, JoinW, ExitS, JoinS, Taker, PoolLocksFree, At,
     Goto, ParkedPcs, TypeInv, TypeOK
<1>3. ShrinkToken'
  BY <1>1, <1>2, ShrinkTokenKept
<1>4. CASE \E p \in StartParams : Start(p)
  BY <1>1, <1>2, <1>3, <1>4 DEF Start, Closing, ClosingPcs, SubtractQueue, One
<1>5. CASE \E op \in Api : Call(op)
  BY <1>1, <1>2, <1>3, <1>5, ApiAssumption
     DEF Call, FirstOwnerPc, ApiCalls, Closing, ClosingPcs, SubtractQueue, One
<1>6. CASE ExitS
  <2>1. opc = "exitS" /\ opc' = "joinS" /\ UNCHANGED <<call, stopEv>>
    BY <1>6 DEF ExitS
  <2>2. Closing'
    BY <1>2, <2>1 DEF Closing, ClosingPcs
  <2>3. /\ subQueue' = Append(subQueue, 0) /\ semSub' = semSub + 1
        /\ subQueue \in Seq(Int) /\ semSub \in Nat
    BY <1>6 DEF ExitS, TypeInv, TypeOK
  <2>4. SubtractQueue'
    BY <1>1, <2>1, <2>3 DEF SubtractQueue, One
  <2> QED
    BY <1>3, <2>2, <2>4
<1>7. CASE \/ SetStop \/ NotifyStop \/ StopReturns \/ WaitReturns \/ ClearUndoWork
           \/ ExitW \/ JoinW \/ JoinS
  <2>1. UNCHANGED <<subQueue, semSub>> /\ (opc' \in {"joinS", "destroyed"} <=>
                                           opc \in {"joinS", "destroyed"})
    BY <1>7 DEF SetStop, NotifyStop, StopReturns, AfterStop, WaitReturns, ClearUndoWork,
       ExitW, JoinW, JoinS
  <2>2. SubtractQueue'
    BY <1>1, <2>1 DEF SubtractQueue, One
  <2>3. Closing'
    BY <1>2, <1>7 DEF SetStop, NotifyStop, StopReturns, AfterStop, WaitReturns,
       ClearUndoWork, ExitW, JoinW, JoinS, Closing, ClosingPcs
  <2> QED
    BY <1>3, <2>2, <2>3
<1> QED
  BY <1>4, <1>5, <1>6, <1>7 DEF OwnerStep

\* The inductive invariant of shrinking holds.
THEOREM ShrinkCorrect == Spec => [](AccountInv /\ ShrinkInv)
<1>1. Init => ShrinkInv
  BY ShrinkInit
<1>2. AccountInv /\ ShrinkInv /\ [Next]_vars => ShrinkInv'
  BY ShrinkWorker, ShrinkShrink, ShrinkOther, ShrinkOwner
     DEF AccountInv, Next, Destroyed
<1> QED
  BY <1>1, <1>2, AccountCorrect, PTL DEF Spec

\* S never reads the front of an empty queue, and the only 0 in it is the
\* destructor's, behind every request.
THEOREM SubtractQueueHolds == Spec => []SubtractQueue
<1>1. AccountInv /\ ShrinkInv => SubtractQueue
  BY DEF ShrinkInv
<1> QED
  BY <1>1, ShrinkCorrect, PTL

\* A shrink request makes one thread leave at most: the subtract event, its taker
\* and sem_notify_complete_substract_thread_ are one token.
THEOREM ShrinkHolds == Spec => []OneShrinkAtATime
<1>1. AccountInv /\ ShrinkInv => OneShrinkAtATime
  <2> SUFFICES ASSUME ShrinkToken, TypeInv PROVE OneShrinkAtATime
    BY DEF ShrinkInv, AccountInv
  <2>1. semComplete \in Nat
    BY DEF TypeInv, TypeOK
  <2>2. Taker = {} \/ \E w \in Taker : Taker = {w}
    BY DEF ShrinkToken
  <2>3. Cardinality(Taker) = IF Taker = {} THEN 0 ELSE 1
    BY <2>2, FS_EmptySet, FS_Singleton
  <2> HIDE DEF Taker
  <2>4. One(subEv) + Cardinality(Taker) + semComplete <= 1
    BY <2>1, <2>3 DEF ShrinkToken, One
  <2> QED
    BY <2>4 DEF ShrinkToken, OneShrinkAtATime, Taker
<1> QED
  BY <1>1, ShrinkCorrect, PTL
=============================================================================
