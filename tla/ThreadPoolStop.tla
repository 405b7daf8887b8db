---------------------------- MODULE ThreadPoolStop ----------------------------
(***************************************************************************)
(* Theorems about ThreadPool: whom stop reaches, that no job is forgotten  *)
(* before it, what the map of running jobs holds, and what the destructor  *)
(* of a settled pool leaves behind.                                        *)
(***************************************************************************)
EXTENDS ThreadPoolProofs

USE DEF jobVars, threadVars, limitVars, eventVars, dispatchVars, shrinkVars,
        ownerVars, clientVars

-----------------------------------------------------------------------------
(* SetEvent(stop_event_).  A thread parks only while the stop event is not  *)
(* set, so the waits registered when it is stored are all there will be.    *)

StopInv ==
  /\ stopEv => Parked \subseteq stopWaiters
  /\ opc # "notify" => stopWaiters = {}

\* In a new pool no thread is parked.
LEMMA StopInit == Init => StopInv
  BY DEF Init, StopInv, Parked, At

\* A step that parks nobody and leaves the event and its visits alone.
LEMMA StopKept ==
  ASSUME StopInv, UNCHANGED <<stopEv, stopWaiters, opc>>, Parked' \subseteq Parked
  PROVE  StopInv'
  BY DEF StopInv

\* A step of a job thread: it parks only when it has seen the event not set (281).
LEMMA StopWorker ==
  ASSUME TypeInv, StopInv, NEW w \in Workers, WorkerStep(w)
  PROVE  StopInv'
<1>1. UNCHANGED <<stopEv, stopWaiters, opc>>
  BY DEF WorkerStep, Begin, Poll, Wake, TakeJob, EndJob, EraseDoing, CheckShrink,
     PushSub, Leave, PostComplete, Count, LastOne
<1>2. CASE Poll(w)
  <2>1. stopEv => Parked' \subseteq Parked
    BY <1>2 DEF Poll, Goto, Parked, At, TypeInv, TypeOK
  <2> QED
    BY <1>1, <2>1 DEF StopInv
<1>3. CASE ~Poll(w)
  <2>1. Parked' \subseteq Parked
    BY <1>3 DEF WorkerStep, Begin, Wake, TakeJob, EndJob, EraseDoing, CheckShrink,
       PushSub, Leave, AfterLeaving, PostComplete, Count, LastOne, Goto, Parked, At,
       TypeInv, TypeOK
  <2> QED
    BY <1>1, <2>1, StopKept
<1> QED
  BY <1>2, <1>3

\* A step of W, S or a client parks nobody.
LEMMA StopOther ==
  ASSUME TypeInv, StopInv,
         \/ DispatchStep
         \/ ShrinkStep
         \/ \E c \in Clients : SubmitIndex(c) \/ ClientStep(c)
         \/ UNCHANGED vars
  PROVE  StopInv'
<1>1. UNCHANGED <<stopEv, stopWaiters, opc>>
  BY DEF DispatchStep, WWait, WCheck, WSignal, WGot, ShrinkStep, SWait, SPop, SSignal,
     SComplete, SJoin, ClientStep, SubmitIndex, SubmitInsert, SubmitGrow, vars
<1>2. Parked' \subseteq Parked
  BY DEF DispatchStep, WWait, WCheck, WSignal, WGot, ShrinkStep, SWait, SPop, SSignal,
     SComplete, SJoin, ClientStep, SubmitIndex, SubmitInsert, SubmitGrow, vars,
     SetAutoReset, AddJobThread, Goto, Parked, At, TypeInv, TypeOK
<1> QED
  BY <1>1, <1>2, StopKept

\* A step of the owner: SetStop finds every parked thread registered, NotifyStop
\* wakes the one it takes from the registered waits if it is still parked.
LEMMA StopOwner ==
  ASSUME TypeInv, StopInv,
         \/ \E p \in StartParams : Start(p)
         \/ \E op \in Api : Call(op)
         \/ OwnerStep
  PROVE  StopInv'
<1>1. CASE \E p \in StartParams : Start(p)
  BY <1>1 DEF Start, StopInv
<1>2. CASE SetStop
  BY <1>2 DEF SetStop, RegisteredWaits, Parked, At, StopInv
<1>3. CASE NotifyStop
  <2>1. PICK w \in stopWaiters :
          /\ stopWaiters' = stopWaiters \ {w}
          /\ \/ wpc[w] \in ParkedPcs /\ Goto(w, "gotStop")
             \/ wpc[w] # "parked" /\ UNCHANGED wpc
    BY <1>3 DEF NotifyStop
  <2>2. Parked' \subseteq Parked \ {w}
    BY <2>1 DEF Goto, Parked, At, TypeInv, TypeOK
  <2> QED
    BY <1>3, <2>1, <2>2 DEF NotifyStop, StopInv
<1>4. CASE \/ \E op \in Api : Call(op)
           \/ StopReturns \/ WaitReturns \/ ClearUndoWork \/ ExitW \/ JoinW \/ ExitS
           \/ JoinS
  <2>1. UNCHANGED <<stopEv, stopWaiters, wpc>>
    BY <1>4 DEF Call, StopReturns, WaitReturns, ClearUndoWork, ExitW, JoinW, ExitS, JoinS
  <2>2. opc' # "notify" /\ stopWaiters = {}
    BY <1>4, ApiAssumption DEF Call, FirstOwnerPc, ApiCalls, StopReturns, AfterStop,
       WaitReturns, ClearUndoWork, ExitW, JoinW, ExitS, JoinS, StopInv
  <2> QED
    BY <2>1, <2>2 DEF StopInv, Parked, At
<1> QED
  BY <1>1, <1>2, <1>3, <1>4 DEF OwnerStep

\* No thread sleeps through stop: once SetEvent(stop_event_) has returned nobody is
\* parked, for as long as the event is set (281-288, pevents.cpp:490).
THEOREM StopReaches == Spec => []StopReachesAll
<1>1. TypeInv /\ StopInv /\ [Next]_vars => StopInv'
  BY StopWorker, StopOther, StopOwner DEF Next, Destroyed
<1>2. StopInv => StopReachesAll
  BY DEF StopInv, StopReachesAll
<1> QED
  BY StopInit, <1>1, <1>2, TypeCorrect, PTL DEF Spec

-----------------------------------------------------------------------------
(* Forgotten jobs.  A stop may take the place of the job event in a thread  *)
(* that has been fired (pevents.cpp:490), and the job whose dispatch that   *)
(* was has no unit left.  Short of that no job loses its unit.              *)

OnlyDestructorStops == {"stop", "stopAndWait"} \cap Api = {}

\* the pool is stopped by its destructor, which W's exit and no start come after
StoppedForGood ==
  /\ stopEv \/ opc \in {"setStop", "notify"} => call = "delete"
  /\ call = "delete" => opc # "idle"
  /\ exitW => stopEv

ForgottenInv == StoppedForGood /\ NoJobForgotten

\* A new pool has neither a stop nor a waiting job.
LEMMA ForgottenInit == Init => ForgottenInv
<1> SUFFICES ASSUME Init PROVE ForgottenInv
  OBVIOUS
<1>1. Cardinality(waiting) = 0 /\ semJob = 0
  BY FS_EmptySet DEF Init
<1> QED
  BY <1>1 DEF Init, ForgottenInv, StoppedForGood, NoJobForgotten, One

\* Steps that leave the owner, the stop event and W's exit alone.
LEMMA ForGoodKept ==
  ASSUME StoppedForGood, UNCHANGED <<stopEv, opc, call, exitW>>
  PROVE  StoppedForGood'
  BY DEF StoppedForGood

\* Steps that take no unit and end no dispatch leave no more jobs waiting.
LEMMA UnitsKept ==
  ASSUME TypeInv, NoJobForgotten, InHand => InHand', waiting' \subseteq waiting,
         UNCHANGED <<semJob, stopEv>>
  PROVE  NoJobForgotten'
<1>1. IsFiniteSet(waiting) /\ Cardinality(waiting) \in Nat
  BY WaitingCount DEF TypeInv, TypeOK
<1>2. Cardinality(waiting') \in Nat /\ Cardinality(waiting') <= Cardinality(waiting)
  BY <1>1, FS_Subset, FS_CardinalityType
<1>3. semJob \in Nat
  BY DEF TypeInv, TypeOK
<1> QED
  BY <1>1, <1>2, <1>3 DEF NoJobForgotten, InHand, One

\* A job thread ends a dispatch only by taking a job (536-548).
LEMMA ForgottenWorker ==
  ASSUME TypeInv, ForgottenInv, NEW w \in Workers, WorkerStep(w)
  PROVE  ForgottenInv'
<1>1. UNCHANGED <<stopEv, opc, call, exitW, semJob, pcW>>
  BY DEF WorkerStep, Begin, Poll, Wake, TakeJob, EndJob, EraseDoing, CheckShrink,
     PushSub, Leave, PostComplete, Count, LastOne
<1>2. StoppedForGood'
  BY <1>1, ForGoodKept DEF ForgottenInv
<1>3. CASE TakeJob(w)
  <2>1. \E j \in waiting : waiting' = waiting \ {j}
    BY <1>3 DEF TakeJob
  <2>2. IsFiniteSet(waiting) /\ Cardinality(waiting) \in Nat
    BY WaitingCount DEF TypeInv, TypeOK
  <2>3. Cardinality(waiting') = Cardinality(waiting) - 1
    BY <2>1, <2>2, FS_RemoveElement
  <2>4. semJob \in Nat
    BY DEF TypeInv, TypeOK
  <2>5. NoJobForgotten'
    BY <1>1, <2>2, <2>3, <2>4 DEF ForgottenInv, NoJobForgotten, One
  <2> QED
    BY <1>2, <2>5 DEF ForgottenInv
<1>4. CASE ~TakeJob(w)
  <2>1. UNCHANGED waiting
    BY <1>4 DEF WorkerStep, Begin, Poll, Wake, EndJob, EraseDoing, CheckShrink, PushSub,
       Leave, PostComplete, Count, LastOne
  <2>2. InHand => InHand'
    BY <1>1, <1>4 DEF WorkerStep, Begin, Poll, Taken, Wake, EndJob, EraseDoing,
       CheckShrink, PushSub, Leave, AfterLeaving, PostComplete, Count, LastOne, Goto,
       InHand, InFlight, At, TypeInv, TypeOK
  <2>3. NoJobForgotten'
    BY <1>1, <2>1, <2>2, UnitsKept DEF ForgottenInv
  <2> QED
    BY <1>2, <2>3 DEF ForgottenInv
<1> QED
  BY <1>3, <1>4

\* W takes a unit when no dispatch is under way, and has the dispatch in hand from
\* then until a thread has it (46-51).
LEMMA ForgottenDispatch ==
  ASSUME DispatchInv, ForgottenInv, DispatchStep
  PROVE  ForgottenInv'
<1> TypeInv
  BY DEF DispatchInv
<1>1. UNCHANGED <<stopEv, opc, call, exitW, waiting>>
  BY DEF DispatchStep, WWait, WCheck, WSignal, WGot
<1>2. StoppedForGood'
  BY <1>1, ForGoodKept DEF ForgottenInv
<1>3. CASE WWait
  <2>1. ~stopEv => ~InHand
    BY <1>3 DEF WWait, InHand, DispatchInv, Token, ForgottenInv, StoppedForGood
  <2>2. semJob' = semJob - 1 /\ pcW' = "check" /\ semJob \in Nat
    BY <1>3 DEF WWait, TypeInv, TypeOK
  <2>3. Cardinality(waiting) \in Nat
    BY WaitingCount DEF TypeInv, TypeOK
  <2>4. NoJobForgotten'
    BY <1>1, <2>1, <2>2, <2>3 DEF ForgottenInv, NoJobForgotten, InHand, One
  <2> QED
    BY <1>2, <2>4 DEF ForgottenInv
<1>4. CASE stopEv
  BY <1>1, <1>2, <1>4 DEF ForgottenInv, NoJobForgotten
<1>5. CASE ~stopEv /\ ~WWait
  <2>1. UNCHANGED semJob /\ (InHand => InHand')
    BY <1>5 DEF DispatchStep, WCheck, WSignal, WGot, SetAutoReset, Parked, Goto, InHand,
       InFlight, At, ForgottenInv, StoppedForGood, TypeInv, TypeOK
  <2>2. NoJobForgotten'
    BY <1>1, <2>1, UnitsKept DEF ForgottenInv
  <2> QED
    BY <1>2, <2>2 DEF ForgottenInv
<1> QED
  BY <1>3, <1>4, <1>5

\* A submission brings a job and a unit (372, 376).
LEMMA ForgottenClient ==
  ASSUME TypeInv, ForgottenInv, NEW c \in Clients, SubmitIndex(c) \/ ClientStep(c)
  PROVE  ForgottenInv'
<1>1. UNCHANGED <<stopEv, opc, call, exitW, pcW, jobEv>>
  BY DEF ClientStep, SubmitIndex, SubmitInsert, SubmitGrow
<1>2. StoppedForGood'
  BY <1>1, ForGoodKept DEF ForgottenInv
<1>3. InFlight' = InFlight
  BY DEF ClientStep, SubmitIndex, SubmitInsert, SubmitGrow, AddJobThread, InFlight, At,
     TypeInv, TypeOK
<1>4. CASE SubmitInsert(c)
  <2>1. waiting' = waiting \cup {cjob[c]} /\ semJob' = semJob + 1 /\ semJob \in Nat
    BY <1>4 DEF SubmitInsert, PostJob, TypeInv, TypeOK
  <2>2. IsFiniteSet(waiting) /\ Cardinality(waiting) \in Nat
    BY WaitingCount DEF TypeInv, TypeOK
  <2>3. /\ Cardinality(waiting') \in Nat
        /\ Cardinality(waiting') <= Cardinality(waiting) + 1
    BY <2>1, <2>2, FS_AddElement
  <2>4. NoJobForgotten'
    BY <1>1, <1>3, <2>1, <2>2, <2>3 DEF ForgottenInv, NoJobForgotten, One
  <2> QED
    BY <1>2, <2>4 DEF ForgottenInv
<1>5. CASE ~SubmitInsert(c)
  <2>1. UNCHANGED <<waiting, semJob>>
    BY <1>5 DEF ClientStep, SubmitIndex, SubmitGrow
  <2>2. NoJobForgotten'
    BY <1>1, <1>3, <2>1, UnitsKept DEF ForgottenInv, InHand
  <2> QED
    BY <1>2, <2>2 DEF ForgottenInv
<1> QED
  BY <1>4, <1>5

\* S has nothing to do with jobs.
LEMMA ForgottenShrink ==
  ASSUME TypeInv, ForgottenInv, ShrinkStep
  PROVE  ForgottenInv'
<1>1. UNCHANGED <<stopEv, opc, call, exitW, pcW, jobEv, waiting, semJob>>
  BY DEF ShrinkStep, SWait, SPop, SSignal, SComplete, SJoin
<1>2. InFlight' = InFlight
  BY DEF ShrinkStep, SWait, SPop, SSignal, SComplete, SJoin, SetAutoReset, Parked, Goto,
     InFlight, At, TypeInv, TypeOK
<1>3. NoJobForgotten'
  BY <1>1, <1>2, UnitsKept DEF ForgottenInv, InHand
<1> QED
  BY <1>1, <1>3, ForGoodKept DEF ForgottenInv

\* The owner's operations: clearUndoWork leaves no job waiting, and once the
\* destructor stops the pool it is not started again.
LEMMA ForgottenOwner ==
  ASSUME OnlyDestructorStops, TypeInv, ShrinkInv, ForgottenInv,
         \/ \E p \in StartParams : Start(p)
         \/ \E op \in Api : Call(op)
         \/ OwnerStep
  PROVE  ForgottenInv'
<1>1. CASE \E p \in StartParams : Start(p)
  <2>1. /\ opc = "idle" /\ stopEv' = FALSE
        /\ UNCHANGED <<opc, call, exitW, pcW, jobEv, waiting, semJob>>
    BY <1>1 DEF Start
  <2>2. stopEv = FALSE /\ ~exitW
    BY <2>1 DEF ForgottenInv, StoppedForGood, TypeInv, TypeOK
  <2>3. InFlight' = InFlight
    BY <1>1 DEF Start, AddJobThread, InFlight, At, TypeInv, TypeOK
  <2>4. NoJobForgotten'
    BY <2>1, <2>2, <2>3, UnitsKept DEF ForgottenInv, InHand
  <2>5. StoppedForGood'
    BY <2>1, <2>2 DEF ForgottenInv, StoppedForGood
  <2> QED
    BY <2>4, <2>5 DEF ForgottenInv
<1>2. CASE \E op \in Api : Call(op)
  <2>1. PICK op \in Api : Call(op)
    BY <1>2
  <2>2. /\ opc = "idle" /\ call' = op /\ opc' = FirstOwnerPc(op)
        /\ UNCHANGED <<stopEv, exitW, pcW, jobEv, waiting, semJob, wpc>>
    BY <2>1 DEF Call
  <2>3. ~stopEv /\ op \in {"clear", "delete"}
    BY <2>1, <2>2, ApiAssumption
       DEF Call, ApiCalls, OnlyDestructorStops, ForgottenInv, StoppedForGood
  <2>4. StoppedForGood'
    BY <2>2, <2>3 DEF FirstOwnerPc, ForgottenInv, StoppedForGood
  <2>5. NoJobForgotten'
    BY <2>2, UnitsKept DEF ForgottenInv, InHand, InFlight, At
  <2> QED
    BY <2>4, <2>5 DEF ForgottenInv
<1>3. CASE OwnerStep
  <2>1. StoppedForGood'
    <3>1. call = "delete" => call' = "delete" /\ opc' # "idle"
      BY <1>3 DEF OwnerStep, SetStop, NotifyStop, StopReturns, AfterStop, WaitReturns,
         ClearUndoWork, ExitW, JoinW, ExitS, JoinS
    <3>2. call' = "delete" => call = "delete"
      BY <1>3 DEF OwnerStep, SetStop, NotifyStop, StopReturns, WaitReturns,
         ClearUndoWork, ExitW, JoinW, ExitS, JoinS
    <3>3. /\ stopEv => stopEv'
          /\ stopEv' => stopEv \/ opc = "setStop"
          /\ opc' \in {"setStop", "notify"} => opc \in {"setStop", "notify"}
      BY <1>3 DEF OwnerStep, SetStop, NotifyStop, StopReturns, AfterStop, WaitReturns,
         ClearUndoWork, ExitW, JoinW, ExitS, JoinS
    <3>4. exitW' => exitW \/ stopEv
      BY <1>3 DEF OwnerStep, SetStop, NotifyStop, StopReturns, WaitReturns,
         ClearUndoWork, ExitW, JoinW, ExitS, JoinS, ShrinkInv, Closing, ClosingPcs
    <3> QED
      BY <3>1, <3>2, <3>3, <3>4 DEF ForgottenInv, StoppedForGood
  <2>2. CASE ClearUndoWork
    <3>1. waiting' = {} /\ semJob' \in Nat
      BY <1>3, <2>2, TypeOwner DEF ClearUndoWork, TypeInv, TypeOK
    <3>2. NoJobForgotten'
      BY <3>1, FS_EmptySet DEF NoJobForgotten, One
    <3> QED
      BY <2>1, <3>2 DEF ForgottenInv
  <2>3. CASE ~ClearUndoWork
    <3>1. stopEv' \/ UNCHANGED <<stopEv, pcW, jobEv, waiting, semJob, wpc>>
      BY <1>3, <2>3 DEF OwnerStep, SetStop, NotifyStop, StopReturns, WaitReturns, ExitW,
         JoinW, ExitS, JoinS, ShrinkInv, Closing, ClosingPcs
    <3>2. NoJobForgotten'
      BY <3>1, UnitsKept DEF ForgottenInv, NoJobForgotten, InHand, InFlight, At
    <3> QED
      BY <2>1, <3>2 DEF ForgottenInv
  <2> QED
    BY <2>2, <2>3
<1> QED
  BY <1>1, <1>2, <1>3

\* If nobody but the destructor stops the pool, no waiting job is forgotten before it:
\* each has a unit of the semaphore, or is the one whose dispatch is under way.
THEOREM NoneForgotten == OnlyDestructorStops => (Spec => []NoJobForgotten)
<1> SUFFICES ASSUME OnlyDestructorStops PROVE Spec => []NoJobForgotten
  OBVIOUS
<1>1. AccountInv /\ ShrinkInv /\ DispatchInv /\ ForgottenInv /\ [Next]_vars
        => ForgottenInv'
  <2> SUFFICES ASSUME AccountInv, ShrinkInv, DispatchInv, ForgottenInv, [Next]_vars
               PROVE  ForgottenInv'
    OBVIOUS
  <2> TypeInv
    BY DEF AccountInv
  <2>1. CASE UNCHANGED vars
    BY <2>1 DEF vars, ForgottenInv, StoppedForGood, NoJobForgotten, InFlight, At
  <2> QED
    BY <2>1, ForgottenWorker, ForgottenDispatch, ForgottenClient, ForgottenShrink,
       ForgottenOwner DEF Next, Destroyed
<1>2. ForgottenInv => NoJobForgotten
  BY DEF ForgottenInv
<1> QED
  BY ForgottenInit, <1>1, <1>2, ShrinkCorrect, DispatchCorrect, PTL DEF Spec

-----------------------------------------------------------------------------
(* map_doing_hobs_.  An entry is made by the thread that takes a job and    *)
(* erased by the same thread, by the id of the job.  A job has an id once    *)
(* it waits; the ids of two jobs may be equal (360, 364), and then an entry  *)
(* may be missing, but never is there one too many.                         *)

IdsInv ==
  /\ \A j \in Jobs : jobStatus[j] \in {"new", "submitting"} <=> jobId[j] = 0
  /\ \A c \in Clients : cpc[c] = "insert" => jobIndex >= 1

\* each thread at work has a job of its own
OwnJob ==
  /\ \A w \in Busy : wjob[w] \in Jobs /\ jobStatus[wjob[w]] \in {"running", "ended"}
  /\ \A v, w \in Busy : wjob[v] = wjob[w] => v = w

Entries == {<<jobId[wjob[w]], wjob[w]>> : w \in Busy}

MapInv ==
  /\ doing \subseteq Entries
  /\ UniqueIds => doing = Entries

DoingInv == IdsInv /\ OwnJob /\ MapInv

\* A new pool has an empty map.
LEMMA DoingInit == Init => DoingInv
<1> SUFFICES ASSUME Init PROVE DoingInv
  OBVIOUS
<1>1. Busy = {}
  BY DEF Init, Busy, At
<1>2. Entries = {} /\ doing = {}
  BY <1>1 DEF Init, Entries
<1> QED
  BY <1>1, <1>2 DEF Init, DoingInv, IdsInv, OwnJob, MapInv

\* Steps that touch neither jobs nor threads at work leave the map right.
LEMMA DoingKept ==
  ASSUME DoingInv, UNCHANGED <<doing, jobId, jobStatus, wjob>>, Busy' = Busy,
         \A c \in Clients : cpc'[c] = "insert" => jobIndex' >= 1
  PROVE  DoingInv'
  BY DEF DoingInv, IdsInv, OwnJob, MapInv, Entries, UniqueIds

\* Taking a job enters it under its id, which no entry has if ids are unique (545).
LEMMA DoingTake ==
  ASSUME DispatchInv, DoingInv, NEW w \in Workers, TakeJob(w)
  PROVE  DoingInv'
<1>1. PICK j \in waiting :
        /\ doing' = InsertDoing(jobId[j], j)
        /\ jobStatus' = [jobStatus EXCEPT ![j] = "running"]
        /\ wjob' = [wjob EXCEPT ![w] = j]
  BY DEF TakeJob
<1>2. /\ j \in Jobs /\ jobStatus[j] = "waiting" /\ jobStatus \in [Jobs -> JobStates]
      /\ wjob \in [Workers -> Jobs \cup {NoJob}]
  BY DEF DispatchInv, JobsInHand, TypeInv, TypeOK
<1>3. Busy' = Busy \cup {w} /\ w \notin Busy /\ Busy \subseteq Workers
  BY DEF TakeJob, Busy, At, Goto, DispatchInv, TypeInv, TypeOK
<1>4. UNCHANGED <<jobId, jobIndex, cpc>>
  BY DEF TakeJob
<1>5. \A v \in Busy : wjob'[v] = wjob[v] /\ wjob[v] \in Jobs /\ wjob[v] # j
  BY <1>1, <1>2, <1>3 DEF DoingInv, OwnJob
<1>6. wjob'[w] = j
  BY <1>1, <1>2
<1>7. IdsInv'
  BY <1>1, <1>2, <1>4 DEF DoingInv, IdsInv
<1>8. OwnJob'
  BY <1>1, <1>2, <1>3, <1>5, <1>6 DEF DoingInv, OwnJob
<1>9. Entries' = Entries \cup {<<jobId[j], j>>}
  BY <1>3, <1>4, <1>5, <1>6 DEF Entries
<1>10. UniqueIds => \A e \in doing : e[1] # jobId[j]
  <2> SUFFICES ASSUME UniqueIds, NEW e \in doing PROVE e[1] # jobId[j]
    OBVIOUS
  <2>1. PICK v \in Busy : e = <<jobId[wjob[v]], wjob[v]>>
    BY DEF DoingInv, MapInv, Entries
  <2>2. jobId[j] # 0
    BY <1>2 DEF DoingInv, IdsInv
  <2> QED
    BY <1>2, <1>5, <2>1, <2>2 DEF UniqueIds
<1>11. MapInv'
  BY <1>1, <1>4, <1>9, <1>10 DEF DoingInv, MapInv, InsertDoing, UniqueIds
<1> QED
  BY <1>7, <1>8, <1>11 DEF DoingInv

\* A job that ends stays the job of its thread, and in the map.
LEMMA DoingEnd ==
  ASSUME DispatchInv, DoingInv, NEW w \in Workers, EndJob(w)
  PROVE  DoingInv'
<1>1. /\ jobStatus' = [jobStatus EXCEPT ![wjob[w]] = "ended"]
      /\ UNCHANGED <<doing, jobId, jobIndex, wjob, cpc>>
  BY DEF EndJob
<1>2. w \in Busy /\ Busy' = Busy
  BY DEF EndJob, Busy, At, Goto, DispatchInv, TypeInv, TypeOK
<1>3. wjob[w] \in Jobs /\ jobStatus \in [Jobs -> JobStates]
      /\ jobStatus[wjob[w]] \in {"running", "ended"}
  BY <1>2 DEF DoingInv, OwnJob, DispatchInv, TypeInv, TypeOK
<1>4. IdsInv'
  BY <1>1, <1>3 DEF DoingInv, IdsInv
<1>5. OwnJob'
  BY <1>1, <1>2, <1>3 DEF DoingInv, OwnJob
<1>6. MapInv'
  BY <1>1, <1>2 DEF DoingInv, MapInv, Entries, UniqueIds
<1> QED
  BY <1>4, <1>5, <1>6 DEF DoingInv

\* Erasing by id takes away the entry of the thread's job and, if ids are unique,
\* no other (592-596).
LEMMA DoingErase ==
  ASSUME DispatchInv, DoingInv, NEW w \in Workers, EraseDoing(w)
  PROVE  DoingInv'
<1>1. /\ doing' = DoingWithout(jobId[wjob[w]])
      /\ wjob' = [wjob EXCEPT ![w] = NoJob]
      /\ UNCHANGED <<jobId, jobIndex, jobStatus, cpc>>
  BY DEF EraseDoing
<1>2. w \in Busy /\ Busy' = Busy \ {w} /\ Busy \subseteq Workers
  BY DEF EraseDoing, Busy, At, Goto, DispatchInv, TypeInv, TypeOK
<1>3. \A v \in Busy' : wjob'[v] = wjob[v]
  BY <1>1, <1>2 DEF DispatchInv, TypeInv, TypeOK
<1>4. IdsInv'
  BY <1>1 DEF DoingInv, IdsInv
<1>5. OwnJob'
  BY <1>1, <1>2, <1>3 DEF DoingInv, OwnJob
<1>6. Entries' = {<<jobId[wjob[v]], wjob[v]>> : v \in Busy \ {w}}
  BY <1>1, <1>2, <1>3 DEF Entries
<1>7. doing' \subseteq Entries'
  <2> SUFFICES ASSUME NEW e \in doing, e[1] # jobId[wjob[w]] PROVE e \in Entries'
    BY <1>1 DEF DoingWithout
  <2>1. PICK v \in Busy : e = <<jobId[wjob[v]], wjob[v]>>
    BY DEF DoingInv, MapInv, Entries
  <2> QED
    BY <1>6, <2>1
<1>8. UniqueIds' => Entries' \subseteq doing'
  <2> SUFFICES ASSUME UniqueIds, NEW v \in Busy \ {w}
               PROVE  <<jobId[wjob[v]], wjob[v]>> \in doing'
    BY <1>1, <1>6 DEF UniqueIds
  <2>1. <<jobId[wjob[v]], wjob[v]>> \in doing
    BY DEF DoingInv, MapInv, Entries
  <2>2. /\ wjob[v] \in Jobs /\ wjob[w] \in Jobs /\ wjob[v] # wjob[w]
        /\ jobStatus[wjob[v]] \in {"running", "ended"}
    BY <1>2 DEF DoingInv, OwnJob
  <2>3. jobId[wjob[v]] # 0
    BY <2>2 DEF DoingInv, IdsInv
  <2>4. jobId[wjob[v]] # jobId[wjob[w]]
    BY <2>2, <2>3 DEF UniqueIds
  <2> QED
    BY <1>1, <2>1, <2>4 DEF DoingWithout
<1> QED
  BY <1>4, <1>5, <1>7, <1>8 DEF DoingInv, MapInv

\* A job that gets its id is not at work, and had none before: ids that are unique
\* afterwards were unique before (360-364).
LEMMA DoingInsert ==
  ASSUME DispatchInv, DoingInv, NEW c \in Clients, SubmitInsert(c)
  PROVE  DoingInv'
<1> DEFINE j == cjob[c]
<1>1. /\ jobId' = [jobId EXCEPT ![j] = jobIndex]
      /\ jobStatus' = [jobStatus EXCEPT ![j] = "waiting"]
      /\ cpc[c] = "insert" /\ cpc' = [cpc EXCEPT ![c] = "grow"]
      /\ UNCHANGED <<doing, jobIndex, wpc, wjob>>
  BY DEF SubmitInsert, AssignedId
<1>2. /\ j \in Jobs /\ jobStatus[j] = "submitting"
      /\ jobStatus \in [Jobs -> JobStates] /\ jobId \in [Jobs -> Nat]
  BY <1>1 DEF DispatchInv, JobsInHand, TypeInv, TypeOK
<1>3. jobIndex >= 1 /\ jobIndex \in Nat /\ jobId[j] = 0
  BY <1>1, <1>2 DEF DoingInv, IdsInv, DispatchInv, TypeInv, TypeOK
<1>4. Busy' = Busy
  BY <1>1 DEF Busy, At
<1>5. \A w \in Busy : wjob[w] \in Jobs /\ wjob[w] # j
  BY <1>2 DEF DoingInv, OwnJob
<1>6. IdsInv'
  <2>1. \A i \in Jobs : jobStatus'[i] \in {"new", "submitting"} <=> jobId'[i] = 0
    BY <1>1, <1>2, <1>3 DEF DoingInv, IdsInv
  <2>2. \A d \in Clients : cpc'[d] = "insert" => cpc[d] = "insert"
    BY <1>1 DEF DispatchInv, TypeInv, TypeOK
  <2> QED
    BY <1>1, <2>1, <2>2 DEF DoingInv, IdsInv
<1>7. OwnJob'
  BY <1>1, <1>2, <1>4, <1>5 DEF DoingInv, OwnJob
<1>8. Entries' = Entries
  BY <1>1, <1>2, <1>4, <1>5 DEF Entries
<1>9. UniqueIds' => UniqueIds
  BY <1>1, <1>2, <1>3 DEF UniqueIds
<1>10. MapInv'
  BY <1>1, <1>8, <1>9 DEF DoingInv, MapInv
<1> QED
  BY <1>6, <1>7, <1>10 DEF DoingInv

\* A submission that begins, and one that ends.
LEMMA DoingSubmit ==
  ASSUME DispatchInv, DoingInv, NEW c \in Clients, SubmitIndex(c) \/ SubmitGrow(c)
  PROVE  DoingInv'
<1>1. CASE SubmitIndex(c)
  <2>1. PICK j \in Jobs : /\ jobStatus[j] = "new"
                          /\ jobStatus' = [jobStatus EXCEPT ![j] = "submitting"]
    BY <1>1 DEF SubmitIndex
  <2>2. jobIndex' = jobIndex + 1 /\ UNCHANGED <<doing, jobId, wpc, wjob>>
    BY <1>1 DEF SubmitIndex
  <2>3. jobStatus \in [Jobs -> JobStates] /\ jobIndex \in Nat
    BY DEF DispatchInv, TypeInv, TypeOK
  <2>4. Busy' = Busy
    BY <2>2 DEF Busy, At
  <2>5. IdsInv'
    BY <2>1, <2>2, <2>3 DEF DoingInv, IdsInv
  <2>6. OwnJob'
    BY <2>1, <2>2, <2>3, <2>4 DEF DoingInv, OwnJob
  <2>7. MapInv'
    BY <2>2, <2>4 DEF DoingInv, MapInv, Entries, UniqueIds
  <2> QED
    BY <2>5, <2>6, <2>7 DEF DoingInv
<1>2. CASE SubmitGrow(c)
  <2>1. UNCHANGED <<doing, jobId, jobStatus, wjob, jobIndex>>
    BY <1>2 DEF SubmitGrow
  <2>2. Busy' = Busy
    BY <1>2 DEF SubmitGrow, AddJobThread, Busy, At, DispatchInv, TypeInv, TypeOK
  <2>3. \A d \in Clients : cpc'[d] = "insert" => cpc[d] = "insert"
    BY <1>2 DEF SubmitGrow, DispatchInv, TypeInv, TypeOK
  <2> QED
    BY <2>1, <2>2, <2>3, DoingKept DEF DoingInv, IdsInv
<1> QED
  BY <1>1, <1>2

\* The jobs clearUndoWork cancels are not at work (323-345).
LEMMA DoingClear ==
  ASSUME DispatchInv, DoingInv, ClearUndoWork
  PROVE  DoingInv'
<1>1. /\ jobStatus' = [j \in Jobs |->
                         IF j \in waiting THEN "cancelled" ELSE jobStatus[j]]
      /\ UNCHANGED <<doing, jobId, jobIndex, wpc, wjob, cpc>>
  BY DEF ClearUndoWork
<1>2. \A j \in waiting : jobStatus[j] = "waiting"
  BY DEF DispatchInv, JobsInHand
<1>3. Busy' = Busy
  BY <1>1 DEF Busy, At
<1>4. IdsInv'
  BY <1>1, <1>2 DEF DoingInv, IdsInv
<1>5. OwnJob'
  BY <1>1, <1>2, <1>3 DEF DoingInv, OwnJob
<1>6. MapInv'
  BY <1>1, <1>3 DEF DoingInv, MapInv, Entries, UniqueIds
<1> QED
  BY <1>4, <1>5, <1>6 DEF DoingInv

\* The other steps of job threads keep the map and the threads at work.
LEMMA DoingWorker ==
  ASSUME DispatchInv, DoingInv, NEW w \in Workers, WorkerStep(w)
  PROVE  DoingInv'
<1>1. CASE TakeJob(w) \/ EndJob(w) \/ EraseDoing(w)
  BY <1>1, DoingTake, DoingEnd, DoingErase
<1>2. CASE \/ Begin(w) \/ Poll(w) \/ Wake(w) \/ CheckShrink(w) \/ PushSub(w)
           \/ Leave(w) \/ PostComplete(w) \/ Count(w) \/ LastOne(w)
  <2>1. UNCHANGED <<doing, jobId, jobStatus, wjob, cpc, jobIndex>>
    BY <1>2 DEF Begin, Poll, Wake, CheckShrink, PushSub, Leave, PostComplete, Count,
       LastOne
  <2>2. Busy' = Busy
    BY <1>2 DEF Begin, Poll, Wake, CheckShrink, PushSub, Leave, AfterLeaving,
       PostComplete, Count, LastOne, Busy, At, Goto, DispatchInv, TypeInv, TypeOK
  <2> QED
    BY <2>1, <2>2, DoingKept DEF DoingInv, IdsInv
<1> QED
  BY <1>1, <1>2 DEF WorkerStep

\* Steps of W, S and the owner, but for clearUndoWork, keep both.
LEMMA DoingOther ==
  ASSUME DispatchInv, DoingInv,
         \/ DispatchStep
         \/ ShrinkStep
         \/ \E p \in StartParams : Start(p)
         \/ \E op \in Api : Call(op)
         \/ OwnerStep
         \/ UNCHANGED vars
  PROVE  DoingInv'
<1>1. CASE ClearUndoWork
  BY <1>1, DoingClear
<1>2. CASE ~ClearUndoWork
  <2>1. UNCHANGED <<doing, jobId, jobStatus, wjob, cpc, jobIndex>>
    BY <1>2 DEF DispatchStep, WWait, WCheck, WSignal, WGot, ShrinkStep, SWait, SPop,
       SSignal, SComplete, SJoin, Start, Call, OwnerStep, SetStop, NotifyStop,
       StopReturns, WaitReturns, ExitW, JoinW, ExitS, JoinS, vars
  <2>2. Busy' = Busy
    BY <1>2 DEF DispatchStep, WWait, WCheck, WSignal, WGot, ShrinkStep, SWait, SPop,
       SSignal, SComplete, SJoin, Start, Call, OwnerStep, SetStop, NotifyStop,
       StopReturns, WaitReturns, ExitW, JoinW, ExitS, JoinS, vars, SetAutoReset,
       AddJobThread, Parked, ParkedPcs, Busy, At, Goto, DispatchInv, TypeInv, TypeOK
  <2> QED
    BY <2>1, <2>2, DoingKept DEF DoingInv, IdsInv
<1> QED
  BY <1>1, <1>2

\* The inductive invariant of the map holds.
THEOREM DoingCorrect == Spec => []DoingInv
<1>1. DispatchInv /\ DoingInv /\ [Next]_vars => DoingInv'
  BY DoingWorker, DoingOther, DoingInsert, DoingSubmit DEF Next, Destroyed, ClientStep
<1> QED
  BY DoingInit, <1>1, DispatchCorrect, PTL DEF Spec

\* There are as many entries for threads at work as there are such threads.
LEMMA EntriesCount ==
  ASSUME OwnJob
  PROVE  Cardinality(Entries) = Cardinality(Busy)
<1> DEFINE f == [w \in Busy |-> <<jobId[wjob[w]], wjob[w]>>]
<1>1. f \in [Busy -> Entries]
  BY DEF Entries
<1>2. f \in Injection(Busy, Entries)
  <2>1. \A v, w \in Busy : f[v] = f[w] => v = w
    BY DEF OwnJob
  <2> HIDE DEF f
  <2> QED
    BY <1>1, <2>1 DEF Injection, IsInjective
<1>3. f \in Surjection(Busy, Entries)
  <2>1. \A e \in Entries : \E w \in Busy : f[w] = e
    BY DEF Entries
  <2> HIDE DEF f
  <2> QED
    BY <1>1, <2>1 DEF Surjection
<1>4. IsFiniteSet(Busy)
  BY CountInt DEF Busy, At
<1>5. ExistsBijection(Busy, Entries)
  BY <1>2, <1>3 DEF ExistsBijection, Bijection
<1> QED
  BY <1>4, <1>5, FS_Bijection

\* While no two submissions have been given one id, the map holds exactly the jobs
\* of the threads at work, one entry for each thread (545, 592-596).
THEOREM DoingHolds == Spec => []DoingTracksThreads
<1>1. DoingInv => DoingTracksThreads
  BY EntriesCount DEF DoingInv, MapInv, Entries, DoingTracksThreads
<1> QED
  BY <1>1, DoingCorrect, PTL

-----------------------------------------------------------------------------
(* A pool that is started first, with two equal limits.  It never has a     *)
(* surplus thread, so no thread is asked to leave and S does nothing but    *)
(* wait and, in the end, exit: the circle of locks through line 614 cannot  *)
(* close.                                                                   *)

FixedLimits == StartsFirst /\ \A p \in StartParams : p[1] = p[2]

\* before start there is no thread and no client, after it no room for a surplus
FullPool ==
  /\ starts = 0 => \A w \in Workers : wpc[w] = "unborn"
  /\ starts = 0 => \A c \in Clients : cpc[c] = "idle"
  /\ starts > 0 => minThreads = maxThreads

\* no request to give up a thread is made, and S only ever pops its exit
NoRequest ==
  /\ At({"pushSub", "firedSub", "gotSub", "postComplete"}) = {}
  /\ ~subEv /\ pcS \notin {"signal", "waitComplete", "join"}
  /\ \A i \in 1..Len(subQueue) : subQueue[i] = 0

FixedInv == FullPool /\ NoRequest

\* A new pool has no thread and no request.
LEMMA FixedInit == Init => FixedInv
<1> SUFFICES ASSUME Init PROVE FixedInv
  OBVIOUS
<1>1. At({"pushSub", "firedSub", "gotSub", "postComplete"}) = {}
  BY DEF Init, At
<1> QED
  BY <1>1 DEF Init, FixedInv, FullPool, NoRequest

\* A full pool has no surplus thread (608): the count never passes the maximum,
\* which is the minimum.
LEMMA NoSurplus ==
  ASSUME AccountInv, FullPool, NEW w \in Workers, wpc[w] # "unborn"
  PROVE  starts > 0 /\ ~NeedSubtractThread
<1>1. starts > 0 /\ minThreads = maxThreads
  BY DEF FullPool, AccountInv, TypeInv, TypeOK
<1>2. lastRunning <= maxThreads /\ lastRunning \in Int /\ maxThreads \in Nat
  BY DEF AccountInv, ThreadAccounting, TypeInv, TypeOK
<1> QED
  BY <1>1, <1>2 DEF NeedSubtractThread

EndingPcs == {"gotStop", "count", "lastOne", "done"}

\* Where a step of a job thread takes it in a full pool: it begins to end only when
\* it sees the stop event.
LEMMA FixedMove ==
  ASSUME AccountInv, FixedInv, NEW w \in Workers, WorkerStep(w)
  PROVE  /\ wpc' = [wpc EXCEPT ![w] = wpc'[w]]
         /\ wpc[w] \notin {"unborn", "done"}
         /\ wpc'[w] \notin {"unborn", "spawned", "pushSub", "firedSub", "gotSub",
                            "postComplete"}
         /\ wpc'[w] \in EndingPcs => stopEv \/ wpc[w] \in EndingPcs
         /\ wpc'[w] \in CountedPcs => wpc[w] \in CountedPcs \cup {"spawned"}
<1> wpc \in [Workers -> WorkerPcs]
  BY DEF AccountInv, TypeInv, TypeOK
<1>1. wpc[w] \notin {"pushSub", "firedSub", "gotSub", "postComplete"} /\ ~subEv
  BY DEF FixedInv, NoRequest, At
<1> USE DEF Goto, CountedPcs, LivePcs, ParkedPcs, EndingPcs
<1>2. CASE CheckShrink(w)
  <2>1. wpc' = [wpc EXCEPT ![w] = "getJob"] /\ wpc[w] = "shrink"
    BY <1>2, NoSurplus DEF CheckShrink, FixedInv
  <2> QED
    BY <2>1
<1>3. CASE Poll(w) \/ Wake(w)
  BY <1>1, <1>3 DEF Poll, Wake
<1>4. CASE Leave(w)
  BY <1>1, <1>4 DEF Leave, AfterLeaving
<1>5. CASE Begin(w) \/ TakeJob(w) \/ EndJob(w) \/ EraseDoing(w)
  BY <1>5 DEF Begin, TakeJob, EndJob, EraseDoing
<1>6. CASE Count(w) \/ LastOne(w)
  BY <1>6 DEF Count, LastOne
<1> QED
  BY <1>1, <1>2, <1>3, <1>4, <1>5, <1>6 DEF WorkerStep, PushSub, PostComplete

\* A step of a job thread makes no request (600-628).
LEMMA FixedWorker ==
  ASSUME AccountInv, FixedInv, NEW w \in Workers, WorkerStep(w)
  PROVE  FixedInv' /\ UNCHANGED <<pcS, subQueue>>
<1>1. UNCHANGED <<starts, minThreads, maxThreads, cpc>> /\ (subEv' => subEv)
  BY DEF WorkerStep, Begin, Poll, Taken, Wake, TakeJob, EndJob, EraseDoing, CheckShrink,
     PushSub, Leave, PostComplete, Count, LastOne
<1>2. UNCHANGED <<pcS, subQueue>>
  BY DEF WorkerStep, Begin, Poll, Wake, TakeJob, EndJob, EraseDoing, CheckShrink,
     PushSub, Leave, PostComplete, Count, LastOne, FixedInv, NoRequest, At
<1>3. FullPool'
  BY <1>1, FixedMove, NoSurplus DEF FixedInv, FullPool
<1>4. NoRequest'
  BY <1>1, <1>2, FixedMove DEF FixedInv, NoRequest, At, AccountInv, TypeInv, TypeOK
<1> QED
  BY <1>2, <1>3, <1>4 DEF FixedInv

\* S finds nothing in its queue but the destructor's 0 (73-82).
LEMMA FixedShrink ==
  ASSUME TypeInv, FixedInv, ShrinkStep
  PROVE  /\ FixedInv'
         /\ UNCHANGED <<wpc, subEv>>
         /\ SPop => pcS' = "exitJoin" /\ subQueue[1] = 0 /\ Len(subQueue) >= 1
<1>1. UNCHANGED <<starts, minThreads, maxThreads, cpc>>
  BY DEF ShrinkStep, SWait, SPop, SSignal, SComplete, SJoin
<1>2. UNCHANGED <<wpc, subEv>>
  BY DEF ShrinkStep, SWait, SPop, SSignal, SComplete, SJoin, FixedInv, NoRequest
<1>3. subQueue \in Seq(Int)
  BY DEF TypeInv, TypeOK
<1>4. ASSUME SPop
      PROVE  /\ pcS' = "exitJoin" /\ subQueue[1] = 0 /\ Len(subQueue) >= 1
             /\ \A i \in 1..Len(Tail(subQueue)) : Tail(subQueue)[i] = 0
  <2>1. subQueue # <<>> /\ Len(subQueue) \in Nat /\ Len(subQueue) >= 1
    BY <1>3, <1>4 DEF SPop
  <2>2. Head(subQueue) = subQueue[1] /\ subQueue[1] = 0
    BY <1>3, <2>1 DEF FixedInv, NoRequest
  <2>3. \A i \in 1..Len(Tail(subQueue)) : Tail(subQueue)[i] = subQueue[i + 1]
                                          /\ i + 1 \in 1..Len(subQueue)
    BY <1>3, <2>1
  <2> QED
    BY <1>4, <2>1, <2>2, <2>3 DEF SPop, FixedInv, NoRequest
<1>5. pcS' \notin {"signal", "waitComplete", "join"}
  BY <1>4 DEF ShrinkStep, SWait, SPop, SSignal, SComplete, SJoin, FixedInv, NoRequest
<1>6. \A i \in 1..Len(subQueue') : subQueue'[i] = 0
  BY <1>4 DEF ShrinkStep, SWait, SPop, SSignal, SComplete, SJoin, FixedInv, NoRequest
<1> QED
  BY <1>1, <1>2, <1>4, <1>5, <1>6 DEF FixedInv, FullPool, NoRequest, At

\* W, clients and the owner make no request; start makes the limits equal, and the
\* destructor's 0 is the one thing pushed.
LEMMA FixedOther ==
  ASSUME FixedLimits, TypeInv, FixedInv,
         \/ DispatchStep
         \/ \E c \in Clients : SubmitIndex(c) \/ ClientStep(c)
         \/ \E p \in StartParams : Start(p)
         \/ \E op \in Api : Call(op)
         \/ OwnerStep
         \/ UNCHANGED vars
  PROVE  FixedInv'
<1>1. UNCHANGED <<subEv, pcS>>
  BY DEF DispatchStep, WWait, WCheck, WSignal, WGot, ClientStep, SubmitIndex,
     SubmitInsert, SubmitGrow, Start, Call, OwnerStep, SetStop, NotifyStop, StopReturns,
     WaitReturns, ClearUndoWork, ExitW, JoinW, ExitS, JoinS, vars
<1>2. \A v \in Workers :
        wpc'[v] # wpc[v] => \/ wpc[v] = "unborn" /\ wpc'[v] = "spawned" /\ starts' > 0
                            \/ wpc[v] \in ParkedPcs /\ wpc'[v] \in {"firedJob", "gotStop"}
  BY DEF DispatchStep, WWait, WCheck, WSignal, WGot, ClientStep, SubmitIndex,
     SubmitInsert, SubmitGrow, Start, Call, OwnerStep, SetStop, NotifyStop, StopReturns,
     WaitReturns, ClearUndoWork, ExitW, JoinW, ExitS, JoinS, vars, SetAutoReset,
     AddJobThread, Parked, ParkedPcs, At, Goto, FixedInv, FullPool, TypeInv, TypeOK
<1>3. subQueue \in Seq(Int) /\ starts \in Nat
  BY DEF TypeInv, TypeOK
<1>4. \A i \in 1..Len(subQueue') : subQueue'[i] = 0
  BY <1>3 DEF DispatchStep, WWait, WCheck, WSignal, WGot, ClientStep, SubmitIndex,
     SubmitInsert, SubmitGrow, Start, Call, OwnerStep, SetStop, NotifyStop, StopReturns,
     WaitReturns, ClearUndoWork, ExitW, JoinW, ExitS, JoinS, vars, FixedInv, NoRequest
<1>5. NoRequest'
  BY <1>1, <1>2, <1>4 DEF FixedInv, NoRequest, At, ParkedPcs
<1>6. FullPool'
  <2>1. CASE \E p \in StartParams : Start(p)
    BY <1>3, <2>1 DEF Start, FixedLimits, FullPool
  <2>2. CASE ~\E p \in StartParams : Start(p)
    <3>1. UNCHANGED <<starts, minThreads, maxThreads>>
      BY <2>2 DEF DispatchStep, WWait, WCheck, WSignal, WGot, ClientStep, SubmitIndex,
         SubmitInsert, SubmitGrow, Call, OwnerStep, SetStop, NotifyStop, StopReturns,
         WaitReturns, ClearUndoWork, ExitW, JoinW, ExitS, JoinS, vars
    <3>2. starts = 0 => UNCHANGED cpc
      BY <2>2 DEF DispatchStep, WWait, WCheck, WSignal, WGot, ClientStep, SubmitIndex,
         SubmitInsert, SubmitGrow, Call, OwnerStep, SetStop, NotifyStop, StopReturns,
         WaitReturns, ClearUndoWork, ExitW, JoinW, ExitS, JoinS, vars, FixedInv, FullPool,
         Open, FixedLimits
    <3> QED
      BY <1>2, <3>1, <3>2 DEF FixedInv, FullPool, ParkedPcs
  <2> QED
    BY <2>1, <2>2
<1> QED
  BY <1>5, <1>6 DEF FixedInv

\* The inductive invariant of a pool with equal limits holds.
THEOREM FixedCorrect == FixedLimits => (Spec => []FixedInv)
<1> SUFFICES ASSUME FixedLimits PROVE Spec => []FixedInv
  OBVIOUS
<1>1. AccountInv /\ FixedInv /\ [Next]_vars => FixedInv'
  BY FixedWorker, FixedShrink, FixedOther DEF AccountInv, Next, Destroyed
<1> QED
  BY FixedInit, <1>1, AccountCorrect, PTL DEF Spec

\* In a pool whose limits are equal S never waits with subtract_thread_lock_ in hand for
\* a thread to leave (105), and no thread waits for that lock with the pool's
\* locks in hand (604-614), however it is stopped and restarted.
THEOREM NeverStuck ==
  FixedLimits => (Spec => [](pcS # "waitComplete" /\ PoolLocksFree))
<1> SUFFICES ASSUME FixedLimits
             PROVE  Spec => [](pcS # "waitComplete" /\ PoolLocksFree)
  OBVIOUS
<1>1. FixedInv => pcS # "waitComplete" /\ PoolLocksFree
  BY DEF FixedInv, NoRequest, PoolLocksFree, At
<1> QED
  BY <1>1, FixedCorrect, PTL

-----------------------------------------------------------------------------
(* The destructor of a settled pool: its limits are equal, only the         *)
(* destructor stops it, and it comes when no thread is being born.  Then    *)
(* the threads leave once, all of them, and no submission adds one          *)
(* while they do.                                                           *)

SettledPool ==
  /\ FixedLimits
  /\ SettledOwner
  /\ OnlyDestructorStops

\* the owner is in the operation that its place belongs to, and only the
\* destructor stops the pool
OneStop ==
  /\ call \in {"none", "clear", "delete"}
  /\ opc = "idle" <=> call = "none"
  /\ opc \in {"setStop", "notify", "wait"} \cup ClosingPcs => call = "delete"
  /\ stopEv => call = "delete"
  /\ At(EndingPcs) # {} => stopEv

\* nobody joins a pool that is being destroyed
Deserted ==
  call = "delete" => /\ \A c \in Clients : cpc[c] = "idle"
                     /\ At({"spawned"}) = {}

\* the complete event is set when the last counted thread has left
AllLeft ==
  /\ completeEv => call = "delete" /\ Counted = {}
  /\ opc \in ClosingPcs \/ (opc = "clear" /\ call = "delete") => completeEv

\* a thread that has left can be joined, and S goes when it has joined all
Joined ==
  /\ \A w \in Workers \ lost : wpc[w] \in {"count", "lastOne"} => w \in removing
  /\ pcS \in {"exitJoin", "done"} => opc \in {"joinS", "destroyed"}
  /\ pcS = "done" => \A w \in Workers \ lost : wpc[w] \in {"unborn", "done"}
  /\ opc = "destroyed" => pcS = "done"
  /\ opc \in ClosingPcs => waiting = {}

SettledInv == OneStop /\ Deserted /\ AllLeft /\ Joined

\* A new pool is settled.
LEMMA SettledInit == Init => SettledInv
<1> SUFFICES ASSUME Init PROVE SettledInv
  OBVIOUS
<1>1. At(EndingPcs) = {}
  BY DEF Init, At, EndingPcs
<1>2. OneStop /\ Deserted
  BY <1>1 DEF Init, OneStop, Deserted, ClosingPcs
<1>3. AllLeft /\ Joined
  BY DEF Init, AllLeft, Joined, ClosingPcs
<1> QED
  BY <1>2, <1>3 DEF SettledInv

\* A step of a job thread keeps the pool settled; the one that finds no thread
\* counted sets the complete event (153-157).
LEMMA SettledWorker ==
  ASSUME AccountInv, FixedInv, SettledInv, NEW w \in Workers, WorkerStep(w)
  PROVE  SettledInv'
<1> wpc \in [Workers -> WorkerPcs]
  BY DEF AccountInv, TypeInv, TypeOK
<1>1. /\ UNCHANGED <<cpc, opc, call, stopEv>>
      /\ waiting' \subseteq waiting /\ lost \subseteq lost'
  BY DEF WorkerStep, Begin, Poll, Wake, TakeJob, EndJob, EraseDoing, CheckShrink,
     PushSub, Leave, ClearRunningMapThread, PostComplete, Count, LastOne
<1>2. /\ wpc' = [wpc EXCEPT ![w] = wpc'[w]]
      /\ wpc[w] \notin {"unborn", "done"}
      /\ wpc'[w] \notin {"unborn", "spawned", "pushSub", "firedSub", "gotSub",
                         "postComplete"}
      /\ wpc'[w] \in EndingPcs => stopEv \/ wpc[w] \in EndingPcs
      /\ wpc'[w] \in CountedPcs => wpc[w] \in CountedPcs \cup {"spawned"}
  BY FixedMove
<1>3. UNCHANGED <<pcS, subQueue>>
  BY FixedWorker
<1>4. OneStop'
  BY <1>1, <1>2 DEF SettledInv, OneStop, At
<1>5. Deserted'
  BY <1>1, <1>2 DEF SettledInv, Deserted, At
<1>6. AllLeft'
  <2>1. call = "delete" /\ Counted = {} => Counted' = {}
    BY <1>2 DEF SettledInv, Deserted, Counted, At
  <2>2. completeEv' => completeEv \/ (wpc[w] = "lastOne" /\ runningCount = 0)
    BY DEF WorkerStep, Begin, Poll, Wake, TakeJob, EndJob, EraseDoing, CheckShrink,
       PushSub, Leave, PostComplete, Count, LastOne, AllComplete
  <2>3. wpc[w] = "lastOne" => call = "delete"
    BY DEF SettledInv, OneStop, At, EndingPcs
  <2>4. runningCount = 0 => Counted = {}
    BY SetsFinite, FS_EmptySet DEF AccountInv, ThreadAccounting
  <2>5. completeEv => completeEv'
    BY DEF WorkerStep, Begin, Poll, Wake, TakeJob, EndJob, EraseDoing, CheckShrink,
       PushSub, Leave, PostComplete, Count, LastOne
  <2> QED
    BY <1>1, <2>1, <2>2, <2>3, <2>4, <2>5 DEF SettledInv, AllLeft
<1>7. Joined'
  <2>1. /\ removing \subseteq removing'
        /\ wpc'[w] \in {"count", "lastOne"} /\ w \notin lost' =>
             w \in removing' \/ wpc[w] = "count"
    BY DEF WorkerStep, Begin, Poll, Wake, TakeJob, EndJob, EraseDoing, CheckShrink,
       PushSub, Leave, ClearRunningMapThread, PostComplete, Count, LastOne, Goto,
       FixedInv, NoRequest, At
  <2>2. \A v \in Workers \ lost' : wpc'[v] \in {"count", "lastOne"} => v \in removing'
    BY <1>1, <1>2, <2>1 DEF SettledInv, Joined
  <2>3. pcS' = "done" => \A v \in Workers \ lost' : wpc'[v] \in {"unborn", "done"}
    BY <1>1, <1>2, <1>3 DEF SettledInv, Joined
  <2> QED
    BY <1>1, <1>3, <2>2, <2>3 DEF SettledInv, Joined
<1> QED
  BY <1>4, <1>5, <1>6, <1>7 DEF SettledInv

\* A step of W moves parked threads only.
LEMMA SettledDispatch ==
  ASSUME TypeInv, SettledInv, DispatchStep
  PROVE  SettledInv'
<1>1. UNCHANGED <<cpc, opc, call, stopEv, completeEv, pcS, waiting, lost, removing>>
  BY DEF DispatchStep, WWait, WCheck, WSignal, WGot
<1>2. \A v \in Workers : wpc'[v] # wpc[v] => wpc[v] = "parked" /\ wpc'[v] = "firedJob"
  BY DEF DispatchStep, WWait, WCheck, WSignal, WGot, SetAutoReset, Parked, Goto, At,
     TypeInv, TypeOK
<1>3. OneStop'
  BY <1>1, <1>2 DEF SettledInv, OneStop, At, EndingPcs
<1>4. Deserted'
  BY <1>1, <1>2 DEF SettledInv, Deserted, At
<1>5. Counted' = Counted
  BY <1>2 DEF Counted, At, CountedPcs, LivePcs, ParkedPcs
<1>6. AllLeft'
  BY <1>1, <1>5 DEF SettledInv, AllLeft
<1>7. Joined'
  BY <1>1, <1>2 DEF SettledInv, Joined
<1> QED
  BY <1>3, <1>4, <1>6, <1>7 DEF SettledInv

\* When S has nothing left to join, every thread whose handle it had has ended, as
\* all others had left before the destructor told it to exit (83-98, 241).
LEMMA SettledShrink ==
  ASSUME TypeInv, ShrinkInv, FixedInv, SettledInv, ShrinkStep
  PROVE  SettledInv'
<1>1. /\ UNCHANGED <<cpc, opc, call, stopEv, completeEv, waiting, lost>>
      /\ \A w \in removing \ removing' : wpc[w] = "done"
      /\ removing' \subseteq removing
  BY DEF ShrinkStep, SWait, SPop, SSignal, SComplete, SJoin
<1>2. UNCHANGED wpc
  BY FixedShrink
<1>3. OneStop' /\ Deserted' /\ AllLeft'
  BY <1>1, <1>2 DEF SettledInv, OneStop, Deserted, AllLeft, Counted, At
<1>4. SPop => pcS' = "exitJoin" /\ opc \in {"joinS", "destroyed"}
  BY FixedShrink DEF ShrinkInv, SubtractQueue
<1>5. pcS' \in {"exitJoin", "done"} => opc \in {"joinS", "destroyed"}
  BY <1>4 DEF ShrinkStep, SWait, SPop, SSignal, SComplete, SJoin, SettledInv, Joined,
     FixedInv, NoRequest
<1>6. pcS' = "done" => \A w \in Workers \ lost : wpc[w] \in {"unborn", "done"}
  <2> SUFFICES ASSUME pcS' = "done", NEW w \in Workers \ lost
               PROVE  wpc[w] \in {"unborn", "done"}
    OBVIOUS
  <2>1. pcS = "exitJoin" /\ removing = {}
    BY DEF ShrinkStep, SWait, SPop, SSignal, SComplete, SJoin
  <2>2. Counted = {} /\ At({"spawned"}) = {}
    BY <2>1 DEF SettledInv, Joined, AllLeft, Deserted, ClosingPcs
  <2>3. wpc[w] # "lastOne" /\ wpc[w] \notin CountedPcs /\ wpc[w] # "spawned"
    BY <2>1, <2>2 DEF SettledInv, Joined, Counted, At
  <2>4. wpc[w] \in WorkerPcs
    BY DEF TypeInv, TypeOK
  <2> QED
    BY <2>3, <2>4 DEF WorkerPcs, CountedPcs
<1>7. opc = "destroyed" => pcS' = "done"
  BY <1>4 DEF ShrinkStep, SWait, SPop, SSignal, SComplete, SJoin, SettledInv, Joined
<1>8. Joined'
  BY <1>1, <1>2, <1>5, <1>6, <1>7 DEF SettledInv, Joined
<1> QED
  BY <1>3, <1>8 DEF SettledInv

\* A client is there only while the pool is not being destroyed; the thread it
\* adds is not counted yet.
LEMMA SettledClient ==
  ASSUME TypeInv, SettledInv, NEW c \in Clients, SubmitIndex(c) \/ ClientStep(c)
  PROVE  SettledInv'
<1>1. UNCHANGED <<opc, call, stopEv, completeEv, pcS, lost, removing>>
  BY DEF ClientStep, SubmitIndex, SubmitInsert, SubmitGrow
<1>2. call # "delete"
  BY DEF ClientStep, SubmitIndex, SubmitInsert, SubmitGrow, SettledInv, Deserted
<1>3. \A v \in Workers : wpc'[v] # wpc[v] => wpc[v] = "unborn" /\ wpc'[v] = "spawned"
  BY DEF ClientStep, SubmitIndex, SubmitInsert, SubmitGrow, AddJobThread, At, TypeInv,
     TypeOK
<1>4. opc \notin ClosingPcs /\ ~completeEv /\ pcS \notin {"exitJoin", "done"}
  BY <1>2 DEF SettledInv, OneStop, AllLeft, Joined, ClosingPcs
<1>5. OneStop' /\ Deserted'
  BY <1>1, <1>2, <1>3 DEF SettledInv, OneStop, Deserted, At, EndingPcs
<1>6. AllLeft'
  BY <1>1, <1>2, <1>4 DEF SettledInv, AllLeft
<1>7. Joined'
  <2>1. \A v \in Workers \ lost' : wpc'[v] \in {"count", "lastOne"} => v \in removing'
    BY <1>1, <1>3 DEF SettledInv, Joined
  <2> QED
    BY <1>1, <1>4, <2>1 DEF Joined, ClosingPcs
<1> QED
  BY <1>5, <1>6, <1>7 DEF SettledInv

\* start comes when the pool is not being stopped.
LEMMA SettledStart ==
  ASSUME TypeInv, SettledInv, NEW p \in StartParams, Start(p)
  PROVE  SettledInv'
<1>1. /\ opc = "idle" /\ stopEv' = FALSE /\ completeEv' = FALSE
      /\ UNCHANGED <<cpc, opc, call, pcS, lost, removing, waiting>>
  BY DEF Start
<1>2. \A v \in Workers : wpc'[v] # wpc[v] => wpc[v] = "unborn" /\ wpc'[v] = "spawned"
  BY DEF Start, AddJobThread, At, TypeInv, TypeOK
<1>3. call = "none" /\ ~stopEv
  BY <1>1 DEF SettledInv, OneStop
<1>4. OneStop' /\ Deserted'
  BY <1>1, <1>2, <1>3 DEF SettledInv, OneStop, Deserted, At, EndingPcs
<1>5. AllLeft' /\ Joined'
  <2>1. pcS \notin {"exitJoin", "done"}
    BY <1>1 DEF SettledInv, Joined
  <2>2. \A v \in Workers \ lost' : wpc'[v] \in {"count", "lastOne"} => v \in removing'
    BY <1>1, <1>2 DEF SettledInv, Joined
  <2> QED
    BY <1>1, <2>1, <2>2 DEF AllLeft, Joined, ClosingPcs
<1> QED
  BY <1>4, <1>5 DEF SettledInv

\* The destructor is called when no thread is being born; what it waits for before
\* it clears the jobs is that the last thread has left (239-241).
LEMMA SettledOwnerStep ==
  ASSUME SettledPool, TypeInv, ShrinkInv, SettledInv,
         (\E op \in Api : Call(op)) \/ OwnerStep
  PROVE  SettledInv'
<1>1. /\ UNCHANGED <<cpc, completeEv, pcS, lost, removing>>
      /\ waiting' \subseteq waiting
  BY DEF Call, OwnerStep, SetStop, NotifyStop, StopReturns, WaitReturns, ClearUndoWork,
     ExitW, JoinW, ExitS, JoinS
<1>2. \A v \in Workers :
        wpc'[v] # wpc[v] =>
          wpc[v] \in ParkedPcs /\ wpc'[v] = "gotStop" /\ opc = "notify"
  BY DEF Call, OwnerStep, SetStop, NotifyStop, StopReturns, WaitReturns, ClearUndoWork,
     ExitW, JoinW, ExitS, JoinS, Goto, TypeInv, TypeOK
<1>3. Counted' = Counted
  BY <1>2 DEF Counted, At, CountedPcs, LivePcs, ParkedPcs
<1>4. CASE \E op \in Api : Call(op)
  <2>1. PICK op \in Api : Call(op)
    BY <1>4
  <2>2. /\ opc = "idle" /\ call' = op /\ opc' = FirstOwnerPc(op)
        /\ UNCHANGED <<stopEv, wpc, waiting>>
    BY <2>1 DEF Call
  <2>3. call = "none" /\ ~stopEv /\ ~completeEv
    BY <2>2 DEF SettledInv, OneStop, AllLeft
  <2>4. \/ op = "clear" /\ opc' = "clear"
        \/ op = "delete" /\ opc' = "setStop"
    BY <2>1, <2>2, <2>3, ApiAssumption
       DEF Call, SettledPool, OnlyDestructorStops, ApiCalls, FirstOwnerPc
  <2>5. op = "delete" => (\A c \in Clients : cpc[c] = "idle") /\ At({"spawned"}) = {}
    BY <2>1 DEF Call, Settled, SettledPool, At
  <2>6. OneStop'
    BY <2>2, <2>3, <2>4 DEF SettledInv, OneStop, At, ClosingPcs
  <2>7. Deserted'
    BY <1>1, <2>2, <2>4, <2>5 DEF Deserted, At
  <2>8. AllLeft'
    BY <1>1, <2>2, <2>3, <2>4 DEF AllLeft, ClosingPcs
  <2>9. Joined'
    BY <1>1, <2>2, <2>4 DEF SettledInv, Joined, ClosingPcs
  <2> QED
    BY <2>6, <2>7, <2>8, <2>9 DEF SettledInv
<1>5. CASE OwnerStep
  <2>1. opc # "idle" /\ (opc' = "idle" => call' = "none")
    BY <1>5 DEF OwnerStep, SetStop, NotifyStop, StopReturns, AfterStop, WaitReturns,
       ClearUndoWork, ExitW, JoinW, ExitS, JoinS, SettledInv, OneStop, ClosingPcs
  <2>2. opc' # "idle" => call' = call
    BY <1>5 DEF OwnerStep, SetStop, NotifyStop, StopReturns, AfterStop, WaitReturns,
       ClearUndoWork, ExitW, JoinW, ExitS, JoinS
  <2>3. OneStop'
    <3>1. call = "delete" \/ (call = "clear" /\ opc = "clear")
      BY <2>1 DEF SettledInv, OneStop, TypeInv, TypeOK, OwnerPcs, ClosingPcs
    <3>2. call = "delete" => call' = "delete" /\ opc' # "idle"
      BY <1>5 DEF OwnerStep, SetStop, NotifyStop, StopReturns, AfterStop, WaitReturns,
         ClearUndoWork, ExitW, JoinW, ExitS, JoinS
    <3>3. opc = "clear" /\ call = "clear" => opc' = "idle" /\ call' = "none"
      BY <1>5 DEF OwnerStep, SetStop, NotifyStop, StopReturns, WaitReturns,
         ClearUndoWork, ExitW, JoinW, ExitS, JoinS
    <3>4. stopEv' => stopEv \/ opc = "setStop"
      BY <1>5 DEF OwnerStep, SetStop, NotifyStop, StopReturns, WaitReturns,
         ClearUndoWork, ExitW, JoinW, ExitS, JoinS
    <3>5. stopEv => stopEv'
      BY <1>5 DEF OwnerStep, SetStop, NotifyStop, StopReturns, WaitReturns,
         ClearUndoWork, ExitW, JoinW, ExitS, JoinS
    <3>6. opc = "notify" => stopEv
      BY DEF ShrinkInv, Closing
    <3> QED
      BY <1>2, <3>1, <3>2, <3>3, <3>4, <3>5, <3>6
         DEF SettledInv, OneStop, At, EndingPcs, ClosingPcs
  <2>4. Deserted'
    BY <1>1, <1>2, <2>1, <2>2 DEF SettledInv, Deserted, At
  <2>5. AllLeft'
    <3>1. opc' \in ClosingPcs \/ (opc' = "clear" /\ call' = "delete") => completeEv
      BY <1>5 DEF OwnerStep, SetStop, NotifyStop, StopReturns, AfterStop, WaitReturns,
         ClearUndoWork, ExitW, JoinW, ExitS, JoinS, SettledInv, AllLeft, ClosingPcs
    <3>2. call = "delete" => call' = "delete"
      BY <1>5 DEF OwnerStep, SetStop, NotifyStop, StopReturns, AfterStop, WaitReturns,
         ClearUndoWork, ExitW, JoinW, ExitS, JoinS
    <3> QED
      BY <1>1, <1>3, <3>1, <3>2 DEF SettledInv, AllLeft
  <2>6. Joined'
    <3>1. \A v \in Workers \ lost' : wpc'[v] \in {"count", "lastOne"} => v \in removing'
      BY <1>1, <1>2 DEF SettledInv, Joined
    <3>2. opc \in {"joinS", "destroyed"} => opc' \in {"joinS", "destroyed"}
      BY <1>5 DEF OwnerStep, SetStop, NotifyStop, StopReturns, WaitReturns,
         ClearUndoWork, ExitW, JoinW, ExitS, JoinS
    <3>3. pcS = "done" => \A v \in Workers \ lost : wpc'[v] \in {"unborn", "done"}
      BY <1>2 DEF SettledInv, Joined, ParkedPcs
    <3>4. opc' = "destroyed" => pcS = "done"
      BY <1>5 DEF OwnerStep, SetStop, NotifyStop, StopReturns, AfterStop, WaitReturns,
         ClearUndoWork, ExitW, JoinW, ExitS, JoinS
    <3>5. opc' \in ClosingPcs => waiting' = {}
      BY <1>1, <1>5 DEF OwnerStep, SetStop, NotifyStop, StopReturns, AfterStop,
         WaitReturns, ClearUndoWork, ExitW, JoinW, ExitS, JoinS, SettledInv, Joined,
         ClosingPcs
    <3> QED
      BY <1>1, <3>1, <3>2, <3>3, <3>4, <3>5 DEF SettledInv, Joined
  <2> QED
    BY <2>3, <2>4, <2>5, <2>6 DEF SettledInv
<1> QED
  BY <1>4, <1>5

\* The inductive invariant of a settled pool holds.
THEOREM SettledCorrect == SettledPool => (Spec => []SettledInv)
<1> SUFFICES ASSUME SettledPool PROVE Spec => []SettledInv
  OBVIOUS
<1>1. AccountInv /\ ShrinkInv /\ FixedInv /\ SettledInv /\ [Next]_vars => SettledInv'
  <2> SUFFICES ASSUME AccountInv, ShrinkInv, FixedInv, SettledInv, [Next]_vars
               PROVE  SettledInv'
    OBVIOUS
  <2> TypeInv
    BY DEF AccountInv
  <2>1. CASE UNCHANGED vars
    BY <2>1 DEF vars, SettledInv, OneStop, Deserted, AllLeft, Joined, At, Counted
  <2> QED
    BY <2>1, SettledWorker, SettledDispatch, SettledShrink, SettledClient, SettledStart,
       SettledOwnerStep DEF Next, Destroyed
<1>2. Spec => []FixedInv
  BY FixedCorrect DEF SettledPool
<1> QED
  BY SettledInit, <1>1, <1>2, ShrinkCorrect, PTL DEF Spec

\* threadpool.h:61, 86-87: in a settled pool every thread has left doJobs when the complete
\* event is set (153-157).
THEOREM WaitCovers == SettledPool => (Spec => []WaitCoversWorkers)
<1> SUFFICES ASSUME SettledPool PROVE Spec => []WaitCoversWorkers
  OBVIOUS
<1>1. SettledInv => WaitCoversWorkers
  <2> SUFFICES ASSUME SettledInv, completeEv
               PROVE  Live \cup At({"postComplete", "count"}) = {}
    BY DEF WaitCoversWorkers
  <2>1. Counted = {} /\ At({"spawned"}) = {}
    BY DEF SettledInv, AllLeft, Deserted
  <2> QED
    BY <2>1 DEF Live, Counted, At, CountedPcs
<1> QED
  BY <1>1, SettledCorrect, PTL

\* The assertions at 213-214 hold in the destructor of a settled pool, and when it has
\* ended every thread whose handle it could reach has been joined (239-247).
THEOREM NothingLeft == SettledPool => (Spec => []DestructorLeavesNothing)
<1> SUFFICES ASSUME SettledPool PROVE Spec => []DestructorLeavesNothing
  OBVIOUS
<1>1. SettledInv /\ DoingInv => DestructorLeavesNothing
  <2> SUFFICES ASSUME SettledInv, DoingInv PROVE DestructorLeavesNothing
    OBVIOUS
  <2>1. opc \in ClosingPcs => waiting = {} /\ doing = {}
    <3> SUFFICES ASSUME opc \in ClosingPcs PROVE waiting = {} /\ doing = {}
      OBVIOUS
    <3>1. Counted = {} /\ waiting = {}
      BY DEF SettledInv, AllLeft, Joined
    <3>2. Busy = {}
      BY <3>1 DEF Busy, Counted, At, CountedPcs, LivePcs
    <3> QED
      BY <3>1, <3>2 DEF DoingInv, MapInv, Entries
  <2>2. opc = "destroyed" => \A w \in Workers \ lost : wpc[w] \in {"unborn", "done"}
    BY DEF SettledInv, Joined
  <2> QED
    BY <2>1, <2>2 DEF DestructorLeavesNothing, ClosingPcs
<1> QED
  BY <1>1, SettledCorrect, DoingCorrect, PTL
=============================================================================
