---------------------------- MODULE PEventsProofs ----------------------------
(***************************************************************************)
(* Theorems about PEvents, for every value of its constants.               *)
(***************************************************************************)
EXTENDS PEvents, FiniteSetTheorems, TLAPS

USE DEF eventVars, callVars, waiterVars, loneVars, setterVars

-----------------------------------------------------------------------------
(* Type correctness.  A waiter inside a call has made it, and a setter that *)
(* has a call in hand finds it registered.                                  *)

CallsMade == \A w \in Waiters : wpc[w] # "idle" => count[w] >= 1
InHand ==
  \A e \in EventSet : spc[e] \in {"lock", "skip", "fired"} => at[e] \in reg[e]
TypeInv == TypeOK /\ CallsMade /\ InHand

WaiterPcs == {"idle", "scan", "parked", "finish", "release"}

\* The events are a sequence, and each has its place in it.
LEMMA EventsOK ==
  /\ Len(Events) \in Nat /\ DOMAIN Events = 1..Len(Events)
  /\ \A i \in 1..Len(Events) : Events[i] \in EventSet
  /\ \A e \in EventSet : IndexOf(e) \in 1..Len(Events) /\ Events[IndexOf(e)] = e
<1>1. Len(Events) \in Nat /\ DOMAIN Events = 1..Len(Events)
  BY EventsAssumption
<1>2. \A i \in 1..Len(Events) : Events[i] \in EventSet
  BY <1>1 DEF EventSet
<1>3. ASSUME NEW e \in EventSet
      PROVE  IndexOf(e) \in 1..Len(Events) /\ Events[IndexOf(e)] = e
  <2>1. \E i \in DOMAIN Events : Events[i] = e
    BY DEF EventSet
  <2> QED
    BY <2>1, <1>1 DEF IndexOf
<1> QED
  BY <1>1, <1>2, <1>3

\* The call a waiter is in is one of the calls.
LEMMA CallOK ==
  ASSUME TypeInv, NEW w \in Waiters, wpc[w] # "idle"
  PROVE  Call(w) \in Calls /\ Call(w)[1] = w /\ Call(w)[2] = count[w]
  BY DEF TypeInv, TypeOK, CallsMade, Call, Calls

\* CreateEvent gives every variable a value of its type.
LEMMA TypeInit == Init => TypeInv
  BY EventsOK, CallsAssumption
     DEF Init, TypeInv, TypeOK, CallsMade, InHand, NoMode, NoEvent

\* The clean-up of registrations keeps the counts typed.
LEMMA DropTypes ==
  ASSUME TypeInv, NEW e \in EventSet, DropExpired(e)
  PROVE  refs' \in [Calls -> Int] /\ freed' \in SUBSET Calls
  BY DEF TypeInv, TypeOK, DropExpired, Expired

\* A waiter's step keeps the types.
LEMMA TypeWaiter ==
  ASSUME TypeInv, NEW w \in Waiters,
         WaiterStep(w) \/ TimeOut(w) \/ \E m \in Modes : StartWait(w, m)
  PROVE  TypeInv'
<1> USE DEF TypeInv, TypeOK, CallsMade, InHand, Goto
<1>1. CASE Scan(w)
  <2> DEFINE e == Events[next[w]]
  <2>1. /\ wpc[w] = "scan" /\ next[w] \in 1..Len(Events)
        /\ e \in EventSet /\ Call(w) \in Calls
    BY <1>1, EventsOK, CallOK DEF Scan
  <2>2. ASSUME Take(w)
        PROVE  /\ skipped' \in [Waiters -> Nat]
               /\ given' \in [EventSet -> SUBSET (Calls \cup Loners)]
               /\ status' \in [Calls -> Int]
               /\ next' \in [Waiters -> 1..(Len(Events) + 1)]
    <3>1. Skips(w) \in Nat
      BY <2>1, EventsOK DEF Skips
    <3>2. skipped' = [skipped EXCEPT ![w] = Skips(w)]
      BY <2>2 DEF Take
    <3>3. given' = [given EXCEPT ![e] = @ \cup {Call(w)}]
      BY <2>2 DEF Take
    <3>4. /\ status' \in [Calls -> Int]
          /\ next' \in [Waiters -> 1..(Len(Events) + 1)]
      <4>1. CASE mode[Call(w)].all
        BY <2>1, <2>2, <4>1, EventsOK DEF Take
      <4>2. CASE ~mode[Call(w)].all
        BY <2>1, <2>2, <4>2, EventsOK DEF Take
      <4> QED
        BY <4>1, <4>2
    <3> QED
      BY <2>1, <3>1, <3>2, <3>3, <3>4
  <2>3. /\ UNCHANGED <<destroyed, mode, still, wpc, count, out>>
        /\ UNCHANGED <<loneVars, setterVars>>
    BY <1>1 DEF Scan
  <2>4. CASE Take(w) /\ UNCHANGED <<state, reg, refs, freed>>
    BY <2>2, <2>3, <2>4
  <2>5. CASE /\ MutexFree(e) /\ state[e]
             /\ DropExpired(e) /\ reg' = [reg EXCEPT ![e] = LiveRegs(e)]
             /\ state' = Consume(e)
             /\ Take(w)
    <3>1. refs' \in [Calls -> Int] /\ freed' \in SUBSET Calls
      BY <2>1, <2>5, DropTypes
    <3>2. state' \in [EventSet -> BOOLEAN]
      BY <2>1, <2>5 DEF Consume
    <3>3. reg' \in [EventSet -> SUBSET Calls]
      BY <2>1, <2>5 DEF LiveRegs
    <3>4. InHand'
      BY <2>1, <2>3, <2>5 DEF MutexFree
    <3> QED
      BY <2>2, <2>3, <2>5, <3>1, <3>2, <3>3, <3>4
  <2>6. CASE /\ MutexFree(e) /\ ~state[e]
             /\ DropExpired(e)
             /\ reg' = [reg EXCEPT ![e] = LiveRegs(e) \cup {Call(w)}]
             /\ next' = [next EXCEPT ![w] = next[w] + 1]
             /\ UNCHANGED <<state, status, skipped, given>>
    <3>1. refs' \in [Calls -> Int] /\ freed' \in SUBSET Calls
      BY <2>1, <2>6, DropTypes
    <3>2. next' \in [Waiters -> 1..(Len(Events) + 1)]
      BY <2>1, <2>6, EventsOK
    <3>3. reg' \in [EventSet -> SUBSET Calls]
      BY <2>1, <2>6 DEF LiveRegs
    <3>4. InHand'
      BY <2>1, <2>3, <2>6 DEF MutexFree
    <3> QED
      BY <2>3, <2>6, <3>1, <3>2, <3>3, <3>4
  <2> QED
    BY <1>1, <2>4, <2>5, <2>6 DEF Scan
<1>2. CASE EndScan(w)
  BY <1>2 DEF EndScan
<1>3. CASE Wake(w)
  BY <1>3 DEF Wake
<1>4. CASE Finish(w)
  BY <1>4 DEF Finish
<1>5. CASE EndWait(w)
  <2>1. Call(w) \in Calls /\ 1 + skipped[w] \in Int
    BY <1>5, CallOK DEF EndWait
  <2>2. refs' \in [Calls -> Int] /\ freed' \in SUBSET Calls
    BY <1>5, <2>1 DEF EndWait, Release
  <2>3. wpc' = [wpc EXCEPT ![w] = "idle"]
    BY <1>5 DEF EndWait
  <2> QED
    BY <1>5, <2>2, <2>3 DEF EndWait
<1>6. CASE TimeOut(w)
  BY <1>6 DEF TimeOut
<1>7. ASSUME NEW m \in Modes, StartWait(w, m)
      PROVE  TypeInv'
  <2>1. /\ count[w] + 1 \in 1..MaxCalls /\ <<w, count[w] + 1>> \in Calls
        /\ m \in [all : BOOLEAN, timed : BOOLEAN]
    BY <1>7, CallsAssumption DEF StartWait, Calls
  <2>2. (IF m.all THEN Len(Events) ELSE NoEvent) \in Int /\ InitialRefs \in Int
    BY EventsOK DEF NoEvent, InitialRefs
  <2>3. 1 \in 1..(Len(Events) + 1)
    BY EventsOK
  <2>4. /\ mode' \in [Calls -> [all : BOOLEAN, timed : BOOLEAN]]
        /\ status' \in [Calls -> Int] /\ still' \in [Calls -> BOOLEAN]
        /\ refs' \in [Calls -> Int]
    BY <1>7, <2>1, <2>2 DEF StartWait
  <2>5. /\ wpc' \in [Waiters -> {"idle", "scan", "parked", "finish", "release"}]
        /\ count' \in [Waiters -> 0..MaxCalls]
        /\ next' \in [Waiters -> 1..(Len(Events) + 1)]
        /\ skipped' \in [Waiters -> Nat] /\ out' \in [Waiters -> BOOLEAN]
    BY <1>7, <2>1, <2>3 DEF StartWait
  <2>6. CallsMade'
    BY <1>7, <2>1 DEF StartWait
  <2> QED
    BY <1>7, <2>4, <2>5, <2>6 DEF StartWait
<1> QED
  BY <1>1, <1>2, <1>3, <1>4, <1>5, <1>6, <1>7 DEF WaiterStep

\* A step of a thread in WaitForEvent keeps the types.
LEMMA TypeLoner ==
  ASSUME TypeInv, NEW t \in Loners, Resume(t) \/ \E s \in Singles : Enter(t, s)
  PROVE  TypeInv'
<1> USE DEF TypeInv, TypeOK, CallsMade, InHand, LoneGoto
<1>1. ASSUME NEW e, state' = Consume(e)
      PROVE  state' \in [EventSet -> BOOLEAN]
  BY <1>1 DEF Consume
<1>2. ASSUME NEW e, given' = [given EXCEPT ![e] = @ \cup {t}]
      PROVE  given' \in [EventSet -> SUBSET (Calls \cup Loners)]
  BY <1>2
<1>3. CASE Resume(t)
  <2>1. state' \in [EventSet -> BOOLEAN]
    BY <1>1, <1>3 DEF Resume
  <2>2. given' \in [EventSet -> SUBSET (Calls \cup Loners)]
    BY <1>2, <1>3 DEF Resume
  <2>3. lpc' \in [Loners -> {"idle", "blocked", "awake", "done"}]
    BY <1>3 DEF Resume
  <2> QED
    BY <1>3, <2>1, <2>2, <2>3 DEF Resume
<1>4. ASSUME NEW s \in Singles, Enter(t, s)
      PROVE  TypeInv'
  <2>1. state' \in [EventSet -> BOOLEAN]
    BY <1>1, <1>4 DEF Enter
  <2>2. given' \in [EventSet -> SUBSET (Calls \cup Loners)]
    <3>1. \/ given' = [given EXCEPT ![s.event] = @ \cup {t}]
          \/ given' = given
      BY <1>4 DEF Enter
    <3> QED
      BY <1>2, <3>1
  <2>3. lpc' \in [Loners -> {"idle", "blocked", "awake", "done"}]
    <3>1. \/ lpc' = [lpc EXCEPT ![t] = "done"]
          \/ lpc' = [lpc EXCEPT ![t] = "blocked"]
      BY <1>4 DEF Enter
    <3> QED
      BY <3>1
  <2>4. lwait' = [lwait EXCEPT ![t] = s]
    BY <1>4 DEF Enter
  <2> QED
    BY <1>4, <2>1, <2>2, <2>3, <2>4 DEF Enter
<1> QED
  BY <1>3, <1>4

\* A setter's step keeps the types.
LEMMA TypeSetter ==
  ASSUME TypeInv, NEW e \in EventSet, SetterStep(e) \/ BeginSet(e)
  PROVE  TypeInv'
<1> USE DEF TypeInv, TypeOK, CallsMade, InHand, SetterGoto
<1>1. CASE BeginSet(e)
  BY <1>1 DEF BeginSet
<1>2. ASSUME NEW o \in Calls, Look(e, o)
      PROVE  TypeInv'
  BY <1>2 DEF Look
<1>3. CASE Deliver(e)
  <2>1. at[e] \in Calls
    BY <1>3 DEF Deliver
  <2>2. CASE Fire(at[e], e) /\ SetterGoto(e, "fired")
    <3>1. given' \in [EventSet -> SUBSET (Calls \cup Loners)]
      BY <2>1, <2>2 DEF Fire
    <3>2. status' \in [Calls -> Int] /\ still' \in [Calls -> BOOLEAN]
      <4>1. IndexOf(e) \in Int /\ status[at[e]] - 1 \in Int
        BY <2>1, EventsOK
      <4>2. CASE mode[at[e]].all
        BY <2>1, <2>2, <4>1, <4>2 DEF Fire
      <4>3. CASE ~mode[at[e]].all
        BY <2>1, <2>2, <4>1, <4>3 DEF Fire
      <4> QED
        BY <4>2, <4>3
    <3> QED
      BY <1>3, <2>2, <3>1, <3>2 DEF Deliver
  <2>3. CASE SetterGoto(e, "skip") /\ UNCHANGED <<status, still, given>>
    BY <1>3, <2>3 DEF Deliver
  <2> QED
    BY <1>3, <2>2, <2>3 DEF Deliver
<1>4. CASE GiveBack(e)
  BY <1>4 DEF GiveBack, Popped, Release
<1>5. CASE EndSet(e)
  BY <1>5 DEF EndSet
<1>6. CASE Signal(e)
  BY <1>6 DEF Signal
<1> QED
  BY <1>1, <1>2, <1>3, <1>4, <1>5, <1>6 DEF SetterStep

\* A step of the owner keeps the types.
LEMMA TypeOwner ==
  ASSUME TypeInv, NEW e \in EventSet, ResetEvent(e) \/ DestroyEvent(e)
  PROVE  TypeInv'
<1> USE DEF TypeInv, TypeOK, CallsMade, InHand
<1>1. CASE ResetEvent(e)
  BY <1>1 DEF ResetEvent
<1>2. CASE DestroyEvent(e)
  <2>1. refs' \in [Calls -> Int] /\ freed' \in SUBSET Calls
    BY <1>2, DropTypes DEF DestroyEvent
  <2>2. InHand'
    BY <1>2 DEF DestroyEvent, Quiet
  <2> QED
    BY <1>2, <2>1, <2>2 DEF DestroyEvent, LiveRegs
<1> QED
  BY <1>1, <1>2

\* Every step keeps the types.
LEMMA TypeStep == TypeInv /\ [Next]_vars => TypeInv'
<1> SUFFICES ASSUME TypeInv, [Next]_vars
             PROVE  TypeInv'
  OBVIOUS
<1>1. CASE UNCHANGED vars
  BY <1>1 DEF vars, TypeInv, TypeOK, CallsMade, InHand
<1>2. CASE Next
  BY <1>2, TypeWaiter, TypeLoner, TypeSetter, TypeOwner DEF Next
<1> QED
  BY <1>1, <1>2

\* The inductive form of the type invariant.
THEOREM TypeCorrect == Spec => []TypeInv
  BY TypeInit, TypeStep, PTL DEF Spec

\* Every variable has a value the code can give it, for all events, threads and
\* ways to wait (PEvents!TypeOK).
THEOREM TypesHold == Spec => []TypeOK
<1>1. TypeInv => TypeOK
  BY DEF TypeInv
<1> QED
  BY <1>1, TypeCorrect, PTL
-----------------------------------------------------------------------------
(* What the steps of each actor leave alone.                                *)

\* A thread in WaitForEvent changes at most the state of the event.
LEMMA LonerFrame ==
  ASSUME NEW t \in Loners, Resume(t) \/ \E s \in Singles : Enter(t, s)
  PROVE  /\ UNCHANGED <<reg, destroyed, callVars, waiterVars, setterVars>>
         /\ state' = state \/ \E e : state[e] /\ state' = Consume(e)
  BY DEF Resume, Enter

\* Setters and the owner change nothing of the waiters.
LEMMA SetterFrame ==
  ASSUME NEW e \in EventSet,
         BeginSet(e) \/ SetterStep(e) \/ ResetEvent(e) \/ DestroyEvent(e)
  PROVE  UNCHANGED <<waiterVars, mode, lwait>>
  BY DEF BeginSet, SetterStep, Look, Deliver, GiveBack, EndSet, Signal, ResetEvent,
         DestroyEvent

\* Waiters change nothing of the setters.
LEMMA WaiterFrame ==
  ASSUME NEW w \in Waiters,
         WaiterStep(w) \/ TimeOut(w) \/ \E m \in Modes : StartWait(w, m)
  PROVE  UNCHANGED <<destroyed, loneVars, setterVars>>
  BY DEF WaiterStep, Scan, EndScan, Wake, Finish, EndWait, TimeOut, StartWait

\* The calls of waiters that start none stay the same.
LEMMA CallFixed == UNCHANGED count => \A v \in Waiters : Call(v)' = Call(v)
  BY DEF Call

\* A new call is made by its waiter.
LEMMA CallStarts ==
  ASSUME TypeInv, NEW w \in Waiters, NEW m \in Modes, StartWait(w, m)
  PROVE  /\ Call(w)' = <<w, count[w] + 1>> /\ <<w, count[w] + 1>> \in Calls
         /\ \A v \in Waiters \ {w} : Call(v)' = Call(v) /\ Call(v) # <<w, count[w] + 1>>
         /\ ~Made(<<w, count[w] + 1>>)
<1>1. /\ count' = [count EXCEPT ![w] = count[w] + 1] /\ count[w] < MaxCalls
      /\ count \in [Waiters -> 0..MaxCalls] /\ MaxCalls \in Nat
  BY CallsAssumption DEF StartWait, TypeInv, TypeOK
<1> QED
  BY <1>1 DEF Call, Calls, Made

\* Different waiters are in different calls.
LEMMA CallsDiffer == \A v, w : Call(v)[1] = v /\ (v # w => Call(v) # Call(w))
  BY DEF Call

\* Setters and the owner only take registrations away.
LEMMA RegShrinks ==
  ASSUME TypeInv, NEW e \in EventSet,
         BeginSet(e) \/ SetterStep(e) \/ ResetEvent(e) \/ DestroyEvent(e)
  PROVE  \A f \in EventSet : reg'[f] \subseteq reg[f]
<1>1. reg \in [EventSet -> SUBSET Calls]
  BY DEF TypeInv, TypeOK
<1>2. \/ reg' = reg
      \/ reg' = [reg EXCEPT ![e] = Popped(e)]
      \/ reg' = [reg EXCEPT ![e] = LiveRegs(e)]
  BY DEF BeginSet, SetterStep, Look, Deliver, GiveBack, EndSet, Signal, ResetEvent,
         DestroyEvent
<1> QED
  BY <1>1, <1>2 DEF Popped, LiveRegs

\* ... and end the wait of no call whose mutex is held.
LEMMA StillKept ==
  ASSUME TypeInv, NEW e \in EventSet,
         BeginSet(e) \/ SetterStep(e) \/ ResetEvent(e) \/ DestroyEvent(e)
  PROVE  /\ \A o \in Calls : ~ObjectFree(o) => still'[o] = still[o] /\ status'[o] = status[o]
         /\ \A o \in Calls : still'[o] => still[o]
<1>1. still \in [Calls -> BOOLEAN] /\ status \in [Calls -> Int]
  BY DEF TypeInv, TypeOK
<1>2. CASE UNCHANGED <<still, status>>
  BY <1>2
<1>3. CASE Deliver(e)
  <2>1. UNCHANGED <<still, status>> \/ (ObjectFree(at[e]) /\ Fire(at[e], e))
    BY <1>3 DEF Deliver
  <2>2. ASSUME ObjectFree(at[e]), Fire(at[e], e)
        PROVE  /\ still' = still \/ still' = [still EXCEPT ![at[e]] = FALSE]
               /\ \E n : status' = [status EXCEPT ![at[e]] = n]
    BY <2>2 DEF Fire
  <2> QED
    BY <1>1, <1>2, <2>1, <2>2
<1> QED
  BY <1>2, <1>3 DEF BeginSet, SetterStep, Look, GiveBack, EndSet, Signal, ResetEvent,
         DestroyEvent

\* One turn of the loop over the events touches the registrations of one event.
LEMMA ScanReg ==
  ASSUME TypeInv, NEW w \in Waiters, Scan(w)
  PROVE  /\ next[w] \in 1..Len(Events) /\ next'[w] \in (next[w] + 1)..(Len(Events) + 1)
         /\ \A v \in Waiters \ {w} : next'[v] = next[v]
         /\ \A f \in EventSet : /\ reg'[f] \subseteq reg[f] \cup {Call(w)}
                                /\ f # Events[next[w]] => reg'[f] = reg[f]
<1>1. /\ reg \in [EventSet -> SUBSET Calls]
      /\ next \in [Waiters -> 1..(Len(Events) + 1)] /\ next[w] <= Len(Events)
  BY DEF TypeInv, TypeOK, Scan
<1>2. \/ next' = [next EXCEPT ![w] = next[w] + 1]
      \/ next' = [next EXCEPT ![w] = Len(Events) + 1]
  BY DEF Scan, Take
<1>3. \/ reg' = reg
      \/ reg' = [reg EXCEPT ![Events[next[w]]] = LiveRegs(Events[next[w]])]
      \/ reg' = [reg EXCEPT ![Events[next[w]]] = LiveRegs(Events[next[w]]) \cup {Call(w)}]
  BY DEF Scan
<1> QED
  BY <1>1, <1>2, <1>3, EventsOK DEF LiveRegs

-----------------------------------------------------------------------------
(* Where a waiter is, and which calls events and setters may know of.       *)

PastLoop ==
  \A w \in Waiters : wpc[w] \in {"parked", "finish", "release"} => next[w] = Len(Events) + 1
RegsMade == \A e \in EventSet : \A o \in reg[e] : Made(o)
Ahead ==
  \A w \in Waiters : wpc[w] = "scan" =>
    /\ still[Call(w)]
    /\ \A k \in next[w]..Len(Events) : Call(w) \notin reg[Events[k]]
StillInCall ==
  \A o \in Calls : still[o] => o = Call(o[1]) /\ wpc[o[1]] \in {"scan", "parked", "finish"}
SkipOver == \A e \in EventSet : spc[e] = "skip" => ~still[at[e]]
\* an event that is set, and is auto-reset or has no setter inside, has no waits
KeptAlone ==
  \A e \in EventSet : state[e] /\ (e \notin Manual \/ MutexFree(e)) => reg[e] = {}
Wanting(w) == mode[Call(w)].all \/ status[Call(w)] = NoEvent
StillWants == \A w \in Waiters : wpc[w] = "parked" /\ Wanting(w) => still[Call(w)]
FiredGiven == \A e \in EventSet : spc[e] = "fired" => at[e] \in given[e]
\* a waiter that has come past an event has it or is registered with it
Covered ==
  \A w \in Waiters : wpc[w] \in {"scan", "parked"} /\ Wanting(w) =>
    \A k \in 1..(next[w] - 1) : Call(w) \in given[Events[k]] \cup reg[Events[k]]

\* A waiter that is past the loop over the events has come past all of them.
LEMMA PastLoopStep ==
  ASSUME TypeInv, PastLoop, [Next]_vars
  PROVE  PastLoop'
<1> USE DEF TypeInv, TypeOK, PastLoop, Goto
<1>1. CASE UNCHANGED <<wpc, next>>
  BY <1>1
<1>2. ASSUME NEW w \in Waiters, NEW m \in Modes, StartWait(w, m)
      PROVE  PastLoop'
  BY <1>2 DEF StartWait
<1>3. ASSUME NEW w \in Waiters, Scan(w)
      PROVE  PastLoop'
  <2>1. wpc[w] = "scan" /\ wpc' = wpc /\ \A v \in Waiters \ {w} : next'[v] = next[v]
    BY <1>3 DEF Scan, Take
  <2> QED
    BY <2>1
<1>4. ASSUME NEW w \in Waiters, EndScan(w)
      PROVE  PastLoop'
  BY <1>4, EventsOK DEF EndScan
<1>5. ASSUME NEW w \in Waiters, Wake(w) \/ TimeOut(w) \/ Finish(w) \/ EndWait(w)
      PROVE  PastLoop'
  BY <1>5 DEF Wake, TimeOut, Finish, EndWait
<1> QED
  BY <1>1, <1>2, <1>3, <1>4, <1>5, LonerFrame, SetterFrame DEF Next, WaiterStep, vars

\* Only a call that was made is ever registered.
LEMMA RegsMadeStep ==
  ASSUME TypeInv, RegsMade, [Next]_vars
  PROVE  RegsMade'
<1> USE DEF RegsMade, Made
<1>1. /\ reg \in [EventSet -> SUBSET Calls] /\ count \in [Waiters -> 0..MaxCalls]
      /\ MaxCalls \in Nat
  BY CallsAssumption DEF TypeInv, TypeOK
<1>2. CASE UNCHANGED <<reg, count>>
  BY <1>2
<1>3. ASSUME NEW w \in Waiters, NEW m \in Modes, StartWait(w, m)
      PROVE  RegsMade'
  BY <1>1, <1>3 DEF StartWait, Calls
<1>4. ASSUME NEW w \in Waiters, Scan(w)
      PROVE  RegsMade'
  <2>1. Call(w)[1] = w /\ Call(w)[2] = count[w] /\ count' = count
    BY <1>4 DEF Scan, Call
  <2> QED
    BY <1>1, <1>4, <2>1, ScanReg
<1>5. ASSUME NEW w \in Waiters, EndScan(w) \/ Wake(w) \/ TimeOut(w) \/ Finish(w) \/ EndWait(w)
      PROVE  UNCHANGED <<reg, count>>
  BY <1>5 DEF EndScan, Wake, TimeOut, Finish, EndWait
<1>6. ASSUME NEW e \in EventSet,
             BeginSet(e) \/ SetterStep(e) \/ ResetEvent(e) \/ DestroyEvent(e)
      PROVE  RegsMade'
  BY <1>6, SetterFrame, RegShrinks
<1> QED
  BY <1>2, <1>3, <1>4, <1>5, <1>6, LonerFrame DEF Next, WaiterStep, vars

\* A call that is testing the events is still waiting, and is not registered with
\* those it has not come to.
LEMMA AheadStep ==
  ASSUME TypeInv, Ahead, RegsMade, [Next]_vars
  PROVE  Ahead'
<1> USE DEF Ahead
<1>1. /\ reg \in [EventSet -> SUBSET Calls] /\ wpc \in [Waiters -> WaiterPcs]
      /\ still \in [Calls -> BOOLEAN] /\ next \in [Waiters -> 1..(Len(Events) + 1)]
  BY DEF TypeInv, TypeOK, WaiterPcs
<1>2. CASE UNCHANGED <<reg, still, waiterVars>>
  BY <1>2, CallFixed
<1>3. ASSUME NEW w \in Waiters, NEW m \in Modes, StartWait(w, m)
      PROVE  Ahead'
  <2>1. \A e \in EventSet : <<w, count[w] + 1>> \notin reg[e]
    BY <1>3, CallStarts DEF RegsMade
  <2>2. /\ wpc' = [wpc EXCEPT ![w] = "scan"] /\ next' = [next EXCEPT ![w] = 1]
        /\ still' = [still EXCEPT ![<<w, count[w] + 1>>] = TRUE] /\ reg' = reg
    BY <1>3 DEF StartWait, Goto
  <2>3. /\ wpc'[w] = "scan" => still'[Call(w)']
        /\ \A k \in next'[w]..Len(Events) : Call(w)' \notin reg'[Events[k]]
    BY <1>1, <1>3, <2>1, <2>2, CallStarts, EventsOK
  <2>4. ASSUME NEW v \in Waiters \ {w}, wpc'[v] = "scan"
        PROVE  /\ still'[Call(v)']
               /\ \A k \in next'[v]..Len(Events) : Call(v)' \notin reg'[Events[k]]
    <3>1. Call(v)' = Call(v) /\ Call(v) # <<w, count[w] + 1>>
      BY <1>3, CallStarts
    <3>2. wpc[v] = "scan" /\ next'[v] = next[v]
      BY <1>1, <2>2, <2>4
    <3>3. Call(v) \in Calls
      BY <3>2, CallOK
    <3> QED
      BY <1>1, <2>2, <3>1, <3>2, <3>3
  <2> QED
    BY <2>3, <2>4
<1>4. ASSUME NEW w \in Waiters, Scan(w)
      PROVE  Ahead'
  <2>1. /\ UNCHANGED <<still, wpc, count>> /\ \A v \in Waiters : Call(v)' = Call(v)
    BY <1>4, CallFixed DEF Scan
  <2>2. \A k \in next[w] + 1 .. Len(Events) : Events[k] # Events[next[w]]
    BY <1>4, ScanReg, EventsOK, EventsAssumption
  <2>3. ASSUME NEW v \in Waiters, wpc[v] = "scan", NEW k \in next'[v]..Len(Events)
        PROVE  Call(v) \notin reg'[Events[k]]
    <3>1. CASE v = w
      <4>1. k \in next[w]..Len(Events) /\ Events[k] \in EventSet /\ Events[k] # Events[next[w]]
        BY <1>1, <1>4, <2>2, <2>3, <3>1, ScanReg, EventsOK
      <4> QED
        BY <1>4, <2>3, <3>1, <4>1, ScanReg
    <3>2. CASE v # w
      <4>1. k \in next[v]..Len(Events) /\ Events[k] \in EventSet
        BY <1>1, <1>4, <2>3, <3>2, ScanReg, EventsOK
      <4> QED
        BY <1>4, <2>3, <3>2, <4>1, ScanReg, CallsDiffer
    <3> QED
      BY <3>1, <3>2
  <2> QED
    BY <2>1, <2>3
<1>5. ASSUME NEW w \in Waiters, EndScan(w) \/ Wake(w) \/ TimeOut(w) \/ Finish(w) \/ EndWait(w)
      PROVE  Ahead'
  <2>1. UNCHANGED <<reg, count, next>> /\ \A v \in Waiters : Call(v)' = Call(v)
    BY <1>5, CallFixed DEF EndScan, Wake, TimeOut, Finish, EndWait
  <2>2. /\ wpc'[w] # "scan" /\ \A v \in Waiters \ {w} : wpc'[v] = wpc[v]
        /\ still' = still \/ still' = [still EXCEPT ![Call(w)] = FALSE]
    BY <1>1, <1>5 DEF EndScan, Wake, TimeOut, Finish, EndWait, Goto
  <2>3. \A v \in Waiters \ {w} : wpc[v] = "scan" => still'[Call(v)] = still[Call(v)]
    BY <1>1, <2>2, CallsDiffer, CallOK
  <2> QED
    BY <2>1, <2>2, <2>3
<1>6. ASSUME NEW e \in EventSet,
             BeginSet(e) \/ SetterStep(e) \/ ResetEvent(e) \/ DestroyEvent(e)
      PROVE  Ahead'
  <2>1. UNCHANGED waiterVars /\ \A v \in Waiters : Call(v)' = Call(v)
    BY <1>6, SetterFrame, CallFixed
  <2>2. ASSUME NEW v \in Waiters, wpc[v] = "scan"
        PROVE  still'[Call(v)] = still[Call(v)]
    <3>1. Call(v) \in Calls /\ ~ObjectFree(Call(v))
      BY <2>2, CallOK DEF ObjectFree
    <3> QED
      BY <1>6, <3>1, StillKept
  <2>3. \A v \in Waiters : \A k \in next[v]..Len(Events) : Events[k] \in EventSet
    BY <1>1, EventsOK
  <2> QED
    BY <1>6, <2>1, <2>2, <2>3, RegShrinks
<1> QED
  BY <1>2, <1>3, <1>4, <1>5, <1>6, LonerFrame DEF Next, WaiterStep, vars

\* A call that is still waiting is one that a waiter is in.
LEMMA StillInCallStep ==
  ASSUME TypeInv, StillInCall, [Next]_vars
  PROVE  StillInCall'
<1> USE DEF StillInCall
<1>1. wpc \in [Waiters -> WaiterPcs] /\ still \in [Calls -> BOOLEAN]
  BY DEF TypeInv, TypeOK, WaiterPcs
<1>2. \A o \in Calls : o[1] \in Waiters
  BY DEF Calls
<1>3. CASE UNCHANGED <<still, waiterVars>>
  BY <1>2, <1>3, CallFixed
<1>4. ASSUME NEW w \in Waiters, NEW m \in Modes, StartWait(w, m)
      PROVE  StillInCall'
  <2>1. /\ wpc[w] = "idle" /\ wpc' = [wpc EXCEPT ![w] = "scan"]
        /\ still' = [still EXCEPT ![<<w, count[w] + 1>>] = TRUE]
    BY <1>4 DEF StartWait, Goto
  <2> SUFFICES ASSUME NEW o \in Calls, still'[o]
               PROVE  o = Call(o[1])' /\ wpc'[o[1]] \in {"scan", "parked", "finish"}
    OBVIOUS
  <2>2. CASE o = <<w, count[w] + 1>>
    BY <1>1, <1>4, <2>1, <2>2, CallStarts
  <2>3. CASE o # <<w, count[w] + 1>>
    <3>1. still[o] /\ o[1] \in Waiters \ {w}
      BY <1>1, <1>2, <2>1, <2>3
    <3> QED
      BY <1>1, <1>4, <2>1, <3>1, CallStarts
  <2> QED
    BY <2>2, <2>3
<1>5. ASSUME NEW w \in Waiters, Scan(w) \/ EndScan(w) \/ Wake(w) \/ TimeOut(w)
      PROVE  StillInCall'
  <2>1. /\ UNCHANGED <<still, count>>
        /\ wpc' = wpc \/ wpc' = [wpc EXCEPT ![w] = "finish"]
                      \/ wpc' = [wpc EXCEPT ![w] = "parked"]
    BY <1>5 DEF Scan, EndScan, Wake, TimeOut, Goto
  <2> QED
    BY <1>1, <1>2, <2>1, CallFixed
<1>6. ASSUME NEW w \in Waiters, Finish(w)
      PROVE  StillInCall'
  <2>1. /\ UNCHANGED count /\ wpc' = [wpc EXCEPT ![w] = "release"]
        /\ still' = [still EXCEPT ![Call(w)] = FALSE] /\ Call(w) \in Calls
    BY <1>6, CallOK DEF Finish, Goto
  <2> QED
    BY <1>1, <1>2, <2>1, CallFixed
<1>7. ASSUME NEW w \in Waiters, EndWait(w)
      PROVE  StillInCall'
  <2>1. /\ UNCHANGED <<still, count>> /\ wpc' = [wpc EXCEPT ![w] = "idle"]
        /\ wpc[w] = "release"
    BY <1>7 DEF EndWait, Goto
  <2> QED
    BY <1>1, <1>2, <2>1, CallFixed
<1>8. ASSUME NEW e \in EventSet,
             BeginSet(e) \/ SetterStep(e) \/ ResetEvent(e) \/ DestroyEvent(e)
      PROVE  StillInCall'
  BY <1>2, <1>8, SetterFrame, CallFixed, StillKept
<1> QED
  BY <1>3, <1>4, <1>5, <1>6, <1>7, <1>8, LonerFrame DEF Next, WaiterStep, vars

\* A setter that skips a call has seen that it is over.
LEMMA SkipOverStep ==
  ASSUME TypeInv, RegsMade, SkipOver, [Next]_vars
  PROVE  SkipOver'
<1> USE DEF SkipOver
<1>1. /\ still \in [Calls -> BOOLEAN] /\ at \in [EventSet -> Calls \cup {NoCall}]
      /\ reg \in [EventSet -> SUBSET Calls]
      /\ spc \in [EventSet -> {"idle", "look", "lock", "skip", "fired", "signal"}]
  BY DEF TypeInv, TypeOK
<1>2. \A e \in EventSet : spc[e] = "skip" => at[e] \in reg[e]
  BY DEF TypeInv, InHand
<1>3. CASE UNCHANGED <<spc, at, still>>
  BY <1>3
<1>4. ASSUME NEW w \in Waiters, NEW m \in Modes, StartWait(w, m)
      PROVE  SkipOver'
  <2>1. /\ UNCHANGED <<spc, at>>
        /\ still' = [still EXCEPT ![<<w, count[w] + 1>>] = TRUE]
    BY <1>4 DEF StartWait
  <2>2. \A e \in EventSet : spc[e] = "skip" => at[e] # <<w, count[w] + 1>>
    BY <1>2, <1>4, CallStarts DEF RegsMade
  <2> QED
    BY <1>1, <1>2, <2>1, <2>2
<1>5. ASSUME NEW w \in Waiters, WaiterStep(w) \/ TimeOut(w)
      PROVE  SkipOver'
  <2>1. UNCHANGED <<spc, at>>
    BY <1>5, WaiterFrame
  <2>2. still' = still \/ still' = [still EXCEPT ![Call(w)] = FALSE]
    BY <1>5 DEF WaiterStep, Scan, EndScan, Wake, Finish, EndWait, TimeOut
  <2> QED
    BY <1>1, <1>2, <2>1, <2>2
<1>6. ASSUME NEW e \in EventSet, NEW o \in Calls, Look(e, o)
      PROVE  SkipOver'
  <2>1. /\ UNCHANGED still /\ at' = [at EXCEPT ![e] = o]
        /\ spc' = [spc EXCEPT ![e] = IF still[o] THEN "lock" ELSE "skip"]
    BY <1>6 DEF Look, SetterGoto
  <2> QED
    BY <1>1, <2>1
<1>7. ASSUME NEW e \in EventSet, Deliver(e)
      PROVE  SkipOver'
  <2>1. \A f \in EventSet : still'[at[f]] /\ at[f] \in Calls => still[at[f]]
    BY <1>7, StillKept DEF SetterStep
  <2>2. /\ at' = at
        /\ \/ spc' = [spc EXCEPT ![e] = "fired"]
           \/ spc' = [spc EXCEPT ![e] = "skip"] /\ ~still[at[e]] /\ still' = still
    BY <1>7 DEF Deliver, MustFire, SetterGoto
  <2> QED
    BY <1>1, <1>2, <2>1, <2>2
<1>8. ASSUME NEW e \in EventSet,
             BeginSet(e) \/ GiveBack(e) \/ EndSet(e) \/ Signal(e) \/ ResetEvent(e)
               \/ DestroyEvent(e)
      PROVE  SkipOver'
  <2>1. /\ UNCHANGED still
        /\ \A f \in EventSet : spc'[f] = "skip" => spc[f] = "skip" /\ at'[f] = at[f]
    BY <1>1, <1>8 DEF BeginSet, GiveBack, EndSet, Signal, ResetEvent, DestroyEvent,
                      SetterGoto
  <2> QED
    BY <2>1
<1> QED
  BY <1>3, <1>4, <1>5, <1>6, <1>7, <1>8, LonerFrame DEF Next, SetterStep, vars

\* An event that is set keeps no registrations, but while the setter of a
\* manual-reset event visits them.
LEMMA KeptAloneStep ==
  ASSUME TypeInv, KeptAlone, [Next]_vars
  PROVE  KeptAlone'
<1> USE DEF KeptAlone, MutexFree
<1>1. /\ state \in [EventSet -> BOOLEAN] /\ reg \in [EventSet -> SUBSET Calls]
      /\ spc \in [EventSet -> {"idle", "look", "lock", "skip", "fired", "signal"}]
  BY DEF TypeInv, TypeOK
<1>2. CASE UNCHANGED <<state, reg, spc>>
  BY <1>2
<1>3. ASSUME NEW w \in Waiters, Scan(w)
      PROVE  KeptAlone'
  <2> DEFINE e == Events[next[w]]
  <2>1. e \in EventSet /\ spc' = spc
    BY <1>3, ScanReg, EventsOK DEF Scan
  <2>2. \/ UNCHANGED <<state, reg>>
        \/ /\ reg' = [reg EXCEPT ![e] = LiveRegs(e)]
           /\ state' = state \/ state' = [state EXCEPT ![e] = FALSE]
        \/ ~state[e] /\ state' = state /\ \A f \in EventSet \ {e} : reg'[f] = reg[f]
    BY <1>1, <1>3 DEF Scan, Consume
  <2> QED
    BY <1>1, <2>1, <2>2 DEF LiveRegs
<1>4. ASSUME NEW w \in Waiters,
             \/ EndScan(w) \/ Wake(w) \/ Finish(w) \/ EndWait(w) \/ TimeOut(w)
             \/ \E m \in Modes : StartWait(w, m)
      PROVE  UNCHANGED <<state, reg, spc>>
  BY <1>4 DEF StartWait, EndScan, Wake, Finish, EndWait, TimeOut
<1>5. ASSUME NEW t \in Loners, Resume(t) \/ \E s \in Singles : Enter(t, s)
      PROVE  KeptAlone'
  <2>1. UNCHANGED <<reg, spc>> /\ (state' = state \/ \E e : state' = Consume(e))
    BY <1>5, LonerFrame
  <2> QED
    BY <1>1, <2>1 DEF Consume
<1>6. ASSUME NEW e \in EventSet, BeginSet(e)
      PROVE  KeptAlone'
  <2>1. /\ reg' = reg /\ spc' = [spc EXCEPT ![e] = "look"]
        /\ state' = IF e \in Manual THEN [state EXCEPT ![e] = TRUE] ELSE state
    BY <1>6 DEF BeginSet, SetterGoto
  <2> QED
    BY <1>1, <2>1
<1>7. ASSUME NEW e \in EventSet, Deliver(e) \/ \E o \in Calls : Look(e, o)
      PROVE  KeptAlone'
  <2>1. /\ UNCHANGED <<state, reg>> /\ \A f \in EventSet \ {e} : spc'[f] = spc[f]
        /\ spc'[e] \in {"lock", "skip", "fired"}
    BY <1>1, <1>7 DEF Look, Deliver, SetterGoto
  <2> QED
    BY <1>1, <2>1
<1>8. ASSUME NEW e \in EventSet, GiveBack(e)
      PROVE  KeptAlone'
  <2>1. /\ state' = state /\ reg' = [reg EXCEPT ![e] = Popped(e)]
        /\ \A f \in EventSet \ {e} : spc'[f] = spc[f]
        /\ e \in Manual => spc'[e] = "look"
    BY <1>1, <1>8 DEF GiveBack, SetterGoto
  <2> QED
    BY <1>1, <2>1 DEF Popped
<1>9. ASSUME NEW e \in EventSet, EndSet(e) \/ Signal(e)
      PROVE  KeptAlone'
  <2>1. /\ reg' = reg /\ \A f \in EventSet \ {e} : spc'[f] = spc[f] /\ state'[f] = state[f]
        /\ \/ spc[e] = "signal" /\ state' = state
           \/ reg[e] = {}
    BY <1>1, <1>9 DEF EndSet, NoneLeft, Signal, SetterGoto
  <2> QED
    BY <1>1, <2>1
<1>10. ASSUME NEW e \in EventSet, ResetEvent(e) \/ DestroyEvent(e)
       PROVE  KeptAlone'
  <2>1. /\ spc' = spc /\ (state' = state \/ state' = [state EXCEPT ![e] = FALSE])
        /\ reg' = reg \/ reg' = [reg EXCEPT ![e] = LiveRegs(e)]
    BY <1>10 DEF ResetEvent, DestroyEvent
  <2> QED
    BY <1>1, <2>1 DEF LiveRegs
<1>11. ASSUME NEW w \in Waiters,
              WaiterStep(w) \/ TimeOut(w) \/ \E m \in Modes : StartWait(w, m)
       PROVE  KeptAlone'
  BY <1>2, <1>3, <1>4, <1>11 DEF WaiterStep
<1>12. ASSUME NEW e \in EventSet,
              BeginSet(e) \/ SetterStep(e) \/ ResetEvent(e) \/ DestroyEvent(e)
       PROVE  KeptAlone'
  BY <1>6, <1>7, <1>8, <1>9, <1>10, <1>12 DEF SetterStep
<1>13. CASE UNCHANGED vars
  BY <1>2, <1>13 DEF vars
<1> QED
  BY <1>5, <1>11, <1>12, <1>13 DEF Next

\* A parked call that lacks an event is still waiting.
LEMMA StillWantsStep ==
  ASSUME TypeInv, Ahead, StillWants, [Next]_vars
  PROVE  StillWants'
<1> USE DEF StillWants, Wanting
<1>1. /\ wpc \in [Waiters -> WaiterPcs] /\ still \in [Calls -> BOOLEAN]
      /\ status \in [Calls -> Int] /\ mode \in [Calls -> [all : BOOLEAN, timed : BOOLEAN]]
  BY DEF TypeInv, TypeOK, WaiterPcs
<1>2. CASE UNCHANGED <<wpc, count, mode, status, still>>
  BY <1>2, CallFixed
<1>3. ASSUME NEW w \in Waiters, NEW m \in Modes, StartWait(w, m)
      PROVE  StillWants'
  <2> DEFINE n == <<w, count[w] + 1>>
  <2>1. /\ wpc' = [wpc EXCEPT ![w] = "scan"] /\ mode' = [mode EXCEPT ![n] = m]
        /\ status' = [status EXCEPT ![n] = IF m.all THEN Len(Events) ELSE NoEvent]
        /\ still' = [still EXCEPT ![n] = TRUE]
    BY <1>3 DEF StartWait, Goto
  <2> SUFFICES ASSUME NEW v \in Waiters, wpc'[v] = "parked",
                      mode'[Call(v)'].all \/ status'[Call(v)'] = NoEvent
               PROVE  still'[Call(v)']
    OBVIOUS
  <2>2. v # w /\ wpc[v] = "parked"
    BY <1>1, <2>1
  <2>3. Call(v)' = Call(v) /\ Call(v) # n /\ Call(v) \in Calls
    BY <1>3, <2>2, CallStarts, CallOK
  <2>4. mode'[Call(v)] = mode[Call(v)] /\ status'[Call(v)] = status[Call(v)]
    BY <1>1, <2>1, <2>3
  <2> QED
    BY <1>1, <2>1, <2>2, <2>3, <2>4
<1>4. ASSUME NEW w \in Waiters, Scan(w)
      PROVE  StillWants'
  <2>1. /\ UNCHANGED <<wpc, count, mode, still>> /\ wpc[w] = "scan"
        /\ \A o \in Calls \ {Call(w)} : status'[o] = status[o]
    BY <1>1, <1>4 DEF Scan, Take
  <2> QED
    BY <2>1, CallFixed, CallsDiffer, CallOK
<1>5. ASSUME NEW w \in Waiters, EndScan(w) \/ Wake(w) \/ TimeOut(w) \/ EndWait(w)
      PROVE  StillWants'
  <2>1. /\ UNCHANGED <<count, mode, status, still>>
        /\ \A v \in Waiters \ {w} : wpc'[v] = wpc[v]
        /\ wpc'[w] = "parked" => wpc[w] = "scan"
    BY <1>1, <1>5 DEF EndScan, Wake, TimeOut, EndWait, Goto
  <2> QED
    BY <2>1, CallFixed DEF Ahead
<1>6. ASSUME NEW w \in Waiters, Finish(w)
      PROVE  StillWants'
  <2>1. /\ UNCHANGED <<count, mode, status>> /\ wpc' = [wpc EXCEPT ![w] = "release"]
        /\ still' = [still EXCEPT ![Call(w)] = FALSE]
    BY <1>6 DEF Finish, Goto
  <2> QED
    BY <1>1, <2>1, CallFixed, CallsDiffer, CallOK
<1>7. ASSUME NEW e \in EventSet, Deliver(e)
      PROVE  StillWants'
  <2>1. /\ UNCHANGED <<wpc, count, mode>> /\ at[e] \in Calls
    BY <1>7 DEF Deliver, TypeInv, TypeOK, InHand
  <2>2. \/ UNCHANGED <<status, still>>
        \/ /\ mode[at[e]].all /\ UNCHANGED still
           /\ status' = [status EXCEPT ![at[e]] = status[at[e]] - 1]
        \/ /\ ~mode[at[e]].all
           /\ status' = [status EXCEPT ![at[e]] = IndexOf(e)]
           /\ still' = [still EXCEPT ![at[e]] = FALSE]
    BY <1>7 DEF Deliver, Fire
  <2>3. IndexOf(e) # NoEvent
    BY EventsOK DEF NoEvent
  <2> SUFFICES ASSUME NEW v \in Waiters, wpc[v] = "parked",
                      mode[Call(v)].all \/ status'[Call(v)] = NoEvent
               PROVE  still'[Call(v)]
    BY <2>1, CallFixed
  <2>4. Call(v) \in Calls /\ mode[Call(v)].all \in BOOLEAN
    BY <1>1, CallOK
  <2>5. CASE Call(v) = at[e]
    <3>1. mode[at[e]].all \/ status[at[e]] = NoEvent => still[at[e]]
      BY <2>5
    <3>2. mode[at[e]].all \/ status'[at[e]] = NoEvent
      BY <2>5
    <3> QED
      BY <1>1, <2>1, <2>2, <2>3, <2>5, <3>1, <3>2
  <2>6. CASE Call(v) # at[e]
    <3>1. status'[Call(v)] = status[Call(v)] /\ still'[Call(v)] = still[Call(v)]
      BY <1>1, <2>2, <2>4, <2>6
    <3> QED
      BY <3>1
  <2> QED
    BY <2>5, <2>6
<1>8. ASSUME NEW e \in EventSet,
             \/ BeginSet(e) \/ GiveBack(e) \/ EndSet(e) \/ Signal(e)
             \/ ResetEvent(e) \/ DestroyEvent(e) \/ \E o \in Calls : Look(e, o)
      PROVE  UNCHANGED <<wpc, count, mode, status, still>>
  BY <1>8 DEF BeginSet, Look, GiveBack, EndSet, Signal, ResetEvent, DestroyEvent
<1> QED
  BY <1>2, <1>3, <1>4, <1>5, <1>6, <1>7, <1>8, LonerFrame
     DEF Next, WaiterStep, SetterStep, vars

\* The call that a setter has fired has got the event.
LEMMA FiredGivenStep ==
  ASSUME TypeInv, FiredGiven, [Next]_vars
  PROVE  FiredGiven'
<1> USE DEF FiredGiven
<1>1. /\ given \in [EventSet -> SUBSET (Calls \cup Loners)]
      /\ at \in [EventSet -> Calls \cup {NoCall}]
      /\ spc \in [EventSet -> {"idle", "look", "lock", "skip", "fired", "signal"}]
  BY DEF TypeInv, TypeOK
<1>2. ASSUME UNCHANGED <<spc, at>>, \A e \in EventSet : given[e] \subseteq given'[e]
      PROVE  FiredGiven'
  BY <1>2
<1>3. ASSUME NEW w \in Waiters,
             WaiterStep(w) \/ TimeOut(w) \/ \E m \in Modes : StartWait(w, m)
      PROVE  FiredGiven'
  <2>1. \/ given' = given
        \/ given' = [given EXCEPT ![Events[next[w]]] = @ \cup {Call(w)}]
    BY <1>3 DEF WaiterStep, Scan, Take, EndScan, Wake, Finish, EndWait, TimeOut, StartWait
  <2> QED
    BY <1>1, <1>2, <1>3, <2>1, WaiterFrame
<1>4. ASSUME NEW t \in Loners, Resume(t) \/ \E s \in Singles : Enter(t, s)
      PROVE  FiredGiven'
  <2>1. given' = given \/ \E e : given' = [given EXCEPT ![e] = @ \cup {t}]
    BY <1>4 DEF Resume, Enter
  <2> QED
    BY <1>1, <1>2, <1>4, <2>1, LonerFrame
<1>5. ASSUME NEW e \in EventSet, Deliver(e)
      PROVE  FiredGiven'
  <2>1. /\ at' = at /\ \A f \in EventSet : given[f] \subseteq given'[f]
        /\ \A f \in EventSet \ {e} : spc'[f] = spc[f]
        /\ spc'[e] = "fired" => at[e] \in given'[e]
    BY <1>1, <1>5 DEF Deliver, Fire, SetterGoto
  <2> QED
    BY <2>1
<1>6. ASSUME NEW e \in EventSet,
             \/ BeginSet(e) \/ GiveBack(e) \/ EndSet(e) \/ Signal(e)
             \/ ResetEvent(e) \/ DestroyEvent(e) \/ \E o \in Calls : Look(e, o)
      PROVE  FiredGiven'
  <2>1. /\ given' = given
        /\ \A f \in EventSet : spc'[f] = "fired" => spc[f] = "fired" /\ at'[f] = at[f]
    BY <1>1, <1>6 DEF BeginSet, GiveBack, EndSet, Signal, ResetEvent, DestroyEvent, Look,
                      SetterGoto
  <2> QED
    BY <2>1
<1>7. CASE UNCHANGED vars
  BY <1>7 DEF vars
<1> QED
  BY <1>3, <1>4, <1>5, <1>6, <1>7 DEF Next, SetterStep

\* A waiter that has come past an event and wants it stays registered until it
\* gets it.
LEMMA CoveredStep ==
  ASSUME TypeInv, RegsMade, Ahead, SkipOver, StillWants, FiredGiven, Covered, [Next]_vars
  PROVE  Covered'
<1> USE DEF Covered
<1>1. /\ given \in [EventSet -> SUBSET (Calls \cup Loners)]
      /\ reg \in [EventSet -> SUBSET Calls] /\ still \in [Calls -> BOOLEAN]
      /\ status \in [Calls -> Int] /\ mode \in [Calls -> [all : BOOLEAN, timed : BOOLEAN]]
      /\ wpc \in [Waiters -> WaiterPcs] /\ next \in [Waiters -> 1..(Len(Events) + 1)]
      /\ \A w \in Waiters : next[w] - 1 \in 0..Len(Events)
  BY EventsOK DEF TypeInv, TypeOK, WaiterPcs
<1>2. \A w \in Waiters : wpc[w] \in {"scan", "parked"} /\ Wanting(w) => still[Call(w)]
  BY DEF Ahead, StillWants
<1>3. \A w \in Waiters : \A k \in 1..(next[w] - 1) : Events[k] \in EventSet
  BY <1>1, EventsOK
\* a step that leaves a waiter where it is and takes nothing from it
<1>4. ASSUME NEW v \in Waiters, Call(v)' = Call(v), next'[v] = next[v],
             wpc'[v] \in {"scan", "parked"} => wpc[v] \in {"scan", "parked"},
             Wanting(v)' => Wanting(v),
             \A e \in EventSet : given[e] \subseteq given'[e],
             \A e \in EventSet :
               Call(v) \in reg[e] /\ still[Call(v)] => Call(v) \in given'[e] \cup reg'[e],
             wpc'[v] \in {"scan", "parked"} /\ Wanting(v)', NEW k \in 1..(next'[v] - 1)
      PROVE  Call(v)' \in given'[Events[k]] \cup reg'[Events[k]]
  BY <1>2, <1>3, <1>4
<1>5. ASSUME NEW w \in Waiters, NEW m \in Modes, StartWait(w, m)
      PROVE  Covered'
  <2>1. /\ UNCHANGED <<given, reg>> /\ next' = [next EXCEPT ![w] = 1]
        /\ wpc' = [wpc EXCEPT ![w] = "scan"]
        /\ mode' = [mode EXCEPT ![<<w, count[w] + 1>>] = m]
        /\ \E n : status' = [status EXCEPT ![<<w, count[w] + 1>>] = n]
    BY <1>5 DEF StartWait, Goto
  <2>2. \A k \in 1..(next'[w] - 1) : FALSE
    BY <1>1, <2>1
  <2>3. ASSUME NEW v \in Waiters \ {w}, wpc[v] \in {"scan", "parked"}
        PROVE  Call(v)' = Call(v) /\ next'[v] = next[v] /\ (Wanting(v)' => Wanting(v))
    <3>1. Call(v)' = Call(v) /\ Call(v) # <<w, count[w] + 1>> /\ Call(v) \in Calls
      BY <1>5, <2>3, CallStarts, CallOK
    <3>2. mode'[Call(v)] = mode[Call(v)] /\ status'[Call(v)] = status[Call(v)]
      BY <1>1, <2>1, <3>1
    <3> QED
      BY <1>1, <2>1, <3>1, <3>2 DEF Wanting
  <2>4. \A v \in Waiters \ {w} : wpc'[v] = wpc[v]
    BY <1>1, <2>1
  <2> QED
    BY <1>4, <2>1, <2>2, <2>3, <2>4
<1>6. ASSUME NEW w \in Waiters, Scan(w)
      PROVE  Covered'
  <2> DEFINE e == Events[next[w]]
  <2>1. /\ UNCHANGED <<still, mode, wpc, count>> /\ wpc[w] = "scan" /\ e \in EventSet
        /\ Call(w) \in Calls /\ next[w] \in 1..Len(Events)
        /\ \A v \in Waiters : Call(v)' = Call(v)
    BY <1>6, CallFixed, CallOK, ScanReg, EventsOK DEF Scan
  <2>2. \A f \in EventSet : given[f] \subseteq given'[f]
    BY <1>1, <1>6 DEF Scan, Take
  <2>3. \A f \in EventSet : \A o \in reg[f] : still[o] => o \in reg'[f]
    BY <1>1, <1>6, <2>1 DEF Scan, LiveRegs, Expired
  <2>4. \A o \in Calls \ {Call(w)} : status'[o] = status[o]
    BY <1>1, <1>6 DEF Scan, Take
  <2>5. ASSUME NEW v \in Waiters \ {w}, wpc[v] \in {"scan", "parked"}
        PROVE  next'[v] = next[v] /\ (Wanting(v)' => Wanting(v))
    BY <1>6, <2>1, <2>4, <2>5, ScanReg, CallsDiffer, CallOK DEF Wanting
  <2>6. ASSUME Wanting(w)', NEW k \in 1..(next'[w] - 1)
        PROVE  Call(w) \in given'[Events[k]] \cup reg'[Events[k]]
    <3>1. /\ next'[w] = next[w] + 1 /\ Wanting(w)
          /\ Call(w) \in given'[e] \/ Call(w) \in reg'[e]
      <4>1. CASE Take(w)
        <5>1. Call(w) \in given'[e]
          BY <1>1, <2>1, <4>1 DEF Take
        <5>2. mode[Call(w)].all
          BY <1>1, <2>1, <2>6, <4>1 DEF Take, Wanting, NoEvent
        <5> QED
          BY <1>1, <4>1, <5>1, <5>2 DEF Take, Wanting
      <4>2. CASE /\ reg' = [reg EXCEPT ![e] = LiveRegs(e) \cup {Call(w)}]
                 /\ next' = [next EXCEPT ![w] = next[w] + 1] /\ status' = status
        BY <1>1, <2>1, <2>6, <4>2 DEF Wanting
      <4> QED
        BY <1>6, <4>1, <4>2 DEF Scan
    <3>2. CASE k = next[w]
      BY <3>1, <3>2
    <3>3. CASE k # next[w]
      <4>1. k \in 1..(next[w] - 1)
        BY <2>1, <3>1, <3>3
      <4> QED
        BY <1>2, <1>3, <2>1, <2>2, <2>3, <3>1, <4>1
    <3> QED
      BY <3>2, <3>3
  <2> QED
    BY <1>4, <2>1, <2>2, <2>3, <2>5, <2>6
<1>7. ASSUME NEW w \in Waiters, EndScan(w) \/ Wake(w) \/ TimeOut(w) \/ Finish(w) \/ EndWait(w)
      PROVE  Covered'
  <2>1. /\ UNCHANGED <<given, reg, count, next, mode, status>>
        /\ \A v \in Waiters : Call(v)' = Call(v) /\ (Wanting(v)' <=> Wanting(v))
    BY <1>7, CallFixed DEF EndScan, Wake, TimeOut, Finish, EndWait, Wanting
  <2>2. \A v \in Waiters :
          wpc'[v] \in {"scan", "parked"} => wpc[v] \in {"scan", "parked"}
    BY <1>1, <1>7 DEF EndScan, Wake, TimeOut, Finish, EndWait, Goto
  <2> QED
    BY <1>4, <2>1, <2>2
<1>8. ASSUME NEW t \in Loners, Resume(t) \/ \E s \in Singles : Enter(t, s)
      PROVE  Covered'
  <2>1. given' = given \/ \E e : given' = [given EXCEPT ![e] = @ \cup {t}]
    BY <1>8 DEF Resume, Enter
  <2>2. /\ UNCHANGED <<reg, mode, status, wpc, count, next>>
        /\ \A v \in Waiters : Call(v)' = Call(v) /\ (Wanting(v)' <=> Wanting(v))
    BY <1>8, LonerFrame, CallFixed DEF Wanting
  <2>3. \A f \in EventSet : given[f] \subseteq given'[f]
    BY <1>1, <2>1
  <2> QED
    BY <1>4, <2>2, <2>3
<1>9. ASSUME NEW e \in EventSet, Deliver(e)
      PROVE  Covered'
  <2>1. /\ UNCHANGED <<reg, mode, wpc, count, next>>
        /\ \A v \in Waiters : Call(v)' = Call(v)
    BY <1>9, CallFixed DEF Deliver
  <2>2. \A f \in EventSet : given[f] \subseteq given'[f]
    <3>1. given' = given \/ given' = [given EXCEPT ![e] = @ \cup {at[e]}]
      BY <1>9 DEF Deliver, Fire
    <3> QED
      BY <1>1, <3>1
  <2>3. at[e] \in Calls
    BY <1>9 DEF Deliver, TypeInv, TypeOK, InHand
  <2>4. \A o \in Calls : mode[o].all \/ (status'[o] = NoEvent => status[o] = NoEvent)
    BY <1>1, <1>9, <2>3, EventsOK DEF Deliver, Fire, NoEvent
  <2>5. \A v \in Waiters : wpc[v] \in {"scan", "parked"} => (Wanting(v)' => Wanting(v))
    BY <2>1, <2>4, CallOK DEF Wanting
  <2> QED
    BY <1>4, <2>1, <2>2, <2>5
<1>10. ASSUME NEW e \in EventSet, GiveBack(e)
       PROVE  Covered'
  <2>1. /\ UNCHANGED <<given, mode, status, wpc, count, next>>
        /\ \A v \in Waiters : Call(v)' = Call(v) /\ (Wanting(v)' <=> Wanting(v))
    BY <1>10, CallFixed DEF GiveBack, Wanting
  <2>2. /\ reg' = [reg EXCEPT ![e] = reg[e] \ {at[e]}]
        /\ still[at[e]] => at[e] \in given[e]
    BY <1>10 DEF GiveBack, Popped, SkipOver, FiredGiven
  <2>3. \A f \in EventSet : \A o \in reg[f] : still[o] => o \in given'[f] \cup reg'[f]
    BY <1>1, <2>1, <2>2
  <2> QED
    BY <1>4, <2>1, <2>3
<1>11. ASSUME NEW e \in EventSet, DestroyEvent(e)
       PROVE  Covered'
  BY <1>11, SetterFrame DEF DestroyEvent, Quiet
<1>12. ASSUME NEW e \in EventSet,
              \/ BeginSet(e) \/ EndSet(e) \/ Signal(e) \/ ResetEvent(e)
              \/ \E o \in Calls : Look(e, o)
       PROVE  UNCHANGED <<given, reg, mode, status, wpc, count, next>>
  BY <1>12 DEF BeginSet, EndSet, Signal, ResetEvent, Look
<1>13. CASE UNCHANGED <<given, reg, mode, status, wpc, count, next>>
  <2>1. \A v \in Waiters : Call(v)' = Call(v) /\ (Wanting(v)' <=> Wanting(v))
    BY <1>13, CallFixed DEF Wanting
  <2> QED
    BY <1>13, <2>1
<1>14. CASE UNCHANGED vars
  BY <1>13, <1>14 DEF vars
<1>15. ASSUME NEW w \in Waiters,
              WaiterStep(w) \/ TimeOut(w) \/ \E m \in Modes : StartWait(w, m)
       PROVE  Covered'
  BY <1>5, <1>6, <1>7, <1>15 DEF WaiterStep
<1>16. ASSUME NEW e \in EventSet,
              BeginSet(e) \/ SetterStep(e) \/ ResetEvent(e) \/ DestroyEvent(e)
       PROVE  Covered'
  BY <1>9, <1>10, <1>11, <1>12, <1>13, <1>16 DEF SetterStep
<1> QED
  BY <1>8, <1>14, <1>15, <1>16 DEF Next

-----------------------------------------------------------------------------
(* What a waiter can rely on.                                               *)

ControlInv ==
  /\ PastLoop /\ RegsMade /\ Ahead /\ StillInCall /\ SkipOver /\ KeptAlone
  /\ StillWants /\ FiredGiven /\ Covered

\* Where everyone is, and what they know, fits together in every state.
THEOREM ControlHolds == Spec => []ControlInv
<1>1. Init => ControlInv
  BY DEF Init, ControlInv, PastLoop, RegsMade, Ahead, StillInCall, SkipOver, KeptAlone,
         StillWants, FiredGiven, Covered
<1>2. TypeInv /\ ControlInv /\ [Next]_vars => ControlInv'
  BY PastLoopStep, RegsMadeStep, AheadStep, StillInCallStep, SkipOverStep, KeptAloneStep,
     StillWantsStep, FiredGivenStep, CoveredStep DEF ControlInv
<1> QED
  BY <1>1, <1>2, TypeCorrect, PTL DEF Spec

\* No wake-up is lost: a call that has come past an event without getting it, and
\* still wants it, is registered with it, and if the event is set its setter has
\* still to come to the call (PEvents!NoLostWakeup).
THEOREM NothingLost == Spec => []NoLostWakeup
<1>1. TypeInv /\ ControlInv => NoLostWakeup
  <2> SUFFICES ASSUME TypeInv, ControlInv, NEW w \in Waiters, wpc[w] \in {"scan", "parked"},
                      mode[Call(w)].all \/ ~Satisfied(w), NEW k \in 1..(next[w] - 1),
                      Call(w) \notin given[Events[k]]
               PROVE  /\ Call(w) \in reg[Events[k]]
                      /\ state[Events[k]] => Events[k] \in Manual /\ ~MutexFree(Events[k])
    BY DEF NoLostWakeup
  <2>1. Call(w) \in reg[Events[k]]
    BY DEF ControlInv, Covered, Wanting, Satisfied
  <2>2. Events[k] \in EventSet
    BY EventsOK DEF TypeInv, TypeOK
  <2> QED
    BY <2>1, <2>2 DEF ControlInv, KeptAlone
<1> QED
  BY <1>1, TypeCorrect, ControlHolds, PTL
=============================================================================
