------------------------------- MODULE PEvents -------------------------------
(***************************************************************************)
(* The events of pevents.cpp: threads that wait in WaitForMultipleEvents   *)
(* for one or for all of a list of events, with a time-out or without,     *)
(* threads that wait in WaitForEvent for one event, one thread per event   *)
(* that calls SetEvent, and the owner of the events, who resets them and   *)
(* destroys them at the end.                                               *)
(*                                                                         *)
(* Every call of WaitForMultipleEvents makes a smart_wfmo_t_ object, whose *)
(* reference count is shared by the call, the registrations in the events' *)
(* RegisteredWaits and the setters that visit them.  A critical section    *)
(* that cannot block is one step.                                          *)
(***************************************************************************)
EXTENDS Integers, Sequences, FiniteSets

CONSTANTS
  Events,    \* the event list, in the order waiters test it
  Manual,    \* the manual-reset events; the others are auto-reset
  Waiters,   \* threads that call WaitForMultipleEvents
  Modes,     \* how they call it: waitAll or not, with a time-out or not
  Loners,    \* threads that call WaitForEvent
  Singles,   \* how they call it: for which event, with a time-out or not
  MaxCalls,  \* bound on the calls of each waiter
  MaxSets    \* for each event, bound on the calls of SetEvent

EventSet == {Events[i] : i \in DOMAIN Events}

ASSUME EventsAssumption ==
  /\ Events \in Seq(EventSet) /\ Len(Events) > 0
  /\ \A i, j \in DOMAIN Events : Events[i] = Events[j] => i = j
ASSUME CallsAssumption ==
  /\ Modes \subseteq [all : BOOLEAN, timed : BOOLEAN]
  /\ Singles \subseteq [event : EventSet, timed : BOOLEAN]
  /\ MaxCalls \in Nat
ASSUME SetsAssumption == MaxSets \in [EventSet -> Nat]

Calls == Waiters \X (1..MaxCalls)  \* the smart_wfmo_t_ objects
ASSUME ActorsAssumption == Calls \cap Loners = {}

NoEvent == 0                       \* FiredEvent is -1; indices start at 1 here
NoMode == [all |-> FALSE, timed |-> FALSE]
NoSingle == [event |-> NoEvent, timed |-> FALSE]
NoCall == <<>>
InitialRefs == 1 + Len(Events)

VARIABLES
  state,      \* State of each event
  reg,        \* RegisteredWaits of each event, their order left out
  destroyed,  \* the events that were destroyed
  mode,       \* WaitAll of each call, and whether it has a time-out
  status,     \* Status of each call: FiredEvent, or EventsLeft with waitAll
  still,      \* StillWaiting of each call
  refs,       \* RefCount of each call
  freed,      \* calls whose object was deleted
  wpc,        \* where each waiter is
  count,      \* number of its current call
  next,       \* index of the event it tests next
  skipped,    \* skipped_refs
  out,        \* whether the call was timed out
  lpc, lwait, \* where each lone waiter is, and what it waits for
  spc,        \* where the setter of each event is
  at,         \* the call it visits
  sets,       \* calls of SetEvent so far
  given       \* history: the events each call and each lone waiter has got

eventVars == <<state, reg, destroyed>>
callVars == <<mode, status, still, refs, freed>>
waiterVars == <<wpc, count, next, skipped, out>>
loneVars == <<lpc, lwait>>
setterVars == <<spc, at, sets>>
vars == <<eventVars, callVars, waiterVars, loneVars, setterVars, given>>

Call(w) == <<w, count[w]>>

\* Mutex of an event: its setter holds it but for the last signal
MutexFree(e) == spc[e] \in {"idle", "signal"}
\* Mutex of a call: the waiter holds it but for the time of the cond_wait
HeldThroughout(o) ==               \* mutant: cond_wait keeps the mutex
  o = Call(o[1]) => wpc[o[1]] \notin {"scan", "parked", "finish"}
ObjectFree(o) == o = Call(o[1]) => wpc[o[1]] \notin {"scan", "finish"}

Goto(w, pc) == wpc' = [wpc EXCEPT ![w] = pc]
LoneGoto(t, pc) == lpc' = [lpc EXCEPT ![t] = pc]
SetterGoto(e, pc) == spc' = [spc EXCEPT ![e] = pc]

Init ==
  /\ state = [e \in EventSet |-> FALSE] /\ reg = [e \in EventSet |-> {}]
  /\ destroyed = {}
  /\ status = [o \in Calls |-> NoEvent] /\ still = [o \in Calls |-> FALSE]
  /\ refs = [o \in Calls |-> 0] /\ freed = {}
  /\ wpc = [w \in Waiters |-> "idle"] /\ count = [w \in Waiters |-> 0]
  /\ mode = [o \in Calls |-> NoMode]
  /\ next = [w \in Waiters |-> 1] /\ skipped = [w \in Waiters |-> 0]
  /\ out = [w \in Waiters |-> FALSE]
  /\ lpc = [t \in Loners |-> "idle"] /\ lwait = [t \in Loners |-> NoSingle]
  /\ spc = [e \in EventSet |-> "idle"] /\ at = [e \in EventSet |-> NoCall]
  /\ sets = [e \in EventSet |-> 0] /\ given = [e \in EventSet |-> {}]

-----------------------------------------------------------------------------
(* WaitForMultipleEvents.                                                  *)

StartWait(w, m) ==
  /\ wpc[w] = "idle" /\ count[w] < MaxCalls /\ destroyed = {}
  /\ Goto(w, "scan")
  /\ count' = [count EXCEPT ![w] = count[w] + 1]
  /\ mode' = [mode EXCEPT ![<<w, count[w] + 1>>] = m]
  /\ next' = [next EXCEPT ![w] = 1] /\ skipped' = [skipped EXCEPT ![w] = 0]
  /\ out' = [out EXCEPT ![w] = FALSE]
  /\ status' = [status EXCEPT ![<<w, count[w] + 1>>] =
                  IF m.all THEN Len(Events) ELSE NoEvent]
  /\ still' = [still EXCEPT ![<<w, count[w] + 1>>] = TRUE]
  /\ refs' = [refs EXCEPT ![<<w, count[w] + 1>>] = InitialRefs]
  /\ UNCHANGED <<eventVars, freed, loneVars, setterVars, given>>

\* RemoveExpiredWaitHelper, over the registrations of an event
StillOn(e) == {o \in reg[e] : still[o]}  \* mutant: the test is inverted
NoneExpired(e) == {}               \* mutant: the clean-up is forgotten
Expired(e) == {o \in reg[e] : ~still[o]}
LiveRegs(e) == reg[e] \ Expired(e)
DropExpired(e) ==
  /\ refs' = [o \in Calls |-> IF o \in Expired(e) THEN refs[o] - 1 ELSE refs[o]]
  /\ freed' = freed \cup {o \in Expired(e) : refs[o] = 1}

\* UnlockedWaitForEvent on an event found set
NeverReset(e) == state             \* mutant: an auto-reset event stays set
Consume(e) == IF e \in Manual THEN state ELSE [state EXCEPT ![e] = FALSE]

\* the event is taken: one less to wait for, or the wait and its loop are over;
\* the references for the events it did not register with are counted
SkipOne(w) == skipped[w] + 1       \* mutant: those after the event are forgotten
SkipLess(w) == skipped[w] - 1      \* mutant: counted the wrong way
Skips(w) == skipped[w] + (IF mode[Call(w)].all THEN 1 ELSE Len(Events) + 1 - next[w])
Take(w) ==
  /\ skipped' = [skipped EXCEPT ![w] = Skips(w)]
  /\ given' = [given EXCEPT ![Events[next[w]]] = @ \cup {Call(w)}]
  /\ IF mode[Call(w)].all
     THEN /\ status' = [status EXCEPT ![Call(w)] = status[Call(w)] - 1]
          /\ next' = [next EXCEPT ![w] = next[w] + 1]
     ELSE /\ status' = [status EXCEPT ![Call(w)] = next[w]]
          /\ next' = [next EXCEPT ![w] = Len(Events) + 1]

\* one turn of the loop over the events: a manual-reset event that is set is
\* taken without its mutex; otherwise expired registrations are dropped under it,
\* and the event is taken or the call is registered with it
Scan(w) ==
  /\ wpc[w] = "scan" /\ next[w] <= Len(Events)
  /\ LET e == Events[next[w]]
     IN \/ /\ e \in Manual /\ state[e]
           /\ Take(w)
           /\ UNCHANGED <<state, reg, refs, freed>>
        \/ /\ MutexFree(e) /\ state[e]
           /\ DropExpired(e) /\ reg' = [reg EXCEPT ![e] = LiveRegs(e)]
           /\ state' = Consume(e)
           /\ Take(w)
        \/ /\ MutexFree(e) /\ ~state[e]
           /\ DropExpired(e)
           /\ reg' = [reg EXCEPT ![e] = LiveRegs(e) \cup {Call(w)}]
           /\ next' = [next EXCEPT ![w] = next[w] + 1]
           /\ UNCHANGED <<state, status, skipped, given>>
  /\ UNCHANGED <<destroyed, mode, still, wpc, count, out, loneVars, setterVars>>

AnyFired(w) == status[Call(w)] # NoEvent  \* mutant: as if for one event
Satisfied(w) ==
  IF mode[Call(w)].all THEN status[Call(w)] = 0 ELSE status[Call(w)] # NoEvent

\* after the loop the call is done, it times out at once, or it starts the
\* pthread_cond_wait, which releases its mutex
EndScan(w) ==
  /\ wpc[w] = "scan" /\ next[w] > Len(Events)
  /\ \/ Satisfied(w) /\ Goto(w, "finish") /\ UNCHANGED out
     \/ ~Satisfied(w) /\ Goto(w, "parked") /\ UNCHANGED out
     \/ /\ ~Satisfied(w) /\ mode[Call(w)].timed
        /\ Goto(w, "finish") /\ out' = [out EXCEPT ![w] = TRUE]
  /\ UNCHANGED <<eventVars, callVars, count, next, skipped, loneVars,
                 setterVars, given>>

Wake(w) ==
  /\ wpc[w] = "parked" /\ Satisfied(w)
  /\ Goto(w, "finish")
  /\ UNCHANGED <<eventVars, callVars, count, next, skipped, out, loneVars,
                 setterVars, given>>

\* pthread_cond_timedwait gives up: the Status is not looked at again
TimeOut(w) ==
  /\ wpc[w] = "parked" /\ mode[Call(w)].timed
  /\ Goto(w, "finish") /\ out' = [out EXCEPT ![w] = TRUE]
  /\ UNCHANGED <<eventVars, callVars, count, next, skipped, loneVars,
                 setterVars, given>>

\* it reads FiredEvent, the index it returns, and marks the call as over
Finish(w) ==
  /\ wpc[w] = "finish"
  /\ still' = [still EXCEPT ![Call(w)] = FALSE]
  /\ Goto(w, "release")
  /\ UNCHANGED <<eventVars, mode, status, refs, freed, count, next, skipped, out,
                 loneVars, setterVars, given>>

\* give n references back; who gives the last one deletes the object
Release(o, n) ==
  /\ refs' = [refs EXCEPT ![o] = refs[o] - n]
  /\ freed' = IF refs[o] = n THEN freed \cup {o} ELSE freed

EndWait(w) ==
  /\ wpc[w] = "release"
  /\ Release(Call(w), 1 + skipped[w])
  /\ Goto(w, "idle")
  /\ UNCHANGED <<eventVars, mode, status, still, count, next, skipped, out,
                 loneVars, setterVars, given>>

WaiterStep(w) == Scan(w) \/ EndScan(w) \/ Wake(w) \/ Finish(w) \/ EndWait(w)

-----------------------------------------------------------------------------
(* WaitForEvent: a manual-reset event that is set is taken without its      *)
(* mutex; a call with a zero time-out that finds its event not set returns  *)
(* at once and changes nothing.                                             *)

Enter(t, s) ==
  /\ lpc[t] = "idle" /\ destroyed = {}
  /\ lwait' = [lwait EXCEPT ![t] = s]
  /\ \/ /\ state[s.event] /\ (s.event \in Manual \/ MutexFree(s.event))
        /\ state' = Consume(s.event)
        /\ given' = [given EXCEPT ![s.event] = @ \cup {t}]
        /\ LoneGoto(t, "done")
     \/ /\ ~state[s.event] /\ MutexFree(s.event)
        /\ LoneGoto(t, "blocked")
        /\ UNCHANGED <<state, given>>
  /\ UNCHANGED <<reg, destroyed, callVars, waiterVars, setterVars>>

\* pthread_cond_wait returns, after a signal or without one; one with a time-out
\* may end with it, and then takes nothing even of an event that is set
Resume(t) ==
  LET e == lwait[t].event
  IN /\ lpc[t] \in {"blocked", "awake"} /\ MutexFree(e)
     /\ \/ /\ state[e]
           /\ state' = Consume(e)
           /\ given' = [given EXCEPT ![e] = @ \cup {t}]
           /\ LoneGoto(t, "done")
        \/ /\ ~state[e]
           /\ LoneGoto(t, "blocked")
           /\ UNCHANGED <<state, given>>
        \/ /\ lwait[t].timed
           /\ LoneGoto(t, "done")
           /\ UNCHANGED <<state, given>>
     /\ UNCHANGED <<reg, destroyed, callVars, waiterVars, lwait, setterVars>>

Blocked(e) == {t \in Loners : lpc[t] = "blocked" /\ lwait[t].event = e}
Awake(e) == {t \in Loners : lpc[t] = "awake" /\ lwait[t].event = e}

-----------------------------------------------------------------------------
(* SetEvent, by the thread that holds the mutex of e.                       *)

IndexOf(e) == CHOOSE i \in DOMAIN Events : Events[i] = e

\* a manual-reset event is set before any wait is visited (458)
BeginSet(e) ==
  /\ spc[e] = "idle" /\ sets[e] < MaxSets[e] /\ destroyed = {}
  /\ sets' = [sets EXCEPT ![e] = sets[e] + 1]
  /\ state' = IF e \in Manual THEN [state EXCEPT ![e] = TRUE] ELSE state
  /\ SetterGoto(e, "look")
  /\ UNCHANGED <<reg, destroyed, callVars, waiterVars, loneVars, at, given>>

\* the wait it comes to is tested under no lock of the wait
Look(e, o) ==
  /\ spc[e] = "look" /\ o \in reg[e]
  /\ at' = [at EXCEPT ![e] = o]
  /\ SetterGoto(e, IF still[o] THEN "lock" ELSE "skip")
  /\ UNCHANGED <<eventVars, callVars, waiterVars, loneVars, sets, given>>

\* ... and, for an auto-reset event, once more under its lock
AlwaysFire(e) == TRUE              \* mutant: no second test
MustFire(e) == e \in Manual \/ still[at[e]]

\* with waitAll the call goes on waiting, and StillWaiting stays set
Fire(o, e) ==
  /\ given' = [given EXCEPT ![e] = @ \cup {o}]
  /\ IF mode[o].all
     THEN /\ status' = [status EXCEPT ![o] = status[o] - 1]
          /\ UNCHANGED still
     ELSE /\ status' = [status EXCEPT ![o] = IndexOf(e)]
          /\ still' = [still EXCEPT ![o] = FALSE]

Deliver(e) ==
  /\ spc[e] = "lock" /\ ObjectFree(at[e])
  /\ \/ /\ MustFire(e)
        /\ Fire(at[e], e)
        /\ SetterGoto(e, "fired")
     \/ /\ ~MustFire(e)
        /\ SetterGoto(e, "skip")
        /\ UNCHANGED <<status, still, given>>
  /\ UNCHANGED <<eventVars, mode, refs, freed, waiterVars, loneVars, at, sets>>

\* the reference of the registration is given back; an auto-reset event is done
\* with the first wait it fired
NotPopped(e) == reg[e]             \* mutant: the registration stays
Popped(e) == reg[e] \ {at[e]}
GiveBack(e) ==
  /\ spc[e] \in {"skip", "fired"}
  /\ Release(at[e], 1)
  /\ reg' = [reg EXCEPT ![e] = Popped(e)]
  /\ at' = [at EXCEPT ![e] = NoCall]
  /\ SetterGoto(e, IF spc[e] = "fired" /\ e \notin Manual THEN "idle" ELSE "look")
  /\ UNCHANGED <<state, destroyed, mode, status, still, waiterVars, loneVars, sets,
                 given>>

\* no wait is left: an auto-reset event stays set for the next one; Mutex is
\* released, and who sleeps in WaitForEvent is still to be woken
LeftAlone(e) == TRUE               \* mutant: the waits are not visited
NoneLeft(e) == reg[e] = {}
EndSet(e) ==
  /\ spc[e] = "look" /\ NoneLeft(e)
  /\ state' = IF e \in Manual THEN state ELSE [state EXCEPT ![e] = TRUE]
  /\ SetterGoto(e, "signal")
  /\ UNCHANGED <<reg, destroyed, callVars, waiterVars, loneVars, at, sets, given>>

\* pthread_cond_broadcast for a manual-reset event, pthread_cond_signal otherwise
OneOfThem(e) ==                    \* mutant: one thread is woken, whatever the event
  {S \in SUBSET Blocked(e) : Cardinality(S) = IF Blocked(e) = {} THEN 0 ELSE 1}
Woken(e) ==
  IF e \in Manual \/ Blocked(e) = {} THEN {Blocked(e)}
  ELSE {{t} : t \in Blocked(e)}
Signal(e) ==
  /\ spc[e] = "signal"
  /\ \E S \in Woken(e) :
       lpc' = [t \in Loners |-> IF t \in S THEN "awake" ELSE lpc[t]]
  /\ SetterGoto(e, "idle")
  /\ UNCHANGED <<eventVars, callVars, waiterVars, lwait, at, sets, given>>

SetterStep(e) ==
  \/ \E o \in Calls : Look(e, o)
  \/ Deliver(e) \/ GiveBack(e) \/ EndSet(e) \/ Signal(e)

-----------------------------------------------------------------------------
(* The owner of the events.                                                 *)

\* ResetEvent takes no lock
ResetEvent(e) ==
  /\ e \in Manual /\ state[e] /\ destroyed = {}
  /\ state' = [state EXCEPT ![e] = FALSE]
  /\ UNCHANGED <<reg, destroyed, callVars, waiterVars, loneVars, setterVars, given>>

\* nobody may be inside a function of the event; calls that are over may still be
\* registered
Quiet ==
  /\ \A w \in Waiters : wpc[w] = "idle"
  /\ \A t \in Loners : lpc[t] \in {"idle", "done"}
  /\ \A e \in EventSet : spc[e] = "idle"

DestroyEvent(e) ==
  /\ Quiet /\ e \notin destroyed
  /\ DropExpired(e) /\ reg' = [reg EXCEPT ![e] = LiveRegs(e)]
  /\ destroyed' = destroyed \cup {e}
  /\ UNCHANGED <<state, mode, status, still, waiterVars, loneVars, setterVars,
                 given>>

-----------------------------------------------------------------------------
Next ==
  \/ \E w \in Waiters :
       (\E m \in Modes : StartWait(w, m)) \/ WaiterStep(w) \/ TimeOut(w)
  \/ \E t \in Loners : (\E s \in Singles : Enter(t, s)) \/ Resume(t)
  \/ \E e \in EventSet :
       BeginSet(e) \/ SetterStep(e) \/ ResetEvent(e) \/ DestroyEvent(e)

Spec == Init /\ [][Next]_vars

\* every thread that is inside one of the functions runs on
Fairness ==
  /\ \A w \in Waiters : WF_vars(WaiterStep(w))
  /\ \A e \in EventSet : WF_vars(SetterStep(e))

FairSpec == Spec /\ Fairness
-----------------------------------------------------------------------------
(* Properties.                                                             *)

\* every variable has a value the code can give it
TypeOK ==
  /\ state \in [EventSet -> BOOLEAN] /\ reg \in [EventSet -> SUBSET Calls]
  /\ destroyed \in SUBSET EventSet
  /\ mode \in [Calls -> [all : BOOLEAN, timed : BOOLEAN]]
  /\ status \in [Calls -> Int] /\ still \in [Calls -> BOOLEAN]
  /\ refs \in [Calls -> Int] /\ freed \in SUBSET Calls
  /\ wpc \in [Waiters -> {"idle", "scan", "parked", "finish", "release"}]
  /\ count \in [Waiters -> 0..MaxCalls]
  /\ next \in [Waiters -> 1..(Len(Events) + 1)] /\ skipped \in [Waiters -> Nat]
  /\ out \in [Waiters -> BOOLEAN]
  /\ lpc \in [Loners -> {"idle", "blocked", "awake", "done"}]
  /\ lwait \in [Loners -> Singles \cup {NoSingle}]
  /\ spc \in [EventSet -> {"idle", "look", "lock", "skip", "fired", "signal"}]
  /\ at \in [EventSet -> Calls \cup {NoCall}]
  /\ sets \in [EventSet -> Nat]
  /\ given \in [EventSet -> SUBSET (Calls \cup Loners)]

Made(o) == o[2] <= count[o[1]]

\* what a call under way still holds: its own reference, those it skipped and
\* those it has yet to hand to the events
OwnRefs(o) ==
  IF o = Call(o[1]) /\ wpc[o[1]] # "idle"
  THEN 1 + skipped[o[1]] + (Len(Events) + 1 - next[o[1]]) ELSE 0

\* RefCount is at every moment the number of those who will still use the object:
\* the call itself and the registrations no setter and no clean-up has dropped.
\* So it is deleted once, by the last of them, and never under a user (62-75,
\* 322-328, 373-378, 397-402, 429-434, 467-471, 503-508).
RefsExact ==
  \A o \in Calls :
    /\ refs[o] = Cardinality({e \in EventSet : o \in reg[e]}) + OwnRefs(o)
    /\ o \in freed <=> Made(o) /\ refs[o] = 0

\* A call that has come past an event without getting it, and still wants it, is
\* registered with it; and if the event is set, that is because its setter has
\* just set it and will come to the call (231-264, 458-510).
NoLostWakeup ==
  \A w \in Waiters :
    wpc[w] \in {"scan", "parked"} /\ (mode[Call(w)].all \/ ~Satisfied(w)) =>
      \A k \in 1..(next[w] - 1) :
        LET e == Events[k]
        IN Call(w) \notin given[e] =>
             /\ Call(w) \in reg[e]
             /\ state[e] => e \in Manual /\ ~MutexFree(e)

\* EventsLeft of a wait for all events counts down once for each of them,
\* whether the call finds it set or a setter delivers it (249-251, 408-410,
\* 483-485): the assertions EventsLeft >= 0 hold, and it is 0 at the last.
LeftExact ==
  \A o \in Calls : Made(o) /\ mode[o].all =>
    status[o] = Len(Events) - Cardinality({e \in EventSet : o \in given[e]})

\* A call that does not report a time-out has what it waited for: every event, or
\* the event whose index it returns (297-313).
HonestResult ==
  \A w \in Waiters : wpc[w] = "release" /\ ~out[w] =>
    IF mode[Call(w)].all THEN \A e \in EventSet : Call(w) \in given[e]
    ELSE \E k \in DOMAIN Events : /\ status[Call(w)] = k
                                  /\ Call(w) \in given[Events[k]]

\* A call with no time-out that sleeps in WaitForEvent does not sleep on while its
\* event is set: the setter has still to signal, or a thread it has woken has
\* still to look (438-453, 511-517). An event that is auto-reset and waited for
\* with a time-out is left out: who times out may use up the signal.
NoSleeper ==
  \A e \in EventSet :
    state[e] /\ Blocked(e) # {} /\ (e \in Manual \/
                                    \A s \in Singles : s.event = e => ~s.timed)
      => spc[e] # "idle" \/ Awake(e) # {}

\* When every event is destroyed no object of a wait is left behind: DestroyEvent
\* drops the registrations that nobody set the event for (338-344).
NothingLeaks ==
  destroyed = EventSet => \A o \in Calls : Made(o) => o \in freed

\* A setter waits for the mutex of a call, a call that is registering waits for
\* the mutex of a setter: SetEvent always returns (231, 384, 475).
SetReturns == \A e \in EventSet : spc[e] # "idle" ~> spc[e] = "idle"

\* The auto-reset events as EventPromise sees them.
Wants(o) == still[o] /\ (mode[o].all \/ status[o] = NoEvent)
Autos == EventSet \ Manual
Asked == {e \in Autos : spc[e] \in {"look", "lock", "skip"}}
On == {e \in Autos : state[e]}
Every == {o \in Calls : mode[o].all}
Waits == [e \in Autos |-> {o \in reg[e] : Wants(o) /\ o \notin given[e]}]
Got == [e \in Autos |-> given[e]]
Promise == INSTANCE EventPromise WITH
  Takers <- Calls \cup Loners, asked <- Asked, on <- On, every <- Every,
  waits <- Waits, got <- Got

\* The auto-reset events keep the promise of EventPromise: a signal is handed to one
\* call that is registered and still wants it, or kept when there is none and taken
\* by one later, be it in WaitForEvent; and, as the comment at 387-391 asks, a call
\* that one event has ended does not use up the signal of another (131-137, 242-264,
\* 364-454).
KeepsPromise == Promise!Spec

\* The comments at 387-391 and 478-480: a call that an auto-reset event has fired
\* returns that event; a manual-reset event that comes later does not take its
\* place.
SignalKept ==
  [][\A w \in Waiters :
       LET k == status[Call(w)]
       IN wpc[w] = "parked" /\ k # NoEvent /\ Events[k] \notin Manual
            => status'[Call(w)] = k]_vars
=============================================================================
