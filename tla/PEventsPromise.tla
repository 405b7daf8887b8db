---------------------------- MODULE PEventsPromise ----------------------------
(***************************************************************************)
(* The auto-reset events of PEvents keep the promise of EventPromise, and   *)
(* nobody sleeps in WaitForEvent while the event is set, for every value of *)
(* the constants.                                                          *)
(***************************************************************************)
EXTENDS PEventsCounts

USE DEF eventVars, callVars, waiterVars, loneVars, setterVars

-----------------------------------------------------------------------------
(* A call for one event has none while it tests the events or sleeps.       *)

ScanFresh ==
  \A w \in Waiters : wpc[w] = "scan" /\ ~mode[Call(w)].all /\ next[w] <= Len(Events) =>
    status[Call(w)] = NoEvent
ParkedFresh ==
  \A w \in Waiters : wpc[w] = "parked" /\ ~mode[Call(w)].all /\ still[Call(w)] =>
    status[Call(w)] = NoEvent
UnmadeAny == \A o \in Calls : ~Made(o) => ~mode[o].all
FreshInv == ScanFresh /\ ParkedFresh /\ UnmadeAny

\* Every step keeps it so.
LEMMA FreshStep ==
  ASSUME TypeInv, FreshInv, [Next]_vars
  PROVE  FreshInv'
<1> USE DEF FreshInv
<1>1. /\ status \in [Calls -> Int] /\ still \in [Calls -> BOOLEAN]
      /\ mode \in [Calls -> [all : BOOLEAN, timed : BOOLEAN]]
      /\ wpc \in [Waiters -> WaiterPcs] /\ next \in [Waiters -> 1..(Len(Events) + 1)]
      /\ count \in [Waiters -> 0..MaxCalls] /\ MaxCalls \in Nat
  BY CallsAssumption DEF TypeInv, TypeOK, WaiterPcs
<1>2. ASSUME UNCHANGED <<mode, status, still, waiterVars>>
      PROVE  FreshInv'
  BY <1>2, CallFixed DEF ScanFresh, ParkedFresh, UnmadeAny, Made
<1>3. ASSUME NEW w \in Waiters, NEW m \in Modes, StartWait(w, m)
      PROVE  FreshInv'
  <2> DEFINE n == <<w, count[w] + 1>>
  <2>1. /\ wpc' = [wpc EXCEPT ![w] = "scan"] /\ mode' = [mode EXCEPT ![n] = m]
        /\ status' = [status EXCEPT ![n] = IF m.all THEN Len(Events) ELSE NoEvent]
        /\ still' = [still EXCEPT ![n] = TRUE] /\ next' = [next EXCEPT ![w] = 1]
        /\ count' = [count EXCEPT ![w] = count[w] + 1]
    BY <1>3 DEF StartWait, Goto
  <2>2. Call(w)' = n /\ n \in Calls /\ ~Made(n)
    BY <1>3, CallStarts
  <2>3. ASSUME NEW v \in Waiters \ {w}, wpc[v] # "idle"
        PROVE  /\ Call(v)' = Call(v) /\ mode'[Call(v)] = mode[Call(v)]
               /\ status'[Call(v)] = status[Call(v)] /\ still'[Call(v)] = still[Call(v)]
               /\ next'[v] = next[v]
    <3>1. Call(v)' = Call(v) /\ Call(v) # n /\ Call(v) \in Calls
      BY <1>3, <2>3, CallStarts, CallOK
    <3> QED
      BY <1>1, <2>1, <3>1
  <2>4. \A v \in Waiters \ {w} : wpc'[v] = wpc[v]
    BY <1>1, <2>1
  <2>5. ScanFresh'
    <3>1. ~mode'[n].all => status'[n] = NoEvent
      BY <1>1, <2>1, <2>2
    <3> QED
      BY <2>2, <2>3, <2>4, <3>1 DEF ScanFresh
  <2>6. ParkedFresh'
    <3>1. wpc'[w] = "scan"
      BY <1>1, <2>1
    <3> QED
      BY <2>3, <2>4, <3>1 DEF ParkedFresh
  <2>7. UnmadeAny'
    <3>1. \A o \in Calls : o = n => Made(o)'
      BY <1>1, <2>1 DEF Made
    <3>2. \A o \in Calls : Made(o) => Made(o)'
      BY <1>1, <2>1 DEF Made, Calls
    <3>3. \A o \in Calls \ {n} : mode'[o] = mode[o]
      BY <1>1, <2>1
    <3> QED
      BY <3>1, <3>2, <3>3 DEF UnmadeAny
  <2> QED
    BY <2>5, <2>6, <2>7
<1>4. ASSUME NEW w \in Waiters, Scan(w)
      PROVE  FreshInv'
  <2>1. /\ UNCHANGED <<mode, still, wpc, count>> /\ wpc[w] = "scan" /\ Call(w) \in Calls
        /\ \A v \in Waiters : Call(v)' = Call(v)
    BY <1>4, ScanGiven
  <2>2. \A o \in Calls \ {Call(w)} : status'[o] = status[o]
    BY <1>1, <1>4 DEF Scan, Take
  <2>3. \A v \in Waiters \ {w} : next'[v] = next[v]
    BY <1>4, ScanReg
  <2>4. ~mode[Call(w)].all /\ next'[w] <= Len(Events) => status' = status /\ next[w] <= Len(Events)
    <3>1. CASE Take(w)
      <4>1. ~mode[Call(w)].all => next'[w] = Len(Events) + 1
        BY <1>1, <3>1 DEF Take
      <4> QED
        BY <4>1, EventsOK
    <3>2. CASE status' = status
      BY <1>4, <3>2 DEF Scan
    <3> QED
      BY <1>4, <3>1, <3>2 DEF Scan
  <2>5. \A v \in Waiters \ {w} : wpc[v] # "idle" => Call(v) \in Calls \ {Call(w)}
    BY CallOK, CallsDiffer
  <2>6. ScanFresh'
    BY <2>1, <2>2, <2>3, <2>4, <2>5 DEF ScanFresh
  <2>7. ParkedFresh'
    BY <2>1, <2>2, <2>5 DEF ParkedFresh
  <2>8. UnmadeAny'
    BY <2>1 DEF UnmadeAny, Made
  <2> QED
    BY <2>6, <2>7, <2>8
<1>5. ASSUME NEW w \in Waiters, EndScan(w) \/ Wake(w) \/ TimeOut(w) \/ Finish(w) \/ EndWait(w)
      PROVE  FreshInv'
  <2>1. /\ UNCHANGED <<mode, status, next, count>> /\ \A v \in Waiters : Call(v)' = Call(v)
        /\ still' = still \/ still' = [still EXCEPT ![Call(w)] = FALSE]
    BY <1>5, CallFixed DEF EndScan, Wake, TimeOut, Finish, EndWait
  <2>2. /\ \A v \in Waiters \ {w} : wpc'[v] = wpc[v]
        /\ wpc'[w] # "scan" /\ (wpc'[w] = "parked" => ~Satisfied(w))
    BY <1>1, <1>5 DEF EndScan, Wake, TimeOut, Finish, EndWait, Goto
  <2>3. \A v \in Waiters : wpc[v] # "idle" => (still'[Call(v)] => still[Call(v)])
    BY <1>1, <2>1, CallOK
  <2>4. ScanFresh'
    BY <2>1, <2>2 DEF ScanFresh
  <2>5. ParkedFresh'
    BY <2>1, <2>2, <2>3 DEF ParkedFresh, Satisfied
  <2>6. UnmadeAny'
    BY <2>1 DEF UnmadeAny, Made
  <2> QED
    BY <2>4, <2>5, <2>6
<1>6. ASSUME NEW t \in Loners, Resume(t) \/ \E s \in Singles : Enter(t, s)
      PROVE  FreshInv'
  BY <1>2, <1>6, LonerFrame
<1>7. ASSUME NEW e \in EventSet, Deliver(e)
      PROVE  FreshInv'
  <2>1. /\ UNCHANGED <<mode, waiterVars>> /\ \A v \in Waiters : Call(v)' = Call(v)
        /\ at[e] \in Calls
        /\ UNCHANGED <<status, still>> \/ (ObjectFree(at[e]) /\ Fire(at[e], e))
    BY <1>7, DeliverGiven, CallFixed
  <2>2. ScanFresh'
    <3>1. \A v \in Waiters : wpc[v] = "scan" => Call(v) \in Calls /\ ~ObjectFree(Call(v))
      BY CallOK DEF ObjectFree
    <3>2. \A v \in Waiters : wpc[v] = "scan" => status'[Call(v)] = status[Call(v)]
      BY <1>7, <3>1, StillKept DEF SetterStep
    <3> QED
      BY <2>1, <3>2 DEF ScanFresh
  <2>3. ParkedFresh'
    <3>1. \A o \in Calls : ~mode[o].all /\ still'[o] => still[o] /\ status'[o] = status[o]
      BY <1>1, <2>1 DEF Fire
    <3> QED
      BY <2>1, <3>1, CallOK DEF ParkedFresh
  <2>4. UnmadeAny'
    BY <2>1 DEF UnmadeAny, Made
  <2> QED
    BY <2>2, <2>3, <2>4
<1>8. ASSUME NEW e \in EventSet,
             \/ BeginSet(e) \/ GiveBack(e) \/ EndSet(e) \/ Signal(e)
             \/ ResetEvent(e) \/ DestroyEvent(e) \/ \E o \in Calls : Look(e, o)
      PROVE  UNCHANGED <<mode, status, still, waiterVars>>
  BY <1>8 DEF BeginSet, GiveBack, EndSet, Signal, ResetEvent, DestroyEvent, Look
<1>9. CASE UNCHANGED vars
  BY <1>2, <1>9 DEF vars
<1>10. ASSUME NEW w \in Waiters,
              WaiterStep(w) \/ TimeOut(w) \/ \E m \in Modes : StartWait(w, m)
       PROVE  FreshInv'
  BY <1>3, <1>4, <1>5, <1>10 DEF WaiterStep
<1>11. ASSUME NEW e \in EventSet,
              BeginSet(e) \/ SetterStep(e) \/ ResetEvent(e) \/ DestroyEvent(e)
       PROVE  FreshInv'
  BY <1>2, <1>7, <1>8, <1>11 DEF SetterStep
<1> QED
  BY <1>6, <1>9, <1>10, <1>11 DEF Next

\* A call for one event that may still be fired has none.
THEOREM FreshHolds == Spec => []FreshInv
<1>1. Init => FreshInv
  BY DEF Init, FreshInv, ScanFresh, ParkedFresh, UnmadeAny, NoMode
<1>2. TypeInv /\ FreshInv /\ [Next]_vars => FreshInv'
  BY FreshStep
<1> QED
  BY <1>1, <1>2, TypeCorrect, PTL DEF Spec

-----------------------------------------------------------------------------
(* What a step does to the waits that EventPromise sees.                    *)

Waiting(o, e) == o \in reg[e] /\ Wants(o) /\ o \notin given[e]
Promised == Promise!Next \/ UNCHANGED Promise!vars

\* They stay the same when nobody's waiting changes.
LEMMA WaitsKept ==
  ASSUME TypeInv, TypeInv',
         \A e \in Autos : \A o \in Calls : Waiting(o, e)' <=> Waiting(o, e)
  PROVE  Waits' = Waits
<1>1. \A e \in Autos : reg[e] \subseteq Calls /\ reg'[e] \subseteq Calls
  BY DEF TypeInv, TypeOK, Autos
<1> QED
  BY <1>1 DEF Waits, Waiting

\* They lose a call when it no longer waits for any event.
LEMMA WaitsWithout ==
  ASSUME TypeInv, TypeInv', NEW c,
         \A e \in Autos : \A o \in Calls : Waiting(o, e)' <=> Waiting(o, e) /\ o # c
  PROVE  Waits' = Promise!Without(c)
<1>1. \A e \in Autos : reg[e] \subseteq Calls /\ reg'[e] \subseteq Calls
  BY DEF TypeInv, TypeOK, Autos
<1> QED
  BY <1>1 DEF Waits, Waiting, Promise!Without

\* They lose a call at one event when it no longer waits for that.
LEMMA WaitsMinus ==
  ASSUME TypeInv, TypeInv', NEW c, NEW f \in Autos,
         \A e \in Autos : \A o \in Calls :
           Waiting(o, e)' <=> Waiting(o, e) /\ ~(o = c /\ e = f)
  PROVE  Waits' = [Waits EXCEPT ![f] = @ \ {c}]
<1>1. \A e \in Autos : reg[e] \subseteq Calls /\ reg'[e] \subseteq Calls
  BY DEF TypeInv, TypeOK, Autos
<1> QED
  BY <1>1 DEF Waits, Waiting

\* They gain a call at one event when it begins to wait for that.
LEMMA WaitsPlus ==
  ASSUME TypeInv, TypeInv', NEW c \in Calls, NEW f \in Autos,
         \A e \in Autos : \A o \in Calls :
           Waiting(o, e)' <=> Waiting(o, e) \/ (o = c /\ e = f)
  PROVE  Waits' = [Waits EXCEPT ![f] = @ \cup {c}]
<1>1. \A e \in Autos : reg[e] \subseteq Calls /\ reg'[e] \subseteq Calls
  BY DEF TypeInv, TypeOK, Autos
<1> QED
  BY <1>1 DEF Waits, Waiting

\* What nobody can see of the events is no step of EventPromise.
LEMMA Unseen ==
  ASSUME UNCHANGED <<Asked, On, Every, Waits, Got>>
  PROVE  Promised
  BY DEF Promised, Promise!vars

\* Giving up is a step of EventPromise.
LEMMA SeenGiveUp ==
  ASSUME NEW c \in Calls, Waits' = Promise!Without(c), UNCHANGED <<Asked, On, Every, Got>>
  PROVE  Promised
<1>1. Promise!GiveUp(c)
  BY DEF Promise!GiveUp
<1> QED
  BY <1>1 DEF Promised, Promise!Next

\* A wait that begins is none that EventPromise knows.
LEMMA PromisedStart ==
  ASSUME TypeInv, TypeInv', RegsMade, GivenMade, UnmadeAny,
         NEW w \in Waiters, NEW m \in Modes, StartWait(w, m)
  PROVE  Promised
<1> DEFINE n == <<w, count[w] + 1>>
<1>1. /\ UNCHANGED <<state, reg, spc, given>> /\ mode' = [mode EXCEPT ![n] = m]
      /\ \E k : status' = [status EXCEPT ![n] = k]
      /\ still' = [still EXCEPT ![n] = TRUE]
  BY DEF StartWait
<1>2. n \in Calls /\ ~Made(n)
  BY CallStarts
<1>3. /\ status \in [Calls -> Int] /\ still \in [Calls -> BOOLEAN]
      /\ mode \in [Calls -> [all : BOOLEAN, timed : BOOLEAN]]
      /\ m \in [all : BOOLEAN, timed : BOOLEAN]
  BY CallsAssumption DEF TypeInv, TypeOK
<1>4. \A e \in EventSet : n \notin reg[e] /\ n \notin given[e]
  BY <1>2 DEF RegsMade, GivenMade
<1>5. Waits' = Waits
  <2>1. \A o \in Calls \ {n} : Wants(o)' <=> Wants(o)
    BY <1>1, <1>3 DEF Wants
  <2>2. \A e \in Autos : \A o \in Calls : Waiting(o, e)' <=> Waiting(o, e)
    BY <1>1, <1>4, <2>1 DEF Waiting, Autos
  <2> QED
    BY <2>2, WaitsKept
<1>6. UNCHANGED <<Asked, On, Got>>
  BY <1>1 DEF Asked, On, Got
<1>7. CASE m.all
  <2>1. Every' = Every \cup {n}
    BY <1>1, <1>2, <1>3, <1>7 DEF Every
  <2>2. \A e \in Autos : n \notin Waits[e] \cup Got[e]
    BY <1>4 DEF Waits, Got, Autos
  <2>3. Promise!WantAll(n)
    BY <1>5, <1>6, <2>1, <2>2 DEF Promise!WantAll
  <2> QED
    BY <1>2, <2>3 DEF Promised, Promise!Next
<1>8. CASE ~m.all
  <2>1. ~mode[n].all
    BY <1>2 DEF UnmadeAny
  <2>2. Every' = Every
    BY <1>1, <1>2, <1>3, <1>8, <2>1 DEF Every
  <2> QED
    BY <1>5, <1>6, <2>2, Unseen
<1> QED
  BY <1>7, <1>8

\* A turn of the loop takes an event or registers the call with it.
LEMMA PromisedScan ==
  ASSUME TypeInv, TypeInv', Ahead, AheadGiven, ScanFresh, NEW w \in Waiters, Scan(w)
  PROVE  Promised
<1>0. PICK c, e : c = Call(w) /\ e = Events[next[w]]
  OBVIOUS
<1>1. /\ UNCHANGED <<spc, at, mode, still>> /\ wpc[w] = "scan"
      /\ e \in EventSet /\ next[w] \in 1..Len(Events) /\ c \in Calls
  BY <1>0, ScanGiven
<1>2. /\ given \in [EventSet -> SUBSET (Calls \cup Loners)] /\ status \in [Calls -> Int]
      /\ reg \in [EventSet -> SUBSET Calls] /\ state \in [EventSet -> BOOLEAN]
  BY DEF TypeInv, TypeOK
<1>3. c \notin reg[e] /\ c \notin given[e] /\ still[c]
  BY <1>0, <1>1 DEF Ahead, AheadGiven
<1>4. Asked' = Asked /\ Every' = Every
  BY <1>1 DEF Asked, Every
<1>5. \A f \in EventSet : \A o \in Calls \ {c} :
        still[o] => (o \in reg'[f] <=> o \in reg[f])
  BY <1>0, <1>1, <1>2 DEF Scan, LiveRegs, Expired
<1>6. CASE Take(w) /\ \A f \in EventSet : c \in reg'[f] <=> c \in reg[f]
  <2>1. given' = [given EXCEPT ![e] = @ \cup {c}]
    BY <1>0, <1>6 DEF Take
  <2>2. status' = [status EXCEPT ![c] = IF mode[c].all THEN status[c] - 1 ELSE next[w]]
    BY <1>0, <1>6 DEF Take
  <2>3. \A o \in Calls \ {c} : Wants(o)' <=> Wants(o)
    BY <1>1, <1>2, <2>2 DEF Wants
  <2>4. \A f \in Autos : \A o \in Calls \ {c} : Waiting(o, f)' <=> Waiting(o, f)
    <3> SUFFICES ASSUME NEW f \in Autos, NEW o \in Calls \ {c}
                 PROVE  Waiting(o, f)' <=> Waiting(o, f)
      OBVIOUS
    <3>1. o \in given'[f] <=> o \in given[f]
      BY <1>2, <2>1 DEF Autos
    <3>2. still[o] => (o \in reg'[f] <=> o \in reg[f])
      BY <1>5 DEF Autos
    <3> QED
      BY <2>3, <3>1, <3>2 DEF Waiting, Wants
  <2>5. IF c \in Every THEN Waits' = Waits ELSE Waits' = Promise!Without(c)
    <3>1. CASE mode[c].all
      <4>1. \A f \in Autos : Waiting(c, f)' <=> Waiting(c, f)
        <5>1. Wants(c) /\ Wants(c)'
          BY <1>1, <1>3, <3>1 DEF Wants
        <5>2. ASSUME NEW f \in Autos
              PROVE  Waiting(c, f)' <=> Waiting(c, f)
          <6>1. CASE f = e
            BY <1>3, <1>6, <6>1, <1>1 DEF Waiting
          <6>2. CASE f # e
            BY <1>2, <1>6, <2>1, <5>1, <6>2 DEF Waiting, Autos
          <6> QED
            BY <6>1, <6>2
        <5> QED
          BY <5>2
      <4>2. Waits' = Waits
        BY <2>4, <4>1, WaitsKept
      <4> QED
        BY <1>1, <3>1, <4>2 DEF Every
    <3>2. CASE ~mode[c].all
      <4>1. ~Wants(c)'
        BY <1>1, <1>2, <2>2, <3>2 DEF Wants, NoEvent
      <4>2. Waits' = Promise!Without(c)
        BY <2>4, <4>1, WaitsWithout DEF Waiting
      <4> QED
        BY <1>1, <3>2, <4>2 DEF Every
    <3> QED
      BY <3>1, <3>2
  <2>6. CASE e \in Autos
    <3>1. state[e] /\ state' = [state EXCEPT ![e] = FALSE]
      BY <1>0, <1>1, <1>2, <1>3, <2>6, <2>1 DEF Scan, Consume, Autos
    <3>2. e \in On /\ On' = On \ {e}
      BY <1>2, <2>6, <3>1 DEF On, Autos
    <3>3. Got' = [Got EXCEPT ![e] = @ \cup {c}]
      BY <1>2, <2>1, <2>6 DEF Got, Autos
    <3>4. Promise!Take(c, e)
      BY <1>4, <2>5, <3>2, <3>3 DEF Promise!Take, Promise!Gets
    <3> QED
      BY <1>1, <2>6, <3>4 DEF Promised, Promise!Next
  <2>7. CASE e \notin Autos
    <3>1. state' = state
      BY <1>0, <1>1, <1>2, <2>7 DEF Scan, Consume, Autos
    <3>2. On' = On /\ Got' = Got
      BY <1>2, <2>1, <2>7, <3>1 DEF On, Got, Autos
    <3> QED
      BY <1>1, <1>4, <2>5, <3>2, Unseen, SeenGiveUp
  <2> QED
    BY <2>6, <2>7
<1>7. CASE /\ ~state[e] /\ UNCHANGED <<state, status, given>>
           /\ reg' = [reg EXCEPT ![e] = LiveRegs(e) \cup {c}]
  <2>1. Wants(c)
    BY <1>0, <1>1, <1>3 DEF Wants, ScanFresh
  <2>2. \A o : Wants(o)' <=> Wants(o)
    BY <1>1, <1>7 DEF Wants
  <2>3. \A f \in Autos : \A o \in Calls :
          Waiting(o, f)' <=> Waiting(o, f) \/ (o = c /\ f = e)
    <3> SUFFICES ASSUME NEW f \in Autos, NEW o \in Calls
                 PROVE  Waiting(o, f)' <=> Waiting(o, f) \/ (o = c /\ f = e)
      OBVIOUS
    <3>1. CASE o # c
      BY <1>5, <1>7, <2>2, <3>1 DEF Waiting, Wants, Autos
    <3>2. CASE o = c /\ f = e
      BY <1>1, <1>2, <1>3, <1>7, <2>1, <2>2, <3>2 DEF Waiting
    <3>3. CASE o = c /\ f # e
      BY <1>1, <1>2, <1>7, <2>2, <3>3 DEF Waiting, Autos
    <3> QED
      BY <3>1, <3>2, <3>3
  <2>4. On' = On /\ Got' = Got
    BY <1>7 DEF On, Got
  <2>5. CASE e \in Autos
    <3>1. Waits' = [Waits EXCEPT ![e] = @ \cup {c}]
      BY <1>1, <2>3, <2>5, WaitsPlus
    <3>2. e \notin On /\ c \notin Got[e]
      BY <1>3, <1>7, <2>5 DEF On, Got
    <3>3. Promise!Register(c, e)
      BY <1>4, <2>4, <3>1, <3>2 DEF Promise!Register
    <3> QED
      BY <1>1, <2>5, <3>3 DEF Promised, Promise!Next
  <2>6. CASE e \notin Autos
    <3>1. Waits' = Waits
      BY <2>3, <2>6, WaitsKept
    <3> QED
      BY <1>4, <2>4, <3>1, Unseen
  <2> QED
    BY <2>5, <2>6
<1> QED
  <2>1. c \notin Expired(e)
    BY <1>3 DEF Expired
  <2>2. ASSUME reg' = reg \/ reg' = [reg EXCEPT ![e] = LiveRegs(e)]
        PROVE  \A f \in EventSet : c \in reg'[f] <=> c \in reg[f]
    BY <1>1, <1>2, <2>1, <2>2 DEF LiveRegs
  <2> QED
    BY <1>0, <1>6, <1>7, <2>2 DEF Scan

\* A waiter that goes on inside its call, or ends it, is seen to give up at most.
LEMMA PromisedWaiter ==
  ASSUME TypeInv, TypeInv', NEW w \in Waiters,
         EndScan(w) \/ Wake(w) \/ TimeOut(w) \/ Finish(w) \/ EndWait(w)
  PROVE  Promised
<1>1. UNCHANGED <<state, reg, mode, status, spc, given>>
  BY DEF EndScan, Wake, TimeOut, Finish, EndWait
<1>2. UNCHANGED <<Asked, On, Every, Got>>
  BY <1>1 DEF Asked, On, Every, Got
<1>3. CASE still' = still
  <2>1. Waits' = Waits
    BY <1>1, <1>3 DEF Waits, Wants
  <2> QED
    BY <1>2, <2>1, Unseen
<1>4. CASE Finish(w)
  <2>1. PICK c : c = Call(w)
    OBVIOUS
  <2>2. still' = [still EXCEPT ![c] = FALSE] /\ c \in Calls /\ still \in [Calls -> BOOLEAN]
    BY <1>4, <2>1, CallOK DEF Finish, TypeInv, TypeOK
  <2>3. \A o \in Calls : Wants(o)' <=> Wants(o) /\ o # c
    BY <1>1, <2>2 DEF Wants
  <2>4. \A e \in Autos : \A o \in Calls : Waiting(o, e)' <=> Waiting(o, e) /\ o # c
    BY <1>1, <2>3 DEF Waiting
  <2>5. Waits' = Promise!Without(c)
    BY <2>4, WaitsWithout
  <2> QED
    BY <1>2, <2>2, <2>5, SeenGiveUp
<1> QED
  BY <1>3, <1>4 DEF EndScan, Wake, TimeOut, EndWait

\* A thread in WaitForEvent takes an event that is set, or is not seen.
LEMMA PromisedLoner ==
  ASSUME TypeInv, TypeInv', NEW t \in Loners, Resume(t) \/ \E s \in Singles : Enter(t, s)
  PROVE  Promised
<1>1. UNCHANGED <<reg, mode, status, still, spc>>
  BY LonerFrame
<1>2. /\ \A f \in EventSet : \A o \in Calls : o \in given'[f] <=> o \in given[f]
      /\ given \in [EventSet -> SUBSET (Calls \cup Loners)]
      /\ state \in [EventSet -> BOOLEAN] /\ t \notin Calls
  BY LonerGiven, ActorsAssumption DEF TypeInv, TypeOK
<1>3. Asked' = Asked /\ Every' = Every
  BY <1>1 DEF Asked, Every
<1>4. Waits' = Waits
  <2>1. \A e \in Autos : \A o \in Calls : Waiting(o, e)' <=> Waiting(o, e)
    BY <1>1, <1>2 DEF Waiting, Wants, Autos
  <2> QED
    BY <2>1, WaitsKept
<1>5. PICK e : \/ UNCHANGED <<state, given>>
               \/ /\ state[e] /\ state' = Consume(e)
                  /\ given' = [given EXCEPT ![e] = @ \cup {t}]
  BY DEF Resume, Enter
<1>6. CASE UNCHANGED <<state, given>>
  <2>1. On' = On /\ Got' = Got
    BY <1>6 DEF On, Got
  <2> QED
    BY <1>3, <1>4, <2>1, Unseen
<1>7. CASE state[e] /\ state' = Consume(e) /\ given' = [given EXCEPT ![e] = @ \cup {t}]
  <2>1. CASE e \in Autos
    <3>1. state' = [state EXCEPT ![e] = FALSE] /\ e \in EventSet
      BY <1>7, <2>1 DEF Consume, Autos
    <3>2. e \in On /\ On' = On \ {e}
      BY <1>2, <1>7, <2>1, <3>1 DEF On, Autos
    <3>3. Got' = [Got EXCEPT ![e] = @ \cup {t}]
      BY <1>2, <1>7, <2>1 DEF Got, Autos
    <3>4. t \notin Every /\ Promise!Without(t) = Waits
      <4>1. \A f \in Autos : reg[f] \subseteq Calls
        BY DEF TypeInv, TypeOK, Autos
      <4> QED
        BY <1>2, <4>1 DEF Every, Waits, Promise!Without
    <3>5. Promise!Take(t, e)
      BY <1>3, <1>4, <3>2, <3>3, <3>4 DEF Promise!Take, Promise!Gets
    <3> QED
      BY <2>1, <3>5 DEF Promised, Promise!Next
  <2>2. CASE e \notin Autos
    <3>1. \A f \in Autos : state'[f] = state[f] /\ given'[f] = given[f]
      BY <1>2, <1>7, <2>2 DEF Consume, Autos
    <3>2. On' = On /\ Got' = Got
      BY <3>1 DEF On, Got
    <3> QED
      BY <1>3, <1>4, <3>2, Unseen
  <2> QED
    BY <2>1, <2>2
<1> QED
  BY <1>5, <1>6, <1>7

\* A call that a setter may still fire wants the event.
LEMMA FiredWants ==
  ASSUME TypeInv, StillInCall, ParkedFresh, NEW o \in Calls, ObjectFree(o), still[o]
  PROVE  Wants(o)
<1>1. o = Call(o[1]) /\ wpc[o[1]] = "parked" /\ o[1] \in Waiters
  BY DEF StillInCall, ObjectFree, Calls
<1>2. ~mode[o].all => status[o] = NoEvent
  BY <1>1 DEF ParkedFresh
<1> QED
  BY <1>2 DEF Wants

\* A setter hands its event to one call that wants it.
LEMMA PromisedDeliver ==
  ASSUME TypeInv, TypeInv', StillInCall, GivenOnce, ParkedFresh, NEW e \in EventSet, Deliver(e)
  PROVE  Promised
<1>0. PICK o : o = at[e]
  OBVIOUS
<1>1. /\ \/ UNCHANGED <<given, status, still>> /\ spc'[e] = "skip"
         \/ /\ given' = [given EXCEPT ![e] = @ \cup {o}] /\ spc'[e] = "fired"
            /\ ObjectFree(o) /\ Fire(o, e)
      /\ spc[e] = "lock" /\ o \in Calls /\ o \in reg[e]
      /\ \A f \in EventSet \ {e} : spc'[f] = spc[f]
      /\ UNCHANGED <<reg, mode>>
  BY <1>0, DeliverGiven
<1>2. /\ given \in [EventSet -> SUBSET (Calls \cup Loners)] /\ status \in [Calls -> Int]
      /\ still \in [Calls -> BOOLEAN]
  BY DEF TypeInv, TypeOK
<1>3. state' = state
  BY DEF Deliver
<1>4. On' = On /\ Every' = Every
  BY <1>1, <1>3 DEF On, Every
<1>5. CASE UNCHANGED <<given, status, still>> /\ spc'[e] = "skip"
  <2>1. Waits' = Waits /\ Got' = Got
    BY <1>1, <1>5 DEF Waits, Wants, Got
  <2>2. Asked' = Asked
    BY <1>1, <1>5 DEF Asked, Autos
  <2> QED
    BY <1>4, <2>1, <2>2, Unseen
<1>6. CASE /\ given' = [given EXCEPT ![e] = @ \cup {o}] /\ spc'[e] = "fired"
           /\ ObjectFree(o) /\ Fire(o, e)
  <2>1. \A p \in Calls \ {o} : Wants(p)' <=> Wants(p)
    BY <1>1, <1>2, <1>6 DEF Fire, Wants
  <2>2. \A f \in Autos : \A p \in Calls \ {o} : Waiting(p, f)' <=> Waiting(p, f)
    BY <1>1, <1>2, <1>6, <2>1 DEF Waiting, Autos
  <2>3. o \in given'[e] /\ \A f \in Autos \ {e} : given'[f] = given[f]
    BY <1>2, <1>6 DEF Autos
  <2>4. ~mode[o].all => ~Wants(o)'
    BY <1>1, <1>2, <1>6 DEF Fire, Wants
  <2>5. mode[o].all => (Wants(o)' <=> Wants(o))
    BY <1>1, <1>6 DEF Fire, Wants
  <2>6. ~mode[o].all => Waits' = Promise!Without(o)
    BY <2>2, <2>4, WaitsWithout DEF Waiting
  <2>7. CASE e \in Autos
    <3>1. e \in Asked /\ Asked' = Asked \ {e}
      BY <1>1, <1>6, <2>7 DEF Asked, Autos
    <3>2. Got' = [Got EXCEPT ![e] = @ \cup {o}]
      BY <1>2, <1>6, <2>7 DEF Got, Autos
    <3>3. o \in Waits[e]
      <4>1. still[o]
        <5>1. MustFire(e) \/ spc' = [spc EXCEPT ![e] = "skip"]
          BY DEF Deliver, SetterGoto
        <5>2. MustFire(e)
          BY <1>6, <5>1 DEF TypeInv, TypeOK
        <5> QED
          BY <1>0, <2>7, <5>2 DEF MustFire, Autos
      <4>2. Wants(o)
        BY <1>1, <1>6, <4>1, FiredWants
      <4>3. o \notin given[e]
        BY <1>1 DEF GivenOnce
      <4> QED
        BY <1>1, <2>7, <4>2, <4>3 DEF Waits
    <3>4. mode[o].all => Waits' = [Waits EXCEPT ![e] = @ \ {o}]
      <4>1. mode[o].all => \A f \in Autos : \A p \in Calls :
              Waiting(p, f)' <=> Waiting(p, f) /\ ~(p = o /\ f = e)
        BY <1>1, <2>2, <2>3, <2>5 DEF Waiting
      <4> QED
        BY <2>7, <4>1, WaitsMinus
    <3>5. o \in Every <=> mode[o].all
      BY <1>1 DEF Every
    <3>6. Promise!Hand(o, e)
      BY <1>4, <2>6, <3>1, <3>2, <3>3, <3>4, <3>5 DEF Promise!Hand, Promise!Gets
    <3> QED
      BY <1>1, <2>7, <3>6 DEF Promised, Promise!Next
  <2>8. CASE e \notin Autos
    <3>1. Asked' = Asked
      BY <1>1, <2>8 DEF Asked, Autos
    <3>2. Got' = Got
      BY <2>3, <2>8 DEF Got
    <3>3. mode[o].all => Waits' = Waits
      <4>1. mode[o].all => \A f \in Autos : \A p \in Calls : Waiting(p, f)' <=> Waiting(p, f)
        BY <1>1, <2>2, <2>3, <2>5, <2>8 DEF Waiting
      <4> QED
        BY <4>1, WaitsKept
    <3> QED
      BY <1>1, <1>4, <2>6, <3>1, <3>2, <3>3, Unseen, SeenGiveUp
  <2> QED
    BY <2>7, <2>8
<1> QED
  BY <1>1, <1>5, <1>6

\* What a setter pops waits no longer.
LEMMA PromisedBack ==
  ASSUME TypeInv, TypeInv', SkipOver, FiredGiven, NEW e \in EventSet, GiveBack(e)
  PROVE  Promised
<1>1. /\ UNCHANGED <<state, mode, status, still, given>>
      /\ reg' = [reg EXCEPT ![e] = reg[e] \ {at[e]}] /\ spc[e] \in {"skip", "fired"}
      /\ spc' = [spc EXCEPT ![e] = IF spc[e] = "fired" /\ e \notin Manual THEN "idle" ELSE "look"]
  BY DEF GiveBack, Popped, SetterGoto
<1>2. /\ reg \in [EventSet -> SUBSET Calls]
      /\ spc \in [EventSet -> {"idle", "look", "lock", "skip", "fired", "signal"}]
  BY DEF TypeInv, TypeOK
<1>3. ~still[at[e]] \/ at[e] \in given[e]
  BY <1>1 DEF SkipOver, FiredGiven
<1>4. \A o : Wants(o)' <=> Wants(o)
  BY <1>1 DEF Wants
<1>5. \A f \in Autos : \A o \in Calls : Waiting(o, f)' <=> Waiting(o, f)
  <2> SUFFICES ASSUME NEW f \in Autos, NEW o \in Calls
               PROVE  Waiting(o, f)' <=> Waiting(o, f)
    OBVIOUS
  <2>1. CASE o = at[e] /\ f = e
    BY <1>1, <1>3, <1>4, <2>1 DEF Waiting, Wants
  <2>2. CASE o # at[e] \/ f # e
    <3>1. o \in reg'[f] <=> o \in reg[f]
      BY <1>1, <1>2, <2>2 DEF Autos
    <3> QED
      BY <1>1, <1>4, <3>1 DEF Waiting
  <2> QED
    BY <2>1, <2>2
<1>6. Waits' = Waits
  BY <1>5, WaitsKept
<1>7. UNCHANGED <<Asked, On, Every, Got>>
  BY <1>1, <1>2 DEF Asked, On, Every, Got, Autos
<1> QED
  BY <1>6, <1>7, Unseen

\* The other steps of setters: a signal is asked for, and kept when nobody waits.
LEMMA PromisedSetter ==
  ASSUME TypeInv, TypeInv', NEW e \in EventSet,
         BeginSet(e) \/ EndSet(e) \/ Signal(e) \/ \E o \in Calls : Look(e, o)
  PROVE  Promised
<1>1. UNCHANGED <<reg, mode, status, still, given>>
  BY DEF BeginSet, EndSet, Signal, Look
<1>2. /\ state \in [EventSet -> BOOLEAN]
      /\ spc \in [EventSet -> {"idle", "look", "lock", "skip", "fired", "signal"}]
  BY DEF TypeInv, TypeOK
<1>3. UNCHANGED <<Every, Waits, Got>>
  BY <1>1 DEF Every, Waits, Wants, Got
<1>4. CASE BeginSet(e)
  <2>1. /\ spc[e] = "idle" /\ spc' = [spc EXCEPT ![e] = "look"]
        /\ e \notin Manual => state' = state
        /\ state' = state \/ state' = [state EXCEPT ![e] = TRUE]
    BY <1>4 DEF BeginSet, SetterGoto
  <2>2. On' = On
    BY <1>2, <2>1 DEF On, Autos
  <2>3. CASE e \in Autos
    <3>1. e \notin Asked /\ Asked' = Asked \cup {e}
      BY <1>2, <2>1, <2>3 DEF Asked, Autos
    <3>2. Promise!Set(e)
      BY <1>3, <2>2, <3>1 DEF Promise!Set
    <3> QED
      BY <2>3, <3>2 DEF Promised, Promise!Next
  <2>4. CASE e \notin Autos
    <3>1. Asked' = Asked
      BY <1>2, <2>1, <2>4 DEF Asked, Autos
    <3> QED
      BY <1>3, <2>2, <3>1, Unseen
  <2> QED
    BY <2>3, <2>4
<1>5. CASE EndSet(e)
  <2>1. /\ spc[e] = "look" /\ reg[e] = {} /\ spc' = [spc EXCEPT ![e] = "signal"]
        /\ state' = IF e \in Manual THEN state ELSE [state EXCEPT ![e] = TRUE]
    BY <1>5 DEF EndSet, NoneLeft, SetterGoto
  <2>2. CASE e \in Autos
    <3>1. e \in Asked /\ Asked' = Asked \ {e}
      BY <1>2, <2>1, <2>2 DEF Asked, Autos
    <3>2. Waits[e] = {} /\ On' = On \cup {e}
      BY <1>2, <2>1, <2>2 DEF Waits, On, Autos
    <3>3. Promise!Keep(e)
      BY <1>3, <3>1, <3>2 DEF Promise!Keep
    <3> QED
      BY <2>2, <3>3 DEF Promised, Promise!Next
  <2>3. CASE e \notin Autos
    <3>1. Asked' = Asked /\ On' = On
      BY <1>2, <2>1, <2>3 DEF Asked, On, Autos
    <3> QED
      BY <1>3, <3>1, Unseen
  <2> QED
    BY <2>2, <2>3
<1>6. CASE Signal(e) \/ \E o \in Calls : Look(e, o)
  <2>1. /\ state' = state /\ \A f \in EventSet \ {e} : spc'[f] = spc[f]
        /\ spc[e] \in {"look", "lock", "skip"} <=> spc'[e] \in {"look", "lock", "skip"}
    BY <1>2, <1>6 DEF Signal, Look, SetterGoto
  <2>2. Asked' = Asked /\ On' = On
    BY <2>1 DEF Asked, On, Autos
  <2> QED
    BY <1>3, <2>2, Unseen
<1> QED
  BY <1>4, <1>5, <1>6

\* The owner is not seen.
LEMMA PromisedOwner ==
  ASSUME TypeInv, TypeInv', NEW e \in EventSet, ResetEvent(e) \/ DestroyEvent(e)
  PROVE  Promised
<1>1. UNCHANGED <<mode, status, still, spc, given>>
  BY DEF ResetEvent, DestroyEvent
<1>2. state \in [EventSet -> BOOLEAN] /\ reg \in [EventSet -> SUBSET Calls]
  BY DEF TypeInv, TypeOK
<1>3. UNCHANGED <<Asked, Every, Got>>
  BY <1>1 DEF Asked, Every, Got
<1>4. state' = state \/ (e \in Manual /\ state' = [state EXCEPT ![e] = FALSE])
  BY DEF ResetEvent, DestroyEvent
<1>5. On' = On
  BY <1>2, <1>4 DEF On, Autos
<1>6. reg' = reg \/ reg' = [reg EXCEPT ![e] = LiveRegs(e)]
  BY DEF ResetEvent, DestroyEvent
<1>7. \A f \in Autos : \A o \in Calls : Waiting(o, f)' <=> Waiting(o, f)
  <2> SUFFICES ASSUME NEW f \in Autos, NEW o \in Calls
               PROVE  Waiting(o, f)' <=> Waiting(o, f)
    OBVIOUS
  <2>1. still[o] => (o \in reg'[f] <=> o \in reg[f])
    BY <1>2, <1>6 DEF LiveRegs, Expired, Autos
  <2> QED
    BY <1>1, <2>1 DEF Waiting, Wants
<1>8. Waits' = Waits
  BY <1>7, WaitsKept
<1> QED
  BY <1>3, <1>5, <1>8, Unseen

\* Every step is one that EventPromise allows, or is not seen.
LEMMA PromisedStep ==
  ASSUME TypeInv, TypeInv', ControlInv, GivenInv, FreshInv, [Next]_vars
  PROVE  Promised
<1> USE DEF ControlInv, GivenInv, FreshInv
<1>1. ASSUME NEW w \in Waiters,
             WaiterStep(w) \/ TimeOut(w) \/ \E m \in Modes : StartWait(w, m)
      PROVE  Promised
  BY <1>1, PromisedStart, PromisedScan, PromisedWaiter DEF WaiterStep
<1>2. ASSUME NEW e \in EventSet,
             BeginSet(e) \/ SetterStep(e) \/ ResetEvent(e) \/ DestroyEvent(e)
      PROVE  Promised
  BY <1>2, PromisedDeliver, PromisedBack, PromisedSetter, PromisedOwner DEF SetterStep
<1>3. CASE UNCHANGED vars
  BY <1>3, Unseen DEF vars, Asked, On, Every, Waits, Wants, Got
<1> QED
  BY <1>1, <1>2, <1>3, PromisedLoner DEF Next

\* PEvents implements EventPromise: a signal of an auto-reset event goes to one wait
\* that wants it or is kept for a later one (PEvents!KeepsPromise).
THEOREM PromiseKept == Spec => KeepsPromise
<1>1. Init => Promise!Init
  BY DEF Init, NoMode, Promise!Init, Asked, On, Every, Waits, Got, Autos
<1>2. TypeInv /\ TypeInv' /\ ControlInv /\ GivenInv /\ FreshInv /\ [Next]_vars
        => [Promise!Next]_(Promise!vars)
  BY PromisedStep DEF Promised
<1> QED
  BY <1>1, <1>2, TypeCorrect, ControlHolds, GivenHolds, FreshHolds, PTL
     DEF Spec, KeepsPromise, Promise!Spec

-----------------------------------------------------------------------------
(* WaitForEvent: who sleeps, and who is woken.                              *)

Untimed(e) == \A s \in Singles : s.event = e => ~s.timed
Rested(e) ==
  state[e] /\ spc[e] = "idle" /\ (e \in Manual \/ Untimed(e)) /\ Blocked(e) # {} =>
    e \notin Manual /\ Awake(e) # {}
LoneOK == \A t \in Loners : lpc[t] \in {"blocked", "awake"} => lwait[t] \in Singles
SleepInv == LoneOK /\ \A e \in EventSet : Rested(e)

\* An event nobody sets or signals keeps those who wait for it.
LEMMA RestedSame ==
  ASSUME NEW e, Rested(e), state'[e] => state[e], spc'[e] = "idle" => spc[e] = "idle",
         Blocked(e)' = Blocked(e), Awake(e)' = Awake(e)
  PROVE  Rested(e)'
  BY DEF Rested

\* Every step of a thread in WaitForEvent keeps it so.
LEMMA SleepLoner ==
  ASSUME TypeInv, SleepInv, NEW t \in Loners, Resume(t) \/ \E s \in Singles : Enter(t, s)
  PROVE  SleepInv'
<1>1. /\ lpc \in [Loners -> {"idle", "blocked", "awake", "done"}]
      /\ lwait \in [Loners -> Singles \cup {NoSingle}] /\ state \in [EventSet -> BOOLEAN]
      /\ spc' = spc
  BY LonerFrame DEF TypeInv, TypeOK
<1>2. PICK s : /\ s \in Singles /\ lwait' = [lwait EXCEPT ![t] = s] /\ lwait'[t] = s
               /\ lpc[t] = "idle" \/ lwait[t] = s
               /\ \/ /\ state[s.event] /\ state' = Consume(s.event)
                     /\ lpc' = [lpc EXCEPT ![t] = "done"]
                  \/ /\ ~state[s.event] /\ state' = state
                     /\ lpc' = [lpc EXCEPT ![t] = "blocked"]
                  \/ /\ s.timed /\ state' = state
                     /\ lpc' = [lpc EXCEPT ![t] = "done"]
  <2>1. CASE Resume(t)
    <3>1. lwait[t] \in Singles /\ lwait' = lwait
      BY <2>1 DEF Resume, SleepInv, LoneOK
    <3>2. \/ /\ state[lwait[t].event] /\ state' = Consume(lwait[t].event)
             /\ lpc' = [lpc EXCEPT ![t] = "done"]
          \/ /\ ~state[lwait[t].event] /\ state' = state
             /\ lpc' = [lpc EXCEPT ![t] = "blocked"]
          \/ /\ lwait[t].timed /\ state' = state
             /\ lpc' = [lpc EXCEPT ![t] = "done"]
      BY <2>1 DEF Resume, LoneGoto
    <3> QED
      BY <1>1, <3>1, <3>2
  <2>2. ASSUME NEW s \in Singles, Enter(t, s)
        PROVE  /\ lwait' = [lwait EXCEPT ![t] = s] /\ lwait'[t] = s /\ lpc[t] = "idle"
               /\ \/ /\ state[s.event] /\ state' = Consume(s.event)
                     /\ lpc' = [lpc EXCEPT ![t] = "done"]
                  \/ /\ ~state[s.event] /\ state' = state
                     /\ lpc' = [lpc EXCEPT ![t] = "blocked"]
    BY <1>1, <2>2 DEF Enter, LoneGoto
  <2> QED
    BY <2>1, <2>2
<1>3. LoneOK'
  BY <1>1, <1>2 DEF SleepInv, LoneOK
<1>4. ASSUME NEW e \in EventSet
      PROVE  Rested(e)'
  <2>1. state'[e] => state[e]
    BY <1>1, <1>2 DEF Consume
  <2>2. CASE e # s.event
    <3>1. Blocked(e)' = Blocked(e) /\ Awake(e)' = Awake(e)
      <4>1. \A u \in Loners \ {t} : lpc'[u] = lpc[u] /\ lwait'[u] = lwait[u]
        BY <1>1, <1>2
      <4>2. lwait'[t].event # e /\ (lpc[t] = "idle" \/ lwait[t].event # e)
        BY <1>2, <2>2
      <4> QED
        BY <4>1, <4>2 DEF Blocked, Awake
    <3> QED
      BY <1>1, <2>1, <3>1, RestedSame DEF SleepInv
  <2>3. CASE e = s.event /\ e \notin Manual
    <3>1. state'[e] => s.timed
      BY <1>1, <1>2, <2>3 DEF Consume
    <3> QED
      BY <1>2, <2>3, <3>1 DEF Rested, Untimed
  <2>4. CASE e = s.event /\ e \in Manual
    <3>1. state'[e] => lpc' = [lpc EXCEPT ![t] = "done"]
      BY <1>1, <1>2, <2>4
    <3>2. state'[e] => Blocked(e)' \subseteq Blocked(e)
      BY <1>1, <1>2, <3>1 DEF Blocked
    <3> QED
      BY <1>1, <2>1, <2>4, <3>2 DEF Rested, SleepInv
  <2> QED
    BY <2>2, <2>3, <2>4
<1> QED
  BY <1>3, <1>4 DEF SleepInv

\* A signal wakes everyone, or somebody, who sleeps.
LEMMA SleepSignal ==
  ASSUME TypeInv, SleepInv, NEW e \in EventSet, Signal(e)
  PROVE  SleepInv'
<1>1. /\ lpc \in [Loners -> {"idle", "blocked", "awake", "done"}]
      /\ spc \in [EventSet -> {"idle", "look", "lock", "skip", "fired", "signal"}]
  BY DEF TypeInv, TypeOK
<1>2. PICK S \in Woken(e) : lpc' = [t \in Loners |-> IF t \in S THEN "awake" ELSE lpc[t]]
  BY DEF Signal
<1>3. lwait' = lwait /\ state' = state /\ \A f \in EventSet \ {e} : spc'[f] = spc[f]
  BY DEF Signal, SetterGoto
<1>4. /\ S \subseteq Blocked(e)
      /\ \/ (e \in Manual \/ Blocked(e) = {}) /\ S = Blocked(e)
         \/ e \notin Manual /\ S # {}
  BY DEF Woken
<1>5. \A t \in S : t \in Loners /\ lpc[t] = "blocked" /\ lwait[t].event = e
  BY <1>4 DEF Blocked
<1>6. LoneOK'
  BY <1>1, <1>2, <1>3, <1>5 DEF SleepInv, LoneOK
<1>7. ASSUME NEW f \in EventSet \ {e}
      PROVE  Rested(f)'
  <2>1. Blocked(f)' = Blocked(f) /\ Awake(f)' = Awake(f)
    BY <1>2, <1>3, <1>5 DEF Blocked, Awake
  <2> QED
    BY <1>3, <2>1, RestedSame DEF SleepInv
<1>8. Rested(e)'
  <2>1. CASE S = Blocked(e)
    <3>1. Blocked(e)' = {}
      BY <1>2, <1>3, <2>1 DEF Blocked
    <3> QED
      BY <3>1 DEF Rested
  <2>2. CASE e \notin Manual /\ S # {}
    <3>1. Awake(e)' # {}
      BY <1>2, <1>3, <1>5, <2>2 DEF Awake
    <3> QED
      BY <2>2, <3>1 DEF Rested
  <2> QED
    BY <1>4, <2>1, <2>2
<1> QED
  BY <1>6, <1>7, <1>8 DEF SleepInv

\* The other steps wake nobody, and leave no event set with somebody asleep.
LEMMA SleepOther ==
  ASSUME TypeInv, SleepInv, UNCHANGED loneVars, NEW e \in EventSet,
         \A f \in EventSet \ {e} : (state'[f] => state[f]) /\ spc'[f] = spc[f],
         spc'[e] = "idle" /\ state'[e] => spc[e] = "idle" /\ state[e]
  PROVE  SleepInv'
<1>1. LoneOK'
  BY DEF SleepInv, LoneOK
<1>2. \A f : Blocked(f)' = Blocked(f) /\ Awake(f)' = Awake(f)
  BY DEF Blocked, Awake
<1>3. ASSUME NEW f \in EventSet
      PROVE  Rested(f)'
  BY <1>2 DEF Rested, SleepInv
<1> QED
  BY <1>1, <1>3 DEF SleepInv

\* Every step keeps those who sleep accounted for.
LEMMA SleepStep ==
  ASSUME TypeInv, KeptAlone, SleepInv, [Next]_vars
  PROVE  SleepInv'
<1>1. /\ state \in [EventSet -> BOOLEAN] /\ reg \in [EventSet -> SUBSET Calls]
      /\ spc \in [EventSet -> {"idle", "look", "lock", "skip", "fired", "signal"}]
  BY DEF TypeInv, TypeOK
<1>2. ASSUME UNCHANGED <<loneVars, spc>>, \A f \in EventSet : state'[f] => state[f]
      PROVE  SleepInv'
  <2>1. \A e \in EventSet : SleepInv'
    BY <1>2, SleepOther
  <2>2. EventSet # {}
    BY EventsOK, EventsAssumption
  <2> QED
    BY <2>1, <2>2
<1>3. ASSUME NEW w \in Waiters,
             WaiterStep(w) \/ TimeOut(w) \/ \E m \in Modes : StartWait(w, m)
      PROVE  SleepInv'
  <2>1. state' = state \/ \E e : state' = Consume(e)
    BY <1>3 DEF WaiterStep, Scan, EndScan, Wake, Finish, EndWait, TimeOut, StartWait
  <2>2. \A f \in EventSet : state'[f] => state[f]
    BY <1>1, <2>1 DEF Consume
  <2> QED
    BY <1>2, <1>3, <2>2, WaiterFrame
<1>4. ASSUME NEW e \in EventSet, BeginSet(e) \/ EndSet(e) \/ GiveBack(e) \/ Deliver(e)
                                   \/ \E o \in Calls : Look(e, o)
      PROVE  SleepInv'
  <2>1. UNCHANGED loneVars
    BY <1>4 DEF BeginSet, EndSet, GiveBack, Deliver, Look
  <2>2. \A f \in EventSet \ {e} : state'[f] = state[f] /\ spc'[f] = spc[f]
    BY <1>1, <1>4 DEF BeginSet, EndSet, GiveBack, Deliver, Look, SetterGoto
  <2>3. spc'[e] = "idle" => GiveBack(e) /\ e \notin Manual
    BY <1>1, <1>4 DEF BeginSet, EndSet, GiveBack, Deliver, Look, SetterGoto
  <2>4. GiveBack(e) /\ e \notin Manual => ~state'[e]
    <3>1. GiveBack(e) => state' = state /\ reg[e] # {}
      BY DEF GiveBack, TypeInv, InHand
    <3> QED
      BY <3>1 DEF KeptAlone
  <2> QED
    BY <2>1, <2>2, <2>3, <2>4, SleepOther
<1>5. ASSUME NEW e \in EventSet, ResetEvent(e) \/ DestroyEvent(e)
      PROVE  SleepInv'
  <2>1. /\ UNCHANGED <<loneVars, spc>>
        /\ state' = state \/ state' = [state EXCEPT ![e] = FALSE]
    BY <1>5 DEF ResetEvent, DestroyEvent
  <2> QED
    BY <1>1, <1>2, <2>1
<1>6. ASSUME NEW e \in EventSet,
             BeginSet(e) \/ SetterStep(e) \/ ResetEvent(e) \/ DestroyEvent(e)
      PROVE  SleepInv'
  BY <1>4, <1>5, <1>6, SleepSignal DEF SetterStep
<1>7. CASE UNCHANGED vars
  BY <1>2, <1>7 DEF vars
<1> QED
  BY <1>3, <1>6, <1>7, SleepLoner DEF Next

\* A call with no time-out that sleeps in WaitForEvent does not sleep on while its
\* event is set (PEvents!NoSleeper).
THEOREM NobodySleeps == Spec => []NoSleeper
<1>1. Init => SleepInv
  BY DEF Init, SleepInv, LoneOK, Rested
<1>2. TypeInv /\ ControlInv /\ SleepInv /\ [Next]_vars => SleepInv'
  BY SleepStep DEF ControlInv
<1>3. SleepInv => NoSleeper
  BY DEF SleepInv, Rested, Untimed, NoSleeper
<1> QED
  BY <1>1, <1>2, <1>3, TypeCorrect, ControlHolds, PTL DEF Spec
=============================================================================
