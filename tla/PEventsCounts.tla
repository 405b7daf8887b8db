---------------------------- MODULE PEventsCounts ----------------------------
(***************************************************************************)
(* Theorems about the counters of PEvents: RefCount, which decides when the *)
(* object of a wait is deleted, and EventsLeft, which decides when a wait   *)
(* for all events is over.                                                 *)
(***************************************************************************)
EXTENDS PEventsProofs

USE DEF eventVars, callVars, waiterVars, loneVars, setterVars

-----------------------------------------------------------------------------
(* Sets of events, and how a step changes their size.                       *)

\* There are as many events as places in the list.
LEMMA EventsFinite == IsFiniteSet(EventSet) /\ Cardinality(EventSet) = Len(Events)
<1>1. Events \in Surjection(1..Len(Events), EventSet)
  <2>1. Events \in [1..Len(Events) -> EventSet]
    BY EventsOK, EventsAssumption
  <2> QED
    BY <2>1, EventsOK DEF Surjection
<1>2. Events \in Injection(1..Len(Events), EventSet)
  BY <1>1, EventsOK, EventsAssumption DEF Surjection, Injection, IsInjective
<1>3. /\ IsFiniteSet(1..Len(Events))
      /\ Cardinality(1..Len(Events)) = Len(Events)
  BY EventsOK, FS_Interval
<1> QED
  BY <1>1, <1>2, <1>3, FS_Surjection

\* A set of events has a size, one less without a member, one more with another.
LEMMA SetSize ==
  ASSUME NEW S \in SUBSET EventSet
  PROVE  /\ IsFiniteSet(S) /\ Cardinality(S) \in Nat
         /\ \A e \in S : Cardinality(S) >= 1 /\ Cardinality(S \ {e}) = Cardinality(S) - 1
         /\ \A e : e \notin S => Cardinality(S \cup {e}) = Cardinality(S) + 1
<1>1. IsFiniteSet(S) /\ Cardinality(S) \in Nat
  BY EventsFinite, FS_Subset, FS_CardinalityType
<1>2. ASSUME NEW e \in S
      PROVE  Cardinality(S) >= 1 /\ Cardinality(S \ {e}) = Cardinality(S) - 1
  <2>1. Cardinality(S) # 0
    BY <1>1, FS_EmptySet
  <2>2. Cardinality(S \ {e}) = Cardinality(S) - 1
    BY <1>1, FS_RemoveElement
  <2> QED
    BY <1>1, <2>1, <2>2
<1>3. ASSUME NEW e, e \notin S
      PROVE  Cardinality(S \cup {e}) = Cardinality(S) + 1
  BY <1>1, <1>3, FS_AddElement
<1> QED
  BY <1>1, <1>2, <1>3

-----------------------------------------------------------------------------
(* RefCount.                                                               *)

Regs(o) == {e \in EventSet : o \in reg[e]}
RefOK(o) ==
  /\ refs[o] = Cardinality(Regs(o)) + OwnRefs(o)
  /\ o \in freed <=> Made(o) /\ refs[o] = 0

\* A call holds no negative number of references.
LEMMA OwnNat ==
  ASSUME TypeInv, NEW o \in Calls
  PROVE  OwnRefs(o) \in Nat
<1>1. /\ o[1] \in Waiters /\ skipped[o[1]] \in Nat /\ next[o[1]] \in 1..(Len(Events) + 1)
  BY DEF Calls, TypeInv, TypeOK
<1> QED
  BY <1>1, EventsOK DEF OwnRefs

\* A call keeps its own references when its waiter does nothing.
LEMMA OwnSame ==
  ASSUME NEW o,
         Call(o[1])' = Call(o[1]), wpc'[o[1]] = wpc[o[1]],
         skipped'[o[1]] = skipped[o[1]], next'[o[1]] = next[o[1]]
  PROVE  OwnRefs(o)' = OwnRefs(o)
  BY DEF OwnRefs

\* What does not touch a call, its registrations and its waiter keeps its count.
LEMMA RefSame ==
  ASSUME NEW o, RefOK(o), OwnRefs(o)' = OwnRefs(o), Made(o)' <=> Made(o),
         Regs(o)' = Regs(o), refs'[o] = refs[o], o \in freed' <=> o \in freed
  PROVE  RefOK(o)'
  BY DEF RefOK

\* The clean-up of registrations gives back a reference for each it drops.
LEMMA RefDrop ==
  ASSUME TypeInv, RegsMade, NEW o \in Calls, RefOK(o), NEW e \in EventSet, DropExpired(e),
         OwnRefs(o)' = OwnRefs(o), Made(o)' <=> Made(o),
         \A f \in EventSet \ {e} : o \in reg'[f] <=> o \in reg[f],
         o \in reg'[e] <=> o \in LiveRegs(e)
  PROVE  RefOK(o)'
<1>1. refs[o] \in Int /\ OwnRefs(o) \in Nat /\ Regs(o) \in SUBSET EventSet
  BY OwnNat DEF TypeInv, TypeOK, Regs
<1>2. CASE o \in Expired(e)
  <2>1. Regs(o)' = Regs(o) \ {e} /\ e \in Regs(o) /\ Made(o)
    BY <1>2 DEF Regs, LiveRegs, Expired, RegsMade
  <2>2. Cardinality(Regs(o)) \in Nat /\ Cardinality(Regs(o)) >= 1
        /\ Cardinality(Regs(o)') = Cardinality(Regs(o)) - 1
    BY <1>1, <2>1, SetSize
  <2>3. refs'[o] = refs[o] - 1 /\ (o \in freed' <=> o \in freed \/ refs[o] = 1)
    BY <1>2 DEF DropExpired
  <2> QED
    BY <1>1, <2>1, <2>2, <2>3 DEF RefOK
<1>3. CASE o \notin Expired(e)
  <2>1. Regs(o)' = Regs(o)
    BY <1>3 DEF Regs, LiveRegs
  <2>2. refs'[o] = refs[o] /\ (o \in freed' <=> o \in freed)
    BY <1>3 DEF DropExpired
  <2> QED
    BY <2>1, <2>2, RefSame
<1> QED
  BY <1>2, <1>3

\* StartWait makes an object with a reference for the call and one for each event.
LEMMA RefStart ==
  ASSUME TypeInv, RegsMade, NEW w \in Waiters, NEW m \in Modes, StartWait(w, m),
         NEW o \in Calls, RefOK(o)
  PROVE  RefOK(o)'
<1> DEFINE n == <<w, count[w] + 1>>
<1>1. /\ wpc[w] = "idle" /\ UNCHANGED <<reg, freed>>
      /\ wpc' = [wpc EXCEPT ![w] = "scan"] /\ next' = [next EXCEPT ![w] = 1]
      /\ skipped' = [skipped EXCEPT ![w] = 0] /\ count' = [count EXCEPT ![w] = count[w] + 1]
      /\ refs' = [refs EXCEPT ![n] = InitialRefs]
  BY DEF StartWait, Goto
<1>2. /\ wpc \in [Waiters -> WaiterPcs] /\ next \in [Waiters -> 1..(Len(Events) + 1)]
      /\ skipped \in [Waiters -> Nat] /\ count \in [Waiters -> 0..MaxCalls]
      /\ refs \in [Calls -> Int] /\ MaxCalls \in Nat
  BY CallsAssumption DEF TypeInv, TypeOK, WaiterPcs
<1>3. Regs(o)' = Regs(o)
  BY <1>1 DEF Regs
<1>4. /\ Call(w)' = n /\ n \in Calls /\ ~Made(n)
      /\ \A v \in Waiters \ {w} : Call(v)' = Call(v)
  BY CallStarts
<1>5. o[1] \in Waiters /\ o[2] \in 1..MaxCalls /\ o = <<o[1], o[2]>>
  BY DEF Calls
<1>6. CASE o = n
  <2>1. Regs(o) = {}
    BY <1>4, <1>6 DEF Regs, RegsMade
  <2>2. refs'[o] = 1 + Len(Events)
    BY <1>1, <1>2, <1>4, <1>6 DEF InitialRefs
  <2>3. OwnRefs(o)' = 1 + 0 + (Len(Events) + 1 - 1)
    BY <1>1, <1>2, <1>4, <1>6 DEF OwnRefs
  <2>4. o \notin freed'
    BY <1>1, <1>4, <1>6 DEF RefOK
  <2> QED
    BY <1>3, <2>1, <2>2, <2>3, <2>4, EventsOK, FS_EmptySet DEF RefOK
<1>7. CASE o # n
  <2>1. refs'[o] = refs[o]
    BY <1>1, <1>2, <1>7
  <2>2. Made(o)' <=> Made(o)
    BY <1>1, <1>2, <1>5, <1>7 DEF Made
  <2>3. CASE o[1] = w
    <3>1. OwnRefs(o) = 0
      BY <1>1, <2>3 DEF OwnRefs
    <3>2. OwnRefs(o)' = 0
      BY <1>4, <1>7, <2>3 DEF OwnRefs
    <3> QED
      BY <1>1, <1>3, <2>1, <2>2, <3>1, <3>2, RefSame
  <2>4. CASE o[1] # w
    <3>1. OwnRefs(o)' = OwnRefs(o)
      BY <1>1, <1>2, <1>4, <1>5, <2>4, OwnSame
    <3> QED
      BY <1>1, <1>3, <2>1, <2>2, <3>1, RefSame
  <2> QED
    BY <2>3, <2>4
<1> QED
  BY <1>6, <1>7

\* A turn of the loop hands a reference of the call to the event, or counts it as
\* skipped.
LEMMA RefScan ==
  ASSUME TypeInv, RegsMade, Ahead, NEW w \in Waiters, Scan(w), NEW o \in Calls, RefOK(o)
  PROVE  RefOK(o)'
<1> DEFINE e == Events[next[w]]
<1>1. /\ wpc[w] = "scan" /\ UNCHANGED <<wpc, count>> /\ e \in EventSet
      /\ next[w] \in 1..Len(Events) /\ Call(w) \in Calls
      /\ \A v \in Waiters : Call(v)' = Call(v)
  BY CallFixed, CallOK, ScanReg, EventsOK DEF Scan
<1>2. /\ next \in [Waiters -> 1..(Len(Events) + 1)] /\ skipped \in [Waiters -> Nat]
      /\ refs \in [Calls -> Int] /\ freed \in SUBSET Calls /\ reg \in [EventSet -> SUBSET Calls]
  BY DEF TypeInv, TypeOK
<1>3. Made(o)' <=> Made(o)
  BY <1>1 DEF Made
<1>4. Call(w) \notin Expired(e) /\ Call(w) \notin reg[e]
  BY <1>1 DEF Ahead, Expired
<1>5. o[1] \in Waiters
  BY DEF Calls
<1>6. ASSUME Take(w)
      PROVE  OwnRefs(o)' = OwnRefs(o)
  <2>1. skipped'[w] = Skips(w) /\ \A v \in Waiters \ {w} : skipped'[v] = skipped[v]
    BY <1>2, <1>6 DEF Take
  <2>2. next'[w] = IF mode[Call(w)].all THEN next[w] + 1 ELSE Len(Events) + 1
    BY <1>2, <1>6 DEF Take
  <2>3. CASE o = Call(w)
    <3>1. o[1] = w
      BY <2>3, CallsDiffer
    <3>2. OwnRefs(o) = 1 + skipped[w] + (Len(Events) + 1 - next[w])
      BY <1>1, <2>3, <3>1 DEF OwnRefs
    <3>3. OwnRefs(o)' = 1 + Skips(w) + (Len(Events) + 1 - next'[w])
      BY <1>1, <2>1, <2>3, <3>1 DEF OwnRefs
    <3>4. skipped[w] \in Nat /\ next[w] \in Nat /\ Len(Events) \in Nat
      BY <1>1, <1>2, EventsOK
    <3>5. Skips(w) + (Len(Events) + 1 - next'[w]) = skipped[w] + (Len(Events) + 1 - next[w])
      <4>1. CASE mode[Call(w)].all
        BY <2>2, <3>4, <4>1 DEF Skips
      <4>2. CASE ~mode[Call(w)].all
        BY <2>2, <3>4, <4>2 DEF Skips
      <4> QED
        BY <4>1, <4>2
    <3>6. Skips(w) \in Int /\ next'[w] \in Int
      BY <2>2, <3>4 DEF Skips
    <3> DEFINE a == skipped[w]  b == Len(Events) + 1 - next[w]
               c == Skips(w)    d == Len(Events) + 1 - next'[w]
    <3>7. a \in Int /\ b \in Int
      BY <3>4
    <3>8. c \in Int /\ d \in Int
      BY <3>4, <3>6
    <3>9. OwnRefs(o) = 1 + a + b /\ c + d = a + b
      BY <3>2, <3>5
    <3>10. OwnRefs(o)' = 1 + c + d
      BY <3>3
    <3> HIDE DEF a, b, c, d
    <3> QED
      BY <3>7, <3>8, <3>9, <3>10
  <2>4. CASE o # Call(w) /\ o[1] = w
    BY <1>1, <2>4 DEF OwnRefs
  <2>5. CASE o[1] # w
    BY <1>1, <1>5, <2>1, <2>5, ScanReg, OwnSame
  <2> QED
    BY <2>3, <2>4, <2>5
<1>7. CASE Take(w) /\ UNCHANGED <<state, reg, refs, freed>>
  <2>1. Regs(o)' = Regs(o)
    BY <1>7 DEF Regs
  <2> QED
    BY <1>3, <1>6, <1>7, <2>1, RefSame
<1>8. CASE Take(w) /\ DropExpired(e) /\ reg' = [reg EXCEPT ![e] = LiveRegs(e)]
  <2>1. \A f \in EventSet : reg'[f] = IF f = e THEN LiveRegs(e) ELSE reg[f]
    BY <1>2, <1>8
  <2> QED
    BY <1>1, <1>3, <1>6, <1>8, <2>1, RefDrop
<1>9. CASE /\ DropExpired(e) /\ reg' = [reg EXCEPT ![e] = LiveRegs(e) \cup {Call(w)}]
           /\ next' = [next EXCEPT ![w] = next[w] + 1] /\ skipped' = skipped
  <2>1. \A f \in EventSet :
          reg'[f] = IF f = e THEN LiveRegs(e) \cup {Call(w)} ELSE reg[f]
    BY <1>2, <1>9
  <2>2. CASE o = Call(w)
    <3>1. Regs(o)' = Regs(o) \cup {e} /\ e \notin Regs(o)
      BY <1>1, <1>4, <2>1, <2>2 DEF Regs, LiveRegs
    <3>2. Regs(o) \in SUBSET EventSet
      BY DEF Regs
    <3>3. /\ Cardinality(Regs(o)) \in Nat
          /\ Cardinality(Regs(o)') = Cardinality(Regs(o)) + 1
      BY <3>1, <3>2, SetSize
    <3>4. o[1] = w
      BY <2>2, CallsDiffer
    <3>5. OwnRefs(o) = 1 + skipped[w] + (Len(Events) + 1 - next[w])
      BY <1>1, <2>2, <3>4 DEF OwnRefs
    <3>6. OwnRefs(o)' = 1 + skipped[w] + (Len(Events) + 1 - (next[w] + 1))
      BY <1>1, <1>2, <1>9, <2>2, <3>4 DEF OwnRefs
    <3>7. refs'[o] = refs[o] /\ (o \in freed' <=> o \in freed)
      BY <1>4, <1>9, <2>2 DEF DropExpired
    <3>8. skipped[w] \in Nat /\ next[w] \in Nat
      BY <1>1, <1>2
    <3>9. Cardinality(Regs(o)') + OwnRefs(o)' = Cardinality(Regs(o)) + OwnRefs(o)
      <4> DEFINE l == Len(Events)
      <4>1. /\ l \in Nat /\ OwnRefs(o) = 1 + skipped[w] + (l + 1 - next[w])
            /\ OwnRefs(o)' = 1 + skipped[w] + (l + 1 - (next[w] + 1))
        BY <3>5, <3>6, EventsOK
      <4> HIDE DEF l
      <4> QED
        BY <3>3, <3>8, <4>1
    <3> QED
      BY <1>3, <3>7, <3>9 DEF RefOK
  <2>3. CASE o # Call(w)
    <3>1. OwnRefs(o)' = OwnRefs(o)
      <4>1. CASE o[1] = w
        BY <1>1, <2>3, <4>1 DEF OwnRefs
      <4>2. CASE o[1] # w
        BY <1>1, <1>5, <1>9, <4>2, ScanReg, OwnSame
      <4> QED
        BY <4>1, <4>2
    <3> QED
      BY <1>1, <1>3, <1>9, <2>1, <2>3, <3>1, RefDrop
  <2> QED
    BY <2>2, <2>3
<1> QED
  BY <1>7, <1>8, <1>9 DEF Scan

\* The call gives back what it still holds when it ends.
LEMMA RefEnd ==
  ASSUME TypeInv, PastLoop, NEW w \in Waiters, EndWait(w), NEW o \in Calls, RefOK(o)
  PROVE  RefOK(o)'
<1>1. /\ wpc[w] = "release" /\ UNCHANGED <<reg, count, next, skipped>>
      /\ wpc' = [wpc EXCEPT ![w] = "idle"] /\ Call(w) \in Calls
      /\ \A v \in Waiters : Call(v)' = Call(v)
  BY CallFixed, CallOK DEF EndWait, Goto
<1>2. /\ wpc \in [Waiters -> WaiterPcs] /\ refs \in [Calls -> Int]
      /\ skipped[w] \in Nat /\ next[w] = Len(Events) + 1 /\ o[1] \in Waiters
  BY <1>1 DEF TypeInv, TypeOK, WaiterPcs, PastLoop, Calls
<1>3. Regs(o)' = Regs(o) /\ (Made(o)' <=> Made(o))
  BY <1>1 DEF Regs, Made
<1>4. CASE o = Call(w)
  <2>1. o[1] = w /\ Made(o)
    BY <1>2, <1>4, CallsDiffer DEF Made, Call, TypeInv, TypeOK
  <2>2. OwnRefs(o) = 1 + skipped[w]
    <3>1. OwnRefs(o) = 1 + skipped[w] + (Len(Events) + 1 - next[w])
      BY <1>1, <1>4, <2>1 DEF OwnRefs
    <3>2. Len(Events) + 1 - next[w] = 0
      BY <1>2, EventsOK
    <3> QED
      BY <1>2, <3>1, <3>2
  <2>3. OwnRefs(o)' = 0
    BY <1>1, <1>2, <2>1 DEF OwnRefs
  <2>4. /\ refs'[o] = refs[o] - (1 + skipped[w])
        /\ freed' = IF refs[o] = 1 + skipped[w] THEN freed \cup {o} ELSE freed
    BY <1>2, <1>4 DEF EndWait, Release
  <2>5. Regs(o) \in SUBSET EventSet /\ Cardinality(Regs(o)) \in Nat
    BY SetSize DEF Regs
  <2>6. refs'[o] = Cardinality(Regs(o)) /\ refs[o] # 0
    <3> DEFINE c == Cardinality(Regs(o))  n == skipped[w]
    <3>1. refs[o] = c + (1 + n) /\ c \in Nat /\ n \in Nat /\ refs'[o] = refs[o] - (1 + n)
      BY <1>2, <2>2, <2>4, <2>5 DEF RefOK
    <3> HIDE DEF c, n
    <3>2. refs'[o] = c /\ refs[o] # 0
      BY <3>1
    <3> QED
      BY <3>2 DEF c
  <2>7. o \in freed' <=> refs'[o] = 0
    BY <1>2, <2>1, <2>4, <2>6 DEF RefOK
  <2>8. Cardinality(Regs(o)') + OwnRefs(o)' = Cardinality(Regs(o))
    BY <1>3, <2>3, <2>5
  <2> QED
    BY <1>3, <2>1, <2>6, <2>7, <2>8 DEF RefOK
<1>5. CASE o # Call(w)
  <2>1. refs'[o] = refs[o] /\ (o \in freed' <=> o \in freed)
    BY <1>1, <1>2, <1>5 DEF EndWait, Release
  <2>2. OwnRefs(o)' = OwnRefs(o)
    BY <1>1, <1>2, <1>5 DEF OwnRefs
  <2> QED
    BY <1>3, <2>1, <2>2, RefSame
<1> QED
  BY <1>4, <1>5

\* A setter gives back the reference of the registration it pops.
LEMMA RefBack ==
  ASSUME TypeInv, RegsMade, NEW e \in EventSet, GiveBack(e), NEW o \in Calls, RefOK(o)
  PROVE  RefOK(o)'
<1>1. /\ UNCHANGED waiterVars /\ reg' = [reg EXCEPT ![e] = reg[e] \ {at[e]}]
      /\ refs' = [refs EXCEPT ![at[e]] = refs[at[e]] - 1]
      /\ freed' = IF refs[at[e]] = 1 THEN freed \cup {at[e]} ELSE freed
      /\ at[e] \in reg[e]
  BY DEF GiveBack, Release, Popped, TypeInv, InHand
<1>2. reg \in [EventSet -> SUBSET Calls] /\ refs \in [Calls -> Int]
  BY DEF TypeInv, TypeOK
<1>3. OwnRefs(o)' = OwnRefs(o) /\ (Made(o)' <=> Made(o)) /\ OwnRefs(o) \in Nat
  BY <1>1, OwnNat DEF OwnRefs, Made, Call
<1>4. CASE o = at[e]
  <2>1. Regs(o) \in SUBSET EventSet /\ e \in Regs(o) /\ Made(o)
    BY <1>1, <1>4 DEF Regs, RegsMade
  <2>2. Regs(o)' = Regs(o) \ {e}
    BY <1>1, <1>2, <1>4 DEF Regs
  <2>3. /\ Cardinality(Regs(o)) \in Nat /\ Cardinality(Regs(o)) >= 1
        /\ Cardinality(Regs(o)') = Cardinality(Regs(o)) - 1
    BY <2>1, <2>2, SetSize
  <2>4. /\ refs'[o] = refs[o] - 1
        /\ o \in freed' <=> o \in freed \/ refs[o] = 1
    BY <1>1, <1>2, <1>4
  <2> QED
    BY <1>2, <1>3, <2>1, <2>3, <2>4 DEF RefOK
<1>5. CASE o # at[e]
  <2>1. Regs(o)' = Regs(o)
    BY <1>1, <1>2, <1>5 DEF Regs
  <2>2. refs'[o] = refs[o] /\ (o \in freed' <=> o \in freed)
    BY <1>1, <1>2, <1>5
  <2> QED
    BY <1>3, <2>1, <2>2, RefSame
<1> QED
  BY <1>4, <1>5

\* DestroyEvent gives back a reference for each registration it drops.
LEMMA RefDestroy ==
  ASSUME TypeInv, RegsMade, NEW e \in EventSet, DestroyEvent(e), NEW o \in Calls, RefOK(o)
  PROVE  RefOK(o)'
<1>1. UNCHANGED waiterVars /\ DropExpired(e) /\ reg' = [reg EXCEPT ![e] = LiveRegs(e)]
  BY DEF DestroyEvent
<1>2. \A f \in EventSet : reg'[f] = IF f = e THEN LiveRegs(e) ELSE reg[f]
  BY <1>1 DEF TypeInv, TypeOK
<1>3. OwnRefs(o)' = OwnRefs(o) /\ (Made(o)' <=> Made(o))
  BY <1>1 DEF OwnRefs, Made, Call
<1> QED
  BY <1>1, <1>2, <1>3, RefDrop

\* A waiter that goes on inside its call keeps its references.
LEMMA RefWaiter ==
  ASSUME TypeInv, NEW w \in Waiters, EndScan(w) \/ Wake(w) \/ TimeOut(w) \/ Finish(w),
         NEW o \in Calls, RefOK(o)
  PROVE  RefOK(o)'
<1>1. /\ UNCHANGED <<reg, refs, freed, count, next, skipped>>
      /\ wpc[w] # "idle" /\ wpc'[w] # "idle" /\ \A v \in Waiters \ {w} : wpc'[v] = wpc[v]
  BY DEF EndScan, Wake, TimeOut, Finish, Goto, TypeInv, TypeOK
<1>2. Regs(o)' = Regs(o) /\ (Made(o)' <=> Made(o))
  BY <1>1 DEF Regs, Made
<1>3. o[1] \in Waiters /\ \A v \in Waiters : Call(v)' = Call(v)
  BY <1>1, CallFixed DEF Calls
<1>4. OwnRefs(o)' = OwnRefs(o)
  BY <1>1, <1>3 DEF OwnRefs
<1> QED
  BY <1>1, <1>2, <1>4, RefSame

\* A step that touches neither waiters nor counts keeps the counts.
LEMMA RefQuiet ==
  ASSUME UNCHANGED <<reg, refs, freed, waiterVars>>, NEW o, RefOK(o)
  PROVE  RefOK(o)'
  BY RefSame DEF OwnRefs, Made, Call, Regs

\* Every step keeps RefCount the number of those who will use the object.
LEMMA RefStep ==
  ASSUME TypeInv, ControlInv, [Next]_vars, NEW o \in Calls, RefOK(o)
  PROVE  RefOK(o)'
<1> USE DEF ControlInv
<1>1. ASSUME NEW w \in Waiters,
             WaiterStep(w) \/ TimeOut(w) \/ \E m \in Modes : StartWait(w, m)
      PROVE  RefOK(o)'
  BY <1>1, RefStart, RefScan, RefWaiter, RefEnd DEF WaiterStep
<1>2. ASSUME NEW t \in Loners, Resume(t) \/ \E s \in Singles : Enter(t, s)
      PROVE  RefOK(o)'
  BY <1>2, LonerFrame, RefQuiet
<1>3. ASSUME NEW e \in EventSet,
             \/ BeginSet(e) \/ Deliver(e) \/ EndSet(e) \/ Signal(e) \/ ResetEvent(e)
             \/ \E p \in Calls : Look(e, p)
      PROVE  UNCHANGED <<reg, refs, freed, waiterVars>>
  BY <1>3 DEF BeginSet, Deliver, EndSet, Signal, ResetEvent, Look
<1>4. ASSUME NEW e \in EventSet,
             BeginSet(e) \/ SetterStep(e) \/ ResetEvent(e) \/ DestroyEvent(e)
      PROVE  RefOK(o)'
  BY <1>3, <1>4, RefBack, RefDestroy, RefQuiet DEF SetterStep
<1>5. CASE UNCHANGED vars
  BY <1>5, RefQuiet DEF vars
<1> QED
  BY <1>1, <1>2, <1>4, <1>5 DEF Next

\* RefCount is at every moment the number of those who will still use the object,
\* and the object is deleted when there is none left (PEvents!RefsExact).
THEOREM CountsExact == Spec => []RefsExact
<1> DEFINE AllOK == \A o \in Calls : RefOK(o)
<1>1. Init => AllOK
  <2> SUFFICES ASSUME Init, NEW o \in Calls
               PROVE  RefOK(o)
    OBVIOUS
  <2>1. refs[o] = 0 /\ o \notin freed /\ Regs(o) = {} /\ o[1] \in Waiters
    BY DEF Init, Regs, Calls
  <2>2. OwnRefs(o) = 0 /\ ~Made(o)
    BY <2>1 DEF Init, OwnRefs, Made, Calls
  <2> QED
    BY <2>1, <2>2, FS_EmptySet DEF RefOK
<1>2. TypeInv /\ ControlInv /\ AllOK /\ [Next]_vars => AllOK'
  BY RefStep
<1>3. AllOK => RefsExact
  BY DEF RefOK, RefsExact, Regs
<1> QED
  BY <1>1, <1>2, <1>3, TypeCorrect, ControlHolds, PTL DEF Spec

-----------------------------------------------------------------------------
(* The end: the events are destroyed when nobody is inside their functions. *)

Closing ==
  /\ destroyed # {} => Quiet
  /\ \A e \in destroyed : reg[e] = {}

\* Once the first event is destroyed, only the others are.
LEMMA ClosingStep ==
  ASSUME TypeInv, StillInCall, Closing, [Next]_vars
  PROVE  Closing'
<1>1. reg \in [EventSet -> SUBSET Calls] /\ destroyed \in SUBSET EventSet
  BY DEF TypeInv, TypeOK
<1>2. ASSUME NEW e \in EventSet, DestroyEvent(e)
      PROVE  Closing'
  <2>1. /\ Quiet /\ e \notin destroyed /\ reg' = [reg EXCEPT ![e] = LiveRegs(e)]
        /\ destroyed' = destroyed \cup {e} /\ UNCHANGED <<waiterVars, loneVars, setterVars>>
    BY <1>2 DEF DestroyEvent
  <2>2. \A o \in Calls : ~still[o]
    BY <2>1 DEF Quiet, StillInCall, Calls
  <2>3. LiveRegs(e) = {}
    BY <1>1, <2>2 DEF LiveRegs, Expired
  <2>4. Quiet'
    BY <2>1 DEF Quiet
  <2> QED
    BY <1>1, <2>1, <2>3, <2>4 DEF Closing
<1>3. ASSUME destroyed = {}, destroyed' = destroyed
      PROVE  Closing'
  BY <1>3 DEF Closing
<1>4. CASE UNCHANGED vars
  BY <1>4 DEF vars, Closing, Quiet
<1>5. ASSUME NEW w \in Waiters,
             WaiterStep(w) \/ TimeOut(w) \/ \E m \in Modes : StartWait(w, m)
      PROVE  Closing'
  <2>1. wpc[w] # "idle" \/ destroyed = {}
    BY <1>5 DEF WaiterStep, Scan, EndScan, Wake, Finish, EndWait, TimeOut, StartWait
  <2> QED
    BY <1>3, <1>5, <2>1, WaiterFrame DEF Closing, Quiet
<1>6. ASSUME NEW t \in Loners, Resume(t) \/ \E s \in Singles : Enter(t, s)
      PROVE  Closing'
  <2>1. lpc[t] \notin {"idle", "done"} \/ destroyed = {}
    BY <1>6 DEF Resume, Enter
  <2> QED
    BY <1>3, <1>6, <2>1, LonerFrame DEF Closing, Quiet
<1>7. ASSUME NEW e \in EventSet, BeginSet(e) \/ SetterStep(e) \/ ResetEvent(e)
      PROVE  Closing'
  <2>1. spc[e] # "idle" \/ destroyed = {}
    BY <1>7 DEF BeginSet, SetterStep, ResetEvent, Look, Deliver, GiveBack, EndSet, Signal
  <2>2. destroyed' = destroyed
    BY <1>7 DEF BeginSet, SetterStep, ResetEvent, Look, Deliver, GiveBack, EndSet, Signal
  <2> QED
    BY <1>3, <2>1, <2>2 DEF Closing, Quiet
<1> QED
  BY <1>2, <1>4, <1>5, <1>6, <1>7 DEF Next

\* When every event is destroyed no object of a wait is left (PEvents!NothingLeaks).
THEOREM NoObjectLeft == Spec => []NothingLeaks
<1>1. Init => Closing
  BY DEF Init, Closing
<1>2. TypeInv /\ ControlInv /\ Closing /\ [Next]_vars => Closing'
  BY ClosingStep DEF ControlInv
<1>3. Closing /\ RefsExact => NothingLeaks
  <2> SUFFICES ASSUME Closing, RefsExact, destroyed = EventSet, NEW o \in Calls, Made(o)
               PROVE  o \in freed
    BY DEF NothingLeaks
  <2>1. EventSet # {}
    BY EventsOK, EventsAssumption
  <2>2. OwnRefs(o) = 0
    BY <2>1 DEF Closing, Quiet, OwnRefs, Calls
  <2>3. {e \in EventSet : o \in reg[e]} = {}
    BY DEF Closing
  <2>4. /\ refs[o] = Cardinality({e \in EventSet : o \in reg[e]}) + OwnRefs(o)
        /\ o \in freed <=> Made(o) /\ refs[o] = 0
    BY Zenon DEF RefsExact
  <2>5. refs[o] = 0
    BY <2>2, <2>3, <2>4, FS_EmptySet
  <2> QED
    BY <2>4, <2>5
<1> QED
  BY <1>1, <1>2, <1>3, TypeCorrect, ControlHolds, CountsExact, PTL DEF Spec

-----------------------------------------------------------------------------
(* A call gets an event once.                                               *)

GivenMade == \A e \in EventSet : \A o \in given[e] \cap Calls : Made(o)
AheadGiven ==
  \A w \in Waiters : wpc[w] = "scan" =>
    \A k \in next[w]..Len(Events) : Call(w) \notin given[Events[k]]
GivenOnce ==
  \A e \in EventSet : \A o \in reg[e] \cap given[e] : spc[e] = "fired" /\ at[e] = o
GivenInv == GivenMade /\ AheadGiven /\ GivenOnce

\* A lone waiter gets an event for itself, and for no call.
LEMMA LonerGiven ==
  ASSUME TypeInv, NEW t \in Loners, Resume(t) \/ \E s \in Singles : Enter(t, s)
  PROVE  /\ \A f \in EventSet : \A o \in Calls : o \in given'[f] <=> o \in given[f]
         /\ given' \in [EventSet -> SUBSET (Calls \cup Loners)]
<1>1. given' = given \/ \E e : given' = [given EXCEPT ![e] = @ \cup {t}]
  BY DEF Resume, Enter
<1>2. given \in [EventSet -> SUBSET (Calls \cup Loners)] /\ t \notin Calls
  BY ActorsAssumption DEF TypeInv, TypeOK
<1> QED
  BY <1>1, <1>2

\* A turn of the loop gives at most the event it is at, to the call it is in.
LEMMA ScanGiven ==
  ASSUME TypeInv, NEW w \in Waiters, Scan(w)
  PROVE  /\ given' = given \/ given' = [given EXCEPT ![Events[next[w]]] = @ \cup {Call(w)}]
         /\ given \in [EventSet -> SUBSET (Calls \cup Loners)]
         /\ UNCHANGED <<spc, at, wpc, count, mode, still>> /\ wpc[w] = "scan"
         /\ \A v \in Waiters : Call(v)' = Call(v)
         /\ Events[next[w]] \in EventSet /\ next[w] \in 1..Len(Events) /\ Call(w) \in Calls
<1>1. /\ given' = given \/ given' = [given EXCEPT ![Events[next[w]]] = @ \cup {Call(w)}]
      /\ UNCHANGED <<spc, at, wpc, count, mode, still>> /\ wpc[w] = "scan"
  BY DEF Scan, Take
<1>2. given \in [EventSet -> SUBSET (Calls \cup Loners)]
  BY DEF TypeInv, TypeOK
<1> QED
  BY <1>1, <1>2, CallFixed, CallOK, ScanReg, EventsOK

\* A setter gives at most its own event, to the call it has in hand.
LEMMA DeliverGiven ==
  ASSUME TypeInv, NEW e \in EventSet, Deliver(e)
  PROVE  /\ \/ UNCHANGED <<given, status, still>> /\ spc'[e] = "skip"
            \/ /\ given' = [given EXCEPT ![e] = @ \cup {at[e]}] /\ spc'[e] = "fired"
               /\ ObjectFree(at[e]) /\ Fire(at[e], e)
         /\ given \in [EventSet -> SUBSET (Calls \cup Loners)]
         /\ spc[e] = "lock" /\ at[e] \in Calls /\ at[e] \in reg[e] /\ at' = at
         /\ \A f \in EventSet \ {e} : spc'[f] = spc[f]
         /\ UNCHANGED <<reg, mode, waiterVars>>
<1>1. /\ given \in [EventSet -> SUBSET (Calls \cup Loners)]
      /\ spc \in [EventSet -> {"idle", "look", "lock", "skip", "fired", "signal"}]
      /\ reg \in [EventSet -> SUBSET Calls]
  BY DEF TypeInv, TypeOK
<1>2. spc[e] = "lock" /\ at[e] \in Calls /\ at[e] \in reg[e]
  BY <1>1 DEF Deliver, TypeInv, InHand
<1>3. at' = at /\ UNCHANGED <<reg, mode, waiterVars>>
  BY DEF Deliver
<1>4. \/ UNCHANGED <<given, status, still>> /\ spc' = [spc EXCEPT ![e] = "skip"]
      \/ /\ given' = [given EXCEPT ![e] = @ \cup {at[e]}]
         /\ spc' = [spc EXCEPT ![e] = "fired"]
         /\ ObjectFree(at[e]) /\ Fire(at[e], e)
  BY DEF Deliver, Fire, SetterGoto
<1> QED
  BY <1>1, <1>2, <1>3, <1>4

\* Every step gives an event to a call only once.
LEMMA GivenStep ==
  ASSUME TypeInv, RegsMade, Ahead, GivenInv, [Next]_vars
  PROVE  GivenInv'
<1> USE DEF GivenInv
<1>1. /\ given \in [EventSet -> SUBSET (Calls \cup Loners)]
      /\ reg \in [EventSet -> SUBSET Calls] /\ next \in [Waiters -> 1..(Len(Events) + 1)]
      /\ at \in [EventSet -> Calls \cup {NoCall}] /\ count \in [Waiters -> 0..MaxCalls]
      /\ spc \in [EventSet -> {"idle", "look", "lock", "skip", "fired", "signal"}]
      /\ wpc \in [Waiters -> WaiterPcs] /\ MaxCalls \in Nat
      /\ \A w \in Waiters : \A k \in next[w]..Len(Events) : Events[k] \in EventSet
  BY EventsOK, CallsAssumption DEF TypeInv, TypeOK, WaiterPcs
<1>2. ASSUME NEW w \in Waiters, NEW m \in Modes, StartWait(w, m)
      PROVE  GivenInv'
  <2> DEFINE n == <<w, count[w] + 1>>
  <2>1. /\ UNCHANGED <<given, reg, spc, at>> /\ next' = [next EXCEPT ![w] = 1]
        /\ wpc' = [wpc EXCEPT ![w] = "scan"]
        /\ count' = [count EXCEPT ![w] = count[w] + 1]
    BY <1>2 DEF StartWait, Goto
  <2>2. /\ Call(w)' = n /\ n \in Calls /\ ~Made(n)
        /\ \A v \in Waiters \ {w} : Call(v)' = Call(v)
    BY <1>2, CallStarts
  <2>3. GivenMade'
    <3>1. \A o \in Calls : Made(o) => Made(o)'
      BY <1>1, <2>1 DEF Made, Calls
    <3> QED
      BY <2>1, <3>1 DEF GivenMade
  <2>4. AheadGiven'
    <3>1. \A e \in EventSet : n \notin given[e]
      BY <2>2 DEF GivenMade
    <3>2. \A k \in next'[w]..Len(Events) : n \notin given[Events[k]]
      BY <1>1, <2>1, <3>1, EventsOK
    <3>3. ASSUME NEW v \in Waiters \ {w}, wpc'[v] = "scan"
          PROVE  \A k \in next'[v]..Len(Events) : Call(v)' \notin given'[Events[k]]
      <4>1. wpc[v] = "scan" /\ next'[v] = next[v] /\ Call(v)' = Call(v)
        BY <1>1, <2>1, <2>2, <3>3
      <4> QED
        BY <2>1, <4>1 DEF AheadGiven
    <3> QED
      BY <2>1, <2>2, <3>2, <3>3 DEF AheadGiven
  <2>5. GivenOnce'
    BY <2>1 DEF GivenOnce
  <2> QED
    BY <2>3, <2>4, <2>5
<1>3. ASSUME NEW w \in Waiters, Scan(w)
      PROVE  GivenInv'
  <2> DEFINE e == Events[next[w]]
  <2>1. /\ given' = given \/ given' = [given EXCEPT ![e] = @ \cup {Call(w)}]
        /\ UNCHANGED <<spc, at, wpc, count>> /\ wpc[w] = "scan" /\ e \in EventSet
        /\ next[w] \in 1..Len(Events) /\ Call(w) \in Calls
        /\ \A v \in Waiters : Call(v)' = Call(v)
    BY <1>3, ScanGiven
  <2>2. GivenMade'
    <3>1. Made(Call(w))
      BY <1>1 DEF Made, Call
    <3>2. \A o : Made(o)' <=> Made(o)
      BY <2>1 DEF Made
    <3> QED
      BY <1>1, <2>1, <3>1, <3>2 DEF GivenMade
  <2>3. AheadGiven'
    <3> SUFFICES ASSUME NEW v \in Waiters, wpc[v] = "scan", NEW k \in next'[v]..Len(Events)
                 PROVE  Call(v) \notin given'[Events[k]]
      BY <2>1 DEF AheadGiven
    <3>1. k \in next[v]..Len(Events) /\ Events[k] \in EventSet
      <4>1. next'[v] \in Int /\ next[v] \in Int /\ next'[v] >= next[v]
        BY <1>1, <1>3, ScanReg, EventsOK
      <4>2. k \in next[v]..Len(Events)
        BY <4>1, EventsOK
      <4> QED
        BY <1>1, <4>2
    <3>2. v = w => Events[k] # e
      <4>1. v = w => k # next[w] /\ k \in 1..Len(Events)
        BY <1>3, <2>1, ScanReg, EventsOK
      <4> QED
        BY <2>1, <4>1, EventsOK, EventsAssumption
    <3> QED
      BY <1>1, <2>1, <3>1, <3>2, CallsDiffer DEF AheadGiven
  <2>4. GivenOnce'
    <3>1. Call(w) \notin reg[e] /\ Call(w) \notin given[e]
      BY <2>1 DEF Ahead, AheadGiven
    <3>2. \/ given' = given
          \/ /\ given' = [given EXCEPT ![e] = @ \cup {Call(w)}]
             /\ reg' = reg \/ reg' = [reg EXCEPT ![e] = LiveRegs(e)]
      BY <1>3 DEF Scan, Take
    <3> SUFFICES ASSUME NEW f \in EventSet, NEW o \in reg'[f] \cap given'[f]
                 PROVE  spc[f] = "fired" /\ at[f] = o
      BY <2>1 DEF GivenOnce
    <3>3. CASE given' = given
      <4>1. o \in reg[f] \cap given[f]
        BY <1>3, <3>1, <3>3, ScanReg
      <4> QED
        BY <4>1 DEF GivenOnce
    <3>4. CASE /\ given' = [given EXCEPT ![e] = @ \cup {Call(w)}]
               /\ reg' = reg \/ reg' = [reg EXCEPT ![e] = LiveRegs(e)]
      <4>1. o \in reg[f] \cap given[f]
        BY <1>1, <2>1, <3>1, <3>4 DEF LiveRegs
      <4> QED
        BY <4>1 DEF GivenOnce
    <3> QED
      BY <3>2, <3>3, <3>4
  <2> QED
    BY <2>2, <2>3, <2>4
<1>4. ASSUME NEW w \in Waiters, EndScan(w) \/ Wake(w) \/ TimeOut(w) \/ Finish(w) \/ EndWait(w)
      PROVE  GivenInv'
  <2>1. /\ UNCHANGED <<given, reg, spc, at, count, next>>
        /\ \A v \in Waiters : Call(v)' = Call(v) /\ (wpc'[v] = "scan" => wpc[v] = "scan")
    BY <1>1, <1>4, CallFixed DEF EndScan, Wake, TimeOut, Finish, EndWait, Goto
  <2> QED
    BY <2>1 DEF GivenMade, AheadGiven, GivenOnce, Made
<1>5. ASSUME NEW t \in Loners, Resume(t) \/ \E s \in Singles : Enter(t, s)
      PROVE  GivenInv'
  <2>1. /\ UNCHANGED <<reg, spc, at, waiterVars>> /\ \A v \in Waiters : Call(v)' = Call(v)
        /\ \A f \in EventSet : \A o \in Calls : o \in given'[f] <=> o \in given[f]
    BY <1>5, LonerFrame, LonerGiven, CallFixed
  <2>2. GivenMade' /\ GivenOnce'
    BY <1>1, <2>1 DEF GivenMade, GivenOnce, Made
  <2>3. AheadGiven'
    BY <1>1, <2>1, CallOK DEF AheadGiven
  <2> QED
    BY <2>2, <2>3
<1>6. ASSUME NEW e \in EventSet, Deliver(e)
      PROVE  GivenInv'
  <2>1. /\ \/ given' = given
           \/ given' = [given EXCEPT ![e] = @ \cup {at[e]}] /\ spc'[e] = "fired"
        /\ spc[e] = "lock" /\ at[e] \in Calls /\ at[e] \in reg[e] /\ at' = at
        /\ \A f \in EventSet \ {e} : spc'[f] = spc[f]
        /\ UNCHANGED <<reg, wpc, count, next>>
        /\ \A v \in Waiters : Call(v)' = Call(v)
    BY <1>6, DeliverGiven, CallFixed
  <2>2. GivenMade'
    <3>1. Made(at[e]) /\ \A o : Made(o)' <=> Made(o)
      BY <2>1 DEF RegsMade, Made
    <3>2. \A f \in EventSet : given'[f] \subseteq given[f] \cup {at[e]}
      BY <1>1, <2>1
    <3> QED
      BY <3>1, <3>2 DEF GivenMade
  <2>3. AheadGiven'
    <3> SUFFICES ASSUME NEW v \in Waiters, wpc[v] = "scan", NEW k \in next[v]..Len(Events)
                 PROVE  Call(v) \notin given'[Events[k]]
      BY <2>1 DEF AheadGiven
    <3>1. /\ Call(v) \notin reg[Events[k]] /\ Call(v) \notin given[Events[k]]
          /\ Events[k] \in EventSet
      BY <1>1 DEF Ahead, AheadGiven
    <3>2. CASE Events[k] = e
      BY <1>1, <2>1, <3>1, <3>2
    <3>3. CASE Events[k] # e
      BY <1>1, <2>1, <3>1, <3>3
    <3> QED
      BY <3>2, <3>3
  <2>4. GivenOnce'
    BY <1>1, <2>1 DEF GivenOnce
  <2> QED
    BY <2>2, <2>3, <2>4
<1>7. ASSUME NEW e \in EventSet,
             \/ BeginSet(e) \/ GiveBack(e) \/ EndSet(e) \/ Signal(e)
             \/ ResetEvent(e) \/ DestroyEvent(e) \/ \E o \in Calls : Look(e, o)
      PROVE  GivenInv'
  <2>1. UNCHANGED <<given, waiterVars>> /\ \A v \in Waiters : Call(v)' = Call(v)
    BY <1>7, SetterFrame, CallFixed
       DEF BeginSet, GiveBack, EndSet, Signal, ResetEvent, DestroyEvent, Look, SetterStep
  <2>2. GivenMade' /\ AheadGiven'
    BY <2>1 DEF GivenMade, AheadGiven, Made
  <2>3. \A f \in EventSet : reg'[f] \subseteq reg[f]
    BY <1>7, RegShrinks DEF SetterStep
  <2>4. \A f \in EventSet : spc[f] = "fired" =>
          \/ spc'[f] = "fired" /\ at'[f] = at[f]
          \/ reg'[f] \subseteq reg[f] \ {at[f]}
    BY <1>1, <1>7 DEF BeginSet, GiveBack, EndSet, Signal, ResetEvent, DestroyEvent, Look,
                      Quiet, Popped, SetterGoto
  <2>5. GivenOnce'
    BY <2>1, <2>3, <2>4 DEF GivenOnce
  <2> QED
    BY <2>2, <2>5
<1>8. CASE UNCHANGED vars
  BY <1>8 DEF vars, GivenMade, AheadGiven, GivenOnce, Made, Call
<1>9. ASSUME NEW w \in Waiters,
             WaiterStep(w) \/ TimeOut(w) \/ \E m \in Modes : StartWait(w, m)
      PROVE  GivenInv'
  BY <1>2, <1>3, <1>4, <1>9 DEF WaiterStep
<1>10. ASSUME NEW e \in EventSet,
              BeginSet(e) \/ SetterStep(e) \/ ResetEvent(e) \/ DestroyEvent(e)
       PROVE  GivenInv'
  BY <1>6, <1>7, <1>10 DEF SetterStep
<1> QED
  BY <1>5, <1>8, <1>9, <1>10 DEF Next

\* A call gets an event once, and while it is no longer registered with it.
THEOREM GivenHolds == Spec => []GivenInv
<1>1. Init => GivenInv
  BY DEF Init, GivenInv, GivenMade, AheadGiven, GivenOnce
<1>2. TypeInv /\ ControlInv /\ GivenInv /\ [Next]_vars => GivenInv'
  BY GivenStep DEF ControlInv
<1> QED
  BY <1>1, <1>2, TypeCorrect, ControlHolds, PTL DEF Spec

-----------------------------------------------------------------------------
(* EventsLeft and FiredEvent.                                              *)

Gots(o) == {e \in EventSet : o \in given[e]}
LeftOK(o) ==
  Made(o) /\ mode[o].all => status[o] + Cardinality(Gots(o)) = Len(Events)
OneIndex(o) ==
  ~mode[o].all /\ status[o] # NoEvent =>
    status[o] \in DOMAIN Events /\ o \in given[Events[status[o]]]
ResultOK(o) == LeftOK(o) /\ OneIndex(o)

\* What a step does not touch of a call keeps its result.
LEMMA ResultSame ==
  ASSUME NEW o, ResultOK(o), Made(o)' => Made(o), mode'[o] = mode[o],
         status'[o] = status[o], \A e \in EventSet : o \in given'[e] <=> o \in given[e]
  PROVE  ResultOK(o)'
<1>1. Gots(o)' = Gots(o)
  BY DEF Gots
<1>2. LeftOK(o)'
  BY <1>1 DEF ResultOK, LeftOK
<1>3. OneIndex(o)'
  BY EventsOK DEF ResultOK, OneIndex
<1> QED
  BY <1>2, <1>3 DEF ResultOK

\* An event more is one less to wait for.
LEMMA ResultAll ==
  ASSUME TypeInv, NEW o \in Calls, NEW e \in EventSet, ResultOK(o), o \notin given[e],
         mode[o].all, mode' = mode, Made(o)' <=> Made(o),
         given' = [given EXCEPT ![e] = @ \cup {o}],
         status' = [status EXCEPT ![o] = status[o] - 1]
  PROVE  ResultOK(o)'
<1>1. given \in [EventSet -> SUBSET (Calls \cup Loners)] /\ status \in [Calls -> Int]
  BY DEF TypeInv, TypeOK
<1>2. Gots(o)' = Gots(o) \cup {e} /\ e \notin Gots(o) /\ Gots(o) \in SUBSET EventSet
  BY <1>1 DEF Gots
<1>3. /\ Cardinality(Gots(o)) \in Nat
      /\ Cardinality(Gots(o)') = Cardinality(Gots(o)) + 1
  BY <1>2, SetSize
<1>4. status'[o] + Cardinality(Gots(o)') = status[o] + Cardinality(Gots(o))
  BY <1>1, <1>3
<1> QED
  BY <1>4 DEF ResultOK, LeftOK, OneIndex

\* The index of an event the call has got is a result.
LEMMA ResultOne ==
  ASSUME TypeInv, NEW o \in Calls, NEW k \in 1..Len(Events),
         ~mode[o].all, mode' = mode,
         given' = [given EXCEPT ![Events[k]] = @ \cup {o}],
         status' = [status EXCEPT ![o] = k]
  PROVE  ResultOK(o)'
<1>1. given \in [EventSet -> SUBSET (Calls \cup Loners)] /\ status \in [Calls -> Int]
  BY DEF TypeInv, TypeOK
<1>2. k \in DOMAIN Events /\ Events[k] \in EventSet
  BY EventsOK
<1>3. ~mode'[o].all /\ status'[o] = k /\ o \in given'[Events[k]]
  BY <1>1, <1>2
<1> QED
  BY <1>2, <1>3 DEF ResultOK, LeftOK, OneIndex

\* Every step keeps the results of the calls right.
LEMMA ResultStep ==
  ASSUME TypeInv, ControlInv, GivenInv, [Next]_vars, NEW o \in Calls, ResultOK(o)
  PROVE  ResultOK(o)'
<1> USE DEF ControlInv, GivenInv
<1>1. /\ given \in [EventSet -> SUBSET (Calls \cup Loners)] /\ status \in [Calls -> Int]
      /\ mode \in [Calls -> [all : BOOLEAN, timed : BOOLEAN]]
      /\ count \in [Waiters -> 0..MaxCalls] /\ MaxCalls \in Nat
      /\ o[1] \in Waiters /\ o[2] \in 1..MaxCalls /\ o = <<o[1], o[2]>>
  BY CallsAssumption DEF TypeInv, TypeOK, Calls
<1>2. ASSUME UNCHANGED <<given, status, mode, count>>
      PROVE  ResultOK(o)'
  BY <1>2, ResultSame DEF Made
<1>3. ASSUME NEW w \in Waiters, NEW m \in Modes, StartWait(w, m)
      PROVE  ResultOK(o)'
  <2> DEFINE n == <<w, count[w] + 1>>
  <2>1. /\ given' = given /\ mode' = [mode EXCEPT ![n] = m]
        /\ status' = [status EXCEPT ![n] = IF m.all THEN Len(Events) ELSE NoEvent]
        /\ count' = [count EXCEPT ![w] = count[w] + 1] /\ n \in Calls /\ ~Made(n)
    BY <1>3, CallStarts DEF StartWait
  <2>2. CASE o = n
    <3>1. mode'[o] = m /\ status'[o] = IF m.all THEN Len(Events) ELSE NoEvent
      BY <1>1, <2>1, <2>2
    <3>2. Gots(o)' = {}
      BY <2>1, <2>2 DEF Gots, GivenMade
    <3>3. LeftOK(o)'
      BY <3>1, <3>2, FS_EmptySet, EventsOK DEF LeftOK
    <3>4. OneIndex(o)'
      BY <3>1 DEF OneIndex
    <3> QED
      BY <3>3, <3>4 DEF ResultOK
  <2>3. CASE o # n
    <3>1. mode'[o] = mode[o] /\ status'[o] = status[o]
      BY <1>1, <2>1, <2>3
    <3>2. Made(o)' => Made(o)
      BY <1>1, <2>1, <2>3 DEF Made
    <3> QED
      BY <2>1, <3>1, <3>2, ResultSame
  <2> QED
    BY <2>2, <2>3
<1>4. ASSUME NEW w \in Waiters, Scan(w)
      PROVE  ResultOK(o)'
  <2> DEFINE e == Events[next[w]]
  <2>1. /\ UNCHANGED <<mode, count>> /\ wpc[w] = "scan" /\ e \in EventSet
        /\ next[w] \in 1..Len(Events) /\ Call(w) \in Calls
    BY <1>4, ScanGiven
  <2>2. Made(o)' <=> Made(o)
    BY <2>1 DEF Made
  <2>3. CASE Take(w)
    <3>1. Call(w) \notin given[e]
      BY <2>1 DEF AheadGiven
    <3>2. given' = [given EXCEPT ![e] = @ \cup {Call(w)}]
      BY <2>3 DEF Take
    <3>3. status' = [status EXCEPT ![Call(w)] =
                       IF mode[Call(w)].all THEN status[Call(w)] - 1 ELSE next[w]]
      BY <2>3 DEF Take
    <3>4. CASE o = Call(w) /\ mode[o].all
      BY <2>1, <2>2, <3>1, <3>2, <3>3, <3>4, ResultAll
    <3>5. CASE o = Call(w) /\ ~mode[o].all
      BY <2>1, <3>2, <3>3, <3>5, ResultOne
    <3>6. CASE o # Call(w)
      BY <1>1, <2>1, <2>2, <3>2, <3>3, <3>6, ResultSame
    <3> QED
      BY <3>4, <3>5, <3>6
  <2>4. CASE UNCHANGED <<status, given>>
    BY <1>2, <2>1, <2>4
  <2> QED
    BY <1>4, <2>3, <2>4 DEF Scan
<1>5. ASSUME NEW w \in Waiters, EndScan(w) \/ Wake(w) \/ TimeOut(w) \/ Finish(w) \/ EndWait(w)
      PROVE  UNCHANGED <<given, status, mode, count>>
  BY <1>5 DEF EndScan, Wake, TimeOut, Finish, EndWait
<1>6. ASSUME NEW t \in Loners, Resume(t) \/ \E s \in Singles : Enter(t, s)
      PROVE  ResultOK(o)'
  <2>1. UNCHANGED <<status, mode, count>>
    BY <1>6, LonerFrame
  <2> QED
    BY <1>6, <2>1, LonerGiven, ResultSame DEF Made
<1>7. ASSUME NEW e \in EventSet, Deliver(e)
      PROVE  ResultOK(o)'
  <2>1. /\ \/ UNCHANGED <<given, status>>
           \/ given' = [given EXCEPT ![e] = @ \cup {at[e]}] /\ Fire(at[e], e)
        /\ spc[e] = "lock" /\ at[e] \in Calls /\ at[e] \in reg[e]
        /\ UNCHANGED <<mode, count>>
    BY <1>7, DeliverGiven
  <2>2. Made(o)' <=> Made(o)
    BY <2>1 DEF Made
  <2>3. CASE given' = [given EXCEPT ![e] = @ \cup {at[e]}] /\ Fire(at[e], e)
    <3>1. at[e] \notin given[e]
      BY <2>1 DEF GivenOnce
    <3>2. status' = [status EXCEPT ![at[e]] =
                       IF mode[at[e]].all THEN status[at[e]] - 1 ELSE IndexOf(e)]
      BY <2>3 DEF Fire
    <3>3. IndexOf(e) \in 1..Len(Events) /\ Events[IndexOf(e)] = e
      BY EventsOK
    <3>4. CASE o = at[e] /\ mode[o].all
      BY <2>1, <2>2, <2>3, <3>1, <3>2, <3>4, ResultAll
    <3>5. CASE o = at[e] /\ ~mode[o].all
      BY <2>1, <2>3, <3>2, <3>3, <3>5, ResultOne
    <3>6. CASE o # at[e]
      BY <1>1, <2>1, <2>2, <2>3, <3>2, <3>6, ResultSame
    <3> QED
      BY <3>4, <3>5, <3>6
  <2> QED
    BY <1>2, <2>1, <2>3
<1>8. ASSUME NEW e \in EventSet,
             \/ BeginSet(e) \/ GiveBack(e) \/ EndSet(e) \/ Signal(e)
             \/ ResetEvent(e) \/ DestroyEvent(e) \/ \E p \in Calls : Look(e, p)
      PROVE  UNCHANGED <<given, status, mode, count>>
  BY <1>8 DEF BeginSet, GiveBack, EndSet, Signal, ResetEvent, DestroyEvent, Look
<1>9. CASE UNCHANGED vars
  BY <1>2, <1>9 DEF vars
<1>10. ASSUME NEW w \in Waiters,
              WaiterStep(w) \/ TimeOut(w) \/ \E m \in Modes : StartWait(w, m)
       PROVE  ResultOK(o)'
  BY <1>2, <1>3, <1>4, <1>5, <1>10 DEF WaiterStep
<1>11. ASSUME NEW e \in EventSet,
              BeginSet(e) \/ SetterStep(e) \/ ResetEvent(e) \/ DestroyEvent(e)
       PROVE  ResultOK(o)'
  BY <1>2, <1>7, <1>8, <1>11 DEF SetterStep
<1> QED
  BY <1>6, <1>9, <1>10, <1>11 DEF Next

Results == \A o \in Calls : ResultOK(o)

\* The result of every call is right at every moment.
THEOREM ResultsHold == Spec => []Results
<1>1. Init => Results
  <2> SUFFICES ASSUME Init, NEW o \in Calls
               PROVE  ResultOK(o)
    BY DEF Results
  <2>1. ~mode[o].all /\ status[o] = NoEvent
    BY DEF Init, NoMode
  <2> QED
    BY <2>1 DEF ResultOK, LeftOK, OneIndex
<1>2. TypeInv /\ ControlInv /\ GivenInv /\ Results /\ [Next]_vars => Results'
  BY ResultStep DEF Results
<1> QED
  BY <1>1, <1>2, TypeCorrect, ControlHolds, GivenHolds, PTL DEF Spec

\* EventsLeft counts down once for each event, whether the call finds it set or a
\* setter delivers it (PEvents!LeftExact).
THEOREM CountdownExact == Spec => []LeftExact
<1>1. TypeInv /\ Results => LeftExact
  <2> SUFFICES ASSUME TypeInv, Results, NEW o \in Calls, Made(o), mode[o].all
               PROVE  status[o] = Len(Events) - Cardinality(Gots(o))
    BY DEF LeftExact, Gots
  <2>1. status[o] + Cardinality(Gots(o)) = Len(Events)
    BY DEF Results, ResultOK, LeftOK
  <2>2. Gots(o) \in SUBSET EventSet
    BY DEF Gots
  <2>3. status[o] \in Int /\ Cardinality(Gots(o)) \in Nat
    BY <2>2, SetSize DEF TypeInv, TypeOK
  <2> QED
    BY <2>1, <2>3
<1> QED
  BY <1>1, TypeCorrect, ResultsHold, PTL

-----------------------------------------------------------------------------
(* What a call returns.                                                    *)

HasEnough(o) ==
  IF mode[o].all THEN \A e \in EventSet : o \in given[e] ELSE status[o] # NoEvent
Ended ==
  \A w \in Waiters : wpc[w] \in {"finish", "release"} /\ ~out[w] => HasEnough(Call(w))

\* A call that stops waiting without a time-out has what it waited for.
LEMMA EnoughIsEnough ==
  ASSUME TypeInv, Results, NEW w \in Waiters, wpc[w] # "idle", Satisfied(w)
  PROVE  HasEnough(Call(w))
<1> DEFINE o == Call(w)
<1>1. o \in Calls /\ Made(o)
  BY CallOK DEF Made, TypeInv, TypeOK
<1>2. CASE mode[o].all
  <2>1. Gots(o) \in SUBSET EventSet
    BY DEF Gots
  <2>2. status[o] + Cardinality(Gots(o)) = Len(Events) /\ status[o] = 0
    BY <1>1, <1>2 DEF Results, ResultOK, LeftOK, Satisfied
  <2>3. Cardinality(Gots(o)) = Cardinality(EventSet)
    BY <2>1, <2>2, SetSize, EventsFinite
  <2>4. Gots(o) = EventSet
    BY <2>1, <2>3, EventsFinite, FS_Subset
  <2> QED
    BY <1>2, <2>4 DEF HasEnough, Gots
<1>3. CASE ~mode[o].all
  BY <1>3 DEF HasEnough, Satisfied
<1> QED
  BY <1>2, <1>3

\* Every step leaves what a call has got when it stops waiting.
LEMMA EndedStep ==
  ASSUME TypeInv, Results, Ended, [Next]_vars
  PROVE  Ended'
<1> USE DEF Ended
<1>1. /\ given \in [EventSet -> SUBSET (Calls \cup Loners)] /\ status \in [Calls -> Int]
      /\ mode \in [Calls -> [all : BOOLEAN, timed : BOOLEAN]]
      /\ wpc \in [Waiters -> WaiterPcs] /\ out \in [Waiters -> BOOLEAN]
  BY DEF TypeInv, TypeOK, WaiterPcs
<1>2. ASSUME UNCHANGED <<mode, status, given, wpc, out, count>>
      PROVE  Ended'
  BY <1>2, CallFixed DEF HasEnough
<1>3. ASSUME NEW w \in Waiters, NEW m \in Modes, StartWait(w, m)
      PROVE  Ended'
  <2> DEFINE n == <<w, count[w] + 1>>
  <2>1. /\ given' = given /\ mode' = [mode EXCEPT ![n] = m]
        /\ \E s : status' = [status EXCEPT ![n] = s]
        /\ wpc' = [wpc EXCEPT ![w] = "scan"] /\ out' = [out EXCEPT ![w] = FALSE]
    BY <1>3 DEF StartWait, Goto
  <2> SUFFICES ASSUME NEW v \in Waiters, wpc'[v] \in {"finish", "release"}, ~out'[v]
               PROVE  HasEnough(Call(v))'
    OBVIOUS
  <2>2. v # w /\ wpc[v] \in {"finish", "release"} /\ ~out[v]
    BY <1>1, <2>1
  <2>3. Call(v)' = Call(v) /\ Call(v) # n /\ Call(v) \in Calls
    BY <1>3, <2>2, CallStarts, CallOK
  <2>4. mode'[Call(v)] = mode[Call(v)] /\ status'[Call(v)] = status[Call(v)]
    BY <1>1, <2>1, <2>3
  <2> QED
    BY <2>1, <2>2, <2>3, <2>4 DEF HasEnough
<1>4. ASSUME NEW w \in Waiters, Scan(w)
      PROVE  Ended'
  <2>1. /\ UNCHANGED <<mode, wpc, out>> /\ wpc[w] = "scan"
        /\ \A v \in Waiters : Call(v)' = Call(v)
    BY <1>4, ScanGiven DEF Scan
  <2>2. \A e \in EventSet : given[e] \subseteq given'[e]
    BY <1>4, ScanGiven
  <2>3. \A o \in Calls \ {Call(w)} : status'[o] = status[o]
    BY <1>1, <1>4 DEF Scan, Take
  <2> SUFFICES ASSUME NEW v \in Waiters, wpc[v] \in {"finish", "release"}, ~out[v]
               PROVE  HasEnough(Call(v))'
    BY <2>1
  <2>4. Call(v) \in Calls \ {Call(w)} /\ Call(v)' = Call(v)
    BY <2>1, CallOK, CallsDiffer
  <2>5. HasEnough(Call(v)) /\ status'[Call(v)] = status[Call(v)] /\ mode' = mode
    BY <2>1, <2>3, <2>4
  <2> QED
    BY <2>2, <2>4, <2>5 DEF HasEnough
<1>5. ASSUME NEW w \in Waiters, EndScan(w) \/ Wake(w) \/ TimeOut(w) \/ Finish(w) \/ EndWait(w)
      PROVE  Ended'
  <2>1. /\ UNCHANGED <<given, status, mode, count>> /\ wpc[w] # "idle"
        /\ \A v \in Waiters : Call(v)' = Call(v)
    BY <1>5, CallFixed DEF EndScan, Wake, TimeOut, Finish, EndWait
  <2>2. \A v \in Waiters \ {w} : wpc'[v] = wpc[v] /\ out'[v] = out[v]
    BY <1>1, <1>5 DEF EndScan, Wake, TimeOut, Finish, EndWait, Goto
  <2>3. wpc'[w] \in {"finish", "release"} /\ ~out'[w] =>
          Satisfied(w) \/ (wpc[w] = "finish" /\ ~out[w])
    BY <1>1, <1>5 DEF EndScan, Wake, TimeOut, Finish, EndWait, Goto
  <2>4. \A v \in Waiters : HasEnough(Call(v)) => HasEnough(Call(v))'
    BY <2>1 DEF HasEnough
  <2>5. wpc'[w] \in {"finish", "release"} /\ ~out'[w] => HasEnough(Call(w))
    BY <2>1, <2>3, EnoughIsEnough
  <2> QED
    BY <2>2, <2>4, <2>5
<1>6. ASSUME NEW t \in Loners, Resume(t) \/ \E s \in Singles : Enter(t, s)
      PROVE  Ended'
  <2>1. /\ UNCHANGED <<mode, status, wpc, out>> /\ \A v \in Waiters : Call(v)' = Call(v)
    BY <1>6, LonerFrame, CallFixed
  <2>2. \A e \in EventSet : \A o \in Calls : o \in given[e] => o \in given'[e]
    BY <1>6, LonerGiven
  <2>3. \A o \in Calls : HasEnough(o) => HasEnough(o)'
    BY <2>1, <2>2 DEF HasEnough
  <2>4. \A v \in Waiters : wpc[v] \in {"finish", "release"} => Call(v) \in Calls
    BY CallOK
  <2>5. \A v \in Waiters :
          wpc[v] \in {"finish", "release"} /\ HasEnough(Call(v)) => HasEnough(Call(v))'
    BY <2>1, <2>3, <2>4 DEF HasEnough
  <2> QED
    BY <2>1, <2>5
<1>7. ASSUME NEW e \in EventSet, Deliver(e)
      PROVE  Ended'
  <2>1. /\ \/ UNCHANGED <<given, status>>
           \/ given' = [given EXCEPT ![e] = @ \cup {at[e]}] /\ Fire(at[e], e)
        /\ UNCHANGED <<mode, wpc, out>> /\ \A v \in Waiters : Call(v)' = Call(v)
    BY <1>7, DeliverGiven, CallFixed
  <2>2. \A f \in EventSet : given[f] \subseteq given'[f]
    BY <1>1, <2>1
  <2>3. \A o \in Calls : mode[o].all \/ (status[o] # NoEvent => status'[o] # NoEvent)
    BY <1>1, <2>1, EventsOK DEF Fire, NoEvent
  <2>4. \A o \in Calls : HasEnough(o) => HasEnough(o)'
    BY <2>1, <2>2, <2>3 DEF HasEnough
  <2>5. \A v \in Waiters :
          wpc[v] \in {"finish", "release"} /\ HasEnough(Call(v)) => HasEnough(Call(v))'
    BY <2>1, <2>4, CallOK DEF HasEnough
  <2> QED
    BY <2>1, <2>5
<1>8. ASSUME NEW e \in EventSet,
             \/ BeginSet(e) \/ GiveBack(e) \/ EndSet(e) \/ Signal(e)
             \/ ResetEvent(e) \/ DestroyEvent(e) \/ \E o \in Calls : Look(e, o)
      PROVE  Ended'
  <2>1. UNCHANGED <<given, status, mode, wpc, out, count>>
    BY <1>8 DEF BeginSet, GiveBack, EndSet, Signal, ResetEvent, DestroyEvent, Look
  <2> QED
    BY <1>2, <2>1
<1>9. CASE UNCHANGED vars
  BY <1>2, <1>9 DEF vars
<1>10. ASSUME NEW w \in Waiters,
              WaiterStep(w) \/ TimeOut(w) \/ \E m \in Modes : StartWait(w, m)
       PROVE  Ended'
  BY <1>3, <1>4, <1>5, <1>10 DEF WaiterStep
<1>11. ASSUME NEW e \in EventSet,
              BeginSet(e) \/ SetterStep(e) \/ ResetEvent(e) \/ DestroyEvent(e)
       PROVE  Ended'
  BY <1>7, <1>8, <1>11 DEF SetterStep
<1> QED
  BY <1>6, <1>9, <1>10, <1>11 DEF Next

\* A call that does not report a time-out has every event, or the one whose index
\* it returns (PEvents!HonestResult).
THEOREM ResultHonest == Spec => []HonestResult
<1>1. Init => Ended
  BY DEF Init, Ended
<1>2. TypeInv /\ Results /\ Ended /\ [Next]_vars => Ended'
  BY EndedStep
<1>3. TypeInv /\ Results /\ Ended => HonestResult
  <2> SUFFICES ASSUME TypeInv, Results, Ended, NEW w \in Waiters, wpc[w] = "release", ~out[w]
               PROVE  IF mode[Call(w)].all THEN \A e \in EventSet : Call(w) \in given[e]
                      ELSE \E k \in DOMAIN Events : /\ status[Call(w)] = k
                                                    /\ Call(w) \in given[Events[k]]
    BY DEF HonestResult
  <2>1. HasEnough(Call(w)) /\ Call(w) \in Calls
    BY CallOK DEF Ended
  <2>2. OneIndex(Call(w))
    BY <2>1 DEF Results, ResultOK
  <2> QED
    BY <2>1, <2>2 DEF HasEnough, OneIndex
<1> QED
  BY <1>1, <1>2, <1>3, TypeCorrect, ResultsHold, PTL DEF Spec
=============================================================================
