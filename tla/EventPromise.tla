---------------------------- MODULE EventPromise -----------------------------
(***************************************************************************)
(* What auto-reset events promise to those who wait: each SetEvent goes to *)
(* one wait, or is kept for a later one when nobody is registered; a wait  *)
(* for any event gets one of them.  Locks, reference counts and the order  *)
(* in which registrations are visited are not to be seen.                  *)
(*                                                                         *)
(* Module ThreadPool uses the job event and the subtract event this way    *)
(* (SetAutoReset, Poll, Wake); PEvents is shown to keep the promise.       *)
(***************************************************************************)
EXTENDS Integers

CONSTANTS
  Autos,   \* auto-reset events
  Takers   \* waits

VARIABLES
  asked,   \* the events with a SetEvent that has not had its effect
  on,      \* the events that are set
  every,   \* the waits that want all their events
  waits,   \* for each event, the waits registered with it
  got      \* for each event, the waits that have got it

vars == <<asked, on, every, waits, got>>

Init ==
  /\ asked = {} /\ on = {} /\ every = {}
  /\ waits = [e \in Autos |-> {}] /\ got = [e \in Autos |-> {}]

Without(o) == [e \in Autos |-> waits[e] \ {o}]
Gets(o, e) == got' = [got EXCEPT ![e] = @ \cup {o}]

WantAll(o) ==
  /\ \A e \in Autos : o \notin waits[e] \cup got[e]
  /\ every' = every \cup {o}
  /\ UNCHANGED <<asked, on, waits, got>>

\* a wait finds an event not set
Register(o, e) ==
  /\ e \notin on /\ o \notin got[e]
  /\ waits' = [waits EXCEPT ![e] = @ \cup {o}]
  /\ UNCHANGED <<asked, on, every, got>>

\* a wait finds an event set
Take(o, e) ==
  /\ e \in on /\ on' = on \ {e}
  /\ Gets(o, e)
  /\ waits' = IF o \in every THEN waits ELSE Without(o)
  /\ UNCHANGED <<asked, every>>

Set(e) ==
  /\ e \notin asked /\ asked' = asked \cup {e}
  /\ UNCHANGED <<on, every, waits, got>>

Hand(o, e) ==
  /\ e \in asked /\ asked' = asked \ {e}
  /\ o \in waits[e] /\ Gets(o, e)
  /\ waits' = IF o \in every THEN [waits EXCEPT ![e] = @ \ {o}] ELSE Without(o)
  /\ UNCHANGED <<on, every>>

Keep(e) ==
  /\ e \in asked /\ asked' = asked \ {e}
  /\ waits[e] = {} /\ on' = on \cup {e}
  /\ UNCHANGED <<every, waits, got>>

\* the wait is over for another reason: a manual-reset event, a time-out
GiveUp(o) ==
  /\ waits' = Without(o)
  /\ UNCHANGED <<asked, on, every, got>>

Next ==
  \/ \E o \in Takers :
       \/ WantAll(o) \/ GiveUp(o)
       \/ \E e \in Autos : Register(o, e) \/ Take(o, e) \/ Hand(o, e)
  \/ \E e \in Autos : Set(e) \/ Keep(e)

Spec == Init /\ [][Next]_vars
=============================================================================
