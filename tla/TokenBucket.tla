---------------------------- MODULE TokenBucket ----------------------------
(***************************************************************************)
(* The limiter the readers of harness.RunBenchmark share (harness.go).     *)
(* Wait takes a token if one is there; otherwise it reserves the next one  *)
(* by letting the balance go negative, and sleeps until it is due.         *)
(*                                                                         *)
(* Time is counted in ticks and a token is worth Unit parts, of which Rate *)
(* accrue per tick: rate is Rate / Unit tokens per tick.  waitDur is cut   *)
(* to whole ticks, as time.Duration cuts it to whole nanoseconds.          *)
(***************************************************************************)
EXTENDS Integers, FiniteSets

CONSTANTS
  Callers,  \* goroutines that call Wait
  Rate,
  Unit,
  Burst,    \* burst * Unit
  MaxTime   \* bound: the ticks modelled

\* newTokenBucket: burst = max(rate / 10, 1).
ASSUME BucketAssumption ==
  /\ Rate \in Nat \ {0} /\ Unit \in Nat \ {0}
  /\ Burst \in Nat /\ Burst >= Unit
  /\ MaxTime \in Nat

VARIABLES
  now,
  tokens,      \* the balance at lastRefill, in parts
  lastRefill,
  due,         \* for each caller when its timer fires, Idle or Gone
  cancelled,   \* the context is done
  granted      \* calls of Wait that returned nil

vars == <<now, tokens, lastRefill, due, cancelled, granted>>

Idle == -1
Gone == -2
Waiting == {r \in Callers : due[r] >= 0}
Left    == {r \in Callers : due[r] = Gone}

\* A caller whose Wait returns after the cancellation makes no other call; one
\* that was on its way to Wait still makes this one.
Back == IF cancelled THEN Gone ELSE Idle

Init ==
  /\ now = 0 /\ tokens = 0 /\ lastRefill = 0
  /\ due = [r \in Callers |-> Idle]
  /\ cancelled = FALSE /\ granted = 0

\* Mutant: the balance is not capped.
UncappedRefill == tokens + (now - lastRefill) * Rate

\* The balance after the refill at the head of Wait.
Refilled ==
  LET t == tokens + (now - lastRefill) * Rate
  IN  IF t > Burst THEN Burst ELSE t

Take(r) ==
  /\ due[r] = Idle
  /\ Refilled >= Unit
  /\ tokens' = Refilled - Unit
  /\ lastRefill' = now
  /\ due' = [due EXCEPT ![r] = Back]
  /\ granted' = granted + 1
  /\ UNCHANGED <<now, cancelled>>

\* Mutant: the token waited for is not reserved.
WaitUnreserved(r) ==
  /\ due[r] = Idle
  /\ Refilled < Unit
  /\ tokens' = Refilled
  /\ lastRefill' = now
  /\ due' = [due EXCEPT ![r] = now + (Unit - Refilled) \div Rate]
  /\ UNCHANGED <<now, cancelled, granted>>

\* Mutant: the reservation takes two tokens.
ReserveTwo(r) ==
  /\ due[r] = Idle
  /\ Refilled < Unit
  /\ tokens' = Refilled - 2 * Unit
  /\ lastRefill' = now
  /\ due' = [due EXCEPT ![r] = now + (Unit - Refilled) \div Rate]
  /\ UNCHANGED <<now, cancelled, granted>>

Reserve(r) ==
  /\ due[r] = Idle
  /\ Refilled < Unit
  /\ tokens' = Refilled - Unit
  /\ lastRefill' = now
  /\ due' = [due EXCEPT ![r] = now + (Unit - Refilled) \div Rate]
  /\ UNCHANGED <<now, cancelled, granted>>

\* The timer fires, at its time or later.
TimerFires(r) ==
  /\ r \in Waiting /\ now >= due[r]
  /\ due' = [due EXCEPT ![r] = Back]
  /\ granted' = granted + 1
  /\ UNCHANGED <<now, tokens, lastRefill, cancelled>>

\* ctx.Done: the reserved token is not given back.
Interrupted(r) ==
  /\ r \in Waiting /\ cancelled
  /\ due' = [due EXCEPT ![r] = Back]
  /\ UNCHANGED <<now, tokens, lastRefill, cancelled, granted>>

Cancel ==
  /\ ~cancelled
  /\ cancelled' = TRUE
  /\ UNCHANGED <<now, tokens, lastRefill, due, granted>>

Tick ==
  /\ now < MaxTime
  /\ now' = now + 1
  /\ UNCHANGED <<tokens, lastRefill, due, cancelled, granted>>

Next ==
  \/ \E r \in Callers :
       Take(r) \/ Reserve(r) \/ TimerFires(r) \/ Interrupted(r)
  \/ Cancel \/ Tick

Spec == Init /\ [][Next]_vars

-----------------------------------------------------------------------------
(* Properties.                                                               *)

\* BucketTypeOK: the balance never exceeds the burst, and a refill never runs
\* backwards in time.
BucketTypeOK ==
  /\ now \in Nat /\ granted \in Nat
  /\ tokens \in Int /\ tokens <= Burst
  /\ lastRefill \in 0 .. now
  /\ due \in [Callers -> Nat \cup {Idle, Gone}]
  /\ cancelled \in BOOLEAN

\* WithinRate: however the callers' waits and timers interleave, no more calls
\* have returned than the rate allows, but for the one tick lost in rounding: a
\* caller that sleeps has paid for the token it is to return with.
WithinRate == granted * Unit < Rate * (now + 1)

\* TimersApart: two callers never sleep for the same token: their timers are a
\* token's worth of time apart, but for rounding.
TimersApart ==
  \A r, q \in Waiting : r # q /\ due[r] <= due[q] =>
    (due[q] - due[r]) * Rate > Unit - Rate

\* WaitBounded: no caller waits for more than one token of each caller asleep and,
\* after the cancellation, of each that has left, but for rounding: an interrupted
\* caller keeps its reservation, and it can keep only one, however the cancellation
\* falls between timers and calls still on their way to Wait.
WaitBounded ==
  \A r \in Waiting :
    (due[r] - now) * Rate < Cardinality(Waiting \cup Left) * Unit + Rate

-----------------------------------------------------------------------------
(* The inductive invariant behind WithinRate, TimersApart and WaitBounded.    *)

\* What has left the bucket so far, in parts: taken, reserved, or lost at the cap.
Spent == Rate * lastRefill - tokens

DueBy(t)    == {r \in Waiting : due[r] <= t}
DueAfter(t) == {r \in Waiting : due[r] > t}
Owing(t)    == DueAfter(t) \cup Left

\* BucketInv: every call that has returned and every caller asleep has a token of
\* its own in Spent, and no timer is later than what was spent calls for.  Looking
\* ahead to any tick t, the calls returned and those due by then fit into the rate
\* (so a timer that fires late changes nothing), and what was spent beyond t is owed
\* by callers whose timers come after t, or by callers that have left.
BucketInv ==
  /\ BucketTypeOK
  /\ IsFiniteSet(Waiting) /\ IsFiniteSet(Left)
  /\ ~cancelled => Left = {}
  /\ (granted + Cardinality(Waiting)) * Unit <= Spent
  /\ \A r \in Waiting : Rate * due[r] <= Spent
  /\ \A t \in now .. MaxTime :
       (granted + Cardinality(DueBy(t))) * Unit < Rate * (t + 1)
  /\ \A t \in now .. MaxTime :
       Spent < Rate * (t + 1) + Cardinality(Owing(t)) * Unit
  /\ now <= MaxTime
  /\ TimersApart
=============================================================================
