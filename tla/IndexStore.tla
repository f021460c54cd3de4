----------------------------- MODULE IndexStore -----------------------------
(***************************************************************************)
(* What the IndexStore interface (store/store.go) promises its callers,    *)
(* whatever the engine: each key has a log of indices; WriteBatch extends  *)
(* the logs of all its keys in one step, or of none; Lookup returns the    *)
(* log from the start-th match on, and GetSubRoot the root of the log, as  *)
(* the log was at one moment of the call; a crash loses calls, never       *)
(* indices.  A root is represented by the sequence it commits to.          *)
(***************************************************************************)
EXTENDS Naturals, Sequences

CONSTANTS Keys, Readers, Updates, Index

VARIABLES
  log,      \* for each key the indices it has
  phase,    \* of the WriteBatch call: idle, open, applied or rejected
  updates,  \* the map it was given
  answer    \* for each reader <<>>, or what its call returns

vars == <<log, phase, updates, answer>>

Sorted(list) == \A i \in 2 .. Len(list) : ~(list[i] < list[i-1])

From(list, start) == SubSeq(list, start + 1, Len(list))

Init ==
  /\ log = [k \in Keys |-> <<>>]
  /\ phase = "idle" /\ updates = <<>>
  /\ answer = [r \in Readers |-> <<>>]

\* A call with an empty map has nothing to apply, and may return at once.
WriteBatch(u) ==
  /\ phase = "idle"
  /\ updates' = u
  /\ \/ phase' = "open"
     \/ DOMAIN u = {} /\ phase' = "applied"
  /\ UNCHANGED <<log, answer>>

\* All lists of the batch become visible together.
Apply ==
  /\ phase = "open"
  /\ \A k \in DOMAIN updates : Sorted(updates[k])
  /\ log' = [k \in Keys |-> IF k \in DOMAIN updates THEN log[k] \o updates[k]
                                                    ELSE log[k]]
  /\ phase' = "applied"
  /\ UNCHANGED <<updates, answer>>

\* An error leaves no trace.
Reject ==
  /\ phase = "open"
  /\ phase' = "rejected"
  /\ UNCHANGED <<log, updates, answer>>

WriteReturn ==
  /\ phase \in {"applied", "rejected"}
  /\ phase' = "idle"
  /\ updates' = <<>>
  /\ UNCHANGED <<log, answer>>

Lookup(r, k, start) ==
  /\ answer[r] = <<>>
  /\ answer' = [answer EXCEPT ![r] = [ok |-> TRUE, val |-> From(log[k], start)]]
  /\ UNCHANGED <<log, phase, updates>>

GetSubRoot(r, k) ==
  /\ answer[r] = <<>>
  /\ answer' = [answer EXCEPT ![r] = [ok |-> TRUE, val |-> log[k]]]
  /\ UNCHANGED <<log, phase, updates>>

ReadReturn(r) ==
  /\ answer[r] # <<>>
  /\ answer' = [answer EXCEPT ![r] = <<>>]
  /\ UNCHANGED <<log, phase, updates>>

Crash ==
  /\ phase' = "idle" /\ updates' = <<>>
  /\ answer' = [r \in Readers |-> <<>>]
  /\ UNCHANGED log

Next ==
  \/ \E u \in Updates : WriteBatch(u)
  \/ Apply \/ Reject \/ WriteReturn
  \/ \E r \in Readers :
       \/ \E k \in Keys : GetSubRoot(r, k) \/ \E start \in Index : Lookup(r, k, start)
       \/ ReadReturn(r)
  \/ Crash

Spec == Init /\ [][Next]_vars
=============================================================================
