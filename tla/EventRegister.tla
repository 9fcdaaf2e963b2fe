---------------------------- MODULE EventRegister ----------------------------
(***************************************************************************)
(* What the buttons promise the super-loop, abstractly: a lossy counter of *)
(* pending events per source.                                              *)
(*                                                                         *)
(* A pending event is taken, once, and then handled; it is ignored if      *)
(* nobody listens to its source; and pending events may be lost (merged    *)
(* with another of their source, for one), but a loss never empties the    *)
(* register: one pending event is always kept.                             *)
(***************************************************************************)
EXTENDS Naturals

CONSTANT Source

VARIABLES
  listening,   \* the sources with a handler
  pending,     \* how many events of each source are raised and not yet taken
  taken,       \* the event being handled, if any
  handled      \* how many events of each source have been handled

vars == <<listening, pending, taken, handled>>

Init ==
  /\ listening = {}
  /\ pending = [b \in Source |-> 0]
  /\ taken = {}
  /\ handled = [b \in Source |-> 0]

Listen(b) ==
  /\ listening' = listening \cup {b}
  /\ UNCHANGED <<pending, taken, handled>>

Raise(b) ==
  /\ pending' = [pending EXCEPT ![b] = @ + 1]
  /\ UNCHANGED <<listening, taken, handled>>

Ignore(b) ==
  /\ b \notin listening
  /\ pending[b] > 0
  /\ pending' = [pending EXCEPT ![b] = @ - 1]
  /\ UNCHANGED <<listening, taken, handled>>

Lose ==
  /\ pending' \in [Source -> Nat]
  /\ \A b \in Source : pending'[b] <= pending[b]
  /\ \E b \in Source : pending'[b] > 0
  /\ UNCHANGED <<listening, taken, handled>>

Take(b) ==
  /\ pending[b] > 0
  /\ taken = {}
  /\ pending' = [pending EXCEPT ![b] = @ - 1]
  /\ taken' = {b}
  /\ UNCHANGED <<listening, handled>>

Handle(b) ==
  /\ taken = {b}
  /\ taken' = {}
  /\ handled' = [handled EXCEPT ![b] = @ + 1]
  /\ UNCHANGED <<listening, pending>>

Next ==
  \/ \E b \in Source : Listen(b) \/ Raise(b) \/ Ignore(b) \/ Take(b) \/ Handle(b)
  \/ Lose

Spec == Init /\ [][Next]_vars

\* No source keeps events pending, or taken, for ever.
LiveSpec ==
  /\ Spec
  /\ \A b \in Source : pending[b] > 0 ~> pending[b] = 0
  /\ \A b \in Source : taken = {b} ~> taken = {}
=============================================================================
