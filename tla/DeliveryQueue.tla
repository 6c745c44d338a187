--------------------------- MODULE DeliveryQueue ---------------------------
(***************************************************************************)
(* What a transactional outbox promises, without workers, leases, attempts *)
(* or crashes: a message is recorded as delivered only after its receiver  *)
(* has it, a delivered or expired message is never touched again, and only *)
(* a message that was given up can be opened again.  The receiver may get  *)
(* a message any number of times.  The device outbox and the email outbox  *)
(* implement this specification.                                           *)
(***************************************************************************)
CONSTANT Messages

VARIABLES
  state,    \* what the outbox says of each message
  received  \* messages the receiver has got at least once

vars == <<state, received>>

Init == state = [m \in Messages |-> "absent"] /\ received = {}

Move(m, from, to) ==
  /\ state[m] \in from
  /\ state' = [state EXCEPT ![m] = to]
  /\ UNCHANGED received

Enqueue(m) == Move(m, {"absent"}, "open")

\* A copy reaches the receiver, perhaps a late one.
Arrive(m) ==
  /\ state[m] # "absent"
  /\ received' = received \cup {m}
  /\ UNCHANGED state

\* A late confirmation may still correct a message that was given up.
Confirm(m) == m \in received /\ Move(m, {"open", "given_up"}, "delivered")
GiveUp(m) == Move(m, {"open"}, "given_up")
Expire(m) == Move(m, {"open"}, "expired")
Reopen(m) == Move(m, {"given_up"}, "open")

Next == \E m \in Messages :
  Enqueue(m) \/ Arrive(m) \/ Confirm(m) \/ GiveUp(m) \/ Expire(m) \/ Reopen(m)

Spec == Init /\ [][Next]_vars
=============================================================================
