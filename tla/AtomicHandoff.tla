--------------------------- MODULE AtomicHandoff ---------------------------
(***************************************************************************)
(* What an ownership handoff promises: one verdict, the owner changes with *)
(* it and only while every participant holds the cloud, nobody lets go     *)
(* before the verdict, and the handoff is closed when everybody has.       *)
(***************************************************************************)
CONSTANT Participants

VARIABLES
  verdict,  \* open, commit or cancel
  owner,
  grip,     \* each participant: none, held or free
  closed

vars == <<verdict, owner, grip, closed>>

Init ==
  /\ verdict = "open" /\ owner = "source" /\ closed = FALSE
  /\ grip = [p \in Participants |-> "none"]

\* A participant may still be asked to hold while a cancellation is on its way.
Take(p) ==
  /\ verdict \in {"open", "cancel"} /\ ~closed /\ grip[p] = "none"
  /\ grip' = [grip EXCEPT ![p] = "held"]
  /\ UNCHANGED <<verdict, owner, closed>>

Commit ==
  /\ verdict = "open" /\ \A p \in Participants : grip[p] = "held"
  /\ verdict' = "commit" /\ owner' = "target"
  /\ UNCHANGED <<grip, closed>>

Cancel ==
  /\ verdict = "open" /\ verdict' = "cancel"
  /\ UNCHANGED <<owner, grip, closed>>

LetGo(p) ==
  /\ verdict # "open" /\ grip[p] # "free"
  /\ grip' = [grip EXCEPT ![p] = "free"]
  /\ UNCHANGED <<verdict, owner, closed>>

Close ==
  /\ verdict # "open" /\ ~closed /\ \A p \in Participants : grip[p] = "free"
  /\ closed' = TRUE
  /\ UNCHANGED <<verdict, owner, grip>>

Next == Commit \/ Cancel \/ Close \/ \E p \in Participants : Take(p) \/ LetGo(p)

Spec == Init /\ [][Next]_vars
=============================================================================
