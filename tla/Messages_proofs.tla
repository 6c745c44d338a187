--------------------------- MODULE Messages_proofs ---------------------------
(***************************************************************************)
(* Proofs about the messages that enter and leave the service outside the  *)
(* lifecycle channel's tables: EmailOutbox, for every set of mails and     *)
(* workers; PresenceProjection, for every set of observations and any      *)
(* number of concurrent handlers; EventHubConsumer, for any number of      *)
(* partitions and events and every batch size.  The three share nothing.   *)
(***************************************************************************)
EXTENDS EmailOutbox, PresenceProjection, EventHubConsumer,
        FiniteSetTheorems, WellFoundedInduction, SequenceTheorems, TLAPS

-----------------------------------------------------------------------------
(* E-mail.                                                                 *)

\* The items a worker holds are typed, of rows that exist, with attempts left,
\* and delivered only if the Send Mail service accepted them.
ItemsInv ==
  \A w \in Workers : \A i \in work[w] :
    /\ i.attempt < MaxAttempts
    /\ row[i.mail].status # "absent"
    /\ i.result = "ok" => accepted[i.mail] > 0
    /\ i.late => i.result = "none"

\* The Send Mail service knows only mails of the queue.
AcceptedExist == \A m \in Mails : accepted[m] > 0 => row[m].status # "absent"

EmailInv == TypeOK /\ AttemptsBounded /\ ItemsInv /\ AcceptedExist

\* At first the queue is empty.
LEMMA InitEmail == Init => EmailInv
<1> SUFFICES ASSUME Init PROVE EmailInv
  OBVIOUS
<1>1. TypeOK
  BY DEF Init, TypeOK, Row, Statuses
<1>2. \A m \in Mails : row[m].attempt = 0 /\ accepted[m] = 0
  BY DEF Init
<1>3. AttemptsBounded /\ AcceptedExist
  BY <1>2, EmailAssumption DEF AttemptsBounded, AcceptedExist
<1>4. ItemsInv
  BY DEF Init, ItemsInv
<1>q. QED BY <1>1, <1>3, <1>4 DEF EmailInv

\* A claim hands out rows that have attempts left.
LEMMA ClaimEmail ==
  ASSUME EmailInv, NEW w \in Workers, ClaimEmailOutboxReady(w)
  PROVE  EmailInv'
<1>1. PICK claimed \in SUBSET Ready :
        /\ row' = [m \in Mails |-> IF m \in claimed
                                   THEN [row[m] EXCEPT !.status = "sending", !.due = FALSE]
                                   ELSE row[m]]
        /\ work' = [work EXCEPT ![w] =
             {[mail |-> m, attempt |-> row[m].attempt, late |-> m \in lapsed,
               result |-> "none"] : m \in claimed}]
  BY DEF ClaimEmailOutboxReady
<1>2. \A m \in Mails : /\ row'[m] \in Row /\ row'[m].attempt = row[m].attempt
                       /\ m \in claimed => row[m].status \in {"pending", "retrying", "sending"}
                       /\ row'[m].status = IF m \in claimed THEN "sending" ELSE row[m].status
  BY <1>1 DEF EmailInv, TypeOK, Row, Ready, Statuses
<1>3. \A i \in work'[w] : /\ i \in Item /\ i.attempt < MaxAttempts /\ i.result = "none"
                          /\ row'[i.mail].status # "absent"
  <2>1. SUFFICES ASSUME NEW i \in work'[w]
                 PROVE  /\ i \in Item /\ i.attempt < MaxAttempts /\ i.result = "none"
                        /\ row'[i.mail].status # "absent"
    OBVIOUS
  <2>2. PICK m \in claimed : i = [mail |-> m, attempt |-> row[m].attempt, late |-> m \in lapsed,
                                result |-> "none"]
    BY <1>1, <2>1 DEF EmailInv, TypeOK
  <2>3. m \in Mails /\ row[m].attempt \in Nat /\ row[m].status \in {"pending", "retrying", "sending"}
    BY <1>2 DEF Ready, EmailInv, TypeOK, Row
  <2>4. row[m].attempt < MaxAttempts
    BY <2>3 DEF EmailInv, AttemptsBounded, QueueState
  <2>5. (m \in lapsed) \in BOOLEAN
    OBVIOUS
  <2>6. i \in Item
    BY <2>2, <2>3, <2>5, Zenon DEF Item
  <2>q. QED BY <1>2, <2>2, <2>3, <2>4, <2>6
<1>4. \A v \in Workers : v # w => work'[v] = work[v]
  BY <1>1 DEF EmailInv, TypeOK
<1>5. UNCHANGED <<lapsed, accepted, faults>>
  BY DEF ClaimEmailOutboxReady
<1>6. TypeOK'
  BY <1>1, <1>2, <1>3, <1>4, <1>5 DEF EmailInv, TypeOK
<1>7. AttemptsBounded' /\ AcceptedExist'
  BY <1>2, <1>5 DEF EmailInv, AttemptsBounded, AcceptedExist, QueueState
<1>8. ItemsInv'
  <2>1. ASSUME NEW v \in Workers, v # w, NEW i \in work[v]
        PROVE  row'[i.mail].status # "absent"
    BY <1>2 DEF EmailInv, TypeOK, Item, ItemsInv
  <2>q. QED BY <1>3, <1>4, <1>5, <2>1 DEF EmailInv, ItemsInv
<1>q. QED BY <1>6, <1>7, <1>8 DEF EmailInv

\* A delivery changes the item it is about and what the service has accepted.
LEMMA DeliverEmail ==
  ASSUME EmailInv, NEW w \in Workers, NEW i \in work[w], Unrenderable(w, i) \/ Send(w, i)
  PROVE  EmailInv'
<1>1. i \in Item /\ i.mail \in Mails
  BY DEF EmailInv, TypeOK, Item
<1>2. PICK r \in {"ok", "transient", "permanent"} :
        /\ work' = [work EXCEPT ![w] = (@ \ {i}) \cup {[i EXCEPT !.result = r]}]
        /\ r = "ok" => accepted' = [accepted EXCEPT ![i.mail] = @ + 1]
  BY DEF Unrenderable, Send
<1>3. /\ UNCHANGED <<row, lapsed>> /\ ~i.late
      /\ accepted' \in {accepted, [accepted EXCEPT ![i.mail] = @ + 1]}
      /\ faults' \in {faults, faults + 1}
  BY DEF Unrenderable, Send, Fault
<1>4. \A m \in Mails : accepted'[m] \in Nat /\ accepted'[m] >= accepted[m]
  BY <1>1, <1>3 DEF EmailInv, TypeOK
<1> DEFINE j == [i EXCEPT !.result = r]
<1>5. /\ j \in Item /\ j.mail = i.mail /\ j.attempt = i.attempt /\ j.late = i.late /\ j.result = r
  BY <1>1 DEF Item
<1> HIDE DEF j
<1>6. \A v \in Workers : work'[v] \subseteq work[v] \cup (IF v = w THEN {j} ELSE {})
  BY <1>2 DEF EmailInv, TypeOK, j
<1>7. TypeOK'
  <2>1. work' \in [Workers -> SUBSET Item]
    BY <1>2, <1>5, <1>6 DEF EmailInv, TypeOK
  <2>2. accepted' \in [Mails -> Nat] /\ faults' \in Nat
    BY <1>3, <1>4 DEF EmailInv, TypeOK
  <2>q. QED BY <1>3, <2>1, <2>2 DEF EmailInv, TypeOK
<1>8. r = "ok" => accepted'[i.mail] > 0
  BY <1>1, <1>2 DEF EmailInv, TypeOK
<1>9. ItemsInv'
  <2>1. ASSUME NEW v \in Workers, NEW k \in work[v]
        PROVE  k.mail \in Mails /\ k.attempt < MaxAttempts /\ row[k.mail].status # "absent"
               /\ (k.result = "ok" => accepted'[k.mail] > 0) /\ (k.late => k.result = "none")
    <3>1. k.mail \in Mails /\ accepted[k.mail] \in Nat
      BY DEF EmailInv, TypeOK, Item
    <3>2. /\ k.attempt < MaxAttempts /\ row[k.mail].status # "absent"
          /\ (k.result = "ok" => accepted[k.mail] > 0) /\ (k.late => k.result = "none")
      BY DEF EmailInv, ItemsInv
    <3>q. QED BY <1>4, <3>1, <3>2
  <2>q. QED BY <1>3, <1>5, <1>6, <1>8, <2>1 DEF ItemsInv
<1>10. AcceptedExist' /\ AttemptsBounded'
  <2>1. row[i.mail].status # "absent"
    BY DEF EmailInv, ItemsInv
  <2>q. QED BY <1>1, <1>3, <2>1 DEF EmailInv, TypeOK, AcceptedExist, AttemptsBounded, QueueState
<1>q. QED BY <1>7, <1>9, <1>10 DEF EmailInv

\* When only existing rows change and no item appears, the items stay right.
LEMMA RowChange ==
  ASSUME EmailInv, UNCHANGED accepted,
         \A v \in Workers : work'[v] \subseteq work[v],
         \A m \in Mails : row[m].status # "absent" => row'[m].status # "absent"
  PROVE  ItemsInv' /\ AcceptedExist'
<1>1. \A v \in Workers : \A k \in work[v] : k.mail \in Mails
  BY DEF EmailInv, TypeOK, Item
<1>q. QED BY <1>1 DEF EmailInv, ItemsInv, AcceptedExist

\* The outcome of an item keeps the row within the bound.
LEMMA FinishEmail ==
  ASSUME EmailInv, NEW w \in Workers, NEW i \in work[w], Finish(w, i)
  PROVE  EmailInv'
<1>1. /\ i \in Item /\ i.mail \in Mails /\ i.attempt \in Nat /\ i.attempt < MaxAttempts
      /\ MaxAttempts \in Nat
  BY EmailAssumption DEF EmailInv, TypeOK, Item, ItemsInv
<1> DEFINE st == Outcome(i)
           n == IF i.late THEN i.attempt ELSE i.attempt + 1
<1>2. /\ st \in {"sent", "retrying", "dead_lettered", "expired"}
      /\ st = "retrying" => n < MaxAttempts
      /\ n \in Nat /\ n <= MaxAttempts
  BY <1>1 DEF Outcome
<1>3. TransitionEmailOutbox(i, st, n)
  BY DEF Finish
<1> HIDE DEF st, n
<1>4. /\ \A m \in Mails : m # i.mail => row'[m] = row[m]
      /\ row'[i.mail] \in {row[i.mail], [status |-> st, attempt |-> n, due |-> FALSE]}
      /\ row' \in [Mails -> Row]
  <2>1. [status |-> st, attempt |-> n, due |-> FALSE] \in Row
    BY <1>2 DEF Row, Statuses
  <2>2. row \in [Mails -> Row]
    BY DEF EmailInv, TypeOK
  <2>q. QED BY <1>1, <1>3, <2>1, <2>2 DEF TransitionEmailOutbox
<1>5. /\ \A v \in Workers : work'[v] \subseteq work[v]
      /\ work' \in [Workers -> SUBSET Item]
      /\ UNCHANGED <<lapsed, accepted, faults>>
  BY DEF Finish, EmailInv, TypeOK
<1>6. TypeOK' /\ AttemptsBounded'
  BY <1>1, <1>2, <1>4, <1>5 DEF EmailInv, TypeOK, AttemptsBounded, QueueState
<1>7. ItemsInv' /\ AcceptedExist'
  BY <1>2, <1>4, <1>5, RowChange
<1>q. QED BY <1>6, <1>7 DEF EmailInv

\* Every step keeps the invariant.
LEMMA NextEmail == EmailInv /\ [Next]_vars => EmailInv'
<1> SUFFICES ASSUME EmailInv, [Next]_vars PROVE EmailInv'
  OBVIOUS
<1>1. ASSUME NEW m \in Mails, EnqueueEmail(m) \/ RequeueEmailOutbox(m) \/ DelayEnds(m) \/ LeaseOverrun(m)
      PROVE  EmailInv'
  <2>1. /\ row' \in [Mails -> Row]
        /\ \A n \in Mails : n # m => row'[n] = row[n]
        /\ row'[m].status # "absent"
        /\ row'[m].attempt \in {0, row[m].attempt}
        /\ row'[m].attempt # 0 => QueueState(m) = "open"
    <3>1. row \in [Mails -> Row]
      BY DEF EmailInv, TypeOK
    <3>2. ASSUME NEW st \in {"pending", "retrying"},
                 row' = [row EXCEPT ![m] = [status |-> st, attempt |-> 0, due |-> TRUE]]
          PROVE  /\ row' \in [Mails -> Row]
                 /\ \A n \in Mails : n # m => row'[n] = row[n]
                 /\ row'[m].status # "absent" /\ row'[m].attempt = 0
      BY <3>1, <3>2 DEF Row, Statuses
    <3>3. CASE BecomesDue(m)
      <4>1. /\ row' = [row EXCEPT ![m] = [row[m] EXCEPT !.due = TRUE]]
            /\ row[m].status \in {"retrying", "sending"}
        BY <3>3 DEF BecomesDue
      <4>2. LET r == [row[m] EXCEPT !.due = TRUE]
            IN  r \in Row /\ r.status = row[m].status /\ r.attempt = row[m].attempt
        BY <3>1 DEF Row
      <4>q. QED BY <3>1, <4>1, <4>2 DEF QueueState
    <3>q. QED BY <1>1, <3>2, <3>3 DEF EnqueueEmail, RequeueEmailOutbox, DelayEnds, LeaseOverrun
  <2>2. /\ UNCHANGED <<lapsed, work, accepted>>
        /\ faults' \in Nat
    BY <1>1 DEF EnqueueEmail, RequeueEmailOutbox, DelayEnds, LeaseOverrun, Fault, EmailInv, TypeOK
  <2>3. TypeOK'
    BY <2>1, <2>2 DEF EmailInv, TypeOK
  <2>4. AttemptsBounded'
    BY <2>1, EmailAssumption DEF EmailInv, AttemptsBounded, QueueState
  <2>5. ItemsInv' /\ AcceptedExist'
    BY <2>1, <2>2, RowChange
  <2>q. QED BY <2>3, <2>4, <2>5 DEF EmailInv
<1>2. ASSUME NEW w \in Workers, Crash(w) \/ (\E i \in work[w] : FinishFails(w, i)) PROVE EmailInv'
  <2>1. /\ UNCHANGED <<row, lapsed, accepted>> /\ faults' \in Nat
        /\ work' \in [Workers -> SUBSET Item]
        /\ \A v \in Workers : work'[v] \subseteq work[v]
    BY <1>2 DEF Crash, FinishFails, Fault, EmailInv, TypeOK
  <2>2. ItemsInv' /\ AcceptedExist'
    BY <2>1, RowChange
  <2>q. QED BY <2>1, <2>2 DEF EmailInv, TypeOK, AttemptsBounded, QueueState
<1>3. ASSUME NEW m \in Mails, ExpiryPasses(m) PROVE EmailInv'
  BY <1>3 DEF ExpiryPasses, EmailInv, TypeOK, AttemptsBounded, QueueState, ItemsInv, AcceptedExist
<1>4. CASE UNCHANGED vars
  BY <1>4 DEF vars, EmailInv, TypeOK, AttemptsBounded, QueueState, ItemsInv, AcceptedExist
<1>q. QED BY <1>1, <1>2, <1>3, <1>4, ClaimEmail, DeliverEmail, FinishEmail DEF Next, Deliver

\* No interleaving of claims, overrun leases, crashes and requeues leaves a row
\* to be claimed without an attempt left (deliver, TransitionEmailOutbox).
THEOREM EmailAttemptsAreBounded == Spec => []AttemptsBounded
<1>1. EmailInv => AttemptsBounded
  BY DEF EmailInv
<1>q. QED BY <1>1, InitEmail, NextEmail, PTL DEF Spec

-----------------------------------------------------------------------------
(* The refinement.                                                         *)

\* A row that changes its queue state moves as DeliveryQueue allows.
LEMMA RowMoves ==
  ASSUME NEW m \in Mails, UNCHANGED accepted,
         \A n \in Mails : n # m => QueueState(n)' = QueueState(n),
         \/ QueueState(m)' = QueueState(m)
         \/ QueueState(m) = "absent" /\ QueueState(m)' = "open"
         \/ QueueState(m) = "open" /\ QueueState(m)' = "delivered" /\ accepted[m] > 0
         \/ QueueState(m) = "open" /\ QueueState(m)' \in {"given_up", "expired"}
         \/ QueueState(m) = "given_up" /\ QueueState(m)' = "open"
  PROVE  [Queue!Next]_(Queue!vars)
<1> DEFINE st == [n \in Mails |-> QueueState(n)]
           rc == {n \in Mails : accepted[n] > 0}
<1>1. rc' = rc
  OBVIOUS
<1>2. st' = [st EXCEPT ![m] = QueueState(m)']
  OBVIOUS
<1>3. CASE QueueState(m)' = QueueState(m)
  BY <1>1, <1>2, <1>3 DEF Queue!vars
<1>4. CASE QueueState(m) = "absent" /\ QueueState(m)' = "open"
  BY <1>1, <1>2, <1>4 DEF Queue!Next, Queue!Enqueue, Queue!Move
<1>5. CASE QueueState(m) = "open" /\ QueueState(m)' = "delivered" /\ accepted[m] > 0
  BY <1>1, <1>2, <1>5 DEF Queue!Next, Queue!Confirm, Queue!Move
<1>6. CASE QueueState(m) = "open" /\ QueueState(m)' = "given_up"
  BY <1>1, <1>2, <1>6 DEF Queue!Next, Queue!GiveUp, Queue!Move
<1>7. CASE QueueState(m) = "open" /\ QueueState(m)' = "expired"
  BY <1>1, <1>2, <1>7 DEF Queue!Next, Queue!Expire, Queue!Move
<1>8. CASE QueueState(m) = "given_up" /\ QueueState(m)' = "open"
  BY <1>1, <1>2, <1>8 DEF Queue!Next, Queue!Reopen, Queue!Move
<1>q. QED BY <1>3, <1>4, <1>5, <1>6, <1>7, <1>8

\* Every step of the email queue is a step of DeliveryQueue or a stutter.
LEMMA EmailSteps == EmailInv /\ [Next]_vars => [Queue!Next]_(Queue!vars)
<1> SUFFICES ASSUME EmailInv, [Next]_vars PROVE [Queue!Next]_(Queue!vars)
  OBVIOUS
<1>0. ASSUME UNCHANGED <<row, accepted>> PROVE [Queue!Next]_(Queue!vars)
  BY <1>0 DEF Queue!vars, QueueState
<1>1. ASSUME NEW m \in Mails, EnqueueEmail(m) \/ RequeueEmailOutbox(m) \/ DelayEnds(m) \/ LeaseOverrun(m)
      PROVE  [Queue!Next]_(Queue!vars)
  <2>1. UNCHANGED accepted
    BY <1>1 DEF EnqueueEmail, RequeueEmailOutbox, DelayEnds, LeaseOverrun
  <2>2. \A n \in Mails : n # m => row'[n] = row[n]
    BY <1>1 DEF EnqueueEmail, RequeueEmailOutbox, DelayEnds, LeaseOverrun, BecomesDue, EmailInv, TypeOK
  <2>3. \/ row'[m].status = row[m].status
        \/ row[m].status = "absent" /\ row'[m].status = "pending"
        \/ row[m].status = "dead_lettered" /\ row'[m].status = "retrying"
    BY <1>1 DEF EnqueueEmail, RequeueEmailOutbox, DelayEnds, LeaseOverrun, BecomesDue, EmailInv,
                TypeOK, Row
  <2>4. \A n \in Mails : n # m => QueueState(n)' = QueueState(n)
    BY <2>2 DEF QueueState
  <2>5. \/ QueueState(m)' = QueueState(m)
        \/ QueueState(m) = "absent" /\ QueueState(m)' = "open"
        \/ QueueState(m) = "given_up" /\ QueueState(m)' = "open"
    BY <2>3 DEF QueueState
  <2>q. QED BY <2>1, <2>4, <2>5, RowMoves
<1>2. ASSUME NEW w \in Workers, ClaimEmailOutboxReady(w) PROVE [Queue!Next]_(Queue!vars)
  <2>1. UNCHANGED accepted
    BY <1>2 DEF ClaimEmailOutboxReady
  <2>2. \A m \in Mails : QueueState(m)' = QueueState(m)
    <3>1. PICK claimed \in SUBSET Ready :
            row' = [m \in Mails |-> IF m \in claimed
                                    THEN [row[m] EXCEPT !.status = "sending", !.due = FALSE]
                                    ELSE row[m]]
      BY <1>2 DEF ClaimEmailOutboxReady
    <3>2. \A m \in Mails : /\ m \notin claimed => row'[m] = row[m]
                           /\ m \in claimed => /\ row'[m].status = "sending"
                                             /\ row[m].status \in {"pending", "retrying", "sending"}
      BY <3>1 DEF Ready, EmailInv, TypeOK, Row
    <3>q. QED BY <3>2 DEF QueueState
  <2>q. QED BY <2>1, <2>2 DEF Queue!vars
<1>3. ASSUME NEW w \in Workers, NEW i \in work[w], Send(w, i) PROVE [Queue!Next]_(Queue!vars)
  <2>1. i.mail \in Mails /\ row[i.mail].status # "absent" /\ accepted[i.mail] \in Nat
    BY DEF EmailInv, TypeOK, Item, ItemsInv
  <2>2. UNCHANGED row /\ accepted' \in {accepted, [accepted EXCEPT ![i.mail] = @ + 1]}
    BY <1>3 DEF Send
  <2>3. CASE UNCHANGED accepted
    BY <1>0, <2>2, <2>3
  <2>4. CASE accepted' = [accepted EXCEPT ![i.mail] = @ + 1]
    <3>1. {m \in Mails : accepted[m] > 0}' = {m \in Mails : accepted[m] > 0} \cup {i.mail}
      BY <2>1, <2>4 DEF EmailInv, TypeOK
    <3>2. [m \in Mails |-> QueueState(m)]' = [m \in Mails |-> QueueState(m)]
      BY <2>2 DEF QueueState
    <3>3. QueueState(i.mail) # "absent"
      BY <2>1 DEF QueueState
    <3>q. QED BY <2>1, <3>1, <3>2, <3>3 DEF Queue!Next, Queue!Arrive
  <2>q. QED BY <2>2, <2>3, <2>4
<1>4. ASSUME NEW w \in Workers, NEW i \in work[w], Finish(w, i) PROVE [Queue!Next]_(Queue!vars)
  <2>1. i.mail \in Mails /\ i.result \in {"none", "ok", "transient", "permanent"}
    BY DEF EmailInv, TypeOK, Item
  <2>2. UNCHANGED accepted /\ TransitionEmailOutbox(i, Outcome(i), IF i.late THEN i.attempt ELSE i.attempt + 1)
    BY <1>4 DEF Finish
  <2>3. /\ \A m \in Mails : m # i.mail => row'[m] = row[m]
        /\ \/ row'[i.mail] = row[i.mail]
           \/ row[i.mail].status = "sending" /\ row'[i.mail].status = Outcome(i)
    BY <2>1, <2>2 DEF TransitionEmailOutbox, TransitionApplies, EmailInv, TypeOK
  <2>4. /\ Outcome(i) \in {"sent", "retrying", "dead_lettered", "expired"}
        /\ Outcome(i) = "sent" => accepted[i.mail] > 0
    BY <2>1 DEF Outcome, EmailInv, ItemsInv
  <2>5. \A m \in Mails : m # i.mail => QueueState(m)' = QueueState(m)
    BY <2>3 DEF QueueState
  <2>6. \/ QueueState(i.mail)' = QueueState(i.mail)
        \/ /\ QueueState(i.mail) = "open" /\ QueueState(i.mail)' = "delivered"
           /\ accepted[i.mail] > 0
        \/ QueueState(i.mail) = "open" /\ QueueState(i.mail)' \in {"given_up", "expired"}
    BY <2>3, <2>4 DEF QueueState
  <2>q. QED BY <2>1, <2>2, <2>5, <2>6, RowMoves
<1>5. ASSUME NEW w \in Workers,
             \/ Crash(w)
             \/ \E i \in work[w] : Unrenderable(w, i) \/ FinishFails(w, i)
      PROVE  UNCHANGED <<row, accepted>>
  BY <1>5 DEF Crash, Unrenderable, FinishFails
<1>6. ASSUME NEW m \in Mails, ExpiryPasses(m) PROVE UNCHANGED <<row, accepted>>
  BY <1>6 DEF ExpiryPasses
<1>7. CASE UNCHANGED vars
  BY <1>0, <1>7 DEF vars
<1>q. QED BY <1>0, <1>1, <1>2, <1>3, <1>4, <1>5, <1>6, <1>7 DEF Next, Deliver

\* The email queue implements DeliveryQueue: for any number of workers, however
\* leases overrun and workers die, a mail is sent only if the service accepted
\* it, and what is sent or expired stays so.
THEOREM EmailImplementsQueue == Spec => ImplementsQueue
<1>1. Init => Queue!Init
  BY DEF Init, Queue!Init, QueueState
<1>q. QED BY <1>1, InitEmail, NextEmail, EmailSteps, PTL DEF Spec, ImplementsQueue, Queue!Spec

-----------------------------------------------------------------------------
(* The price of a second copy.  Every chance that a copy of a mail is sent *)
(* is counted: the copies that were, the workers that may still send one   *)
(* or hand the mail back for another attempt, and the row if somebody may  *)
(* claim it.  A claim moves the row's chance to a worker, a delivery uses  *)
(* it up, a retry moves it back, and only a fault makes one.               *)

MaySend(i) == (i.result = "none" /\ ~i.late) \/ i.result = "transient"

Senders(m) == {w \in Workers : \E i \in work[w] : i.mail = m /\ MaySend(i)}

\* Somebody works on the claim the row is in.
InHand(m) == \E w \in Workers : \E i \in work[w] : i.mail = m /\ i.attempt = row[m].attempt

Claimable(m) ==
  \/ row[m].status \in {"pending", "retrying"}
  \/ row[m].status = "sending" /\ (row[m].due \/ ~InHand(m))

RowChance(m) == IF Claimable(m) THEN 1 ELSE 0

\* A worker holds a mail once.
OneItem == \A w \in Workers : \A i, j \in work[w] : i.mail = j.mail => i = j

ChancesCounted ==
  \A m \in Mails : /\ IsFiniteSet(Senders(m))
                   /\ accepted[m] + Cardinality(Senders(m)) + RowChance(m) <= 1 + faults

CopyInv == EmailInv /\ OneItem /\ ChancesCounted

\* The three ways in which a set of senders may change.
LEMMA SetSizes ==
  ASSUME NEW S, NEW T, IsFiniteSet(S)
  PROVE  /\ Cardinality(S) \in Nat
         /\ T \subseteq S => IsFiniteSet(T) /\ Cardinality(T) <= Cardinality(S)
         /\ \A w : T \subseteq S \cup {w} => IsFiniteSet(T) /\ Cardinality(T) <= Cardinality(S) + 1
         /\ \A w \in S : T \subseteq S \ {w} => IsFiniteSet(T) /\ Cardinality(T) + 1 <= Cardinality(S)
         /\ IsFiniteSet(T) => Cardinality(T) \in Nat
<1>1. Cardinality(S) \in Nat /\ (IsFiniteSet(T) => Cardinality(T) \in Nat)
  BY FS_CardinalityType
<1>2. T \subseteq S => IsFiniteSet(T) /\ Cardinality(T) <= Cardinality(S)
  BY FS_Subset
<1>3. ASSUME NEW w, T \subseteq S \cup {w}
      PROVE  IsFiniteSet(T) /\ Cardinality(T) <= Cardinality(S) + 1
  <2>1. /\ IsFiniteSet(S \cup {w})
        /\ Cardinality(S \cup {w}) = IF w \in S THEN Cardinality(S) ELSE Cardinality(S) + 1
    BY FS_AddElement
  <2>2. IsFiniteSet(T) /\ Cardinality(T) <= Cardinality(S \cup {w})
    BY <1>3, <2>1, FS_Subset
  <2>q. QED BY <1>1, <2>1, <2>2
<1>4. ASSUME NEW w \in S, T \subseteq S \ {w}
      PROVE  IsFiniteSet(T) /\ Cardinality(T) + 1 <= Cardinality(S)
  <2>1. IsFiniteSet(S \ {w}) /\ Cardinality(S \ {w}) = Cardinality(S) - 1
    BY <1>1, FS_RemoveElement
  <2>2. IsFiniteSet(T) /\ Cardinality(T) <= Cardinality(S \ {w})
    BY <1>4, <2>1, FS_Subset
  <2>q. QED BY <1>1, <2>1, <2>2
<1>q. QED BY <1>1, <1>2, <1>3, <1>4

\* The numbers of the count.
LEMMA CountTypes ==
  ASSUME EmailInv, NEW m \in Mails
  PROVE  accepted[m] \in Nat /\ faults \in Nat /\ RowChance(m) \in {0, 1}
BY DEF EmailInv, TypeOK, RowChance

\* What each of them asks of the other terms of the count of a mail.
LEMMA CountMoves ==
  ASSUME EmailInv, EmailInv', ChancesCounted, NEW m \in Mails,
         LET before == accepted[m] + RowChance(m) + faults'
             after == accepted'[m] + RowChance(m)' + faults
         IN  \/ Senders(m)' \subseteq Senders(m) /\ after <= before
             \/ (\E w : Senders(m)' \subseteq Senders(m) \cup {w}) /\ after + 1 <= before
             \/ (\E w \in Senders(m) : Senders(m)' \subseteq Senders(m) \ {w}) /\ after <= before + 1
  PROVE  /\ IsFiniteSet(Senders(m)')
         /\ accepted'[m] + Cardinality(Senders(m)') + RowChance(m)' <= 1 + faults'
<1>1. /\ accepted[m] \in Nat /\ faults \in Nat /\ RowChance(m) \in Nat
      /\ accepted'[m] \in Nat /\ faults' \in Nat /\ RowChance(m)' \in Nat
  BY DEF EmailInv, TypeOK, RowChance
<1>2. IsFiniteSet(Senders(m)) /\ accepted[m] + Cardinality(Senders(m)) + RowChance(m) <= 1 + faults
  BY DEF ChancesCounted
<1>3. /\ Cardinality(Senders(m)) \in Nat
      /\ IsFiniteSet(Senders(m)') => Cardinality(Senders(m)') \in Nat
      /\ Senders(m)' \subseteq Senders(m) =>
           IsFiniteSet(Senders(m)') /\ Cardinality(Senders(m)') <= Cardinality(Senders(m))
      /\ \A w : Senders(m)' \subseteq Senders(m) \cup {w} =>
           IsFiniteSet(Senders(m)') /\ Cardinality(Senders(m)') <= Cardinality(Senders(m)) + 1
      /\ \A w \in Senders(m) : Senders(m)' \subseteq Senders(m) \ {w} =>
           IsFiniteSet(Senders(m)') /\ Cardinality(Senders(m)') + 1 <= Cardinality(Senders(m))
  BY <1>2, SetSizes
<1>4. CASE Senders(m)' \subseteq Senders(m)
           /\ accepted'[m] + RowChance(m)' + faults <= accepted[m] + RowChance(m) + faults'
  BY <1>1, <1>2, <1>3, <1>4
<1>5. CASE (\E w : Senders(m)' \subseteq Senders(m) \cup {w})
           /\ accepted'[m] + RowChance(m)' + faults + 1 <= accepted[m] + RowChance(m) + faults'
  <2>1. IsFiniteSet(Senders(m)') /\ Cardinality(Senders(m)') <= Cardinality(Senders(m)) + 1
    BY <1>3, <1>5, Zenon
  <2>q. QED BY <1>1, <1>2, <1>3, <1>5, <2>1
<1>6. CASE (\E w \in Senders(m) : Senders(m)' \subseteq Senders(m) \ {w})
           /\ accepted'[m] + RowChance(m)' + faults <= accepted[m] + RowChance(m) + faults' + 1
  BY <1>1, <1>2, <1>3, <1>6
<1>q. QED BY <1>4, <1>5, <1>6

\* A claim moves the row's chance to the worker.
LEMMA ClaimCounts ==
  ASSUME CopyInv, NEW w \in Workers, ClaimEmailOutboxReady(w)
  PROVE  CopyInv'
<1>1. PICK claimed \in SUBSET Ready :
        /\ row' = [m \in Mails |-> IF m \in claimed
                                   THEN [row[m] EXCEPT !.status = "sending", !.due = FALSE]
                                   ELSE row[m]]
        /\ work' = [work EXCEPT ![w] =
             {[mail |-> m, attempt |-> row[m].attempt, late |-> m \in lapsed,
               result |-> "none"] : m \in claimed}]
  BY DEF ClaimEmailOutboxReady
<1>2. EmailInv /\ EmailInv' /\ OneItem /\ ChancesCounted
  BY ClaimEmail DEF CopyInv
<1>3. work[w] = {} /\ UNCHANGED <<accepted, faults>>
  BY DEF ClaimEmailOutboxReady
<1>4. \A v \in Workers : v # w => work'[v] = work[v]
  BY <1>1, <1>2 DEF EmailInv, TypeOK
<1>5. work'[w] = {[mail |-> m, attempt |-> row[m].attempt, late |-> m \in lapsed,
                   result |-> "none"] : m \in claimed}
  BY <1>1, <1>2 DEF EmailInv, TypeOK
<1>6. OneItem'
  BY <1>2, <1>4, <1>5 DEF OneItem
<1>7. ASSUME NEW m \in Mails
      PROVE  /\ IsFiniteSet(Senders(m)')
             /\ accepted'[m] + Cardinality(Senders(m)') + RowChance(m)' <= 1 + faults'
  <2>1. /\ accepted[m] \in Nat /\ faults \in Nat /\ RowChance(m) \in {0, 1} /\ RowChance(m)' \in {0, 1}
        /\ IsFiniteSet(Senders(m)) /\ accepted[m] + Cardinality(Senders(m)) + RowChance(m) <= 1 + faults
    BY <1>2, CountTypes DEF RowChance, ChancesCounted
  <2>2. CASE m \in claimed
    <3>1. /\ row[m].status \in {"pending", "retrying", "sending"} /\ row[m].due
          /\ row'[m].status = "sending" /\ ~row'[m].due /\ row'[m].attempt = row[m].attempt
      BY <1>1, <1>2, <2>2 DEF Ready, EmailInv, TypeOK, Row
    <3>2. InHand(m)'
      <4> DEFINE item == [mail |-> m, attempt |-> row[m].attempt, late |-> m \in lapsed,
                          result |-> "none"]
      <4>1. item \in work'[w] /\ item.mail = m /\ item.attempt = row[m].attempt
        BY <1>5, <2>2
      <4>q. QED BY <3>1, <4>1 DEF InHand
    <3>3. RowChance(m) = 1 /\ RowChance(m)' = 0
      BY <3>1, <3>2 DEF RowChance, Claimable
    <3>4. Senders(m)' \subseteq Senders(m) \cup {w}
      BY <1>4 DEF Senders
    <3>q. QED BY <1>2, <1>3, <2>1, <3>3, <3>4, CountMoves
  <2>3. CASE m \notin claimed
    <3>1. row'[m] = row[m]
      BY <1>1, <2>3
    <3>2. \A i \in work'[w] : i.mail # m
      BY <1>5, <2>3
    <3>3. Senders(m)' \subseteq Senders(m)
      BY <1>4, <3>2 DEF Senders
    <3>4. InHand(m) => InHand(m)'
      BY <1>3, <1>4, <3>1 DEF InHand
    <3>5. RowChance(m)' <= RowChance(m)
      BY <3>1, <3>4 DEF RowChance, Claimable
    <3>q. QED BY <1>2, <1>3, <2>1, <3>3, <3>5, CountMoves
  <2>q. QED BY <2>2, <2>3
<1>q. QED BY <1>2, <1>6, <1>7 DEF CopyInv, ChancesCounted

\* A mail that was accepted without an error takes its worker off the senders; one
\* that was accepted with an error is a fault.
LEMMA DeliverCounts ==
  ASSUME CopyInv, NEW w \in Workers, NEW i \in work[w], Unrenderable(w, i) \/ Send(w, i)
  PROVE  CopyInv'
<1>1. EmailInv /\ EmailInv' /\ OneItem /\ ChancesCounted
  BY DeliverEmail DEF CopyInv
<1>2. i \in Item /\ i.mail \in Mails
  BY <1>1 DEF EmailInv, TypeOK, Item
<1>3. PICK r \in {"ok", "transient", "permanent"} :
        /\ work' = [work EXCEPT ![w] = (@ \ {i}) \cup {[i EXCEPT !.result = r]}]
        /\ \/ r # "ok" /\ UNCHANGED <<accepted, faults>>
           \/ /\ accepted' = [accepted EXCEPT ![i.mail] = @ + 1]
              /\ faults' = IF r = "ok" THEN faults ELSE faults + 1
  BY DEF Unrenderable, Send, Fault
<1>4. UNCHANGED row /\ i.result = "none" /\ ~i.late
  BY DEF Unrenderable, Send
<1> DEFINE j == [i EXCEPT !.result = r]
<1>5. j.mail = i.mail /\ j.attempt = i.attempt /\ j.late = i.late /\ j.result = r
  BY <1>2 DEF Item
<1> HIDE DEF j
<1>6. /\ \A v \in Workers : v # w => work'[v] = work[v]
      /\ work'[w] = (work[w] \ {i}) \cup {j}
  BY <1>1, <1>3 DEF EmailInv, TypeOK, j
<1>7. OneItem'
  BY <1>1, <1>5, <1>6 DEF OneItem
<1>8. \A k \in work'[w] : k.mail = i.mail => k = j
  BY <1>1, <1>6 DEF OneItem
<1>9. ASSUME NEW m \in Mails
      PROVE  /\ IsFiniteSet(Senders(m)')
             /\ accepted'[m] + Cardinality(Senders(m)') + RowChance(m)' <= 1 + faults'
  <2>1. /\ accepted[m] \in Nat /\ faults \in Nat /\ RowChance(m) \in {0, 1} /\ RowChance(m)' \in {0, 1}
        /\ accepted'[m] \in Nat /\ faults' \in Nat
        /\ IsFiniteSet(Senders(m)) /\ accepted[m] + Cardinality(Senders(m)) + RowChance(m) <= 1 + faults
    BY <1>1, CountTypes DEF RowChance, ChancesCounted, EmailInv, TypeOK
  <2>2. RowChance(m)' <= RowChance(m)
    <3>1. InHand(m) => InHand(m)'
      <4>1. SUFFICES ASSUME NEW v \in Workers, NEW k \in work[v], k.mail = m, k.attempt = row[m].attempt
                     PROVE  InHand(m)'
        BY DEF InHand
      <4>2. CASE v # w \/ k # i
        BY <1>4, <1>6, <4>1, <4>2 DEF InHand
      <4>3. CASE v = w /\ k = i
        BY <1>4, <1>5, <1>6, <4>1, <4>3 DEF InHand
      <4>q. QED BY <4>2, <4>3
    <3>q. QED BY <1>4, <3>1 DEF RowChance, Claimable
  <2>3. Senders(m)' \subseteq Senders(m)
    <3>1. SUFFICES ASSUME NEW v \in Workers, NEW k \in work'[v], k.mail = m, MaySend(k)
                   PROVE  v \in Senders(m)
      BY DEF Senders, MaySend
    <3>2. CASE v # w \/ k # j
      BY <1>6, <3>1, <3>2 DEF Senders
    <3>3. CASE v = w /\ k = j
      BY <1>4, <1>5, <3>1, <3>3 DEF Senders, MaySend
    <3>q. QED BY <3>2, <3>3
  <2>4. CASE accepted'[m] + faults <= accepted[m] + faults'
    BY <1>1, <2>1, <2>2, <2>3, <2>4, CountMoves
  <2>5. CASE m = i.mail /\ r = "ok"
    <3>1. accepted'[m] = accepted[m] + 1 /\ faults' = faults
      BY <1>1, <1>2, <1>3, <2>5 DEF EmailInv, TypeOK
    <3>2. w \in Senders(m)
      BY <1>4, <2>5 DEF Senders, MaySend
    <3>3. w \notin Senders(m)'
      BY <1>5, <1>8, <2>5 DEF Senders, MaySend
    <3>4. \E v \in Senders(m) : Senders(m)' \subseteq Senders(m) \ {v}
      BY <2>3, <3>2, <3>3
    <3>q. QED BY <1>1, <2>1, <2>2, <3>1, <3>4, CountMoves
  <2>6. CASE ~(m = i.mail /\ r = "ok")
    <3>1. CASE accepted' = accepted /\ faults' = faults
      BY <2>1, <2>4, <3>1
    <3>2. CASE accepted' = [accepted EXCEPT ![i.mail] = @ + 1]
      <4>1. m # i.mail => accepted'[m] = accepted[m]
        BY <1>1, <3>2 DEF EmailInv, TypeOK
      <4>2. m = i.mail => accepted'[m] = accepted[m] + 1 /\ faults' = faults + 1
        BY <1>1, <1>3, <2>6, <3>2, <2>1 DEF EmailInv, TypeOK
      <4>3. faults' \in {faults, faults + 1}
        BY <1>3
      <4>q. QED BY <2>1, <2>4, <4>1, <4>2, <4>3
    <3>q. QED BY <1>3, <3>1, <3>2
  <2>q. QED BY <2>5, <2>6
<1>q. QED BY <1>1, <1>7, <1>9 DEF CopyInv, ChancesCounted

\* A step that only takes items away, or pays for the row it opens, keeps the count.
LEMMA PaidCounts ==
  ASSUME CopyInv, EmailInv', UNCHANGED accepted, faults' >= faults,
         \A v \in Workers : work'[v] \subseteq work[v],
         \A m \in Mails : RowChance(m)' + faults <= RowChance(m) + faults'
  PROVE  CopyInv'
<1>1. EmailInv /\ OneItem /\ ChancesCounted
  BY DEF CopyInv
<1>2. OneItem'
  BY <1>1 DEF OneItem
<1>3. ASSUME NEW m \in Mails
      PROVE  /\ IsFiniteSet(Senders(m)')
             /\ accepted'[m] + Cardinality(Senders(m)') + RowChance(m)' <= 1 + faults'
  <2>1. /\ accepted[m] \in Nat /\ faults \in Nat /\ faults' \in Nat
        /\ RowChance(m) \in {0, 1} /\ RowChance(m)' \in {0, 1}
    BY <1>1 DEF EmailInv, TypeOK, RowChance
  <2>2. Senders(m)' \subseteq Senders(m)
    BY DEF Senders
  <2>3. accepted'[m] + RowChance(m)' + faults <= accepted[m] + RowChance(m) + faults'
    BY <2>1
  <2>q. QED BY <1>1, <2>2, <2>3, CountMoves
<1>q. QED BY <1>2, <1>3 DEF CopyInv, ChancesCounted

\* A recorded outcome closes the row, or moves the worker's chance back to it.
LEMMA FinishCounts ==
  ASSUME CopyInv, NEW w \in Workers, NEW i \in work[w], Finish(w, i)
  PROVE  CopyInv'
<1>1. EmailInv /\ EmailInv' /\ OneItem /\ ChancesCounted
  BY FinishEmail DEF CopyInv
<1>2. /\ i \in Item /\ i.mail \in Mails /\ i.result \in {"none", "ok", "transient", "permanent"}
      /\ i.late => i.result = "none"
  BY <1>1 DEF EmailInv, TypeOK, Item, ItemsInv
<1>3. /\ UNCHANGED <<accepted, faults>>
      /\ i.late \/ i.result # "none"
      /\ TransitionEmailOutbox(i, Outcome(i), IF i.late THEN i.attempt ELSE i.attempt + 1)
  BY DEF Finish
<1>4. /\ \A v \in Workers : v # w => work'[v] = work[v]
      /\ work'[w] = work[w] \ {i}
  BY <1>1 DEF Finish, EmailInv, TypeOK
<1>5. /\ \A m \in Mails : m # i.mail => row'[m] = row[m]
      /\ IF TransitionApplies(i)
         THEN row'[i.mail].status = Outcome(i)
         ELSE row'[i.mail] = row[i.mail]
  BY <1>1, <1>2, <1>3 DEF TransitionEmailOutbox, EmailInv, TypeOK
<1>6. OneItem'
  BY <1>1, <1>4 DEF OneItem
<1>7. ASSUME NEW m \in Mails, row'[m] = row[m],
             m = i.mail => ~TransitionApplies(i)
      PROVE  RowChance(m)' = RowChance(m)
  <2>1. row[m].status = "sending" => (InHand(m) <=> InHand(m)')
    <3>1. InHand(m)' => InHand(m)
      BY <1>4, <1>7 DEF InHand
    <3>2. ASSUME row[m].status = "sending", NEW v \in Workers, NEW k \in work[v],
                 k.mail = m, k.attempt = row[m].attempt
          PROVE  k \in work'[v]
      <4>1. k # i
        BY <1>7, <3>2 DEF TransitionApplies
      <4>q. QED BY <1>4, <4>1
    <3>3. row[m].status = "sending" /\ InHand(m) => InHand(m)'
      BY <1>7, <3>2 DEF InHand
    <3>q. QED BY <3>1, <3>3
  <2>q. QED BY <1>7, <2>1 DEF RowChance, Claimable
<1>8. ASSUME NEW m \in Mails
      PROVE  /\ IsFiniteSet(Senders(m)')
             /\ accepted'[m] + Cardinality(Senders(m)') + RowChance(m)' <= 1 + faults'
  <2>1. /\ accepted[m] \in Nat /\ faults \in Nat
        /\ RowChance(m) \in {0, 1} /\ RowChance(m)' \in {0, 1}
    BY <1>1 DEF EmailInv, TypeOK, RowChance
  <2>2. Senders(m)' \subseteq Senders(m)
    BY <1>4 DEF Senders
  <2>3. CASE RowChance(m)' <= RowChance(m)
    BY <1>1, <1>3, <2>1, <2>2, <2>3, CountMoves
  <2>4. CASE m = i.mail /\ TransitionApplies(i)
    <3>1. row'[m].status = Outcome(i)
      BY <1>5, <2>4
    <3>2. CASE i.result # "transient"
      <4>1. Outcome(i) \in {"expired", "sent", "dead_lettered"}
        BY <1>2, <1>3, <3>2 DEF Outcome
      <4>2. RowChance(m)' = 0
        BY <3>1, <4>1 DEF RowChance, Claimable
      <4>q. QED BY <2>1, <2>3, <4>2
    <3>3. CASE i.result = "transient"
      <4>1. w \in Senders(m)
        BY <2>4, <3>3 DEF Senders, MaySend
      <4>2. \A k \in work'[w] : k.mail # m
        BY <1>1, <1>4, <2>4 DEF OneItem
      <4>3. w \notin Senders(m)'
        BY <4>2 DEF Senders
      <4>4. \E v \in Senders(m) : Senders(m)' \subseteq Senders(m) \ {v}
        BY <2>2, <4>1, <4>3
      <4>5. accepted'[m] + RowChance(m)' + faults <= accepted[m] + RowChance(m) + faults' + 1
        BY <1>3, <2>1
      <4>q. QED BY <1>1, <4>4, <4>5, CountMoves
    <3>q. QED BY <3>2, <3>3
  <2>5. CASE ~(m = i.mail /\ TransitionApplies(i))
    <3>1. row'[m] = row[m] /\ (m = i.mail => ~TransitionApplies(i))
      BY <1>5, <2>5
    <3>q. QED BY <1>7, <2>1, <2>3, <3>1
  <2>q. QED BY <2>4, <2>5
<1>q. QED BY <1>1, <1>6, <1>8 DEF CopyInv, ChancesCounted

\* At first no mail has a chance.
LEMMA InitCopies == Init => CopyInv
<1> SUFFICES ASSUME Init PROVE CopyInv
  OBVIOUS
<1>1. EmailInv
  BY InitEmail
<1>2. OneItem
  BY DEF Init, OneItem
<1>3. ASSUME NEW m \in Mails
      PROVE  /\ IsFiniteSet(Senders(m))
             /\ accepted[m] + Cardinality(Senders(m)) + RowChance(m) <= 1 + faults
  <2>1. Senders(m) = {}
    BY DEF Init, Senders
  <2>2. RowChance(m) = 0
    BY DEF Init, RowChance, Claimable
  <2>q. QED BY <2>1, <2>2, FS_EmptySet DEF Init
<1>q. QED BY <1>1, <1>2, <1>3 DEF CopyInv, ChancesCounted

\* Every step keeps the count.
LEMMA NextCopies == CopyInv /\ [Next]_vars => CopyInv'
<1> SUFFICES ASSUME CopyInv, [Next]_vars PROVE CopyInv'
  OBVIOUS
<1>1. EmailInv /\ EmailInv' /\ OneItem /\ ChancesCounted /\ faults \in Nat
  BY NextEmail DEF CopyInv, EmailInv, TypeOK
<1>2. ASSUME NEW m \in Mails, EnqueueEmail(m) PROVE CopyInv'
  <2>1. /\ UNCHANGED <<work, accepted, faults>> /\ row[m].status = "absent"
        /\ \A n \in Mails : n # m => row'[n] = row[n]
    BY <1>1, <1>2 DEF EnqueueEmail, EmailInv, TypeOK
  <2>2. OneItem'
    BY <1>1, <2>1 DEF OneItem
  <2>3. ASSUME NEW n \in Mails
        PROVE  /\ IsFiniteSet(Senders(n)')
               /\ accepted'[n] + Cardinality(Senders(n)') + RowChance(n)' <= 1 + faults'
    <3>1. Senders(n)' = Senders(n)
      BY <2>1 DEF Senders
    <3>2. CASE n # m
      <4>1. RowChance(n)' = RowChance(n)
        BY <2>1, <3>2 DEF RowChance, Claimable, InHand
      <4>q. QED BY <1>1, <2>1, <3>1, <4>1 DEF ChancesCounted
    <3>3. CASE n = m
      <4>1. accepted[n] = 0
        BY <1>1, <2>1, <3>3 DEF EmailInv, AcceptedExist, TypeOK
      <4>2. Senders(n) = {}
        BY <1>1, <2>1, <3>3 DEF EmailInv, ItemsInv, Senders
      <4>3. RowChance(n)' \in {0, 1}
        BY DEF RowChance
      <4>q. QED BY <1>1, <2>1, <3>1, <4>1, <4>2, <4>3, FS_EmptySet
    <3>q. QED BY <3>2, <3>3
  <2>q. QED BY <1>1, <2>2, <2>3 DEF CopyInv, ChancesCounted
<1>3. ASSUME NEW m \in Mails, DelayEnds(m) PROVE CopyInv'
  <2>1. /\ UNCHANGED <<work, accepted, faults>>
        /\ \A n \in Mails : n # m => row'[n] = row[n]
        /\ row'[m].status = row[m].status
        /\ row[m].status = "retrying" \/ (row[m].status = "sending" /\ ~Held(m))
    BY <1>1, <1>3 DEF DelayEnds, BecomesDue, EmailInv, TypeOK, Row
  <2>2. Claimable(m)
    BY <2>1 DEF Claimable, InHand, Held
  <2>3. \A n \in Mails : RowChance(n)' <= RowChance(n)
    BY <2>1, <2>2 DEF RowChance, Claimable, InHand
  <2>4. \A n \in Mails : RowChance(n) \in {0, 1} /\ RowChance(n)' \in {0, 1}
    BY DEF RowChance
  <2>q. QED BY <1>1, <2>1, <2>3, <2>4, PaidCounts
<1>4. ASSUME UNCHANGED accepted, faults' = faults + 1, \A v \in Workers : work'[v] \subseteq work[v]
      PROVE  CopyInv'
  <2>1. \A n \in Mails : RowChance(n) \in {0, 1} /\ RowChance(n)' \in {0, 1}
    BY DEF RowChance
  <2>q. QED BY <1>1, <1>4, <2>1, PaidCounts
<1>5. ASSUME NEW m \in Mails, RequeueEmailOutbox(m) \/ LeaseOverrun(m) PROVE CopyInv'
  BY <1>4, <1>5 DEF RequeueEmailOutbox, LeaseOverrun, Fault
<1>6. ASSUME NEW w \in Workers, Crash(w) \/ (\E i \in work[w] : FinishFails(w, i)) PROVE CopyInv'
  <2>1. /\ UNCHANGED accepted /\ faults' = faults + 1
        /\ \A v \in Workers : work'[v] \subseteq work[v]
    BY <1>1, <1>6 DEF Crash, FinishFails, Fault, EmailInv, TypeOK
  <2>q. QED BY <1>4, <2>1
<1>7. ASSUME UNCHANGED <<row, work, accepted, faults>> PROVE CopyInv'
  <2>1. \A n \in Mails : RowChance(n)' = RowChance(n) /\ RowChance(n) \in {0, 1}
    BY <1>7 DEF RowChance, Claimable, InHand
  <2>q. QED BY <1>1, <1>7, <2>1, PaidCounts
<1>8. ASSUME (\E m \in Mails : ExpiryPasses(m)) \/ UNCHANGED vars PROVE CopyInv'
  BY <1>7, <1>8 DEF ExpiryPasses, vars
<1>q. QED BY <1>2, <1>3, <1>5, <1>6, <1>8, ClaimCounts, DeliverCounts, FinishCounts DEF Next, Deliver

\* Every copy of a mail after the first one is paid for by a fault, for any number
\* of workers that claim, overrun their leases, die and retry beside each other:
\* without a fault no mail is accepted twice (the lease of ClaimEmailOutboxReady
\* and the comparison in TransitionEmailOutbox).
THEOREM CopiesArePaidFor == Spec => []CopiesCostFaults
<1>1. CopyInv => CopiesCostFaults
  <2>1. SUFFICES ASSUME CopyInv, NEW m \in Mails PROVE accepted[m] <= 1 + faults
    BY DEF CopiesCostFaults
  <2>2. EmailInv /\ ChancesCounted
    BY <2>1 DEF CopyInv
  <2>3. accepted[m] \in Nat /\ faults \in Nat /\ RowChance(m) \in {0, 1}
    BY <2>2, CountTypes
  <2>4. Cardinality(Senders(m)) \in Nat
    BY <2>2, FS_CardinalityType DEF ChancesCounted
  <2>q. QED BY <2>2, <2>3, <2>4 DEF ChancesCounted
<1>q. QED BY <1>1, InitCopies, NextCopies, PTL DEF Spec

-----------------------------------------------------------------------------
(* Presence.                                                               *)

\* Every step keeps the rows and the handlers well typed.
LEMMA PresenceType == PresenceSpec => []PresenceTypeOK
<1>1. PresenceInit => PresenceTypeOK
  <2> SUFFICES ASSUME PresenceInit PROVE PresenceTypeOK
    OBVIOUS
  <2>1. bound \in BOOLEAN
    BY DEF PresenceInit
  <2>2. /\ inbox \in [Messages -> {"absent", "retrying", "processed"}]
        /\ handling \in [Handlers -> Messages \cup {NoMessage}]
    BY DEF PresenceInit
  <2>q. QED BY <2>1, <2>2 DEF PresenceInit, PresenceTypeOK, DeviceStatuses
<1>2. PresenceTypeOK /\ [PresenceNext]_presenceVars => PresenceTypeOK'
  <2> SUFFICES ASSUME PresenceTypeOK, [PresenceNext]_presenceVars PROVE PresenceTypeOK'
    OBVIOUS
  <2>1. ASSUME NEW v \in Devids, Provision(v) PROVE PresenceTypeOK'
    BY <2>1 DEF Provision, PresenceGiven, PresenceTypeOK, DeviceStatuses
  <2>2. ASSUME NEW v \in Devids \cup {NoDevid}, NEW b \in BOOLEAN, ProjectMetadata(v, b) PROVE PresenceTypeOK'
    BY <2>2 DEF ProjectMetadata, PresenceTypeOK
  <2>3. ASSUME NEW s \in DeviceStatuses, NEW t \in UserTimes, UpdateDeviceStatusAsUser(s, t) PROVE PresenceTypeOK'
    <3>1. t \in Nat
      BY PresenceAssumption
    <3>q. QED BY <2>3, <3>1 DEF UpdateDeviceStatusAsUser, PresenceGiven, PresenceTypeOK
  <2>4. CASE DeleteDevice \/ UnprovisionDevice
    BY <2>4 DEF DeleteDevice, UnprovisionDevice, PresenceTypeOK, DeviceStatuses
  <2>5. ASSUME NEW h \in Handlers, NEW m \in Messages, Receive(h, m) PROVE PresenceTypeOK'
    BY <2>5 DEF Receive, PresenceTypeOK
  <2>6. ASSUME NEW h \in Handlers, Record(h) PROVE PresenceTypeOK'
    <3>1. handling[h] \in Messages
      BY <2>6 DEF Record, PresenceTypeOK
    <3>2. StatusOf[handling[h]] \in {"online", "offline"} /\ TimeOf[handling[h]] \in Nat
      BY <3>1, PresenceAssumption
    <3>q. QED BY <2>6, <3>1, <3>2 DEF Record, Project, PresenceTypeOK, DeviceStatuses
  <2>7. ASSUME NEW h \in Handlers, RecordFails(h) PROVE PresenceTypeOK'
    BY <2>7 DEF RecordFails, PresenceTypeOK
  <2>8. CASE UNCHANGED presenceVars
    BY <2>8 DEF presenceVars, PresenceTypeOK
  <2>q. QED BY <2>1, <2>2, <2>3, <2>4, <2>5, <2>6, <2>7, <2>8 DEF PresenceNext
<1>q. QED BY <1>1, <1>2, PTL DEF PresenceSpec

\* The projection of one more observation keeps presence the latest one: the
\* order in which observations are projected does not matter.
LEMMA ProjectKeepsLatest ==
  ASSUME PresenceTypeOK, PresenceIsLatest, deviceRow = "live", deviceRow' = "live",
         NEW m \in Messages, Project(m), seen' = seen \cup {m}, given' = given
  PROVE  PresenceIsLatest'
<1>1. /\ StatusOf[m] \in {"online", "offline"} /\ TimeOf[m] \in Nat \ {0}
      /\ \A n \in seen : TimeOf[n] \in Nat \ {0} /\ StatusOf[n] \in {"online", "offline"}
      /\ lastSeen \in Nat /\ given.time \in Nat
  BY PresenceAssumption DEF PresenceTypeOK
<1>2. CASE Superseded(m)
  <2>1. status' = status /\ lastSeen' = lastSeen
    BY <1>2 DEF Project
  <2>2. \/ TimeOf[m] < lastSeen
        \/ TimeOf[m] = lastSeen /\ (status = "offline" \/ StatusOf[m] = "online")
    BY <1>1, <1>2 DEF Superseded
  <2>q. QED BY <2>1, <2>2 DEF PresenceIsLatest
<1>3. CASE ~Superseded(m)
  <2>1. status' = StatusOf[m] /\ lastSeen' = TimeOf[m]
    BY <1>3 DEF Project
  <2>2. \/ lastSeen < TimeOf[m]
        \/ lastSeen = TimeOf[m] /\ StatusOf[m] = "offline"
    BY <1>1, <1>3 DEF Superseded
  <2>3. ASSUME NEW n \in seen
        PROVE  \/ TimeOf[n] < TimeOf[m]
               \/ TimeOf[n] = TimeOf[m] /\ (StatusOf[m] = "offline" \/ StatusOf[n] = "online")
    <3>1. \/ TimeOf[n] < lastSeen
          \/ TimeOf[n] = lastSeen /\ (status = "offline" \/ StatusOf[n] = "online")
      BY DEF PresenceIsLatest
    <3>q. QED BY <1>1, <2>2, <3>1
  <2>4. given.time <= TimeOf[m]
    BY <1>1, <2>2 DEF PresenceIsLatest
  <2>q. QED BY <1>1, <2>1, <2>3, <2>4 DEF PresenceIsLatest
<1>q. QED BY <1>2, <1>3

\* Presence is the latest observation since it was last given, offline at a tie,
\* and a disabled device stays disabled, for every order, repetition and
\* interleaving of observations, refusals, user updates and provision requests.
THEOREM PresenceCorrect == PresenceSpec => []PresenceIsLatest
<1>1. PresenceInit => PresenceIsLatest
  BY DEF PresenceInit, PresenceIsLatest
<1>2. PresenceTypeOK /\ PresenceIsLatest /\ [PresenceNext]_presenceVars => PresenceIsLatest'
  <2> SUFFICES ASSUME PresenceTypeOK, PresenceIsLatest, [PresenceNext]_presenceVars PROVE PresenceIsLatest'
    OBVIOUS
  <2>0. ASSUME UNCHANGED <<deviceRow, status, lastSeen, given, seen>> PROVE PresenceIsLatest'
    BY <2>0 DEF PresenceIsLatest
  <2>1. ASSUME NEW v \in Devids, Provision(v) PROVE PresenceIsLatest'
    BY <2>1 DEF Provision, PresenceGiven, PresenceIsLatest
  <2>2. ASSUME NEW s \in DeviceStatuses, NEW t \in UserTimes, UpdateDeviceStatusAsUser(s, t) PROVE PresenceIsLatest'
    <3>1. lastSeen' \in Nat
      BY <2>2, PresenceAssumption DEF UpdateDeviceStatusAsUser, PresenceGiven, PresenceTypeOK
    <3>q. QED BY <2>2, <3>1 DEF UpdateDeviceStatusAsUser, PresenceGiven, PresenceIsLatest
  <2>3. CASE DeleteDevice \/ UnprovisionDevice
    BY <2>3 DEF DeleteDevice, UnprovisionDevice, PresenceIsLatest
  <2>4. ASSUME NEW h \in Handlers, Record(h) PROVE PresenceIsLatest'
    <3>1. handling[h] \in Messages /\ deviceRow = "live" /\ deviceRow' = "live"
      BY <2>4 DEF Record, Rejected, PresenceTypeOK
    <3>q. QED BY <2>4, <3>1, ProjectKeepsLatest DEF Record
  <2>q. QED BY <2>0, <2>1, <2>2, <2>3, <2>4
     DEF PresenceNext, ProjectMetadata, Receive, RecordFails, presenceVars
<1>q. QED BY <1>1, <1>2, PresenceType, PTL DEF PresenceSpec

-----------------------------------------------------------------------------
(* The Event Hubs consumer.                                                *)

Tracked == [seq : 1..MaxEvents, acked : BOOLEAN]

\* The types of everything but the order in the trackers.
ConsumerTypeOK ==
  /\ log \in Checkpoints /\ position \in Checkpoints /\ committed \in Checkpoints
  /\ cache \in Checkpoints /\ file \in Checkpoints
  /\ delivered \in [Partitions -> Seq(Tracked)]
  /\ nextIndex \in Partitions /\ checked \in 0..NumPartitions
  /\ batch \in Seq(Events) /\ Len(batch) <= Limit
  /\ phase \in {"receive", "process", "ack"}
  /\ handled \subseteq Events
  /\ crashes \in 0..MaxCrashes /\ drops \in 0..MaxDrops
  /\ phase # "receive" => batch # <<>>

\* A tracker holds exactly the events between what is committed and what is read, in
\* order, and one that is acknowledged is settled in the inbox.
TrackerIsExact(p) ==
  /\ Len(delivered[p]) = position[p] - committed[p]
  /\ \A i \in 1..Len(delivered[p]) :
       /\ delivered[p][i].seq = committed[p] + i
       /\ delivered[p][i].acked => <<p, delivered[p][i].seq>> \in handled

\* Everything up to a checkpoint is settled.
Covered(checkpoints) == \A p \in Partitions : \A n \in 1..checkpoints[p] : <<p, n>> \in handled

\* The inductive invariant: exact trackers, checkpoints on disk, in the map and in the
\* trackers that cover settled events only, and only settled events are acknowledged.
ConsumerInv ==
  /\ ConsumerTypeOK
  /\ \A p \in Partitions : TrackerIsExact(p)
  /\ Covered(committed) /\ Covered(cache) /\ Covered(file)
  /\ phase = "ack" => Head(batch) \in handled

\* The types of one partition's positions and tracker.
LEMMA PartitionTypes ==
  ASSUME ConsumerTypeOK, NEW p \in Partitions
  PROVE  /\ log[p] \in 0..MaxEvents /\ position[p] \in 0..MaxEvents /\ committed[p] \in 0..MaxEvents
         /\ cache[p] \in 0..MaxEvents /\ file[p] \in 0..MaxEvents
         /\ position[p] \in Nat /\ committed[p] \in Nat /\ log[p] \in Nat
         /\ delivered[p] \in Seq(Tracked) /\ Len(delivered[p]) \in Nat
         /\ \A i \in 1..Len(delivered[p]) : delivered[p][i] \in Tracked
<1>1. /\ log[p] \in 0..MaxEvents /\ position[p] \in 0..MaxEvents /\ committed[p] \in 0..MaxEvents
      /\ cache[p] \in 0..MaxEvents /\ file[p] \in 0..MaxEvents
  BY DEF ConsumerTypeOK, Checkpoints
<1>2. MaxEvents \in Nat
  BY ConsumerAssumption
<1>3. delivered[p] \in Seq(Tracked)
  BY DEF ConsumerTypeOK
<1>4. Len(delivered[p]) \in Nat /\ \A i \in 1..Len(delivered[p]) : delivered[p][i] \in Tracked
  BY <1>3
<1> QED BY <1>1, <1>2, <1>3, <1>4

\* The inductive invariant says more than the property.
LEMMA ConsumerInvIsSound == ConsumerInv => CheckpointIsSound
<1> SUFFICES ASSUME ConsumerInv PROVE CheckpointIsSound
  OBVIOUS
<1>1. ASSUME NEW p \in Partitions
      PROVE  /\ position[p] \in Nat /\ committed[p] \in Nat
             /\ Len(delivered[p]) = position[p] - committed[p]
             /\ \A i \in 1..Len(delivered[p]) : delivered[p][i].seq = committed[p] + i
  BY PartitionTypes DEF ConsumerInv, TrackerIsExact
<1>2. ASSUME NEW p \in Partitions, NEW i \in 1..Len(delivered[p])
      PROVE  /\ delivered[p][i].seq \in (committed[p] + 1)..position[p]
             /\ i > 1 => delivered[p][i].seq > delivered[p][i - 1].seq
  <2>1. i \in Nat /\ 1 <= i /\ i <= position[p] - committed[p] /\ position[p] \in Nat /\ committed[p] \in Nat
    BY <1>1
  <2>2. delivered[p][i].seq = committed[p] + i
    BY <1>1
  <2>3. ASSUME i > 1 PROVE delivered[p][i - 1].seq = committed[p] + (i - 1)
    <3>1. i - 1 \in 1..Len(delivered[p])
      BY <1>1, <2>1, <2>3
    <3> QED BY <1>1, <3>1
  <2> QED BY <2>1, <2>2, <2>3
<1>3. HubTypeOK
  BY <1>2 DEF ConsumerInv, ConsumerTypeOK, HubTypeOK, Tracked
<1>4. CheckpointCoversOnlyHandled
  BY DEF ConsumerInv, Covered, CheckpointCoversOnlyHandled
<1>5. ReadIsTracked
  <2> SUFFICES ASSUME NEW p \in Partitions, NEW n \in (committed[p] + 1)..position[p]
               PROVE  \E i \in 1..Len(delivered[p]) : delivered[p][i].seq = n
    BY DEF ReadIsTracked
  <2>1. n - committed[p] \in 1..Len(delivered[p]) /\ committed[p] + (n - committed[p]) = n
    BY <1>1
  <2> QED BY <1>1, <2>1
<1> QED BY <1>3, <1>4, <1>5 DEF CheckpointIsSound

\* At first nothing is read and nothing is settled.
LEMMA ConsumerInit == HubInit => ConsumerInv
<1> SUFFICES ASSUME HubInit PROVE ConsumerInv
  OBVIOUS
<1> USE ConsumerAssumption
<1>1. NoCheckpoint \in Checkpoints /\ \A p \in Partitions : NoCheckpoint[p] = 0
  BY DEF NoCheckpoint, Checkpoints
<1>2. ConsumerTypeOK
  BY <1>1 DEF HubInit, ConsumerTypeOK, Partitions
<1>3. \A p \in Partitions : TrackerIsExact(p)
  BY <1>1 DEF HubInit, TrackerIsExact
<1>4. Covered(committed) /\ Covered(cache) /\ Covered(file)
  BY <1>1 DEF HubInit, Covered
<1> QED BY <1>2, <1>3, <1>4 DEF HubInit, ConsumerInv

\* A process that starts again reads from a checkpoint that covers settled events only.
LEMMA OpenKeeps ==
  ASSUME ConsumerInv, NEW checkpoints \in {file, NoCheckpoint}, Open(checkpoints),
         UNCHANGED <<log, file, handled>>, crashes' \in 0..MaxCrashes, drops' \in 0..MaxDrops
  PROVE  ConsumerInv'
<1>1. NoCheckpoint \in Checkpoints /\ Covered(NoCheckpoint) /\ NoCheckpoint' = NoCheckpoint
  BY ConsumerAssumption DEF NoCheckpoint, Checkpoints, Covered
<1>2. checkpoints \in Checkpoints /\ Covered(checkpoints)
  BY <1>1 DEF ConsumerInv, ConsumerTypeOK
<1>3. ConsumerTypeOK'
  BY <1>2, ConsumerAssumption DEF Open, ConsumerInv, ConsumerTypeOK, Partitions
<1>4. \A p \in Partitions : TrackerIsExact(p)'
  <2> SUFFICES ASSUME NEW p \in Partitions PROVE TrackerIsExact(p)'
    OBVIOUS
  <2>1. delivered'[p] = <<>> /\ position'[p] = checkpoints[p] /\ committed'[p] = checkpoints[p]
    BY DEF Open
  <2>2. checkpoints[p] - checkpoints[p] = 0
    BY <1>2 DEF Checkpoints
  <2> QED BY <2>1, <2>2 DEF TrackerIsExact
<1>5. Covered(committed)' /\ Covered(cache)' /\ Covered(file)'
  BY <1>2 DEF Open, Covered, ConsumerInv
<1> QED BY <1>3, <1>4, <1>5 DEF Open, ConsumerInv

\* A non-empty set of naturals up to a bound has a largest element.
LEMMA LargestExists ==
  ASSUME NEW n \in Nat, NEW T, T \subseteq 0..n, T # {}
  PROVE  \E k \in T : \A j \in T : j <= k
<1> DEFINE U == {n - k : k \in T}
<1>1. U \subseteq Nat /\ U # {}
  <2>1. ASSUME NEW k \in T PROVE n - k \in Nat
    <3>1. k \in 0..n
      BY <2>1
    <3> QED BY <3>1
  <2>2. PICK k \in T : TRUE
    OBVIOUS
  <2>3. n - k \in U
    BY <2>2
  <2> QED BY <2>1, <2>3
<1>2. PICK x \in U : \A y \in U : ~(<<y, x>> \in OpToRel(<, Nat))
  <2> HIDE DEF U
  <2> QED BY <1>1, NatLessThanWellFounded, WFMin, Zenon
<1>3. PICK k \in T : x = n - k
  OBVIOUS
<1>4. ASSUME NEW j \in T PROVE j <= k
  <2>1. n - j \in U /\ n - j \in Nat /\ x \in Nat /\ k \in 0..n /\ j \in 0..n
    BY <1>1
  <2>2. ~(n - j < x)
    BY <1>2, <2>1 DEF OpToRel
  <2> QED BY <1>3, <2>1, <2>2
<1> QED BY <1>4

\* The acknowledged prefix is one.
LEMMA PrefixIsAcknowledged ==
  ASSUME NEW d \in Seq(Tracked)
  PROVE  /\ AcknowledgedPrefix(d) \in 0..Len(d)
         /\ \A i \in 1..AcknowledgedPrefix(d) : d[i].acked
<1> DEFINE prefixes == {k \in 0..Len(d) : \A i \in 1..k : d[i].acked}
<1>1. Len(d) \in Nat /\ 0 \in prefixes /\ prefixes \subseteq 0..Len(d)
  OBVIOUS
<1>2. \E k \in prefixes : \A j \in prefixes : j <= k
  <2> HIDE DEF prefixes
  <2> QED BY <1>1, LargestExists
<1>3. AcknowledgedPrefix(d) \in prefixes
  <2>1. AcknowledgedPrefix(d) = CHOOSE k \in prefixes : \A j \in prefixes : j <= k
    BY DEF AcknowledgedPrefix
  <2> HIDE DEF prefixes
  <2> QED BY <1>2, <2>1
<1> QED BY <1>3

\* A function on 1..n is a sequence of length n.
LEMMA FunctionIsSeq ==
  ASSUME NEW n \in Nat, NEW S, NEW f \in [1..n -> S]
  PROVE  f \in Seq(S) /\ Len(f) = n
OBVIOUS

\* What a tracker is, of a sequence that starts after the event c and ends with e.
ExactFrom(d, p, c, e) ==
  /\ d \in Seq(Tracked) /\ Len(d) = e - c
  /\ \A i \in 1..Len(d) : d[i].seq = c + i /\ (d[i].acked => <<p, d[i].seq>> \in handled)

\* The events that are read are tracked behind the ones before.
LEMMA TrackIsExact ==
  ASSUME ConsumerInv, NEW p \in Partitions, NEW last \in (position[p] + 1)..log[p]
  PROVE  ExactFrom(Track(p, position[p] + 1, last), p, committed[p], last)
<1> DEFINE m == last - (position[p] + 1) + 1
           s == delivered[p]
           t == [i \in 1..m |-> [seq |-> position[p] + 1 + i - 1, acked |-> FALSE]]
           c == committed[p]
           q == position[p]
<1>1. /\ q \in Nat /\ c \in Nat /\ log[p] \in 0..MaxEvents /\ s \in Seq(Tracked) /\ Len(s) \in Nat
      /\ MaxEvents \in Nat
  BY PartitionTypes, ConsumerAssumption DEF ConsumerInv
<1>2. /\ Len(s) = q - c
      /\ \A i \in 1..Len(s) : s[i].seq = c + i /\ (s[i].acked => <<p, s[i].seq>> \in handled)
  BY DEF ConsumerInv, TrackerIsExact
<1>3. last \in Nat /\ m \in Nat /\ m = last - q /\ last <= MaxEvents
  BY <1>1
<1>4. \A i \in 1..m : t[i] = [seq |-> q + i, acked |-> FALSE] /\ t[i] \in Tracked
  <2> SUFFICES ASSUME NEW i \in 1..m PROVE t[i] = [seq |-> q + i, acked |-> FALSE] /\ t[i] \in Tracked
    OBVIOUS
  <2>1. q + 1 + i - 1 = q + i /\ q + i \in 1..MaxEvents
    BY <1>1, <1>3
  <2>2. t[i] = [seq |-> q + i, acked |-> FALSE]
    BY <2>1
  <2> QED BY <2>1, <2>2 DEF Tracked
<1>5. t \in Seq(Tracked) /\ Len(t) = m
  <2>1. t \in [1..m -> Tracked]
    BY <1>4
  <2> HIDE DEF t, m
  <2> QED BY <1>3, <2>1, FunctionIsSeq
<1> HIDE DEF t
<1>6. /\ s \o t \in Seq(Tracked) /\ Len(s \o t) = Len(s) + Len(t)
      /\ \A i \in 1..(Len(s) + Len(t)) : (s \o t)[i] = IF i <= Len(s) THEN s[i] ELSE t[i - Len(s)]
  BY <1>1, <1>5, ConcatProperties
<1>7. Len(s \o t) = last - c
  BY <1>1, <1>2, <1>3, <1>5, <1>6
<1>8. ASSUME NEW i \in 1..Len(s \o t)
      PROVE  (s \o t)[i].seq = c + i /\ ((s \o t)[i].acked => <<p, (s \o t)[i].seq>> \in handled)
  <2>1. CASE i <= Len(s)
    <3>1. i \in 1..Len(s) /\ (s \o t)[i] = s[i]
      BY <1>1, <1>5, <1>6, <2>1
    <3> QED BY <1>2, <3>1
  <2>2. CASE ~(i <= Len(s))
    <3>0. i \in Nat /\ i <= Len(s) + m /\ ~(i <= Len(s)) /\ i \in 1..(Len(s) + Len(t))
      BY <1>1, <1>3, <1>5, <1>6, <2>2
    <3>1. i - Len(s) \in 1..m /\ (s \o t)[i] = t[i - Len(s)]
      <4>1. i - Len(s) \in 1..m
        <5> HIDE DEF m, s
        <5> QED BY <1>1, <1>3, <3>0
      <4> QED BY <1>6, <3>0, <4>1
    <3>2. (s \o t)[i] = [seq |-> q + (i - Len(s)), acked |-> FALSE]
      BY <1>4, <3>1
    <3>3. q + (i - Len(s)) = c + i
      <4> HIDE DEF q, c, s
      <4> QED BY <1>1, <1>2, <3>0
    <3> QED BY <3>2, <3>3
  <2> QED BY <2>1, <2>2
<1>9. Track(p, position[p] + 1, last) = s \o t
  BY DEF Track, t
<1> QED BY <1>6, <1>7, <1>8, <1>9 DEF ExactFrom

\* An acknowledgement marks the event that was settled.
LEMMA AcknowledgedIsExact ==
  ASSUME ConsumerInv, NEW p \in Partitions, NEW n, <<p, n>> \in handled
  PROVE  ExactFrom(Acknowledged(p, n), p, committed[p], position[p])
<1> DEFINE s == delivered[p]
           d == [i \in 1..Len(s) |-> [seq |-> s[i].seq, acked |-> s[i].acked \/ s[i].seq = n]]
<1>1. s \in Seq(Tracked) /\ Len(s) \in Nat /\ \A i \in 1..Len(s) : s[i] \in Tracked
  BY PartitionTypes DEF ConsumerInv
<1>2. /\ Len(s) = position[p] - committed[p]
      /\ \A i \in 1..Len(s) : s[i].seq = committed[p] + i /\ (s[i].acked => <<p, s[i].seq>> \in handled)
  BY DEF ConsumerInv, TrackerIsExact
<1>3. DOMAIN s = 1..Len(s)
  BY <1>1
<1>4. ASSUME NEW i \in 1..Len(s)
      PROVE  [s[i] EXCEPT !.acked = @ \/ s[i].seq = n] = [seq |-> s[i].seq, acked |-> s[i].acked \/ s[i].seq = n]
  BY <1>1, <1>4 DEF Tracked
<1>5. Acknowledged(p, n) = d
  BY <1>3, <1>4 DEF Acknowledged
<1>6. \A i \in 1..Len(s) : d[i] \in Tracked
  BY <1>1 DEF Tracked
<1>7. d \in Seq(Tracked) /\ Len(d) = Len(s)
  <2>1. d \in [1..Len(s) -> Tracked]
    BY <1>6
  <2> HIDE DEF d
  <2> QED BY <1>1, <2>1, FunctionIsSeq
<1>8. \A i \in 1..Len(s) : d[i].seq = s[i].seq /\ (d[i].acked => s[i].acked \/ s[i].seq = n)
  BY <1>1
<1> HIDE DEF d
<1>9. \A i \in 1..Len(d) : d[i].seq = committed[p] + i /\ (d[i].acked => <<p, d[i].seq>> \in handled)
  BY <1>2, <1>7, <1>8
<1> QED BY <1>2, <1>5, <1>7, <1>9 DEF ExactFrom

\* The next partition of the round robin is one.
LEMMA NextPartition ==
  ASSUME ConsumerTypeOK
  PROVE  (nextIndex % NumPartitions) + 1 \in Partitions
<1>1. nextIndex \in Nat /\ NumPartitions \in Nat \ {0}
  BY ConsumerAssumption DEF ConsumerTypeOK, Partitions
<1>2. nextIndex % NumPartitions \in 0..(NumPartitions - 1)
  BY <1>1
<1> QED BY <1>1, <1>2 DEF Partitions

\* A step that leaves trackers, checkpoints and outcomes alone.
LEMMA QuietConsumer ==
  ASSUME ConsumerInv, UNCHANGED <<position, delivered, committed, cache, file, handled>>,
         ConsumerTypeOK', phase' # "ack"
  PROVE  ConsumerInv'
BY DEF ConsumerInv, TrackerIsExact, Covered

\* The batch goes on after its first message.
LEMMA NextMessageKeeps ==
  ASSUME ConsumerTypeOK, phase # "receive", NextMessage
  PROVE  /\ batch' \in Seq(Events) /\ Len(batch') <= Limit /\ phase' \in {"receive", "process"}
         /\ phase' # "receive" => batch' # <<>>
<1>1. batch \in Seq(Events) /\ batch # <<>> /\ Len(batch) <= Limit /\ Limit \in Nat
  BY ConsumerAssumption DEF ConsumerTypeOK
<1>2. Tail(batch) \in Seq(Events) /\ Len(Tail(batch)) = Len(batch) - 1 /\ Len(batch) \in Nat
  BY <1>1, HeadTailProperties
<1>3. ASSUME Tail(batch) = <<>> PROVE Len(batch) = 1
  <2> DEFINE t == Tail(batch)
  <2>1. Len(t) = Len(batch) - 1 /\ Len(batch) \in Nat
    BY <1>2
  <2>2. t = <<>>
    BY <1>3
  <2> HIDE DEF t
  <2> QED BY <2>1, <2>2
<1> QED BY <1>1, <1>2, <1>3 DEF NextMessage

\* Events are read, tracked and put into the batch.
LEMMA ReceiveEventsKeeps == ConsumerInv /\ ReceiveEvents => ConsumerInv'
<1> SUFFICES ASSUME ConsumerInv, ReceiveEvents PROVE ConsumerInv'
  OBVIOUS
<1> DEFINE p == nextIndex
           q == position[p]
<1>0. ConsumerTypeOK /\ p \in Partitions /\ phase = "receive"
  BY DEF ConsumerInv, ConsumerTypeOK, ReceiveEvents, Receiving
<1>1. /\ q \in Nat /\ log[p] \in 0..MaxEvents /\ MaxEvents \in Nat /\ Limit \in Nat
      /\ batch \in Seq(Events) /\ Len(batch) \in Nat
  BY <1>0, PartitionTypes, ConsumerAssumption DEF ConsumerTypeOK
<1>2. PICK last \in (q + 1)..log[p] :
        /\ last - q <= Limit - Len(batch)
        /\ batch' = batch \o [i \in 1..(last - q) |-> <<p, q + i>>]
        /\ delivered' = [delivered EXCEPT ![p] = Track(p, q + 1, last)]
        /\ position' = [position EXCEPT ![p] = last]
  BY DEF ReceiveEvents
<1>3. last \in Nat /\ last \in 0..MaxEvents /\ last - q \in Nat /\ q < last
  BY <1>1
<1>4. batch' \in Seq(Events) /\ Len(batch') <= Limit
  <2> DEFINE t == [i \in 1..(last - q) |-> <<p, q + i>>]
  <2>1. \A i \in 1..(last - q) : q + i \in 1..MaxEvents
    <3> SUFFICES ASSUME NEW i \in 1..(last - q) PROVE q + i \in 1..MaxEvents
      OBVIOUS
    <3> HIDE DEF q
    <3> QED BY <1>1, <1>3
  <2>2. t \in [1..(last - q) -> Events]
    BY <1>0, <2>1 DEF Events
  <2>3. t \in Seq(Events) /\ Len(t) = last - q
    <3> HIDE DEF t
    <3> QED BY <1>3, <2>2, FunctionIsSeq
  <2>4. batch' = batch \o t
    BY <1>2
  <2> HIDE DEF t
  <2>5. batch \o t \in Seq(Events) /\ Len(batch \o t) = Len(batch) + Len(t)
    BY <1>1, <2>3, ConcatProperties
  <2> QED
    <3> HIDE DEF q
    <3>1. Len(batch) + (last - q) <= Limit
      BY <1>1, <1>2, <1>3
    <3> QED BY <2>3, <2>4, <2>5, <3>1
<1>5. ExactFrom(Track(p, q + 1, last), p, committed[p], last)
  BY <1>0, TrackIsExact
<1>6. nextIndex' \in Partitions /\ checked' \in 0..NumPartitions
  BY <1>0, NextPartition, ConsumerAssumption DEF ReceiveEvents, Receiving, LookAtNext, ConsumerTypeOK
<1>7. delivered' \in [Partitions -> Seq(Tracked)] /\ position' \in Checkpoints
  BY <1>0, <1>2, <1>3, <1>5 DEF ConsumerTypeOK, ExactFrom, Checkpoints
<1>8. ConsumerTypeOK'
  BY <1>0, <1>4, <1>6, <1>7 DEF ReceiveEvents, ConsumerTypeOK
<1>9. ASSUME NEW r \in Partitions PROVE TrackerIsExact(r)'
  <2>1. CASE r = p
    <3>1. delivered'[r] = Track(p, q + 1, last) /\ position'[r] = last /\ committed' = committed /\ handled' = handled
      BY <1>0, <1>2, <2>1 DEF ReceiveEvents, ConsumerTypeOK, Checkpoints
    <3> QED BY <1>5, <2>1, <3>1 DEF ExactFrom, TrackerIsExact
  <2>2. CASE r # p
    <3>1. /\ delivered'[r] = delivered[r] /\ position'[r] = position[r]
          /\ committed' = committed /\ handled' = handled
      BY <1>0, <1>2, <2>2 DEF ReceiveEvents, ConsumerTypeOK, Checkpoints
    <3> QED BY <3>1 DEF ConsumerInv, TrackerIsExact
  <2> QED BY <2>1, <2>2
<1> QED BY <1>0, <1>8, <1>9 DEF ReceiveEvents, ConsumerInv, Covered

\* An acknowledgement moves the checkpoint over settled events only.
LEMMA AcknowledgeKeeps == ConsumerInv /\ Acknowledge => ConsumerInv'
<1> SUFFICES ASSUME ConsumerInv, Acknowledge PROVE ConsumerInv'
  OBVIOUS
<1> DEFINE p == Head(batch)[1]
           n == Head(batch)[2]
           d == Acknowledged(p, n)
           k == AcknowledgedPrefix(d)
           c == committed[p]
<1>0. ConsumerTypeOK /\ phase = "ack" /\ batch \in Seq(Events) /\ batch # <<>>
  BY DEF ConsumerInv, ConsumerTypeOK, Acknowledge
<1>1. p \in Partitions /\ n \in 1..MaxEvents /\ <<p, n>> \in handled
  <2>1. Head(batch) \in Events /\ Head(batch) \in handled
    BY <1>0, HeadTailProperties DEF ConsumerInv
  <2> QED BY <2>1 DEF Events
<1>2. ExactFrom(d, p, c, position[p])
  BY <1>1, AcknowledgedIsExact
<1>3. k \in 0..Len(d) /\ \A i \in 1..k : d[i].acked
  BY <1>2, PrefixIsAcknowledged DEF ExactFrom
<1>4. /\ c \in Nat /\ position[p] \in 0..MaxEvents /\ Len(d) = position[p] - c /\ Len(d) \in Nat
      /\ d \in Seq(Tracked) /\ \A i \in 1..Len(d) : d[i] \in Tracked
  BY <1>0, <1>1, <1>2, PartitionTypes DEF ExactFrom
<1>5. /\ batch' \in Seq(Events) /\ Len(batch') <= Limit /\ phase' \in {"receive", "process"}
      /\ phase' # "receive" => batch' # <<>>
  BY <1>0, NextMessageKeeps DEF Acknowledge
<1>6. UNCHANGED <<log, position, nextIndex, checked, handled, crashes, drops>>
  BY DEF Acknowledge
<1>7. ASSUME delivered' \in [Partitions -> Seq(Tracked)],
             committed' \in Checkpoints, cache' \in Checkpoints, file' \in Checkpoints,
             \A r \in Partitions : TrackerIsExact(r)',
             Covered(committed)', Covered(cache)', Covered(file)'
      PROVE  ConsumerInv'
  <2>1. ConsumerTypeOK'
    BY <1>0, <1>5, <1>6, <1>7 DEF ConsumerTypeOK
  <2> QED BY <1>5, <1>7, <2>1 DEF ConsumerInv
<1>8. CASE UNCHANGED <<delivered, committed, cache, file>>
  BY <1>0, <1>5, <1>6, <1>8 DEF ConsumerInv, ConsumerTypeOK, TrackerIsExact, Covered
<1>9. ASSUME NEW e, NEW b \in Nat, delivered' = [delivered EXCEPT ![p] = e],
             committed' = [committed EXCEPT ![p] = b], ExactFrom(e, p, b, position[p])
      PROVE  \A r \in Partitions : TrackerIsExact(r)'
  <2> SUFFICES ASSUME NEW r \in Partitions PROVE TrackerIsExact(r)'
    OBVIOUS
  <2>1. CASE r = p
    <3>1. delivered'[r] = e /\ committed'[r] = b
      BY <1>0, <1>9, <2>1 DEF ConsumerTypeOK, Checkpoints
    <3> QED BY <1>6, <1>9, <2>1, <3>1 DEF ExactFrom, TrackerIsExact
  <2>2. CASE r # p
    <3>1. delivered'[r] = delivered[r] /\ committed'[r] = committed[r]
      BY <1>0, <1>9, <2>2 DEF ConsumerTypeOK, Checkpoints
    <3> QED BY <1>6, <3>1 DEF ConsumerInv, TrackerIsExact
  <2> QED BY <2>1, <2>2
<1>10. CASE k = 0 /\ delivered' = [delivered EXCEPT ![p] = d] /\ UNCHANGED <<committed, cache, file>>
  <2>1. committed' = [committed EXCEPT ![p] = c]
    BY <1>0, <1>10 DEF ConsumerTypeOK, Checkpoints
  <2>2. \A r \in Partitions : TrackerIsExact(r)'
    BY <1>2, <1>4, <1>9, <1>10, <2>1
  <2>3. delivered' \in [Partitions -> Seq(Tracked)]
    BY <1>0, <1>4, <1>10 DEF ConsumerTypeOK
  <2>4. Covered(committed)' /\ Covered(cache)' /\ Covered(file)'
    BY <1>6, <1>10 DEF ConsumerInv, Covered
  <2> QED BY <1>0, <1>7, <1>10, <2>2, <2>3, <2>4 DEF ConsumerTypeOK
<1>11. CASE /\ k # 0
            /\ delivered' = [delivered EXCEPT ![p] = SubSeq(d, k + 1, Len(d))]
            /\ committed' = [committed EXCEPT ![p] = d[k].seq]
            /\ IF d[k].seq <= cache[p]
               THEN UNCHANGED <<cache, file>>
               ELSE cache' = [cache EXCEPT ![p] = d[k].seq] /\ file' = cache'
  <2> DEFINE e == SubSeq(d, k + 1, Len(d))
  <2>1. k \in Nat /\ k \in 1..Len(d) /\ d[k].seq = c + k /\ c + k \in 0..MaxEvents /\ c + k \in Nat
    <3>1. k \in 1..Len(d) /\ k \in Nat
      BY <1>3, <1>4, <1>11
    <3>2. d[k].seq = c + k
      BY <1>2, <3>1 DEF ExactFrom
    <3> HIDE DEF k, c, d
    <3> QED BY <1>4, <3>1, <3>2, ConsumerAssumption
  <2>2. ExactFrom(e, p, c + k, position[p])
    <3>1. \A i \in (k + 1)..Len(d) : d[i] \in Tracked
      <4> HIDE DEF d, k
      <4> QED BY <1>4, <2>1
    <3>2. /\ e \in Seq(Tracked) /\ Len(e) = (IF k + 1 <= Len(d) THEN Len(d) - (k + 1) + 1 ELSE 0)
          /\ \A i \in 1..(Len(d) - (k + 1) + 1) : e[i] = d[k + 1 + i - 1]
      <4>1. k + 1 \in Int /\ Len(d) \in Int
        BY <1>4, <2>1
      <4> HIDE DEF d, k
      <4> QED BY <3>1, <4>1, SubSeqProperties
    <3> HIDE DEF e, d, k
    <3>3. Len(e) = Len(d) - k
      BY <1>4, <2>1, <3>2
    <3>4. ASSUME NEW i \in 1..Len(e) PROVE e[i] = d[k + i] /\ k + i \in 1..Len(d)
      <4>1. i \in Nat /\ i \in 1..(Len(d) - (k + 1) + 1) /\ k + 1 + i - 1 = k + i /\ k + i \in 1..Len(d)
        BY <1>4, <2>1, <3>3
      <4>2. e[i] = d[k + 1 + i - 1]
        BY <3>2, <4>1
      <4> QED BY <4>1, <4>2
    <3>5. ASSUME NEW i \in 1..Len(e)
          PROVE  e[i].seq = c + k + i /\ (e[i].acked => <<p, e[i].seq>> \in handled)
      <4>1. e[i] = d[k + i] /\ k + i \in 1..Len(d)
        BY <3>4
      <4>2. d[k + i].seq = c + (k + i) /\ (d[k + i].acked => <<p, d[k + i].seq>> \in handled)
        BY <1>2, <4>1 DEF ExactFrom
      <4>3. c + (k + i) = c + k + i
        BY <1>4, <2>1
      <4> QED BY <4>1, <4>2, <4>3
    <3>6. Len(e) = position[p] - (c + k)
      BY <1>4, <2>1, <3>3
    <3> QED BY <3>2, <3>5, <3>6 DEF ExactFrom
  <2>3. \A r \in Partitions : TrackerIsExact(r)'
    BY <1>9, <1>11, <2>1, <2>2
  <2>4. ASSUME NEW x \in 1..(c + k) PROVE <<p, x>> \in handled
    <3>1. CASE x <= c
      <4>1. x \in 1..c
        BY <1>4, <2>1, <3>1
      <4> QED BY <1>1, <4>1 DEF ConsumerInv, Covered
    <3>2. CASE ~(x <= c)
      <4>1. x - c \in 1..k /\ x - c \in 1..Len(d) /\ c + (x - c) = x
        <5> HIDE DEF c, k, d
        <5> QED BY <1>4, <2>1, <3>2
      <4>2. d[x - c].acked /\ d[x - c].seq = x
        BY <1>2, <1>3, <4>1 DEF ExactFrom
      <4> QED BY <1>2, <4>1, <4>2 DEF ExactFrom
    <3> QED BY <3>1, <3>2
  <2>5. ASSUME NEW f \in Checkpoints, Covered(f)
        PROVE  /\ [f EXCEPT ![p] = c + k] \in Checkpoints
               /\ Covered([f EXCEPT ![p] = c + k])
    <3> HIDE DEF c, k, p
    <3> QED BY <1>1, <2>1, <2>4, <2>5 DEF Checkpoints, Covered
  <2>6. /\ committed' = [committed EXCEPT ![p] = c + k]
        /\ \/ UNCHANGED <<cache, file>>
           \/ cache' = [cache EXCEPT ![p] = c + k] /\ file' = cache'
    BY <1>11, <2>1
  <2>7. /\ committed' \in Checkpoints /\ cache' \in Checkpoints /\ file' \in Checkpoints
        /\ Covered(committed') /\ Covered(cache') /\ Covered(file')
    <3> HIDE DEF c, k, p
    <3> QED BY <1>0, <2>5, <2>6 DEF ConsumerInv, ConsumerTypeOK
  <2>8. Covered(committed)' /\ Covered(cache)' /\ Covered(file)'
    BY <1>6, <2>7 DEF Covered
  <2>9. delivered' \in [Partitions -> Seq(Tracked)]
    BY <1>0, <1>11, <2>2 DEF ConsumerTypeOK, ExactFrom
  <2> QED BY <1>7, <2>3, <2>7, <2>8, <2>9
<1>12. \/ UNCHANGED <<delivered, committed, cache, file>>
       \/ k = 0 /\ delivered' = [delivered EXCEPT ![p] = d] /\ UNCHANGED <<committed, cache, file>>
       \/ /\ k # 0
          /\ delivered' = [delivered EXCEPT ![p] = SubSeq(d, k + 1, Len(d))]
          /\ committed' = [committed EXCEPT ![p] = d[k].seq]
          /\ IF d[k].seq <= cache[p]
             THEN UNCHANGED <<cache, file>>
             ELSE cache' = [cache EXCEPT ![p] = d[k].seq] /\ file' = cache'
  BY DEF Acknowledge
<1> QED BY <1>8, <1>10, <1>11, <1>12

\* Every step keeps the consumer's invariant.
LEMMA ConsumerNext == ConsumerInv /\ [HubNext]_hubVars => ConsumerInv'
<1> SUFFICES ASSUME ConsumerInv, [HubNext]_hubVars PROVE ConsumerInv'
  OBVIOUS
<1>0. ConsumerTypeOK /\ (nextIndex % NumPartitions) + 1 \in Partitions
  BY NextPartition DEF ConsumerInv
<1>1. ASSUME NEW p \in Partitions, ResultArrives(p) PROVE ConsumerInv'
  <2>1. log[p] + 1 \in 0..MaxEvents
    BY <1>0, <1>1, PartitionTypes, ConsumerAssumption DEF ResultArrives
  <2>2. log' \in Checkpoints
    BY <1>0, <1>1, <2>1 DEF ResultArrives, ConsumerTypeOK, Checkpoints
  <2> QED BY <1>0, <1>1, <2>2 DEF ResultArrives, consumerVars, ConsumerInv, ConsumerTypeOK, TrackerIsExact, Covered
<1>2. CASE ReceiveTimeout
  <2>1. ConsumerTypeOK' /\ phase' # "ack"
    BY <1>0, <1>2, ConsumerAssumption DEF ReceiveTimeout, Receiving, LookAtNext, ConsumerTypeOK
  <2> QED BY <1>2, <2>1, QuietConsumer DEF ReceiveTimeout
<1>3. CASE ReceiveFails
  <2>1. ConsumerTypeOK' /\ phase' # "ack"
    BY <1>0, <1>3, ConsumerAssumption DEF ReceiveFails, Receiving, ConsumerTypeOK
  <2> QED BY <1>3, <2>1, QuietConsumer DEF ReceiveFails
<1>4. CASE ReceiveReturns
  <2>1. ConsumerTypeOK' /\ phase' # "ack"
    BY <1>0, <1>4, ConsumerAssumption DEF ReceiveReturns, ConsumerTypeOK
  <2> QED BY <1>4, <2>1, QuietConsumer DEF ReceiveReturns
<1>5. CASE ProcessMessage
  <2>1. Head(batch) \in Events
    BY <1>0, <1>5, HeadTailProperties DEF ProcessMessage, ConsumerTypeOK
  <2>2. ConsumerTypeOK'
    BY <1>0, <1>5, <2>1 DEF ProcessMessage, ConsumerTypeOK
  <2>3. /\ UNCHANGED <<delivered, position, committed, cache, file, batch>>
        /\ handled \subseteq handled' /\ Head(batch) \in handled'
    BY <1>5 DEF ProcessMessage
  <2>4. \A p \in Partitions : TrackerIsExact(p)'
    BY <2>3 DEF ConsumerInv, TrackerIsExact
  <2>5. Covered(committed)' /\ Covered(cache)' /\ Covered(file)'
    BY <2>3 DEF ConsumerInv, Covered
  <2> QED BY <2>2, <2>3, <2>4, <2>5 DEF ConsumerInv
<1>6. CASE ProcessRetrying
  <2>1. ConsumerTypeOK' /\ phase' # "ack"
    BY <1>0, <1>6, NextMessageKeeps, ConsumerAssumption DEF ProcessRetrying, ConsumerTypeOK
  <2> QED BY <1>6, <2>1, QuietConsumer DEF ProcessRetrying
<1>7. CASE ReceiveUndecodable \/ ProcessRefused
  <2>1. Open(file) /\ UNCHANGED <<log, file, handled>> /\ crashes' \in 0..MaxCrashes /\ drops' \in 0..MaxDrops
    BY <1>0, <1>7 DEF ReceiveUndecodable, ProcessRefused, Exit, ConsumerTypeOK
  <2> QED BY <2>1, OpenKeeps
<1>8. CASE ConsumerCrash
  <2>1. /\ Open(file) \/ Open(NoCheckpoint)
        /\ UNCHANGED <<log, file, handled>> /\ crashes' \in 0..MaxCrashes /\ drops' \in 0..MaxDrops
    BY <1>0, <1>8, ConsumerAssumption DEF ConsumerCrash, ConsumerTypeOK
  <2> QED BY <2>1, OpenKeeps
<1>9. CASE UNCHANGED hubVars
  BY <1>0, <1>9 DEF hubVars, ConsumerInv, ConsumerTypeOK, TrackerIsExact, Covered
<1> QED BY <1>1, <1>2, <1>3, <1>4, <1>5, <1>6, <1>7, <1>8, <1>9, ReceiveEventsKeeps, AcknowledgeKeeps
     DEF HubNext, Progress

\* The checkpoint never passes an event that is not settled, and whatever is read is
\* tracked, for any number of partitions, events, dropped batches, retrying outcomes,
\* crashes and unreadable checkpoint files (track, acknowledgedPrefixLocked).
THEOREM CheckpointsAreSound == HubSpec => []CheckpointIsSound
<1> QED BY ConsumerInit, ConsumerNext, ConsumerInvIsSound, PTL DEF HubSpec
=============================================================================
