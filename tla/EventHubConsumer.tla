-------------------------- MODULE EventHubConsumer --------------------------
(***************************************************************************)
(* The inbox worker on Azure Event Hubs: Run and RunOnce of                *)
(* internal/worker/inbox over the consumer, the partition trackers and the *)
(* checkpoint file of internal/broker/azure_eventhubs.go.                  *)
(*                                                                         *)
(* A partition is a log of events with sequence numbers 1, 2, ...  A       *)
(* partition client reads forward only; a position is set when the process *)
(* starts, from the checkpoint file.  Every error that is not transient    *)
(* ends the process and systemd starts it again; a transient receive error *)
(* and a retrying outcome leave it running.                                *)
(*                                                                         *)
(* Crashes count the process's failures that are not caused by the events  *)
(* themselves (a store error, a failing checkpoint write, a kill), drops   *)
(* the transient receive errors and retrying outcomes.                     *)
(***************************************************************************)
EXTENDS Naturals, Sequences, FiniteSets

CONSTANTS
  NumPartitions,  \* partitions of the event hub
  MaxEvents,      \* events appended to each partition
  Limit,          \* batch size of RunOnce
  Undecodable,    \* events whose body is not a message record
  Refused,        \* events whose transaction always fails (device deleted or disabled)
  MaxCrashes, MaxDrops

Partitions == 1..NumPartitions
Events == Partitions \X (1..MaxEvents)

ASSUME ConsumerAssumption ==
  /\ NumPartitions \in Nat \ {0} /\ MaxEvents \in Nat \ {0} /\ Limit \in Nat \ {0}
  /\ Undecodable \subseteq Events /\ Refused \subseteq Events
  /\ MaxCrashes \in Nat /\ MaxDrops \in Nat

VARIABLES
  log,        \* events appended to each partition
  position,   \* sequence number each partition client has read up to
  delivered,  \* the tracker of each partition: delivered, uncommitted events
  committed,  \* the tracker's committed sequence number; 0 before the first
  cache,      \* the checkpoint store's map
  file,       \* the checkpoint file
  nextIndex,  \* the partition Receive looks at next
  checked,    \* partitions this Receive has looked at
  batch,      \* messages received, the rest still to be processed
  phase,      \* receive, process, or ack of the batch's first message
  handled,    \* events whose outcome is recorded in the inbox
  crashes, drops

hubVars == <<log, position, delivered, committed, cache, file, nextIndex, checked, batch, phase,
          handled, crashes, drops>>
consumerVars == <<position, delivered, committed, cache, nextIndex, checked, batch, phase>>

Checkpoints == [Partitions -> 0..MaxEvents]

\* The types of the variables.
HubTypeOK ==
  /\ log \in Checkpoints /\ position \in Checkpoints /\ committed \in Checkpoints
  /\ cache \in Checkpoints /\ file \in Checkpoints
  /\ delivered \in [Partitions -> Seq([seq : 1..MaxEvents, acked : BOOLEAN])]
  /\ \A p \in Partitions : \A i \in 1..Len(delivered[p]) :
       /\ delivered[p][i].seq \in (committed[p] + 1)..position[p]
       /\ i > 1 => delivered[p][i].seq > delivered[p][i - 1].seq
  /\ nextIndex \in Partitions /\ checked \in 0..NumPartitions
  /\ batch \in Seq(Events) /\ Len(batch) <= Limit
  /\ phase \in {"receive", "process", "ack"}
  /\ handled \subseteq Events
  /\ crashes \in 0..MaxCrashes /\ drops \in 0..MaxDrops

\* openAzurePartitions with the checkpoints that could be loaded.
Open(checkpoints) ==
  /\ position' = checkpoints /\ committed' = checkpoints /\ cache' = checkpoints
  /\ delivered' = [p \in Partitions |-> <<>>]
  /\ nextIndex' = 1 /\ checked' = 0 /\ batch' = <<>> /\ phase' = "receive"

NoCheckpoint == [p \in Partitions |-> 0]

HubInit ==
  /\ log = NoCheckpoint /\ file = NoCheckpoint /\ position = NoCheckpoint
  /\ committed = NoCheckpoint /\ cache = NoCheckpoint
  /\ delivered = [p \in Partitions |-> <<>>]
  /\ nextIndex = 1 /\ checked = 0 /\ batch = <<>> /\ phase = "receive"
  /\ handled = {} /\ crashes = 0 /\ drops = 0

\* The process ends and is started again.
Exit == Open(file) /\ UNCHANGED <<log, file, handled, drops>>

\* Video Cloud publishes a result.
ResultArrives(p) ==
  /\ log[p] < MaxEvents
  /\ log' = [log EXCEPT ![p] = @ + 1]
  /\ UNCHANGED <<consumerVars, file, handled, crashes, drops>>

-----------------------------------------------------------------------------
(* Receive.                                                                *)

\* track: an event is remembered before it is decoded.
Track(p, first, last) ==
  delivered[p] \o [i \in 1..(last - first + 1) |-> [seq |-> first + i - 1, acked |-> FALSE]]

Receiving == phase = "receive" /\ checked < NumPartitions /\ Len(batch) < Limit

\* Mutant: the round robin stays on one partition.
LookAtSame == UNCHANGED nextIndex /\ checked' = checked + 1

\* The loop of Receive goes on with the partition after nextIndex.
LookAtNext ==
  /\ nextIndex' = (nextIndex % NumPartitions) + 1
  /\ checked' = checked + 1

\* ReceiveEvents of the next partition returns events.
ReceiveEvents ==
  LET p == nextIndex IN
  /\ Receiving
  /\ \E last \in (position[p] + 1)..log[p] :
       /\ last - position[p] <= Limit - Len(batch)
       /\ \A n \in (position[p] + 1)..last : <<p, n>> \notin Undecodable
       /\ batch' = batch \o [i \in 1..(last - position[p]) |-> <<p, position[p] + i>>]
       /\ delivered' = [delivered EXCEPT ![p] = Track(p, position[p] + 1, last)]
       /\ position' = [position EXCEPT ![p] = last]
  /\ LookAtNext
  /\ UNCHANGED <<log, committed, cache, file, phase, handled, crashes, drops>>

\* An empty poll ends with the receive timeout.
ReceiveTimeout ==
  /\ Receiving /\ position[nextIndex] = log[nextIndex]
  /\ LookAtNext
  /\ UNCHANGED <<log, position, delivered, committed, cache, file, batch, phase, handled, crashes,
                 drops>>

\* An event that cannot be decoded: Receive returns an error that ends the process.
ReceiveUndecodable ==
  /\ Receiving
  /\ \E n \in (position[nextIndex] + 1)..log[nextIndex] :
       /\ n - position[nextIndex] <= Limit - Len(batch)
       /\ <<nextIndex, n>> \in Undecodable
  /\ Exit /\ UNCHANGED crashes

\* A transient error of one partition: Receive returns no messages, those of the
\* partitions read before included, and Run goes on after the poll interval.
ReceiveFails ==
  /\ Receiving /\ drops < MaxDrops /\ drops' = drops + 1
  /\ nextIndex' = (nextIndex % NumPartitions) + 1
  /\ batch' = <<>> /\ checked' = 0
  /\ UNCHANGED <<log, position, delivered, committed, cache, file, phase, handled, crashes>>

\* Receive returns.
ReceiveReturns ==
  /\ phase = "receive" /\ (checked = NumPartitions \/ Len(batch) = Limit)
  /\ checked' = 0
  /\ phase' = IF batch = <<>> THEN "receive" ELSE "process"
  /\ UNCHANGED <<log, position, delivered, committed, cache, file, nextIndex, batch, handled,
                 crashes, drops>>

-----------------------------------------------------------------------------
(* RunOnce over the batch.                                                 *)

NextMessage == phase' = (IF Len(batch) = 1 THEN "receive" ELSE "process") /\ batch' = Tail(batch)

\* processMessage settles the message: processed, skipped or dead-lettered.
ProcessMessage ==
  /\ phase = "process" /\ Head(batch) \notin Refused
  /\ handled' = handled \cup {Head(batch)}
  /\ phase' = "ack"
  /\ UNCHANGED <<log, position, delivered, committed, cache, file, nextIndex, checked, batch,
                 crashes, drops>>

\* The outcome retrying: no acknowledgement, and the batch goes on.
ProcessRetrying ==
  /\ phase = "process" /\ Head(batch) \notin Refused
  /\ drops < MaxDrops /\ drops' = drops + 1
  /\ NextMessage
  /\ UNCHANGED <<log, position, delivered, committed, cache, file, nextIndex, checked, handled,
                 crashes>>

\* processMessage returns the refusal of the transaction and the process ends.
ProcessRefused ==
  /\ phase = "process" /\ Head(batch) \in Refused
  /\ Exit /\ UNCHANGED crashes

\* The tracker with event n acknowledged.
Acknowledged(p, n) ==
  [i \in DOMAIN delivered[p] |->
     [delivered[p][i] EXCEPT !.acked = @ \/ delivered[p][i].seq = n]]

\* Mutant: the checkpoint is moved over every acknowledged event.
AcknowledgedLast(d) ==
  LET acked == {i \in 1..Len(d) : d[i].acked} IN
  IF acked = {} THEN 0 ELSE CHOOSE i \in acked : \A j \in acked : j <= i

\* Length of the acknowledged prefix.
AcknowledgedPrefix(d) ==
  LET prefixes == {k \in 0..Len(d) : \A i \in 1..k : d[i].acked} IN
  CHOOSE k \in prefixes : \A j \in prefixes : j <= k

\* Acknowledge and the record of a new checkpoint, which writes the whole map.
Acknowledge ==
  LET p == Head(batch)[1]
      n == Head(batch)[2]
      d == Acknowledged(p, n)
      k == AcknowledgedPrefix(d)
  IN
  /\ phase = "ack"
  /\ IF n <= committed[p]
     THEN UNCHANGED <<delivered, committed, cache, file>>
     ELSE IF k = 0
     THEN /\ delivered' = [delivered EXCEPT ![p] = d]
          /\ UNCHANGED <<committed, cache, file>>
     ELSE /\ delivered' = [delivered EXCEPT ![p] = SubSeq(d, k + 1, Len(d))]
          /\ committed' = [committed EXCEPT ![p] = d[k].seq]
          /\ IF d[k].seq <= cache[p]
             THEN UNCHANGED <<cache, file>>
             ELSE /\ cache' = [cache EXCEPT ![p] = d[k].seq]
                  /\ file' = cache'
  /\ NextMessage
  /\ UNCHANGED <<log, position, nextIndex, checked, handled, crashes, drops>>

\* A store error, a failing checkpoint write or a kill, at any point; when the
\* file cannot be read at the restart the partitions are read from the start.
ConsumerCrash ==
  /\ crashes < MaxCrashes /\ crashes' = crashes + 1
  /\ Open(file) \/ Open(NoCheckpoint)
  /\ UNCHANGED <<log, file, handled, drops>>

Progress ==
  \/ ReceiveEvents \/ ReceiveTimeout \/ ReceiveUndecodable \/ ReceiveReturns
  \/ ProcessMessage \/ ProcessRefused \/ Acknowledge

HubNext ==
  \/ Progress
  \/ \E p \in Partitions : ResultArrives(p)
  \/ ReceiveFails \/ ProcessRetrying \/ ConsumerCrash

HubSpec == HubInit /\ [][HubNext]_hubVars

\* The worker polls for ever.
HubLiveSpec == HubSpec /\ WF_hubVars(Progress)

-----------------------------------------------------------------------------
(* Properties.                                                             *)

\* The checkpoint file never passes an event that is not settled in the inbox,
\* so that a restart loses nothing: through messages dropped by a transient
\* error, retrying outcomes between acknowledged ones, crashes between the
\* transaction and the acknowledgement, and a checkpoint file that could not be
\* read (acknowledgedPrefixLocked, track before decode).
CheckpointCoversOnlyHandled ==
  \A p \in Partitions : \A n \in 1..file[p] : <<p, n>> \in handled

\* Whatever the partition clients have read and the inbox has not settled is
\* still tracked or in the batch: nothing falls between the two.
ReadIsTracked ==
  \A p \in Partitions : \A n \in (committed[p] + 1)..position[p] :
    \E i \in 1..Len(delivered[p]) : delivered[p][i].seq = n

\* The checkpoint is sound, on disk and in the memory of the partition clients:
\* trackers are in order and above what is committed, whatever is read is tracked,
\* and so the file never passes an event that is not settled (track,
\* acknowledgedPrefixLocked, openAzurePartitions).
CheckpointIsSound == HubTypeOK /\ CheckpointCoversOnlyHandled /\ ReadIsTracked

\* While no batch was dropped, no outcome was retrying and no event that ends the
\* process was appended, every event that is appended is settled in the inbox in
\* the end, through any crash between reading it and writing the checkpoint
\* (Run, RunOnce, openAzurePartitions).
SettledUnlessDisturbed ==
  \A e \in Events :
    (e[2] <= log[e[1]]) ~>
      \/ e \in handled
      \/ drops > 0
      \/ \E f \in Undecodable \cup Refused : f[2] <= log[f[1]]
=============================================================================
